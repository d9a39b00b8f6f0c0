--------------------------- MODULE HeartbeatProofs ---------------------------
(***************************************************************************)
(* Proofs about Heartbeat for every set of connections and nodes, every    *)
(* assignment of services and every time-out: that a node of one service   *)
(* is listed only while it is connected, that a connected node is listed,  *)
(* and that the timer is the only handler that pulls an agent from under   *)
(* an event of the same batch.                                             *)
(***************************************************************************)
EXTENDS Heartbeat, FiniteSetTheorems, WellFoundedInduction, TLAPS

-----------------------------------------------------------------------------
(* Induction and recursion.                                                *)

\* A set of naturals that has 0 and the successor of whatever it has is all of them.
LEMMA NaturalsSet ==
  ASSUME NEW T \in SUBSET Nat, 0 \in T, \A n \in T : n + 1 \in T
  PROVE  T = Nat
<1>. SUFFICES ASSUME Nat \ T # {} PROVE FALSE
  OBVIOUS
<1>1. PICK n \in Nat \ T : \A m \in Nat \ T : ~(<<m, n>> \in OpToRel(<, Nat))
  BY NatLessThanWellFounded, WFMin
<1>2. \A m \in Nat \ T : ~(m < n)
  BY <1>1 DEF OpToRel
<1>3. n # 0 /\ n - 1 \in Nat /\ n - 1 < n
  OBVIOUS
<1>4. n - 1 \in T /\ (n - 1) + 1 = n
  BY <1>2, <1>3
<1>. QED  BY <1>4

\* A family of subsets of a finite set that has every subset all of whose
\* elements can be taken out within the family has them all.
LEMMA SubsetsInduction ==
  ASSUME NEW S, IsFiniteSet(S), NEW F \in SUBSET SUBSET S,
         \A T \in SUBSET S : (\A x \in T : T \ {x} \in F) => T \in F
  PROVE  F = SUBSET S
<1>. DEFINE N == {n \in Nat : \A T \in SUBSET S : Cardinality(T) = n => T \in F}
<1>1. \A T \in SUBSET S : IsFiniteSet(T) /\ Cardinality(T) \in Nat
  BY FS_Subset, FS_CardinalityType
<1>2. 0 \in N
  <2>1. \A T \in SUBSET S : Cardinality(T) = 0 => T = {}
    BY <1>1, FS_EmptySet
  <2>. QED  BY <2>1
<1>3. ASSUME NEW n \in N PROVE n + 1 \in N
  <2>1. ASSUME NEW T \in SUBSET S, Cardinality(T) = n + 1, NEW x \in T PROVE T \ {x} \in F
    <3>1. IsFiniteSet(T)
      BY <1>1
    <3>2. Cardinality(T \ {x}) = Cardinality(T) - 1
      BY <2>1, <3>1, FS_RemoveElement
    <3>3. n \in Nat /\ Cardinality(T \ {x}) = n
      BY <2>1, <3>2
    <3>4. T \ {x} \in SUBSET S
      BY <2>1
    <3>. QED  BY <1>3, <3>3, <3>4
  <2>2. \A T \in SUBSET S : Cardinality(T) = n + 1 => T \in F
    BY <2>1
  <2>. QED  BY <2>2
<1>. HIDE DEF N
<1>4. N = Nat
  BY <1>2, <1>3, NaturalsSet DEF N
<1>. QED  BY <1>1, <1>4 DEF N

\* A way to pick an element of every subset of S, and one to go from the value at
\* a set without an element to the value with it.
Picks(S) ==
  {pick \in [(SUBSET S) \ {{}} -> S] : \A s \in (SUBSET S) \ {{}} : pick[s] \in s}
Steps(S, V) == [S -> [V -> V]]

\* The functions on the subsets of S that are base at the empty set, and at every
\* other one what step makes of the value without the picked element.
Recursive(S, V, base, step, pick) ==
  {f \in [SUBSET S -> V] :
     \A s \in SUBSET S :
       f[s] = IF s = {} THEN base ELSE step[pick[s]][f[s \ {pick[s]}]]}

\* There is such a function.
LEMMA SubsetsRecursion ==
  ASSUME NEW S, IsFiniteSet(S), NEW V, NEW base \in V,
         NEW step \in Steps(S, V), NEW pick \in Picks(S)
  PROVE  Recursive(S, V, base, step, pick) # {}
<1>0. /\ step \in [S -> [V -> V]]
      /\ pick \in [(SUBSET S) \ {{}} -> S]
      /\ \A s \in (SUBSET S) \ {{}} : pick[s] \in s
  BY DEF Steps, Picks
<1>. DEFINE D(n) == {s \in SUBSET S : Cardinality(s) <= n}
            Value(f, s) == IF s = {} THEN base ELSE step[pick[s]][f[s \ {pick[s]}]]
            N == {n \in Nat : \E f \in [D(n) -> V] : \A s \in D(n) : f[s] = Value(f, s)}
<1>1. \A s \in SUBSET S : IsFiniteSet(s) /\ Cardinality(s) \in Nat
  BY FS_Subset, FS_CardinalityType
<1>2. ASSUME NEW s \in SUBSET S, s # {}
      PROVE  /\ pick[s] \in S /\ s \ {pick[s]} \in SUBSET S
             /\ Cardinality(s \ {pick[s]}) = Cardinality(s) - 1
  <2>1. pick[s] \in s
    BY <1>0, <1>2
  <2>. QED  BY <1>1, <1>2, <2>1, FS_RemoveElement
<1>3. D(0) = {{}} /\ \A n \in Nat : {} \in D(n) /\ D(n) \subseteq D(n + 1)
  BY <1>1, FS_EmptySet
<1>4. ASSUME NEW n \in Nat, NEW s \in D(n + 1), s # {} PROVE s \ {pick[s]} \in D(n)
  BY <1>1, <1>2, <1>4
<1>5. /\ Cardinality(S) \in Nat /\ D(Cardinality(S)) = SUBSET S
      /\ \A n \in Nat : D(n) \subseteq SUBSET S
  BY <1>1, FS_Subset
<1>. HIDE DEF D
<1>6. 0 \in N
  <2>1. [s \in D(0) |-> base] \in [D(0) -> V]
    OBVIOUS
  <2>2. \A s \in D(0) : [t \in D(0) |-> base][s] = Value([t \in D(0) |-> base], s)
    BY <1>3
  <2>. QED  BY <2>1, <2>2
<1>7. ASSUME NEW n \in N PROVE n + 1 \in N
  <2>1. n \in Nat /\ \E f \in [D(n) -> V] : \A s \in D(n) : f[s] = Value(f, s)
    OBVIOUS
  <2>. HIDE DEF N
  <2>2. PICK f \in [D(n) -> V] : \A s \in D(n) : f[s] = Value(f, s)
    BY <2>1
  <2>. DEFINE h == [s \in D(n + 1) |-> IF s \in D(n) THEN f[s] ELSE Value(f, s)]
  <2>3. ASSUME NEW s \in D(n + 1) PROVE h[s] = Value(f, s) /\ h[s] \in V
    <3>1. h[s] = Value(f, s)
      BY <2>2
    <3>2. CASE s = {}
      BY <3>1, <3>2
    <3>3. CASE s # {}
      <4>1. s \ {pick[s]} \in D(n)
        BY <1>4, <2>1, <2>3, <3>3
      <4>2. D(n + 1) \subseteq SUBSET S
        BY <1>5, <2>1
      <4>3. s \in SUBSET S
        BY <2>3, <4>2
      <4>4. pick[s] \in S
        BY <1>2, <3>3, <4>3
      <4>5. step[pick[s]] \in [V -> V] /\ f[s \ {pick[s]}] \in V
        BY <1>0, <4>1, <4>4
      <4>6. Value(f, s) = step[pick[s]][f[s \ {pick[s]}]]
        BY <3>3
      <4>. HIDE DEF Value, h
      <4>. QED  BY <3>1, <4>5, <4>6
    <3>. QED  BY <3>1, <3>2, <3>3
  <2>4. ASSUME NEW s \in D(n) PROVE h[s] = f[s]
    BY <1>3, <2>1
  <2>. HIDE DEF h
  <2>5. ASSUME NEW s \in D(n + 1) PROVE h[s] = Value(h, s)
    <3>1. CASE s = {}
      BY <2>3, <3>1
    <3>2. CASE s # {}
      <4>1. s \ {pick[s]} \in D(n)
        BY <1>4, <2>1, <3>2
      <4>. QED  BY <2>3, <2>4, <3>2, <4>1
    <3>. QED  BY <3>1, <3>2
  <2>6. h \in [D(n + 1) -> V]
    <3>1. h = [s \in D(n + 1) |-> h[s]]
      BY DEF h
    <3>. QED  BY <2>3, <3>1
  <2>. HIDE DEF Value
  <2>. QED  BY <2>1, <2>5, <2>6 DEF N
<1>. HIDE DEF N
<1>8. N \in SUBSET Nat
  BY DEF N
<1>9. N = Nat
  BY <1>6, <1>7, <1>8, NaturalsSet
<1>10. \E f \in [SUBSET S -> V] : \A s \in SUBSET S : f[s] = Value(f, s)
  BY <1>5, <1>9 DEF N
<1>. QED  BY <1>10 DEF Recursive

-----------------------------------------------------------------------------
(* The inductive invariant.                                                *)

\* A table of the nodes that are listed: the last bucket list of each.
IsTable(t) ==
  /\ t = [n \in DOMAIN t |-> t[n]]
  /\ DOMAIN t \subseteq Nodes
  /\ \A n \in DOMAIN t : t[n] \in Conns \cup {NoConn}

Tables == UNION {[D -> Conns \cup {NoConn}] : D \in SUBSET Nodes}

TypeOK ==
  /\ conn \in [Conns -> {"none", "open", "freed"}]
  /\ m_Addr \in [Conns -> Nodes \cup {NoNode}]
  /\ input \in [Conns -> Messages \cup {"none"}]
  /\ m_type \in [Conns -> RuleTypes \cup {"UNKNOWN"}]
  /\ m_time_stamp \in [Conns -> Nat]
  /\ m_heartbeat_agent_list \subseteq Conns
  /\ m_last_load \in [RuleTypes -> Tables]
  /\ timer \in BOOLEAN
  /\ batch \subseteq Conns \cup {Timer}
  /\ undefined \in BOOLEAN
  /\ shadowed \subseteq Conns

\* The agents there are at any time are finitely many, whatever Conns is.
FinitelyMany == IsFiniteSet(m_heartbeat_agent_list)

\* A connection has a peer from the time it is made, and no type before.
HasPeer ==
  \A c \in Conns :
    IF conn[c] = "none" THEN m_type[c] = "UNKNOWN" ELSE m_Addr[c] \in Nodes

\* Input waits at open connections only, and heartbeats follow the handshake.
InputIsRead ==
  \A c \in Conns :
    /\ input[c] # "none" => conn[c] = "open"
    /\ input[c] = "beat" => m_type[c] # "UNKNOWN"

\* A node is listed for a service it runs.
ListedByService ==
  \A ty \in RuleTypes : \A n \in DOMAIN m_last_load[ty] : ty \in Services[n]

\* The bucket list of a node of one service came on a connection of that node
\* that is open.
ListIsOwn ==
  \A ty \in RuleTypes : \A n \in DOMAIN m_last_load[ty] :
    OneService(n) /\ m_last_load[ty][n] # NoConn =>
      /\ m_last_load[ty][n] \in m_heartbeat_agent_list
      /\ m_Addr[m_last_load[ty][n]] = n

IInv ==
  /\ TypeOK
  /\ FinitelyMany
  /\ HasPeer
  /\ InputIsRead
  /\ ListedByService
  /\ ListIsOwn
  /\ NoGhost
  /\ ConnectedIsListed
  /\ AgentsOutliveTheirEvents

-----------------------------------------------------------------------------
(* The load tables.                                                        *)

LEMMA TableMember ==
  ASSUME NEW t
  PROVE  t \in Tables <=> IsTable(t)
<1>1. ASSUME t \in Tables PROVE IsTable(t)
  <2>1. PICK D \in SUBSET Nodes : t \in [D -> Conns \cup {NoConn}]
    BY <1>1 DEF Tables
  <2>2. DOMAIN t = D /\ t = [n \in D |-> t[n]]
    BY <2>1
  <2>. QED  BY <2>1, <2>2 DEF IsTable
<1>2. ASSUME IsTable(t) PROVE t \in Tables
  <2>1. t \in [DOMAIN t -> Conns \cup {NoConn}]
    BY <1>2 DEF IsTable
  <2>2. DOMAIN t \in SUBSET Nodes
    BY <1>2 DEF IsTable
  <2>. QED  BY <2>1, <2>2 DEF Tables
<1>. QED  BY <1>1, <1>2

Loads == [RuleTypes -> Tables]

\* A node with a single service has not both.
LEMMA SingleService ==
  ASSUME NEW n \in Nodes, OneService(n)
  PROVE  ~("MU" \in Services[n] /\ "SU" \in Services[n])
<1>1. IsFiniteSet({"MU", "SU"})
  <2>1. IsFiniteSet({"MU"})
    BY FS_Singleton
  <2>2. IsFiniteSet({"MU"} \cup {"SU"})
    BY <2>1, FS_AddElement
  <2>3. {"MU"} \cup {"SU"} = {"MU", "SU"}
    OBVIOUS
  <2>. QED  BY <2>2, <2>3
<1>2. IsFiniteSet(Services[n])
  BY <1>1, FS_Subset, HeartbeatAssumption
<1>3. \E x : Services[n] = {x}
  BY <1>2, FS_Singleton DEF OneService
<1>. QED  BY <1>3

\* What clearing the addresses ips makes of the tables L: entries go and none
\* changes, and an address keeps its entry as an MU only where it had two.
Clears(L, R, ips) ==
  /\ \A ty \in RuleTypes :
       /\ DOMAIN R[ty] \subseteq DOMAIN L[ty]
       /\ \A n \in DOMAIN R[ty] : R[ty][n] = L[ty][n]
  /\ \A ip \in ips :
       /\ ip \notin DOMAIN R["SU"]
       /\ ip \in DOMAIN R["MU"] => ip \in DOMAIN L["SU"]

LEMMA WithoutTable ==
  ASSUME NEW t \in Tables, NEW ip
  PROVE  /\ Without(t, ip) \in Tables
         /\ DOMAIN Without(t, ip) = DOMAIN t \ {ip}
         /\ \A n \in DOMAIN t \ {ip} : Without(t, ip)[n] = t[n]
<1>1. IsTable(t)
  BY TableMember
<1>2. /\ DOMAIN Without(t, ip) = DOMAIN t \ {ip}
      /\ \A n \in DOMAIN t \ {ip} : Without(t, ip)[n] = t[n]
      /\ Without(t, ip) = [n \in DOMAIN t \ {ip} |-> t[n]]
  BY DEF Without
<1>3. IsTable(Without(t, ip))
  <2>1. Without(t, ip) = [n \in DOMAIN Without(t, ip) |-> Without(t, ip)[n]]
    BY <1>2
  <2>. QED  BY <1>1, <1>2, <2>1 DEF IsTable
<1>. QED  BY <1>2, <1>3, TableMember

LEMMA ClearNode ==
  ASSUME NEW L \in Loads, NEW ip
  PROVE  /\ clear_node_info(L, ip) \in Loads
         /\ Clears(L, clear_node_info(L, ip), {ip})
         /\ \A ty \in RuleTypes : DOMAIN L[ty] \ {ip} \subseteq DOMAIN clear_node_info(L, ip)[ty]
<1>. DEFINE R == clear_node_info(L, ip)
<1>1. L["SU"] \in Tables /\ L["MU"] \in Tables
  BY DEF Loads, RuleTypes
<1>2. CASE ip \in DOMAIN L["SU"]
  <2>. DEFINE t == Without(L["SU"], ip)
  <2>0. /\ t \in Tables /\ DOMAIN t = DOMAIN L["SU"] \ {ip}
        /\ \A n \in DOMAIN L["SU"] \ {ip} : t[n] = L["SU"][n]
    BY <1>1, WithoutTable
  <2>1. R["SU"] = t /\ R["MU"] = L["MU"] /\ R \in Loads
    BY <1>1, <1>2, <2>0 DEF clear_node_info, Loads, RuleTypes
  <2>. HIDE DEF R, t
  <2>2. ASSUME NEW ty \in RuleTypes
        PROVE  /\ DOMAIN R[ty] \subseteq DOMAIN L[ty]
               /\ DOMAIN L[ty] \ {ip} \subseteq DOMAIN R[ty]
               /\ \A n \in DOMAIN R[ty] : R[ty][n] = L[ty][n]
    <3>1. CASE ty = "SU"
      <4>1. /\ DOMAIN R[ty] = DOMAIN L[ty] \ {ip}
            /\ \A n \in DOMAIN L[ty] \ {ip} : R[ty][n] = L[ty][n]
        BY <2>0, <2>1, <3>1
      <4>. QED  BY <4>1
    <3>2. CASE ty = "MU"
      BY <2>1, <3>2
    <3>. QED  BY <3>1, <3>2 DEF RuleTypes
  <2>3. ip \notin DOMAIN R["SU"] /\ (ip \in DOMAIN R["MU"] => ip \in DOMAIN L["SU"])
    BY <1>1, <1>2, <2>0, <2>1
  <2>4. Clears(L, R, {ip})
    BY <2>2, <2>3 DEF Clears
  <2>. QED  BY <2>1, <2>2, <2>4 DEF R
<1>3. CASE ip \notin DOMAIN L["SU"]
  <2>. DEFINE t == Without(L["MU"], ip)
  <2>0. /\ t \in Tables /\ DOMAIN t = DOMAIN L["MU"] \ {ip}
        /\ \A n \in DOMAIN L["MU"] \ {ip} : t[n] = L["MU"][n]
    BY <1>1, WithoutTable
  <2>1. R["MU"] = t /\ R["SU"] = L["SU"] /\ R \in Loads
    BY <1>1, <1>3, <2>0 DEF clear_node_info, Loads, RuleTypes
  <2>. HIDE DEF R, t
  <2>2. ASSUME NEW ty \in RuleTypes
        PROVE  /\ DOMAIN R[ty] \subseteq DOMAIN L[ty]
               /\ DOMAIN L[ty] \ {ip} \subseteq DOMAIN R[ty]
               /\ \A n \in DOMAIN R[ty] : R[ty][n] = L[ty][n]
    <3>1. CASE ty = "MU"
      <4>1. /\ DOMAIN R[ty] = DOMAIN L[ty] \ {ip}
            /\ \A n \in DOMAIN L[ty] \ {ip} : R[ty][n] = L[ty][n]
        BY <2>0, <2>1, <3>1
      <4>. QED  BY <4>1
    <3>2. CASE ty = "SU"
      BY <2>1, <3>2
    <3>. QED  BY <3>1, <3>2 DEF RuleTypes
  <2>3. ip \notin DOMAIN R["SU"] /\ (ip \in DOMAIN R["MU"] => ip \in DOMAIN L["SU"])
    BY <1>1, <1>3, <2>0, <2>1
  <2>4. Clears(L, R, {ip})
    BY <2>2, <2>3 DEF Clears
  <2>. QED  BY <2>1, <2>2, <2>4 DEF R
<1>. QED  BY <1>2, <1>3

\* The tables the timer leaves, by induction on the connections it drops.
LEMMA ClearNodes ==
  ASSUME NEW L \in Loads, NEW E \in SUBSET Conns, IsFiniteSet(E)
  PROVE  /\ clear_nodes(L, E) \in Loads
         /\ Clears(L, clear_nodes(L, E), {m_Addr[c] : c \in E})
<1>. DEFINE Pick(s) == CHOOSE x \in s : TRUE
            Value(f, s) == IF s = {} THEN L
                           ELSE clear_node_info(f[s \ {Pick(s)}], m_Addr[Pick(s)])
            IsIter(f) == f = [s \in SUBSET E |-> Value(f, s)]
            iter == CHOOSE f : IsIter(f)
            pick == [s \in (SUBSET E) \ {{}} |-> Pick(s)]
            step == [c \in E |-> [l \in Loads |-> clear_node_info(l, m_Addr[c])]]
<1>1. \A s \in (SUBSET E) \ {{}} : Pick(s) \in s
  OBVIOUS
<1>2. IsIter(iter)
  <2>1. step \in Steps(E, Loads)
    BY ClearNode DEF Steps
  <2>2. pick \in Picks(E)
    BY <1>1 DEF Picks
  <2>. HIDE DEF pick, step, Value, IsIter, iter, Pick
  <2>3. PICK f \in [SUBSET E -> Loads] :
          \A s \in SUBSET E : f[s] = IF s = {} THEN L ELSE step[pick[s]][f[s \ {pick[s]}]]
    <3>1. Recursive(E, Loads, L, step, pick) # {}
      BY <2>1, <2>2, SubsetsRecursion
    <3>. QED  BY <3>1 DEF Recursive
  <2>4. ASSUME NEW s \in SUBSET E PROVE f[s] = Value(f, s)
    <3>1. CASE s = {}
      BY <2>3, <3>1 DEF Value
    <3>2. CASE s # {}
      <4>1. pick[s] = Pick(s) /\ Pick(s) \in E
        BY <1>1, <3>2 DEF pick
      <4>2. f[s \ {Pick(s)}] \in Loads
        BY <2>3
      <4>3. step[Pick(s)][f[s \ {Pick(s)}]] = clear_node_info(f[s \ {Pick(s)}], m_Addr[Pick(s)])
        BY <4>1, <4>2 DEF step
      <4>. QED  BY <2>3, <3>2, <4>1, <4>3 DEF Value
    <3>. QED  BY <3>1, <3>2
  <2>5. IsIter(f)
    <3>1. f = [s \in SUBSET E |-> f[s]]
      BY <2>3
    <3>. QED  BY <2>4, <3>1 DEF IsIter
  <2>. QED  BY <2>5 DEF iter
<1>3. clear_nodes(L, E) = iter[E]
  BY DEF clear_nodes, FoldSet, MapThenFoldSet
<1>. HIDE DEF iter, Pick
<1>4. \A s \in SUBSET E : iter[s] = Value(iter, s)
  <2>. HIDE DEF Value
  <2>. QED  BY <1>2
<1>. DEFINE Good(s) == iter[s] \in Loads /\ Clears(L, iter[s], {m_Addr[c] : c \in s})
            F == {s \in SUBSET E : Good(s)}
<1>5. ASSUME NEW s \in SUBSET E, \A x \in s : s \ {x} \in F PROVE s \in F
  <2>1. CASE s = {}
    <3>1. iter[s] = L
      BY <1>4, <2>1
    <3>. QED  BY <2>1, <3>1 DEF Clears
  <2>2. CASE s # {}
    <3>. DEFINE x == Pick(s)
    <3>1. x \in s /\ s \ {x} \in F
      BY <1>1, <1>5, <2>2
    <3>2. iter[s] = clear_node_info(iter[s \ {x}], m_Addr[x])
      BY <1>4, <2>2
    <3>3. iter[s \ {x}] \in Loads /\ Clears(L, iter[s \ {x}], {m_Addr[c] : c \in s \ {x}})
      BY <3>1
    <3>. HIDE DEF x, F
    <3>4. iter[s] \in Loads /\ Clears(iter[s \ {x}], iter[s], {m_Addr[x]})
      BY <3>2, <3>3, ClearNode
    <3>5. Clears(L, iter[s], {m_Addr[c] : c \in s})
      <4>1. ASSUME NEW ty \in RuleTypes
            PROVE  /\ DOMAIN iter[s][ty] \subseteq DOMAIN L[ty]
                   /\ \A n \in DOMAIN iter[s][ty] : iter[s][ty][n] = L[ty][n]
        <5>1. /\ DOMAIN iter[s \ {x}][ty] \subseteq DOMAIN L[ty]
              /\ \A n \in DOMAIN iter[s \ {x}][ty] : iter[s \ {x}][ty][n] = L[ty][n]
          BY <3>3 DEF Clears
        <5>2. /\ DOMAIN iter[s][ty] \subseteq DOMAIN iter[s \ {x}][ty]
              /\ \A n \in DOMAIN iter[s][ty] : iter[s][ty][n] = iter[s \ {x}][ty][n]
          BY <3>4 DEF Clears
        <5>. QED  BY <5>1, <5>2
      <4>2. ASSUME NEW c \in s
            PROVE  /\ m_Addr[c] \notin DOMAIN iter[s]["SU"]
                   /\ m_Addr[c] \in DOMAIN iter[s]["MU"] => m_Addr[c] \in DOMAIN L["SU"]
        <5>1. CASE c = x
          BY <3>3, <3>4, <5>1 DEF Clears, RuleTypes
        <5>2. CASE c # x
          <6>1. m_Addr[c] \in {m_Addr[d] : d \in s \ {x}}
            BY <5>2
          <6>. QED  BY <3>3, <3>4, <6>1 DEF Clears, RuleTypes
        <5>. QED  BY <5>1, <5>2
      <4>. QED  BY <4>1, <4>2 DEF Clears
    <3>. QED  BY <3>4, <3>5 DEF F
  <2>. QED  BY <2>1, <2>2
<1>6. F \in SUBSET SUBSET E
  OBVIOUS
<1>. HIDE DEF F
<1>7. F = SUBSET E
  BY <1>5, <1>6, SubsetsInduction
<1>8. E \in F
  BY <1>7
<1>. QED  BY <1>3, <1>8 DEF F

\* An entry that is made, and one whose bucket list is replaced.
LEMMA InitNode ==
  ASSUME NEW L \in Loads, NEW ty \in RuleTypes, NEW ip \in Nodes
  PROVE  LET R == init_node_heartbeat_info(L, ty, ip) IN
         /\ R \in Loads
         /\ ip \in DOMAIN R[ty]
         /\ \A kind \in RuleTypes :
              /\ DOMAIN L[kind] \subseteq DOMAIN R[kind]
              /\ \A n \in DOMAIN L[kind] : R[kind][n] = L[kind][n]
              /\ \A n \in DOMAIN R[kind] \ DOMAIN L[kind] :
                   kind = ty /\ n = ip /\ R[kind][n] = NoConn
<1>. DEFINE R == init_node_heartbeat_info(L, ty, ip)
            t == [n \in DOMAIN L[ty] \cup {ip} |-> IF n = ip THEN NoConn ELSE L[ty][n]]
<1>1. CASE ip \in DOMAIN L[ty]
  <2>1. R = L
    BY <1>1 DEF init_node_heartbeat_info
  <2>. QED  BY <1>1, <2>1
<1>2. CASE ip \notin DOMAIN L[ty]
  <2>1. IsTable(L[ty])
    BY TableMember DEF Loads
  <2>2. /\ DOMAIN t = DOMAIN L[ty] \cup {ip} /\ t[ip] = NoConn
        /\ \A n \in DOMAIN L[ty] : t[n] = L[ty][n]
    BY <1>2
  <2>3. t = [n \in DOMAIN t |-> t[n]]
    OBVIOUS
  <2>4. R = [L EXCEPT ![ty] = t]
    BY <1>2 DEF init_node_heartbeat_info
  <2>. HIDE DEF t, R
  <2>5. t \in Tables
    <3>1. IsTable(t)
      BY <2>1, <2>2, <2>3 DEF IsTable
    <3>. QED  BY <3>1, TableMember
  <2>6. R \in Loads /\ R[ty] = t /\ \A kind \in RuleTypes \ {ty} : R[kind] = L[kind]
    BY <2>4, <2>5 DEF Loads
  <2>7. ASSUME NEW kind \in RuleTypes
        PROVE  /\ DOMAIN L[kind] \subseteq DOMAIN R[kind]
               /\ \A n \in DOMAIN L[kind] : R[kind][n] = L[kind][n]
               /\ \A n \in DOMAIN R[kind] \ DOMAIN L[kind] :
                    kind = ty /\ n = ip /\ R[kind][n] = NoConn
    BY <2>2, <2>6
  <2>. QED  BY <2>2, <2>6, <2>7 DEF R
<1>. QED  BY <1>1, <1>2

LEMMA UpdateNode ==
  ASSUME NEW L \in Loads, NEW ty \in RuleTypes, NEW c \in Conns
  PROVE  LET R == update_last_bucket_load(L, ty, c) IN
         /\ R \in Loads
         /\ \A kind \in RuleTypes :
              /\ DOMAIN R[kind] = DOMAIN L[kind]
              /\ \A n \in DOMAIN L[kind] :
                   R[kind][n] = L[kind][n] \/ (n = m_Addr[c] /\ R[kind][n] = c)
<1>. DEFINE R == update_last_bucket_load(L, ty, c)
            ip == m_Addr[c]
            t == [L[ty] EXCEPT ![ip] = c]
<1>1. CASE ip \notin DOMAIN L[ty]
  <2>1. R = L
    BY <1>1 DEF update_last_bucket_load
  <2>. QED  BY <2>1
<1>2. CASE ip \in DOMAIN L[ty]
  <2>1. IsTable(L[ty])
    BY TableMember DEF Loads
  <2>2. /\ DOMAIN t = DOMAIN L[ty] /\ t[ip] = c
        /\ \A n \in DOMAIN L[ty] \ {ip} : t[n] = L[ty][n]
        /\ t = [n \in DOMAIN L[ty] |-> t[n]]
    BY <1>2
  <2>3. R = [L EXCEPT ![ty] = t]
    BY <1>2 DEF update_last_bucket_load
  <2>. HIDE DEF t, R
  <2>4. t \in Tables
    <3>1. IsTable(t)
      BY <2>1, <2>2 DEF IsTable
    <3>. QED  BY <3>1, TableMember
  <2>5. R \in Loads /\ R[ty] = t /\ \A kind \in RuleTypes \ {ty} : R[kind] = L[kind]
    BY <2>3, <2>4 DEF Loads
  <2>. QED  BY <1>2, <2>2, <2>5 DEF R
<1>. QED  BY <1>1, <1>2

-----------------------------------------------------------------------------
(* The steps.                                                              *)

LEMMA InitIInv ==
  ASSUME Init PROVE IInv
<1>1. <<>> \in Tables
  <2>1. DOMAIN <<>> = {} /\ <<>> = [n \in {} |-> NoConn]
    OBVIOUS
  <2>2. IsTable(<<>>)
    BY <2>1 DEF IsTable
  <2>. QED  BY <2>2, TableMember
<1>2. TypeOK
  <2>1. m_last_load \in [RuleTypes -> Tables]
    BY <1>1 DEF Init
  <2>. QED  BY <2>1 DEF Init, TypeOK
<1>3. FinitelyMany
  BY FS_EmptySet DEF Init, FinitelyMany
<1>4. \A ty \in RuleTypes : DOMAIN m_last_load[ty] = {}
  BY DEF Init
<1>5. ListedByService /\ ListIsOwn /\ NoGhost
  BY <1>4 DEF ListedByService, ListIsOwn, NoGhost
<1>6. HasPeer /\ InputIsRead /\ ConnectedIsListed /\ AgentsOutliveTheirEvents
  BY DEF Init, HasPeer, InputIsRead, ConnectedIsListed, AgentsOutliveTheirEvents
<1>. QED  BY <1>2, <1>3, <1>5, <1>6 DEF IInv

\* A new connection is not in any table and in no batch.
LEMMA AcceptIInv ==
  ASSUME IInv, NEW c \in Conns, NEW ip \in Nodes, Accept(c, ip) PROVE IInv'
<1>. USE DEF Accept
<1>1. TypeOK'
  BY DEF IInv, TypeOK
<1>2. FinitelyMany'
  BY FS_AddElement DEF IInv, FinitelyMany
<1>3. HasPeer' /\ InputIsRead'
  BY DEF IInv, TypeOK, HasPeer, InputIsRead
<1>4. ListedByService'
  BY DEF IInv, ListedByService
<1>5. c \notin m_heartbeat_agent_list
  BY DEF IInv, AgentsOutliveTheirEvents
<1>6. \A d \in m_heartbeat_agent_list : m_Addr'[d] = m_Addr[d] /\ d \in m_heartbeat_agent_list'
  BY <1>5 DEF IInv, TypeOK
<1>7. ListIsOwn'
  BY <1>6 DEF IInv, ListIsOwn
<1>8. NoGhost'
  BY <1>6 DEF IInv, NoGhost
<1>9. ConnectedIsListed'
  <2>1. m_type[c] = "UNKNOWN"
    BY DEF IInv, HasPeer
  <2>. QED  BY <1>6, <2>1 DEF IInv, ConnectedIsListed
<1>10. AgentsOutliveTheirEvents'
  BY DEF IInv, TypeOK, AgentsOutliveTheirEvents
<1>. QED  BY <1>1, <1>2, <1>3, <1>4, <1>7, <1>8, <1>9, <1>10 DEF IInv

\* Steps that leave the agents, the list and the tables as they are.
LEMMA QuietIInv ==
  ASSUME IInv, UNCHANGED <<conn, m_Addr, m_type, m_heartbeat_agent_list, m_last_load, shadowed>>,
         TypeOK', InputIsRead',
         \A c \in batch' \cap Conns : Timer \in batch' => conn[c] = "open"
  PROVE  IInv'
<1>1. FinitelyMany'
  BY DEF IInv, FinitelyMany
<1>2. HasPeer'
  BY DEF IInv, HasPeer
<1>3. ListedByService' /\ ListIsOwn' /\ NoGhost'
  BY DEF IInv, ListedByService, ListIsOwn, NoGhost
<1>4. ConnectedIsListed'
  BY DEF IInv, ConnectedIsListed
<1>5. AgentsOutliveTheirEvents'
  BY DEF IInv, AgentsOutliveTheirEvents
<1>. QED  BY <1>1, <1>2, <1>3, <1>4, <1>5 DEF IInv

LEMMA ArriveIInv ==
  ASSUME IInv, NEW c \in Conns, NEW msg \in Messages, Arrive(c, msg) PROVE IInv'
<1>1. TypeOK'
  BY DEF IInv, TypeOK, Arrive, agents, manager
<1>2. InputIsRead'
  BY DEF IInv, TypeOK, InputIsRead, Arrive, agents, manager
<1>3. \A d \in batch' \cap Conns : Timer \in batch' => conn[d] = "open"
  BY DEF IInv, AgentsOutliveTheirEvents, Arrive
<1>. QED  BY <1>1, <1>2, <1>3, QuietIInv DEF Arrive, agents, manager

LEMMA TickIInv ==
  ASSUME IInv, Tick PROVE IInv'
<1>1. TypeOK'
  <2>1. m_time_stamp' \in [Conns -> Nat]
    BY DEF IInv, TypeOK, Tick
  <2>. QED  BY <2>1 DEF IInv, TypeOK, Tick, manager
<1>2. InputIsRead'
  BY DEF IInv, InputIsRead, Tick
<1>3. \A d \in batch' \cap Conns : Timer \in batch' => conn[d] = "open"
  BY DEF IInv, AgentsOutliveTheirEvents, Tick
<1>. QED  BY <1>1, <1>2, <1>3, QuietIInv DEF Tick, manager

\* epoll_wait returns the descriptors of open connections only.
LEMMA EpollWaitIInv ==
  ASSUME IInv, epoll_wait PROVE IInv'
<1>1. TypeOK'
  BY DEF IInv, TypeOK, epoll_wait, agents, manager
<1>2. InputIsRead'
  BY DEF IInv, InputIsRead, epoll_wait, agents, manager
<1>3. \A d \in batch' \cap Conns : Timer \in batch' => conn[d] = "open"
  <2>. SUFFICES ASSUME NEW d \in batch' \cap Conns, Timer \in batch' PROVE conn[d] = "open"
    OBVIOUS
  <2>1. d # Timer
    BY HeartbeatAssumption
  <2>2. input[d] # "none"
    BY <2>1 DEF epoll_wait
  <2>. QED  BY <2>2 DEF IInv, InputIsRead
<1>. QED  BY <1>1, <1>2, <1>3, QuietIInv DEF epoll_wait, agents, manager

LEMMA StaleEventIInv ==
  ASSUME IInv, NEW c \in Conns, StaleEvent(c) PROVE IInv'
<1>1. TypeOK'
  BY DEF IInv, TypeOK, StaleEvent, agents, manager
<1>2. InputIsRead'
  BY DEF IInv, InputIsRead, StaleEvent, agents, manager
<1>3. \A d \in batch' \cap Conns : Timer \in batch' => conn[d] = "open"
  BY DEF IInv, AgentsOutliveTheirEvents, StaleEvent
<1>. QED  BY <1>1, <1>2, <1>3, QuietIInv DEF StaleEvent, agents, manager

\* What an event of an open connection changes whatever its handler does.
LEMMA HandledInput ==
  ASSUME IInv, NEW c \in Conns, NEW msg \in Messages, Handles(c, msg)
  PROVE  /\ conn[c] = "open" /\ c \in m_heartbeat_agent_list /\ m_Addr[c] \in Nodes
         /\ input' \in [Conns -> Messages \cup {"none"}] /\ input'[c] = "none"
         /\ \A d \in Conns \ {c} : input'[d] = input[d]
         /\ batch' = batch \ {c} /\ batch' \subseteq Conns \cup {Timer}
         /\ timer' \in BOOLEAN /\ undefined' \in BOOLEAN
<1>1. conn[c] = "open" /\ c \in m_heartbeat_agent_list
  BY DEF Handles, IInv, AgentsOutliveTheirEvents
<1>2. m_Addr[c] \in Nodes
  BY <1>1 DEF IInv, HasPeer
<1>. QED  BY <1>1, <1>2 DEF Handles, IInv, TypeOK

LEMMA HandshakeIInv ==
  ASSUME IInv, NEW c \in Conns, NEW ty \in RuleTypes, do_heartbeat_handshake(c, ty) PROVE IInv'
<1>. DEFINE ip == m_Addr[c]
            L == m_last_load
            R == m_last_load'
<1>0. Handles(c, "handshake") /\ "handshake" \in Messages
  BY DEF do_heartbeat_handshake, Messages
<1>1. L \in Loads /\ ip \in Nodes
  BY <1>0, HandledInput DEF IInv, TypeOK, Loads
<1>2. /\ R \in Loads
      /\ ip \in DOMAIN R[ty]
      /\ \A kind \in RuleTypes :
           /\ DOMAIN L[kind] \subseteq DOMAIN R[kind]
           /\ \A n \in DOMAIN L[kind] : R[kind][n] = L[kind][n]
           /\ \A n \in DOMAIN R[kind] \ DOMAIN L[kind] :
                kind = ty /\ n = ip /\ R[kind][n] = NoConn
  BY <1>1, InitNode DEF do_heartbeat_handshake
<1>3. /\ m_type' \in [Conns -> RuleTypes \cup {"UNKNOWN"}] /\ m_type'[c] = ty
      /\ \A d \in Conns \ {c} : m_type'[d] = m_type[d]
  BY DEF do_heartbeat_handshake, IInv, TypeOK
<1>4. TypeOK'
  <2>1. m_time_stamp' \in [Conns -> Nat] /\ shadowed' \subseteq Conns
    BY DEF do_heartbeat_handshake, IInv, TypeOK
  <2>. QED  BY <1>0, <1>2, <1>3, <2>1, HandledInput DEF do_heartbeat_handshake, IInv, TypeOK, Loads
<1>5. FinitelyMany'
  BY DEF do_heartbeat_handshake, IInv, FinitelyMany
<1>6. HasPeer'
  BY <1>0, <1>3, HandledInput DEF do_heartbeat_handshake, IInv, HasPeer
<1>7. InputIsRead'
  <2>. SUFFICES ASSUME NEW d \in Conns
                PROVE  /\ input'[d] # "none" => conn'[d] = "open"
                       /\ input'[d] = "beat" => m_type'[d] # "UNKNOWN"
    BY DEF InputIsRead
  <2>1. CASE d = c
    BY <1>0, <2>1, HandledInput
  <2>2. CASE d # c
    BY <1>0, <1>3, <2>2, HandledInput DEF do_heartbeat_handshake, IInv, InputIsRead
  <2>. QED  BY <2>1, <2>2
<1>8. ListedByService'
  <2>. SUFFICES ASSUME NEW kind \in RuleTypes, NEW n \in DOMAIN R[kind] PROVE kind \in Services[n]
    BY DEF ListedByService
  <2>1. CASE n \in DOMAIN L[kind]
    BY <2>1 DEF IInv, ListedByService
  <2>2. CASE n \notin DOMAIN L[kind]
    BY <1>2, <2>2 DEF do_heartbeat_handshake
  <2>. QED  BY <2>1, <2>2
<1>9. UNCHANGED <<m_heartbeat_agent_list, m_Addr>>
  BY DEF do_heartbeat_handshake
<1>10. ListIsOwn'
  <2>. SUFFICES ASSUME NEW kind \in RuleTypes, NEW n \in DOMAIN R[kind], OneService(n),
                       R[kind][n] # NoConn
                PROVE  R[kind][n] \in m_heartbeat_agent_list /\ m_Addr[R[kind][n]] = n
    BY <1>9 DEF ListIsOwn, OneService
  <2>1. n \in DOMAIN L[kind] /\ R[kind][n] = L[kind][n]
    BY <1>2
  <2>. QED  BY <2>1 DEF IInv, ListIsOwn
<1>11. NoGhost'
  <2>. SUFFICES ASSUME NEW kind \in RuleTypes, NEW n \in DOMAIN R[kind], OneService(n)
                PROVE  /\ \E d \in m_heartbeat_agent_list : m_Addr[d] = n
                       /\ R[kind][n] \in m_heartbeat_agent_list \cup {NoConn}
    BY <1>9 DEF NoGhost, OneService
  <2>1. CASE n \in DOMAIN L[kind]
    <3>1. R[kind][n] = L[kind][n]
      BY <1>2, <2>1
    <3>. QED  BY <2>1, <3>1 DEF IInv, NoGhost
  <2>2. CASE n \notin DOMAIN L[kind]
    BY <1>0, <1>2, <2>2, HandledInput
  <2>. QED  BY <2>1, <2>2
<1>12. ConnectedIsListed'
  <2>. SUFFICES ASSUME NEW d \in m_heartbeat_agent_list \ shadowed', m_type'[d] # "UNKNOWN"
                PROVE  m_Addr[d] \in DOMAIN R[m_type'[d]]
    BY <1>9 DEF ConnectedIsListed
  <2>0. d \in Conns
    BY DEF IInv, TypeOK
  <2>1. CASE d = c
    BY <1>2, <1>3, <2>1
  <2>2. CASE d # c /\ m_Addr[d] = ip /\ m_type[d] = ty
    BY <1>2, <1>3, <2>0, <2>2
  <2>3. CASE d # c /\ ~(m_Addr[d] = ip /\ m_type[d] = ty)
    <3>1. d \notin shadowed
      BY <2>3 DEF do_heartbeat_handshake
    <3>2. m_type'[d] = m_type[d] /\ m_type[d] \in RuleTypes
      BY <1>3, <2>0, <2>3 DEF IInv, TypeOK
    <3>3. m_Addr[d] \in DOMAIN L[m_type[d]]
      BY <3>1, <3>2 DEF IInv, ConnectedIsListed
    <3>. QED  BY <1>2, <3>2, <3>3
  <2>. QED  BY <2>1, <2>2, <2>3
<1>13. AgentsOutliveTheirEvents'
  BY <1>0, HandledInput DEF do_heartbeat_handshake, IInv, AgentsOutliveTheirEvents
<1>. QED  BY <1>4, <1>5, <1>6, <1>7, <1>8, <1>10, <1>11, <1>12, <1>13 DEF IInv

LEMMA HeartbeatIInv ==
  ASSUME IInv, NEW c \in Conns, do_heartbeat(c) PROVE IInv'
<1>. DEFINE ip == m_Addr[c]
            L == m_last_load
            R == m_last_load'
<1>0. Handles(c, "beat") /\ "beat" \in Messages /\ input[c] = "beat"
  BY DEF do_heartbeat, Messages, Handles
<1>1. L \in Loads /\ m_type[c] \in RuleTypes
  BY <1>0 DEF IInv, TypeOK, Loads, InputIsRead
<1>2. /\ R \in Loads
      /\ \A kind \in RuleTypes :
           /\ DOMAIN R[kind] = DOMAIN L[kind]
           /\ \A n \in DOMAIN L[kind] : R[kind][n] = L[kind][n] \/ (n = ip /\ R[kind][n] = c)
  BY <1>1, UpdateNode DEF do_heartbeat
<1>3. UNCHANGED <<conn, m_Addr, m_type, m_heartbeat_agent_list, shadowed>>
  BY DEF do_heartbeat
<1>4. TypeOK'
  <2>1. m_time_stamp' \in [Conns -> Nat]
    BY DEF do_heartbeat, IInv, TypeOK
  <2>. QED  BY <1>0, <1>2, <1>3, <2>1, HandledInput DEF IInv, TypeOK, Loads
<1>5. FinitelyMany' /\ HasPeer'
  BY <1>3 DEF IInv, FinitelyMany, HasPeer
<1>6. InputIsRead'
  BY <1>0, <1>3, HandledInput DEF IInv, InputIsRead
<1>7. ListedByService'
  BY <1>2 DEF IInv, ListedByService
<1>8. ListIsOwn'
  <2>. SUFFICES ASSUME NEW kind \in RuleTypes, NEW n \in DOMAIN L[kind], OneService(n),
                       R[kind][n] # NoConn
                PROVE  R[kind][n] \in m_heartbeat_agent_list /\ m_Addr[R[kind][n]] = n
    BY <1>2, <1>3 DEF ListIsOwn, OneService
  <2>1. CASE R[kind][n] = L[kind][n]
    BY <2>1 DEF IInv, ListIsOwn
  <2>2. CASE n = ip /\ R[kind][n] = c
    BY <1>0, <2>2, HandledInput
  <2>. QED  BY <1>2, <2>1, <2>2
<1>9. NoGhost'
  <2>. SUFFICES ASSUME NEW kind \in RuleTypes, NEW n \in DOMAIN L[kind], OneService(n)
                PROVE  /\ \E d \in m_heartbeat_agent_list : m_Addr[d] = n
                       /\ R[kind][n] \in m_heartbeat_agent_list \cup {NoConn}
    BY <1>2, <1>3 DEF NoGhost, OneService
  <2>1. /\ \E d \in m_heartbeat_agent_list : m_Addr[d] = n
        /\ L[kind][n] \in m_heartbeat_agent_list \cup {NoConn}
    BY DEF IInv, NoGhost
  <2>2. R[kind][n] = L[kind][n] \/ R[kind][n] = c
    BY <1>2
  <2>. QED  BY <1>0, <2>1, <2>2, HandledInput
<1>10. ConnectedIsListed'
  BY <1>2, <1>3 DEF IInv, ConnectedIsListed, TypeOK
<1>11. AgentsOutliveTheirEvents'
  BY <1>0, <1>3, HandledInput DEF IInv, AgentsOutliveTheirEvents
<1>. QED  BY <1>4, <1>5, <1>6, <1>7, <1>8, <1>9, <1>10, <1>11 DEF IInv

\* What a node of one service leaves behind when the connections E end: nothing.
LEMMA Close ==
  ASSUME IInv, NEW E \in SUBSET m_heartbeat_agent_list,
         m_heartbeat_agent_list' = m_heartbeat_agent_list \ E, UNCHANGED m_Addr,
         Clears(m_last_load, m_last_load', {m_Addr[c] : c \in E})
  PROVE  FinitelyMany' /\ ListedByService' /\ ListIsOwn' /\ NoGhost'
<1>. DEFINE L == m_last_load
            R == m_last_load'
<1>1. FinitelyMany'
  BY FS_Subset DEF IInv, FinitelyMany
<1>2. ASSUME NEW ty \in RuleTypes, NEW n \in DOMAIN R[ty]
      PROVE  n \in DOMAIN L[ty] /\ R[ty][n] = L[ty][n]
  BY DEF Clears
<1>3. ListedByService'
  BY <1>2 DEF IInv, ListedByService
<1>4. ASSUME NEW ty \in RuleTypes, NEW n \in DOMAIN R[ty], OneService(n), NEW c \in E
      PROVE  m_Addr[c] # n
  <2>. SUFFICES ASSUME m_Addr[c] = n PROVE FALSE
    OBVIOUS
  <2>1. n \in DOMAIN L[ty] /\ n \in Nodes /\ ty \in Services[n]
    <3>1. n \in DOMAIN L[ty]
      BY <1>2
    <3>2. IsTable(L[ty])
      BY TableMember DEF IInv, TypeOK
    <3>. QED  BY <3>1, <3>2 DEF IInv, ListedByService, IsTable
  <2>2. n \in {m_Addr[d] : d \in E}
    OBVIOUS
  <2>3. n \notin DOMAIN R["SU"] /\ (n \in DOMAIN R["MU"] => n \in DOMAIN L["SU"])
    BY <2>2 DEF Clears
  <2>4. ty = "MU" /\ n \in DOMAIN L["SU"]
    BY <2>3 DEF RuleTypes
  <2>5. "SU" \in Services[n]
    BY <2>4 DEF IInv, ListedByService, RuleTypes
  <2>. QED  BY <1>4, <2>1, <2>4, <2>5, SingleService
<1>5. ASSUME NEW ty \in RuleTypes, NEW n \in DOMAIN R[ty], OneService(n)
      PROVE  /\ \E c \in m_heartbeat_agent_list \ E : m_Addr[c] = n
             /\ R[ty][n] # NoConn => /\ R[ty][n] \in m_heartbeat_agent_list \ E
                                     /\ m_Addr[R[ty][n]] = n
  <2>1. n \in DOMAIN L[ty] /\ R[ty][n] = L[ty][n]
    BY <1>2
  <2>2. \E c \in m_heartbeat_agent_list : m_Addr[c] = n
    BY <1>5, <2>1 DEF IInv, NoGhost
  <2>3. L[ty][n] # NoConn => L[ty][n] \in m_heartbeat_agent_list /\ m_Addr[L[ty][n]] = n
    BY <1>5, <2>1 DEF IInv, ListIsOwn
  <2>. QED  BY <1>4, <1>5, <2>1, <2>2, <2>3
<1>6. ListIsOwn'
  <2>. SUFFICES ASSUME NEW ty \in RuleTypes, NEW n \in DOMAIN R[ty], OneService(n),
                       R[ty][n] # NoConn
                PROVE  R[ty][n] \in m_heartbeat_agent_list \ E /\ m_Addr[R[ty][n]] = n
    BY DEF ListIsOwn, OneService
  <2>. QED  BY <1>5
<1>7. NoGhost'
  <2>. SUFFICES ASSUME NEW ty \in RuleTypes, NEW n \in DOMAIN R[ty], OneService(n)
                PROVE  /\ \E c \in m_heartbeat_agent_list \ E : m_Addr[c] = n
                       /\ R[ty][n] \in (m_heartbeat_agent_list \ E) \cup {NoConn}
    BY DEF NoGhost, OneService
  <2>. QED  BY <1>5
<1>. QED  BY <1>1, <1>3, <1>6, <1>7

LEMMA RecyclerIInv ==
  ASSUME IInv, NEW c \in Conns, recycler(c) PROVE IInv'
<1>. DEFINE ip == m_Addr[c]
            L == m_last_load
            R == m_last_load'
<1>0. Handles(c, "close") /\ "close" \in Messages
  BY DEF recycler, Messages
<1>1. L \in Loads /\ L' = clear_node_info(L, ip)
  BY DEF IInv, TypeOK, Loads, recycler, heartbeat_closed
<1>2. /\ R \in Loads /\ Clears(L, R, {ip})
      /\ \A ty \in RuleTypes : DOMAIN L[ty] \ {ip} \subseteq DOMAIN R[ty]
  BY <1>1, ClearNode
<1>3. /\ UNCHANGED <<m_Addr, m_type, m_time_stamp>>
      /\ conn' = [conn EXCEPT ![c] = "freed"]
      /\ m_heartbeat_agent_list' = m_heartbeat_agent_list \ {c}
      /\ shadowed' = (shadowed \ {c}) \cup Shadows(m_heartbeat_agent_list, c)
  BY DEF recycler, heartbeat_closed
<1>4. TypeOK'
  <2>1. shadowed' \subseteq Conns
    BY <1>3 DEF IInv, TypeOK, Shadows
  <2>. QED  BY <1>0, <1>2, <1>3, <2>1, HandledInput DEF IInv, TypeOK, Loads
<1>5. HasPeer'
  BY <1>0, <1>3, HandledInput DEF IInv, TypeOK, HasPeer
<1>6. InputIsRead'
  <2>. SUFFICES ASSUME NEW d \in Conns
                PROVE  /\ input'[d] # "none" => conn'[d] = "open"
                       /\ input'[d] = "beat" => m_type'[d] # "UNKNOWN"
    BY DEF InputIsRead
  <2>1. CASE d = c
    BY <1>0, <2>1, HandledInput
  <2>2. CASE d # c
    BY <1>0, <1>3, <2>2, HandledInput DEF IInv, TypeOK, InputIsRead
  <2>. QED  BY <2>1, <2>2
<1>7. FinitelyMany' /\ ListedByService' /\ ListIsOwn' /\ NoGhost'
  <2>1. {c} \in SUBSET m_heartbeat_agent_list
    BY <1>0, HandledInput
  <2>2. {m_Addr[d] : d \in {c}} = {ip}
    OBVIOUS
  <2>3. Clears(L, R, {m_Addr[d] : d \in {c}})
    BY <1>2, <2>2
  <2>. QED  BY <1>3, <2>1, <2>3, Close
<1>8. ConnectedIsListed'
  <2>. SUFFICES ASSUME NEW d \in m_heartbeat_agent_list \ {c}, d \notin shadowed',
                       m_type[d] # "UNKNOWN"
                PROVE  m_Addr[d] \in DOMAIN R[m_type[d]]
    BY <1>3 DEF ConnectedIsListed
  <2>1. d \notin shadowed /\ d \notin Shadows(m_heartbeat_agent_list, c)
    BY <1>3
  <2>2. m_Addr[d] \in DOMAIN L[m_type[d]] /\ m_type[d] \in RuleTypes
    BY <2>1 DEF IInv, TypeOK, ConnectedIsListed
  <2>3. CASE m_Addr[d] = ip
    BY <1>1, <2>1, <2>2, <2>3 DEF Shadows
  <2>4. CASE m_Addr[d] # ip
    BY <1>2, <2>2, <2>4
  <2>. QED  BY <2>3, <2>4
<1>9. AgentsOutliveTheirEvents'
  <2>1. m_heartbeat_agent_list' = {d \in Conns : conn'[d] = "open"}
    BY <1>3 DEF IInv, TypeOK, AgentsOutliveTheirEvents
  <2>2. \A d \in batch' \cap Conns : Timer \in batch' => conn'[d] = "open"
    BY <1>0, <1>3, HandledInput DEF IInv, TypeOK, AgentsOutliveTheirEvents
  <2>. QED  BY <2>1, <2>2 DEF AgentsOutliveTheirEvents
<1>. QED  BY <1>4, <1>5, <1>6, <1>7, <1>8, <1>9 DEF IInv

\* The timer: what it clears is what the connections it drops leave, and the other
\* connections that lose their entry by it are exactly the ones it shadows.
LEMMA TimeoutIInv ==
  ASSUME IInv, check_heartbeat_timeout PROVE IInv'
<1>. DEFINE L == m_last_load
            R == m_last_load'
<1>1. expired \in SUBSET m_heartbeat_agent_list /\ expired \in SUBSET Conns
  BY DEF expired, IInv, TypeOK
<1>2. IsFiniteSet(expired)
  BY <1>1, FS_Subset DEF IInv, FinitelyMany
<1>3. L \in Loads /\ R = clear_nodes(L, expired)
  BY DEF IInv, TypeOK, Loads, check_heartbeat_timeout
<1>4. R \in Loads /\ Clears(L, R, {m_Addr[c] : c \in expired})
  BY <1>1, <1>2, <1>3, ClearNodes
<1>5. /\ m_heartbeat_agent_list' = m_heartbeat_agent_list \ expired
      /\ conn' = [c \in Conns |-> IF c \in expired THEN "freed" ELSE conn[c]]
      /\ input' = [c \in Conns |-> IF c \in expired THEN "none" ELSE input[c]]
      /\ UNCHANGED <<m_Addr, m_type, m_time_stamp, undefined>>
      /\ timer' = FALSE /\ batch' = batch \ {Timer}
      /\ shadowed' = (shadowed \ expired)
                       \cup {d \in m_heartbeat_agent_list \ expired :
                               /\ m_type[d] # "UNKNOWN"
                               /\ m_Addr[d] \in DOMAIN L[m_type[d]] \ DOMAIN R[m_type[d]]}
  BY DEF check_heartbeat_timeout
<1>6. TypeOK'
  <2>1. shadowed' \subseteq Conns /\ m_heartbeat_agent_list' \subseteq Conns
    BY <1>5 DEF IInv, TypeOK
  <2>2. conn' \in [Conns -> {"none", "open", "freed"}] /\ input' \in [Conns -> Messages \cup {"none"}]
    BY <1>5 DEF IInv, TypeOK
  <2>. QED  BY <1>4, <1>5, <2>1, <2>2 DEF IInv, TypeOK, Loads
<1>7. HasPeer'
  BY <1>1, <1>5 DEF IInv, HasPeer, AgentsOutliveTheirEvents
<1>8. InputIsRead'
  BY <1>5 DEF IInv, InputIsRead
<1>9. FinitelyMany' /\ ListedByService' /\ ListIsOwn' /\ NoGhost'
  BY <1>1, <1>4, <1>5, Close
<1>10. ConnectedIsListed'
  <2>. SUFFICES ASSUME NEW d \in m_heartbeat_agent_list \ expired, d \notin shadowed',
                       m_type[d] # "UNKNOWN"
                PROVE  m_Addr[d] \in DOMAIN R[m_type[d]]
    BY <1>5 DEF ConnectedIsListed
  <2>1. d \notin shadowed
    BY <1>5
  <2>2. m_Addr[d] \in DOMAIN L[m_type[d]]
    BY <2>1 DEF IInv, ConnectedIsListed
  <2>. QED  BY <1>5, <2>2
<1>11. AgentsOutliveTheirEvents'
  BY <1>1, <1>5 DEF IInv, AgentsOutliveTheirEvents
<1>. QED  BY <1>6, <1>7, <1>8, <1>9, <1>10, <1>11 DEF IInv

LEMMA StutterIInv ==
  ASSUME IInv, UNCHANGED vars PROVE IInv'
<1>1. UNCHANGED <<conn, m_Addr, input, m_type, m_time_stamp, m_heartbeat_agent_list,
                  m_last_load, timer, batch, undefined, shadowed>>
  BY DEF vars, agents, manager
<1>2. TypeOK' /\ InputIsRead'
  BY <1>1 DEF IInv, TypeOK, InputIsRead
<1>3. \A d \in batch' \cap Conns : Timer \in batch' => conn[d] = "open"
  BY <1>1 DEF IInv, AgentsOutliveTheirEvents
<1>. QED  BY <1>1, <1>2, <1>3, QuietIInv

-----------------------------------------------------------------------------
(* The theorems.                                                           *)

\* The inductive invariant holds in every state.
THEOREM HeartbeatInvariant == Spec => []IInv
<1>1. ASSUME IInv, [Next]_vars PROVE IInv'
  <2>. USE <1>1
  <2>1. ASSUME NEW c \in Conns, NEW ip \in Nodes, Accept(c, ip) PROVE IInv'
    BY <2>1, AcceptIInv
  <2>2. ASSUME NEW c \in Conns, NEW msg \in Messages, Arrive(c, msg) PROVE IInv'
    BY <2>2, ArriveIInv
  <2>3. CASE Tick
    BY <2>3, TickIInv
  <2>4. CASE epoll_wait
    BY <2>4, EpollWaitIInv
  <2>5. CASE check_heartbeat_timeout
    BY <2>5, TimeoutIInv
  <2>6. ASSUME NEW c \in Conns, NEW ty \in RuleTypes, do_heartbeat_handshake(c, ty) PROVE IInv'
    BY <2>6, HandshakeIInv
  <2>7. ASSUME NEW c \in Conns, do_heartbeat(c) PROVE IInv'
    BY <2>7, HeartbeatIInv
  <2>8. ASSUME NEW c \in Conns, recycler(c) PROVE IInv'
    BY <2>8, RecyclerIInv
  <2>9. ASSUME NEW c \in Conns, StaleEvent(c) PROVE IInv'
    BY <2>9, StaleEventIInv
  <2>10. CASE UNCHANGED vars
    BY <2>10, StutterIInv
  <2>. QED  BY <2>1, <2>2, <2>3, <2>4, <2>5, <2>6, <2>7, <2>8, <2>9, <2>10 DEF Next, Handler
<1>. QED  BY <1>1, InitIInv, PTL DEF Spec

\* The variables keep their types.
THEOREM HeartbeatTypes == Spec => []TypeOK
<1>1. IInv => TypeOK
  BY DEF IInv
<1>. QED  BY <1>1, HeartbeatInvariant, PTL

\* No migration is sent to a node of one service that is known to be gone, and what
\* an earlier run of it reported is not taken for its load.
THEOREM HeartbeatNoGhost == Spec => []NoGhost
<1>1. IInv => NoGhost
  BY DEF IInv
<1>. QED  BY <1>1, HeartbeatInvariant, PTL

\* A connected node has an entry, unless another connection from its address took it.
THEOREM HeartbeatConnectedIsListed == Spec => []ConnectedIsListed
<1>1. IInv => ConnectedIsListed
  BY DEF IInv
<1>. QED  BY <1>1, HeartbeatInvariant, PTL

\* The list the timer walks has the agents that are alive, and the event of an agent
\* finds it alive, unless the timer was handled before it in the same batch.
THEOREM HeartbeatEventsFindAgents == Spec => []AgentsOutliveTheirEvents
<1>1. IInv => AgentsOutliveTheirEvents
  BY DEF IInv
<1>. QED  BY <1>1, HeartbeatInvariant, PTL
==============================================================================
