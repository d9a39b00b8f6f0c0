---------------------------- MODULE RecyclerProofs ----------------------------
(***************************************************************************)
(* Proofs about Recycler for any finite set of nodes, any rules and number *)
(* of tokens, requests and failures: that no node drops out, that the map  *)
(* of agents never points to a deleted agent, that no more nodes hold the  *)
(* token than may, and that a phase ends only with all its buckets.        *)
(***************************************************************************)
EXTENDS Recycler, FiniteSetTheorems, SequenceTheorems, WellFoundedInduction, TLAPS

-----------------------------------------------------------------------------
(* The inductive invariant.                                                *)

Maps(V) == UNION {[D -> V] : D \in SUBSET Nodes}

Rules == [status : {"NOT_START", "WORKING", "FINISHED"}, bucket_nr : Nat,
          ip : SUBSET Nodes, using : Nodes \cup {NULL}]

Managers ==
  [state : {"IDEL_STATE", "GENERATE_BITMAP", "CHECK_INFOHASH", "FINISH_RECYCLER"},
   rules : Seq(Rules), agent : Maps(Nat \cup {NULL}), hb : Maps({"INITING", "RECYCLERING"}),
   retry : Seq(Nodes), holders : Nat, apply : Seq(Nodes),
   server : {"up", "undefined", "assert", "null", "spins"}]

AgentRecords ==
  [ip : Nodes, st : {"connecting", "open", "shut", "freed"}, ready : BOOLEAN,
   cmd : Nat \cup {NoBucket}, work : Nat \cup {NoBucket},
   token : {"none", "asked", "has", "given"}]

TypeOK ==
  /\ rc \in Managers
  /\ agents \in Seq(AgentRecords)
  /\ starts \in Nat /\ failures \in Nat
  /\ reported \subseteq Nat

\* The map of agents points to agents of the node that are there.
Listed(m, as) ==
  \A n \in DOMAIN m.agent : m.agent[n] # NULL =>
    m.agent[n] \in DOMAIN as /\ as[m.agent[n]].ip = n /\ as[m.agent[n]].st # "freed"

\* Every node is connected, or is about to be, or is to be tried again.
Tried(m, as) ==
  m.state \in {"GENERATE_BITMAP", "CHECK_INFOHASH"} => \A n \in DOMAIN m.agent :
    \/ n \in ToSet(m.retry)
    \/ \E a \in DOMAIN as : as[a].ip = n /\ as[a].st \in {"connecting", "open"}

\* A rule is finished only when its bucket was reported.
FinishedReported(m, buckets) ==
  \A i \in DOMAIN m.rules : m.rules[i].status = "FINISHED" => i - 1 \in buckets

\* The holders of the token are counted, in the first phase of the first request.
Holding(as) == {a \in DOMAIN as : as[a].token = "has"}
Counted(m, as, s) ==
  /\ m.holders <= m_max_token_holders
  /\ s = 0 => as = <<>> /\ m.state = "IDEL_STATE" /\ m.holders = 0
  /\ m.state = "GENERATE_BITMAP" /\ s = 1 => Cardinality(Holding(as)) <= m.holders

Sound(m, as, s, buckets) ==
  /\ Listed(m, as)
  /\ Tried(m, as)
  /\ FinishedReported(m, buckets)
  /\ Counted(m, as, s)

IInv == TypeOK /\ (Up => Sound(rc, agents, starts, reported))

-----------------------------------------------------------------------------
(* Sets, sequences and maps.                                               *)

\* The least and the greatest of some numbers is one of them.
LEMMA LeastNumber ==
  ASSUME NEW S \in SUBSET Nat, S # {}
  PROVE  Min(S) \in S
<1>1. PICK n \in S : \A m \in S : ~(<<m, n>> \in OpToRel(<, Nat))
  BY NatLessThanWellFounded, WFMin
<1>2. \A m \in S : ~(m < n)
  BY <1>1 DEF OpToRel
<1>3. \A m \in S : m \in Nat
  OBVIOUS
<1>4. \A m \in S : n <= m
  BY <1>2, <1>3
<1>. QED  BY <1>4 DEF Min

LEMMA GreatestNumber ==
  ASSUME NEW K \in Nat, NEW S \in SUBSET (1..K), S # {}
  PROVE  Max(S) \in S
<1>. DEFINE T == {n \in Nat : K - n \in S}
<1>1. T \in SUBSET Nat /\ \A i \in S : K - i \in T
  OBVIOUS
<1>2. PICK n \in T : \A m \in T : ~(<<m, n>> \in OpToRel(<, Nat))
  BY <1>1, NatLessThanWellFounded, WFMin
<1>3. \A m \in T : ~(m < n)
  BY <1>1, <1>2 DEF OpToRel
<1>4. K - n \in S /\ n \in Nat
  BY <1>2
<1>. HIDE DEF T
<1>5. \A i \in S : i \in Nat /\ K - i \in Nat /\ ~(K - i < n)
  BY <1>1, <1>3
<1>6. \A i \in S : K - n >= i
  BY <1>4, <1>5
<1>. QED  BY <1>4, <1>6 DEF Max

\* A finite set as a sequence.
LEMMA SequenceOfSet ==
  ASSUME NEW S, IsFiniteSet(S)
  PROVE  SetToSeq(S) \in Seq(S) /\ ToSet(SetToSeq(S)) = S
<1>. DEFINE n == Cardinality(S)
            s == SetToSeq(S)
<1>1. n \in Nat /\ ExistsBijection(1..n, S)
  BY FS_CardinalityType
<1>. HIDE DEF n
<1>2. PICK f : f \in Bijection(1..n, S)
  BY <1>1 DEF ExistsBijection
<1>3. f \in [1..n -> S] /\ IsInjective(f)
  BY <1>2 DEF Bijection, Injection, IsInjective
<1>4. s \in [1..n -> S] /\ IsInjective(s)
  BY <1>3 DEF SetToSeq, n
<1>. HIDE DEF s
<1>5. IsFiniteSet(1..n) /\ Cardinality(1..n) = n
  BY <1>1, FS_Interval
<1>6. s \in Injection(1..n, S)
  BY <1>4 DEF Injection, IsInjective
<1>7. s \in Surjection(1..n, S)
  BY <1>5, <1>6, FS_Injection DEF n
<1>8. s \in Seq(S) /\ DOMAIN s = 1..n
  BY <1>1, <1>4
<1>9. ToSet(s) = S
  BY <1>4, <1>7, <1>8 DEF ToSet, Surjection
<1>. QED  BY <1>8, <1>9 DEF s

\* The elements of two lists put one behind the other.
LEMMA JoinedLists ==
  ASSUME NEW S, NEW s \in Seq(S), NEW t \in Seq(S)
  PROVE  s \o t \in Seq(S) /\ ToSet(s \o t) = ToSet(s) \cup ToSet(t)
<1>1. /\ s \o t \in Seq(S) /\ Len(s \o t) = Len(s) + Len(t)
      /\ \A i \in 1..Len(s) + Len(t) : (s \o t)[i] = IF i <= Len(s) THEN s[i] ELSE t[i - Len(s)]
  BY ConcatProperties
<1>2. /\ DOMAIN s = 1..Len(s) /\ DOMAIN t = 1..Len(t) /\ DOMAIN (s \o t) = 1..Len(s) + Len(t)
      /\ Len(s) \in Nat /\ Len(t) \in Nat
  BY <1>1, LenProperties
<1>3. ASSUME NEW i \in DOMAIN (s \o t) PROVE (s \o t)[i] \in ToSet(s) \cup ToSet(t)
  <2>1. CASE i <= Len(s)
    BY <1>1, <1>2, <2>1 DEF ToSet
  <2>2. CASE ~(i <= Len(s))
    <3>1. i - Len(s) \in 1..Len(t)
      BY <1>2, <2>2
    <3>. QED  BY <1>1, <1>2, <2>2, <3>1 DEF ToSet
  <2>. QED  BY <2>1, <2>2
<1>4. ASSUME NEW i \in DOMAIN s PROVE s[i] \in ToSet(s \o t)
  <2>1. i \in 1..Len(s) + Len(t) /\ (s \o t)[i] = s[i]
    BY <1>1, <1>2
  <2>. QED  BY <1>2, <2>1 DEF ToSet
<1>5. ASSUME NEW i \in DOMAIN t PROVE t[i] \in ToSet(s \o t)
  <2>1. Len(s) + i \in 1..Len(s) + Len(t) /\ (s \o t)[Len(s) + i] = t[i]
    BY <1>1, <1>2
  <2>. QED  BY <1>2, <2>1 DEF ToSet
<1>. QED  BY <1>1, <1>3, <1>4, <1>5 DEF ToSet

LEMMA MapMember ==
  ASSUME NEW V, NEW f
  PROVE  f \in Maps(V) <=> /\ f = [n \in DOMAIN f |-> f[n]] /\ DOMAIN f \subseteq Nodes
                           /\ \A n \in DOMAIN f : f[n] \in V
<1>1. ASSUME f \in Maps(V)
      PROVE  /\ f = [n \in DOMAIN f |-> f[n]] /\ DOMAIN f \subseteq Nodes
             /\ \A n \in DOMAIN f : f[n] \in V
  <2>1. PICK D \in SUBSET Nodes : f \in [D -> V]
    BY <1>1 DEF Maps
  <2>. QED  BY <2>1
<1>2. ASSUME f = [n \in DOMAIN f |-> f[n]], DOMAIN f \subseteq Nodes,
             \A n \in DOMAIN f : f[n] \in V
      PROVE  f \in Maps(V)
  <2>1. DOMAIN f \in SUBSET Nodes /\ f \in [DOMAIN f -> V]
    BY <1>2
  <2>. QED  BY <2>1 DEF Maps
<1>. QED  BY <1>1, <1>2

\* Entries that are made and entries that are erased.
LEMMA MapWith ==
  ASSUME NEW V, NEW f \in Maps(V), NEW ips \in SUBSET Nodes, NEW v \in V
  PROVE  With(f, ips, v) \in Maps(V)
<1>1. DOMAIN f \subseteq Nodes /\ \A n \in DOMAIN f : f[n] \in V
  BY MapMember
<1>. DEFINE w == With(f, ips, v)
<1>2. /\ DOMAIN w = DOMAIN f \cup ips /\ w = [n \in DOMAIN w |-> w[n]]
      /\ \A n \in DOMAIN f \cup ips : w[n] = IF n \in ips THEN v ELSE f[n]
  BY DEF With
<1>. HIDE DEF w
<1>. QED  BY <1>1, <1>2, MapMember DEF w

LEMMA MapWithout ==
  ASSUME NEW V, NEW f \in Maps(V), NEW ips
  PROVE  Without(f, ips) \in Maps(V)
<1>1. DOMAIN f \subseteq Nodes /\ \A n \in DOMAIN f : f[n] \in V
  BY MapMember
<1>. DEFINE w == Without(f, ips)
<1>2. /\ DOMAIN w = DOMAIN f \ ips /\ w = [n \in DOMAIN w |-> w[n]]
      /\ \A n \in DOMAIN f \ ips : w[n] = f[n]
  BY DEF Without
<1>. HIDE DEF w
<1>. QED  BY <1>1, <1>2, MapMember DEF w

LEMMA FiniteNodes ==
  ASSUME NEW ips \in SUBSET Nodes
  PROVE  IsFiniteSet(ips) /\ SetToSeq(ips) \in Seq(Nodes) /\ ToSet(SetToSeq(ips)) = ips
<1>1. IsFiniteSet(ips)
  BY RecyclerAssumption, FS_Subset
<1>2. SetToSeq(ips) \in Seq(ips) /\ ToSet(SetToSeq(ips)) = ips
  BY <1>1, SequenceOfSet
<1>. QED  BY <1>1, <1>2, SeqMonotonic

-----------------------------------------------------------------------------
(* What the operators on the manager keep.                                 *)

\* A field is kept.
LEMMA ManagerFields ==
  ASSUME NEW m \in Managers
  PROVE  /\ m.agent \in Maps(Nat \cup {NULL}) /\ m.hb \in Maps({"INITING", "RECYCLERING"})
         /\ m.rules \in Seq(Rules) /\ m.retry \in Seq(Nodes) /\ m.apply \in Seq(Nodes)
         /\ m.holders \in Nat
         /\ DOMAIN m.agent \subseteq Nodes /\ DOMAIN m.hb \subseteq Nodes
         /\ \A n \in DOMAIN m.agent : m.agent[n] \in Nat \cup {NULL}
<1>1. /\ m.agent \in Maps(Nat \cup {NULL}) /\ m.hb \in Maps({"INITING", "RECYCLERING"})
      /\ m.rules \in Seq(Rules) /\ m.retry \in Seq(Nodes) /\ m.apply \in Seq(Nodes)
      /\ m.holders \in Nat
  BY DEF Managers
<1>. QED  BY <1>1, MapMember

LEMMA FailsManager ==
  ASSUME NEW m \in Managers, NEW how \in {"up", "undefined", "assert", "null", "spins"}
  PROVE  /\ Fails(m, how) \in Managers /\ Fails(m, how).server = how
         /\ Fails(m, how).state = m.state /\ Fails(m, how).rules = m.rules
         /\ Fails(m, how).agent = m.agent /\ Fails(m, how).hb = m.hb
         /\ Fails(m, how).retry = m.retry /\ Fails(m, how).holders = m.holders
         /\ Fails(m, how).apply = m.apply
  BY DEF Managers, Fails

\* The nodes that are lost are on the retry list, and without an agent.
LEMMA LostManager ==
  ASSUME NEW m \in Managers, m.server = "up", NEW ips \in SUBSET Nodes,
         NEW l, l = agent_run_error(m, ips)
  PROVE  /\ l \in Managers /\ l.state = m.state /\ l.holders = m.holders
         /\ l.server = "up" =>
              /\ DOMAIN l.agent = DOMAIN m.agent \cup ips
              /\ \A n \in DOMAIN l.agent : l.agent[n] = IF n \in ips THEN NULL ELSE m.agent[n]
              /\ ToSet(l.retry) = ToSet(m.retry) \cup ips
              /\ DOMAIN l.rules = DOMAIN m.rules
              /\ \A i \in DOMAIN m.rules :
                   l.rules[i].status = "FINISHED" => m.rules[i].status = "FINISHED"
<1>. DEFINE busy == {ip \in ips \cap DOMAIN m.hb : m.hb[ip] # "INITING"}
            lost == [m EXCEPT !.hb = Without(@, ips), !.retry = @ \o SetToSeq(ips),
                              !.agent = With(@, ips, NULL)]
            again == [lost EXCEPT !.rules[1].status = "NOT_START", !.rules[1].using = NULL]
<1>1. \/ l = lost
      \/ l = Fails(m, "undefined")
      \/ l = Fails(m, "assert")
      \/ l = again /\ m.rules # <<>>
  <2>. HIDE DEF lost
  <2>. QED  BY DEF agent_run_error, lost
<1>2. /\ Without(m.hb, ips) \in Maps({"INITING", "RECYCLERING"})
      /\ With(m.agent, ips, NULL) \in Maps(Nat \cup {NULL})
      /\ DOMAIN With(m.agent, ips, NULL) = DOMAIN m.agent \cup ips
      /\ \A n \in DOMAIN m.agent \cup ips :
           With(m.agent, ips, NULL)[n] = IF n \in ips THEN NULL ELSE m.agent[n]
  <2>1. m.agent \in Maps(Nat \cup {NULL}) /\ m.hb \in Maps({"INITING", "RECYCLERING"})
    BY ManagerFields
  <2>2. NULL \in Nat \cup {NULL}
    OBVIOUS
  <2>3. Without(m.hb, ips) \in Maps({"INITING", "RECYCLERING"})
    BY <2>1, MapWithout
  <2>4. With(m.agent, ips, NULL) \in Maps(Nat \cup {NULL})
    BY <2>1, <2>2, MapWith
  <2>. QED  BY <2>3, <2>4 DEF With
<1>3. /\ m.retry \o SetToSeq(ips) \in Seq(Nodes)
      /\ ToSet(m.retry \o SetToSeq(ips)) = ToSet(m.retry) \cup ips
  BY ManagerFields, FiniteNodes, JoinedLists
<1>4. /\ lost \in Managers /\ lost.state = m.state /\ lost.holders = m.holders
      /\ lost.server = m.server /\ lost.rules = m.rules
      /\ lost.agent = With(m.agent, ips, NULL) /\ lost.retry = m.retry \o SetToSeq(ips)
  BY <1>2, <1>3 DEF Managers
<1>. HIDE DEF lost
<1>5. CASE l = lost
  BY <1>2, <1>3, <1>4, <1>5
<1>6. CASE l = Fails(m, "undefined") \/ l = Fails(m, "assert")
  BY <1>6, FailsManager
<1>7. CASE l = again /\ m.rules # <<>>
  <2>1. m.rules \in Seq(Rules) /\ 1 \in DOMAIN m.rules /\ DOMAIN m.rules = 1..Len(m.rules)
    BY <1>7, ManagerFields, EmptySeq
  <2>. DEFINE rule == [[m.rules[1] EXCEPT !.status = "NOT_START"] EXCEPT !.using = NULL]
              rules == [m.rules EXCEPT ![1] = rule]
  <2>2. rule \in Rules /\ rule.status = "NOT_START"
    <3>1. m.rules[1] \in Rules
      BY <2>1
    <3>. QED  BY <3>1 DEF Rules
  <2>3. again = [lost EXCEPT !.rules = rules]
    BY <1>4, <2>1 DEF Managers
  <2>. HIDE DEF rule, again
  <2>4. /\ rules \in Seq(Rules) /\ DOMAIN rules = DOMAIN m.rules
        /\ \A i \in DOMAIN m.rules : rules[i] = IF i = 1 THEN rule ELSE m.rules[i]
    BY <2>1, <2>2
  <2>. HIDE DEF rules
  <2>5. /\ l \in Managers /\ l.state = lost.state /\ l.holders = lost.holders
        /\ l.server = lost.server /\ l.rules = rules
        /\ l.agent = lost.agent /\ l.retry = lost.retry
    BY <1>4, <1>7, <2>3, <2>4 DEF Managers
  <2>6. \A i \in DOMAIN m.rules :
          l.rules[i].status = "FINISHED" => m.rules[i].status = "FINISHED"
    BY <2>2, <2>4, <2>5
  <2>7. /\ DOMAIN l.agent = DOMAIN m.agent \cup ips
        /\ \A n \in DOMAIN l.agent : l.agent[n] = IF n \in ips THEN NULL ELSE m.agent[n]
    BY <1>2, <1>4, <2>5
  <2>. QED  BY <1>3, <1>4, <2>4, <2>5, <2>6, <2>7
<1>. QED  BY <1>1, <1>5, <1>6, <1>7

\* The rules are added as not started, and their nodes without agents.
WithRules(m, g) ==
  /\ g \in Managers /\ g.server = m.server /\ g.retry = m.retry /\ g.holders = m.holders
  /\ \/ g.state = m.state
     \/ g.state = "IDEL_STATE"
  /\ DOMAIN m.agent \subseteq DOMAIN g.agent
  /\ \A n \in DOMAIN g.agent : g.agent[n] = IF n \in DOMAIN m.agent THEN m.agent[n] ELSE NULL
  /\ \A i \in DOMAIN g.rules : g.rules[i].status = "FINISHED" =>
       i \in DOMAIN m.rules /\ m.rules[i].status = "FINISHED"

LEMMA RulesManager ==
  ASSUME NEW m \in Managers, NEW rule \in Seq(SUBSET Nodes), NEW g, g = get_all_rules(m, rule)
  PROVE  WithRules(m, g)
<1>. USE DEF WithRules
<1>. DEFINE known == Min({Len(rule), Len(MURule)})
            new == [i \in 1..known |-> [status |-> "NOT_START", bucket_nr |-> i - 1,
                                        ip |-> MURule[i], using |-> NULL]]
            rules == m.rules \o new
            found == UNION {rules[i].ip : i \in 1..known}
            agent == [n \in DOMAIN m.agent \cup found |->
                        IF n \in DOMAIN m.agent THEN m.agent[n] ELSE NULL]
<1>1. /\ MURule \in Seq(SUBSET Nodes) /\ Len(MURule) \in Nat /\ Len(rule) \in Nat
      /\ \A i \in 1..Len(MURule) : MURule[i] \in SUBSET Nodes
  BY RecyclerAssumption
<1>2. known \in Nat /\ known <= Len(MURule)
  <2>. DEFINE S == {Len(rule), Len(MURule)}
  <2>1. known \in S /\ \A x \in S : known <= x
    <3>1. \E x \in S : \A y \in S : x <= y
      BY <1>1
    <3>. QED  BY <3>1 DEF Min
  <2>. QED  BY <1>1, <2>1
<1>. HIDE DEF known
<1>3. /\ new \in Seq(Rules) /\ Len(new) = known
      /\ \A i \in 1..known : new[i].status = "NOT_START"
  <2>1. \A i \in 1..known : [status |-> "NOT_START", bucket_nr |-> i - 1,
                             ip |-> MURule[i], using |-> NULL] \in Rules
    BY <1>1, <1>2 DEF Rules
  <2>2. new \in [1..known -> Rules]
    BY <2>1
  <2>3. new \in Seq(Rules) /\ Len(new) = known
    BY <1>2, <2>2
  <2>. QED  BY <2>3
<1>. HIDE DEF new
<1>4. m.rules \in Seq(Rules) /\ Len(m.rules) \in Nat /\ DOMAIN m.rules = 1..Len(m.rules)
  BY ManagerFields
<1>5. /\ rules \in Seq(Rules) /\ DOMAIN rules = 1..Len(m.rules) + known
      /\ \A i \in 1..Len(m.rules) + known :
           rules[i] = IF i <= Len(m.rules) THEN m.rules[i] ELSE new[i - Len(m.rules)]
  <2>1. /\ m.rules \o new \in Seq(Rules)
        /\ Len(m.rules \o new) = Len(m.rules) + Len(new)
        /\ \A i \in 1..Len(m.rules) + Len(new) : (m.rules \o new)[i] =
             IF i <= Len(m.rules) THEN m.rules[i] ELSE new[i - Len(m.rules)]
    BY <1>3, <1>4, ConcatProperties
  <2>2. DOMAIN (m.rules \o new) = 1..Len(m.rules \o new)
    BY <2>1, LenProperties
  <2>. QED  BY <1>3, <2>1, <2>2
<1>6. \A i \in DOMAIN rules : rules[i].status = "FINISHED" =>
        i \in DOMAIN m.rules /\ m.rules[i].status = "FINISHED"
  <2>. SUFFICES ASSUME NEW i \in DOMAIN rules, rules[i].status = "FINISHED"
                PROVE  i \in DOMAIN m.rules /\ m.rules[i].status = "FINISHED"
    OBVIOUS
  <2>1. CASE i <= Len(m.rules)
    BY <1>4, <1>5, <2>1
  <2>2. CASE ~(i <= Len(m.rules))
    <3>1. i - Len(m.rules) \in 1..known
      BY <1>2, <1>4, <1>5, <2>2
    <3>. QED  BY <1>3, <1>5, <2>2, <3>1
  <2>. QED  BY <2>1, <2>2
<1>. HIDE DEF rules
<1>7. found \subseteq Nodes
  <2>1. \A i \in 1..known : rules[i] \in Rules
    BY <1>2, <1>4, <1>5
  <2>. QED  BY <2>1 DEF Rules
<1>. HIDE DEF found
<1>8. agent \in Maps(Nat \cup {NULL})
  <2>1. /\ DOMAIN agent \subseteq Nodes /\ agent = [n \in DOMAIN agent |-> agent[n]]
        /\ \A n \in DOMAIN agent : agent[n] \in Nat \cup {NULL}
    BY <1>7, ManagerFields
  <2>. HIDE DEF agent
  <2>. QED  BY <2>1, MapMember
<1>9. g = IF Len(rule) > known THEN [m EXCEPT !.rules = rules, !.state = "IDEL_STATE"]
          ELSE [m EXCEPT !.rules = rules, !.agent = agent]
  <2>1. [m EXCEPT !.agent = [n \in DOMAIN @ \cup found |-> IF n \in DOMAIN @ THEN @[n] ELSE NULL]]
          = [m EXCEPT !.agent = agent]
    OBVIOUS
  <2>. QED  BY <2>1 DEF get_all_rules, known, new, rules, found
<1>10. /\ DOMAIN agent = DOMAIN m.agent \cup found
       /\ \A n \in DOMAIN agent : agent[n] = IF n \in DOMAIN m.agent THEN m.agent[n] ELSE NULL
  OBVIOUS
<1>. HIDE DEF agent
<1>11. CASE Len(rule) > known
  BY <1>5, <1>6, <1>9, <1>11 DEF Managers
<1>12. CASE ~(Len(rule) > known)
  <2>1. /\ g \in Managers /\ g.server = m.server /\ g.retry = m.retry /\ g.holders = m.holders
        /\ g.state = m.state /\ g.agent = agent /\ g.rules = rules
    BY <1>5, <1>8, <1>9, <1>12 DEF Managers
  <2>. QED  BY <1>6, <1>10, <2>1
<1>. QED  BY <1>11, <1>12

-----------------------------------------------------------------------------
(* The agents.                                                             *)

LEMMA FreshAgent ==
  ASSUME NEW ip \in Nodes, NEW st \in {"connecting", "open", "shut", "freed"}
  PROVE  /\ Agent(ip, st) \in AgentRecords
         /\ Agent(ip, st).ip = ip /\ Agent(ip, st).st = st /\ Agent(ip, st).token = "none"
  BY DEF Agent, AgentRecords

\* Agents are deleted.
LEMMA FreedAgents ==
  ASSUME NEW as \in Seq(AgentRecords), NEW S
  PROVE  /\ Freed(as, S) \in Seq(AgentRecords) /\ Len(Freed(as, S)) = Len(as)
         /\ DOMAIN Freed(as, S) = DOMAIN as
         /\ \A a \in DOMAIN as \ S : Freed(as, S)[a] = as[a]
         /\ \A a \in DOMAIN as : Freed(as, S)[a].ip = as[a].ip
         /\ Holding(Freed(as, S)) \subseteq Holding(as)
<1>. DEFINE f == Freed(as, S)
<1>1. Len(as) \in Nat /\ DOMAIN as = 1..Len(as) /\ \A a \in DOMAIN as : as[a] \in AgentRecords
  BY LenProperties
<1>2. \A a \in DOMAIN as : as[a].ip \in Nodes
  BY <1>1 DEF AgentRecords
<1>3. \A a \in DOMAIN as : /\ Agent(as[a].ip, "freed") \in AgentRecords
                           /\ Agent(as[a].ip, "freed").ip = as[a].ip
                           /\ Agent(as[a].ip, "freed").token = "none"
  BY <1>2, FreshAgent
<1>4. /\ f \in [1..Len(as) -> AgentRecords]
      /\ \A a \in DOMAIN as : f[a] = IF a \in S THEN Agent(as[a].ip, "freed") ELSE as[a]
  BY <1>1, <1>3 DEF Freed
<1>. HIDE DEF f
<1>5. f \in Seq(AgentRecords) /\ Len(f) = Len(as) /\ DOMAIN f = DOMAIN as
  <2>. DEFINE n == Len(as)
  <2>1. n \in Nat /\ f \in [1..n -> AgentRecords] /\ DOMAIN as = 1..n
    BY <1>1, <1>4
  <2>. HIDE DEF n
  <2>2. f \in Seq(AgentRecords) /\ Len(f) = n /\ DOMAIN f = 1..n
    BY <2>1
  <2>. QED  BY <2>1, <2>2 DEF n
<1>6. Holding(f) \subseteq Holding(as)
  BY <1>3, <1>4, <1>5 DEF Holding
<1>. QED  BY <1>1, <1>3, <1>4, <1>5, <1>6 DEF f

\* Agents are created behind those there are, and the last one of a node is remembered.
\* as is followed by new agents for the nodes in ips, which the map of r points to.
Connecting(m, ips, shut, as, r, bs) ==
  /\ r \in Managers /\ bs \in Seq(AgentRecords) /\ Listed(r, bs)
  /\ r.state = m.state /\ r.rules = m.rules /\ r.retry = m.retry /\ r.holders = m.holders
  /\ r.server = m.server /\ DOMAIN r.agent = DOMAIN m.agent
  /\ DOMAIN as \subseteq DOMAIN bs /\ \A a \in DOMAIN as : bs[a] = as[a]
  /\ \A n \in ToSet(ips) \ shut : \E a \in DOMAIN bs : bs[a].ip = n /\ bs[a].st = "connecting"
  /\ Holding(bs) = Holding(as)

LEMMA RememberedAgents ==
  ASSUME NEW m \in Managers, NEW ips \in Seq(Nodes), NEW shut,
         NEW as \in Seq(AgentRecords), Len(as) = Len(agents), Listed(m, as),
         NEW r, r = Remember(m, ips), NEW bs, bs = as \o NewAgents(ips, shut)
  PROVE  Connecting(m, ips, shut, as, r, bs)
<1>. DEFINE new == NewAgents(ips, shut)
            K == Len(ips)
            at(n) == {i \in DOMAIN ips : ips[i] = n}
            agent == [n \in DOMAIN m.agent |->
                        IF \E i \in DOMAIN ips : ips[i] = n THEN Len(agents) + Max(at(n))
                        ELSE m.agent[n]]
<1>1. /\ K \in Nat /\ DOMAIN ips = 1..K /\ \A i \in 1..K : ips[i] \in Nodes
      /\ Len(as) \in Nat /\ DOMAIN as = 1..Len(as)
  BY LenProperties
<1>2. /\ new \in Seq(AgentRecords) /\ Len(new) = K
      /\ \A i \in 1..K : /\ new[i].ip = ips[i] /\ new[i].token = "none"
                         /\ new[i].st = IF ips[i] \in shut THEN "shut" ELSE "connecting"
  <2>1. new = [i \in 1..K |-> Agent(ips[i], IF ips[i] \in shut THEN "shut" ELSE "connecting")]
    BY <1>1 DEF NewAgents
  <2>2. \A i \in 1..K : LET st == IF ips[i] \in shut THEN "shut" ELSE "connecting"
                        IN /\ Agent(ips[i], st) \in AgentRecords
                           /\ Agent(ips[i], st).ip = ips[i] /\ Agent(ips[i], st).token = "none"
                           /\ Agent(ips[i], st).st = st
    BY <1>1, FreshAgent
  <2>3. new \in [1..K -> AgentRecords]
    BY <2>1, <2>2
  <2>. HIDE DEF K
  <2>4. new \in Seq(AgentRecords) /\ Len(new) = K
    BY <1>1, <2>3
  <2>. QED  BY <2>1, <2>2, <2>4
<1>. HIDE DEF new, K
<1>3. /\ bs \in Seq(AgentRecords) /\ DOMAIN bs = 1..Len(as) + K
      /\ \A a \in 1..Len(as) + K : bs[a] = IF a <= Len(as) THEN as[a] ELSE new[a - Len(as)]
  <2>1. bs = as \o new
    BY DEF new
  <2>2. /\ as \o new \in Seq(AgentRecords)
        /\ Len(as \o new) = Len(as) + Len(new)
        /\ \A i \in 1..Len(as) + Len(new) : (as \o new)[i] =
             IF i <= Len(as) THEN as[i] ELSE new[i - Len(as)]
    <3>1. new \in Seq(AgentRecords)
      BY <1>2
    <3>. QED  BY <3>1, ConcatProperties
  <2>3. DOMAIN (as \o new) = 1..Len(as \o new)
    BY <2>2, LenProperties
  <2>. QED  BY <1>2, <2>1, <2>2, <2>3
<1>4. DOMAIN as \subseteq DOMAIN bs /\ \A a \in DOMAIN as : bs[a] = as[a]
  <2>1. \A a \in 1..Len(as) : a \in 1..Len(as) + K /\ a <= Len(as)
    BY <1>1
  <2>. QED  BY <1>1, <1>3, <2>1
<1>5. ASSUME NEW i \in 1..K PROVE Len(as) + i \in DOMAIN bs /\ bs[Len(as) + i] = new[i]
  <2>1. /\ Len(as) + i \in 1..Len(as) + K /\ ~(Len(as) + i <= Len(as))
        /\ (Len(as) + i) - Len(as) = i
    BY <1>1
  <2>. QED  BY <1>3, <2>1
<1>6. ASSUME NEW n, n \in ToSet(ips) PROVE Max(at(n)) \in 1..K /\ ips[Max(at(n))] = n
  <2>1. at(n) \in SUBSET (1..K) /\ at(n) # {}
    BY <1>1, <1>6 DEF ToSet
  <2>2. Max(at(n)) \in at(n)
    BY <1>1, <2>1, GreatestNumber
  <2>. QED  BY <1>1, <2>2
<1>7. \A n : (\E i \in DOMAIN ips : ips[i] = n) <=> n \in ToSet(ips)
  BY DEF ToSet
<1>. DEFINE last == [n \in ToSet(ips) |-> Max(at(n))]
<1>8. /\ DOMAIN agent = DOMAIN m.agent /\ agent = [n \in DOMAIN agent |-> agent[n]]
      /\ \A n \in DOMAIN m.agent :
           agent[n] = IF n \in ToSet(ips) THEN Len(as) + last[n] ELSE m.agent[n]
  BY <1>7
<1>9. \A n \in ToSet(ips) : last[n] \in 1..K /\ ips[last[n]] = n
  BY <1>6
<1>10. r = [m EXCEPT !.agent = agent]
  BY DEF Remember
<1>. HIDE DEF agent, last
<1>11. agent \in Maps(Nat \cup {NULL})
  <2>1. DOMAIN m.agent \subseteq Nodes /\ \A n \in DOMAIN m.agent : m.agent[n] \in Nat \cup {NULL}
    BY ManagerFields
  <2>2. \A n \in DOMAIN agent : agent[n] \in Nat \cup {NULL}
    BY <1>1, <1>8, <1>9, <2>1
  <2>. QED  BY <1>8, <2>1, <2>2, MapMember
<1>12. /\ r \in Managers /\ r.agent = agent
       /\ r.state = m.state /\ r.rules = m.rules /\ r.retry = m.retry /\ r.holders = m.holders
       /\ r.server = m.server
  BY <1>10, <1>11 DEF Managers
<1>13. Listed(r, bs)
  <2>. SUFFICES ASSUME NEW n \in DOMAIN m.agent, agent[n] # NULL
                PROVE  /\ agent[n] \in DOMAIN bs
                       /\ bs[agent[n]].ip = n /\ bs[agent[n]].st # "freed"
    BY <1>8, <1>12 DEF Listed
  <2>1. CASE n \in ToSet(ips)
    <3>1. last[n] \in 1..K /\ ips[last[n]] = n /\ agent[n] = Len(as) + last[n]
      BY <1>8, <1>9, <2>1
    <3>2. agent[n] \in DOMAIN bs /\ bs[agent[n]] = new[last[n]]
      BY <1>5, <3>1
    <3>. QED  BY <1>2, <3>1, <3>2
  <2>2. CASE n \notin ToSet(ips)
    <3>1. agent[n] = m.agent[n]
      BY <1>8, <2>2
    <3>2. /\ agent[n] \in DOMAIN as
          /\ as[agent[n]].ip = n /\ as[agent[n]].st # "freed"
      BY <3>1 DEF Listed
    <3>. QED  BY <1>4, <3>2
  <2>. QED  BY <2>1, <2>2
<1>14. ASSUME NEW n \in ToSet(ips) \ shut
       PROVE  \E a \in DOMAIN bs : bs[a].ip = n /\ bs[a].st = "connecting"
  <2>1. last[n] \in 1..K /\ ips[last[n]] = n
    BY <1>9
  <2>2. Len(as) + last[n] \in DOMAIN bs /\ bs[Len(as) + last[n]] = new[last[n]]
    BY <1>5, <2>1
  <2>3. new[last[n]].ip = n /\ new[last[n]].st = "connecting"
    BY <1>2, <2>1
  <2>. QED  BY <2>2, <2>3
<1>15. Holding(bs) = Holding(as)
  <2>1. ASSUME NEW a \in DOMAIN bs, bs[a].token = "has" PROVE a \in DOMAIN as
    <3>1. CASE a <= Len(as)
      BY <1>1, <1>3, <3>1
    <3>2. CASE ~(a <= Len(as))
      <4>1. a - Len(as) \in 1..K
        BY <1>1, <1>3, <3>2
      <4>. QED  BY <1>2, <1>3, <2>1, <3>2, <4>1
    <3>. QED  BY <3>1, <3>2
  <2>. QED  BY <1>4, <2>1 DEF Holding
<1>. QED  BY <1>3, <1>4, <1>8, <1>12, <1>13, <1>14, <1>15 DEF Connecting

\* The holders of the token are finitely many.
LEMMA HoldingCount ==
  ASSUME NEW as \in Seq(AgentRecords), NEW T \in SUBSET Holding(as)
  PROVE  /\ IsFiniteSet(T) /\ Cardinality(T) \in Nat
         /\ Cardinality(Holding(as)) \in Nat /\ Cardinality(T) <= Cardinality(Holding(as))
<1>1. Len(as) \in Nat /\ DOMAIN as = 1..Len(as)
  BY LenProperties
<1>2. IsFiniteSet(1..Len(as)) /\ Holding(as) \in SUBSET (1..Len(as))
  <2>1. 1 \in Int /\ Len(as) \in Int
    BY <1>1
  <2>2. IsFiniteSet(1..Len(as))
    BY <2>1, FS_Interval
  <2>. QED  BY <1>1, <2>2 DEF Holding
<1>3. IsFiniteSet(Holding(as))
  BY <1>2, FS_Subset
<1>. QED  BY <1>3, FS_Subset, FS_CardinalityType

\* One agent changes.
LEMMA ChangedAgent ==
  ASSUME NEW as \in Seq(AgentRecords), NEW a \in DOMAIN as, NEW rec \in AgentRecords,
         NEW bs, bs = [as EXCEPT ![a] = rec]
  PROVE  /\ bs \in Seq(AgentRecords) /\ DOMAIN bs = DOMAIN as /\ Len(bs) = Len(as)
         /\ bs[a] = rec /\ \A b \in DOMAIN as \ {a} : bs[b] = as[b]
<1>1. DOMAIN as = 1..Len(as) /\ a \in 1..Len(as)
  BY LenProperties
<1>2. bs \in Seq(AgentRecords) /\ Len(bs) = Len(as)
  BY <1>1, ExceptSeq
<1>. QED  BY <1>2

\* What agents say may change, as long as they stay those of their nodes, and so may
\* what the manager knows, other than of its nodes.
Kept(m, as, k, bs) ==
  /\ k.state = m.state /\ k.agent = m.agent /\ k.retry = m.retry
  /\ DOMAIN bs = DOMAIN as
  /\ \A a \in DOMAIN as : /\ bs[a].ip = as[a].ip
                          /\ \/ bs[a].st = as[a].st
                             \/ as[a].st = "connecting" /\ bs[a].st = "open"

LEMMA KeptAgents ==
  ASSUME NEW m, NEW as, NEW k, NEW bs, Kept(m, as, k, bs), Listed(m, as), Tried(m, as)
  PROVE  Listed(k, bs) /\ Tried(k, bs)
<1>. USE DEF Kept
<1>1. Listed(k, bs)
  <2>. SUFFICES ASSUME NEW n \in DOMAIN m.agent, m.agent[n] # NULL
                PROVE  /\ m.agent[n] \in DOMAIN bs
                       /\ bs[m.agent[n]].ip = n /\ bs[m.agent[n]].st # "freed"
    BY DEF Listed
  <2>1. /\ m.agent[n] \in DOMAIN as
        /\ as[m.agent[n]].ip = n /\ as[m.agent[n]].st # "freed"
    BY DEF Listed
  <2>. QED  BY <2>1
<1>2. ASSUME NEW n, NEW a \in DOMAIN as, as[a].ip = n, as[a].st \in {"connecting", "open"}
      PROVE  \E b \in DOMAIN bs : bs[b].ip = n /\ bs[b].st \in {"connecting", "open"}
  BY <1>2
<1>3. Tried(k, bs)
  <2>. SUFFICES ASSUME m.state \in {"GENERATE_BITMAP", "CHECK_INFOHASH"},
                       NEW n \in DOMAIN m.agent, n \notin ToSet(m.retry)
                PROVE  \E b \in DOMAIN bs : bs[b].ip = n /\ bs[b].st \in {"connecting", "open"}
    BY DEF Tried
  <2>1. PICK a \in DOMAIN as : as[a].ip = n /\ as[a].st \in {"connecting", "open"}
    BY DEF Tried
  <2>. QED  BY <1>2, <2>1
<1>. QED  BY <1>1, <1>3

\* The token is held by no more than before, and the count is kept.
LEMMA KeptCount ==
  ASSUME NEW m \in Managers, NEW k, k.state = m.state, k.holders = m.holders,
         NEW as \in Seq(AgentRecords), NEW bs \in Seq(AgentRecords),
         Holding(bs) \subseteq Holding(as), NEW s, s # 0, Counted(m, as, s)
  PROVE  Counted(k, bs, s)
<1>1. m.holders \in Nat /\ m.holders <= m_max_token_holders
  BY ManagerFields DEF Counted
<1>2. /\ Cardinality(Holding(bs)) \in Nat /\ Cardinality(Holding(as)) \in Nat
      /\ Cardinality(Holding(bs)) <= Cardinality(Holding(as))
  BY HoldingCount
<1>3. ASSUME m.state = "GENERATE_BITMAP", s = 1 PROVE Cardinality(Holding(bs)) <= m.holders
  <2>1. Cardinality(Holding(as)) <= m.holders
    BY <1>3 DEF Counted
  <2>. DEFINE x == Cardinality(Holding(bs))
              y == Cardinality(Holding(as))
              z == m.holders
  <2>2. x \in Nat /\ y \in Nat /\ z \in Nat /\ x <= y /\ y <= z
    BY <1>1, <1>2, <2>1
  <2>. HIDE DEF x, y, z
  <2>3. x <= z
    BY <2>2
  <2>. QED  BY <2>3 DEF x, z
<1>. QED  BY <1>1, <1>3 DEF Counted

\* A step that reports no bucket, touches no connection but to open it, and no token.
LEMMA KeptSound ==
  ASSUME NEW m \in Managers, NEW as \in Seq(AgentRecords),
         NEW k, NEW bs \in Seq(AgentRecords), Kept(m, as, k, bs), k.holders = m.holders,
         \A i \in DOMAIN k.rules : k.rules[i].status = "FINISHED" =>
            i \in DOMAIN m.rules /\ m.rules[i].status = "FINISHED",
         Holding(bs) \subseteq Holding(as),
         NEW s, s # 0, NEW buckets, Sound(m, as, s, buckets)
  PROVE  Sound(k, bs, s, buckets)
<1>1. Listed(m, as) /\ Tried(m, as) /\ FinishedReported(m, buckets) /\ Counted(m, as, s)
  BY DEF Sound
<1>2. Listed(k, bs) /\ Tried(k, bs)
  BY <1>1, KeptAgents
<1>3. FinishedReported(k, buckets)
  BY <1>1 DEF FinishedReported
<1>4. Counted(k, bs, s)
  BY <1>1, KeptCount DEF Kept
<1>. QED  BY <1>2, <1>3, <1>4 DEF Sound

\* After connecting to all nodes each has a fresh agent, or is to be tried again.
AllTried(m, as, c, bs) ==
  /\ c \in Managers /\ bs \in Seq(AgentRecords) /\ Listed(c, bs) /\ Tried(c, bs)
  /\ c.state = m.state /\ c.rules = m.rules /\ c.holders = m.holders
  /\ c.server = m.server /\ Holding(bs) = Holding(as)

LEMMA ConnectingManager ==
  ASSUME NEW m \in Managers, NEW shut \in SUBSET DOMAIN m.agent,
         NEW ips \in Seq(Nodes), ToSet(ips) = DOMAIN m.agent,
         NEW as \in Seq(AgentRecords), Len(as) = Len(agents), Listed(m, as),
         NEW c, c = connect_all_node_start_rc(m, ips, shut),
         NEW bs, bs = as \o NewAgents(ips, shut)
  PROVE  AllTried(m, as, c, bs)
<1>. USE DEF AllTried
<1>. DEFINE retry == m.retry \o SetToSeq(shut)
<1>1. DOMAIN m.agent \subseteq Nodes /\ m.retry \in Seq(Nodes)
  BY ManagerFields
<1>2. SetToSeq(shut) \in Seq(Nodes) /\ ToSet(SetToSeq(shut)) = shut
  BY <1>1, FiniteNodes
<1>3. retry \in Seq(Nodes) /\ shut \subseteq ToSet(retry)
  BY <1>1, <1>2, JoinedLists
<1>. HIDE DEF retry
<1>4. PICK r : r = Remember(m, ips)
  OBVIOUS
<1>5. /\ r \in Managers /\ bs \in Seq(AgentRecords) /\ Listed(r, bs)
      /\ r.state = m.state /\ r.rules = m.rules /\ r.retry = m.retry /\ r.holders = m.holders
      /\ r.server = m.server /\ DOMAIN r.agent = DOMAIN m.agent
      /\ \A n \in ToSet(ips) \ shut : \E a \in DOMAIN bs : bs[a].ip = n /\ bs[a].st = "connecting"
      /\ Holding(bs) = Holding(as)
  <2>1. Connecting(m, ips, shut, as, r, bs)
    BY <1>4, RememberedAgents
  <2>. QED  BY <2>1 DEF Connecting
<1>6. c = [r EXCEPT !.retry = retry]
  BY <1>4, <1>5 DEF connect_all_node_start_rc, retry
<1>7. /\ c \in Managers /\ c.state = r.state /\ c.rules = r.rules /\ c.holders = r.holders
      /\ c.server = r.server /\ c.agent = r.agent /\ c.retry = retry
  <2>1. r \in Managers /\ retry \in Seq(Nodes) /\ c = [r EXCEPT !.retry = retry]
    BY <1>3, <1>5, <1>6
  <2>. QED  BY <2>1 DEF Managers
<1>8. Listed(c, bs)
  <2>1. Listed(r, bs) /\ c.agent = r.agent
    BY <1>5, <1>7
  <2>. QED  BY <2>1 DEF Listed
<1>9. Tried(c, bs)
  <2>1. c.retry = retry /\ DOMAIN c.agent = DOMAIN m.agent
    BY <1>5, <1>7
  <2>. SUFFICES ASSUME c.state \in {"GENERATE_BITMAP", "CHECK_INFOHASH"},
                       NEW n \in DOMAIN c.agent, n \notin ToSet(c.retry)
                PROVE  \E a \in DOMAIN bs : bs[a].ip = n /\ bs[a].st \in {"connecting", "open"}
    BY DEF Tried
  <2>2. n \in ToSet(ips) \ shut
    BY <1>3, <2>1
  <2>3. PICK a \in DOMAIN bs : bs[a].ip = n /\ bs[a].st = "connecting"
    BY <1>5, <2>2
  <2>. QED  BY <2>3
<1>. QED  BY <1>5, <1>7, <1>8, <1>9

\* Agents of nodes that are lost may be deleted, or stay with nobody remembering them.
LEMMA LostAgents ==
  ASSUME NEW m \in Managers, m.server = "up", NEW ips \in SUBSET Nodes,
         NEW as \in Seq(AgentRecords), NEW S, \A a \in S \cap DOMAIN as : as[a].ip \in ips,
         NEW s, NEW buckets, Sound(m, as, s, buckets),
         NEW l, l = agent_run_error(m, ips), l.server = "up", s # 0,
         NEW bs, bs = Freed(as, S)
  PROVE  Sound(l, bs, s, buckets)
<1>1. /\ l \in Managers /\ l.state = m.state /\ l.holders = m.holders
      /\ DOMAIN l.agent = DOMAIN m.agent \cup ips
      /\ \A n \in DOMAIN l.agent : l.agent[n] = IF n \in ips THEN NULL ELSE m.agent[n]
      /\ ToSet(l.retry) = ToSet(m.retry) \cup ips
      /\ DOMAIN l.rules = DOMAIN m.rules
      /\ \A i \in DOMAIN m.rules : l.rules[i].status = "FINISHED" => m.rules[i].status = "FINISHED"
  BY LostManager
<1>2. /\ bs \in Seq(AgentRecords) /\ DOMAIN bs = DOMAIN as
      /\ \A a \in DOMAIN as \ S : bs[a] = as[a]
      /\ Holding(bs) \subseteq Holding(as)
  BY FreedAgents
<1>3. \A a \in DOMAIN as : as[a].ip \notin ips => a \notin S
  OBVIOUS
<1>4. Listed(l, bs)
  <2>. SUFFICES ASSUME NEW n \in DOMAIN l.agent, l.agent[n] # NULL
                PROVE  /\ l.agent[n] \in DOMAIN bs
                       /\ bs[l.agent[n]].ip = n /\ bs[l.agent[n]].st # "freed"
    BY DEF Listed
  <2>1. n \notin ips /\ n \in DOMAIN m.agent /\ l.agent[n] = m.agent[n]
    BY <1>1
  <2>2. m.agent[n] \in DOMAIN as /\ as[m.agent[n]].ip = n /\ as[m.agent[n]].st # "freed"
    BY <2>1 DEF Sound, Listed
  <2>. QED  BY <1>2, <1>3, <2>1, <2>2
<1>5. Tried(l, bs)
  <2>. SUFFICES ASSUME l.state \in {"GENERATE_BITMAP", "CHECK_INFOHASH"},
                       NEW n \in DOMAIN l.agent, n \notin ToSet(l.retry)
                PROVE  \E a \in DOMAIN bs : bs[a].ip = n /\ bs[a].st \in {"connecting", "open"}
    BY DEF Tried
  <2>1. n \notin ips /\ n \in DOMAIN m.agent /\ n \notin ToSet(m.retry)
    BY <1>1
  <2>2. PICK a \in DOMAIN as : as[a].ip = n /\ as[a].st \in {"connecting", "open"}
    BY <1>1, <2>1 DEF Sound, Tried
  <2>. QED  BY <1>2, <1>3, <2>1, <2>2
<1>6. FinishedReported(l, buckets)
  BY <1>1 DEF Sound, FinishedReported
<1>7. Counted(l, bs, s)
  <2>1. Counted(m, as, s)
    BY DEF Sound
  <2>. QED  BY <1>1, <1>2, <2>1, KeptCount
<1>. QED  BY <1>4, <1>5, <1>6, <1>7 DEF Sound

-----------------------------------------------------------------------------
(* Each operation keeps the invariant.                                     *)

LEMMA InitIInv == Init => IInv
<1>. SUFFICES ASSUME Init PROVE IInv
  OBVIOUS
<1>1. \A V : <<>> \in Maps(V)
  <2>. SUFFICES ASSUME NEW V PROVE <<>> \in Maps(V)
    OBVIOUS
  <2>1. DOMAIN <<>> = {} /\ <<>> = [n \in {} |-> <<>>[n]]
    OBVIOUS
  <2>. QED  BY <2>1, MapMember
<1>2. \A S : <<>> \in Seq(S)
  BY EmptySeq
<1>3. rc \in Managers
  BY <1>1, <1>2 DEF Init, Managers
<1>4. TypeOK
  BY <1>2, <1>3 DEF Init, TypeOK
<1>5. /\ DOMAIN rc.agent = {} /\ rc.state = "IDEL_STATE" /\ DOMAIN rc.rules = {}
      /\ rc.holders = 0 /\ starts = 0 /\ agents = <<>>
  BY DEF Init
<1>6. m_max_token_holders \in Nat
  BY RecyclerAssumption
<1>. QED  BY <1>4, <1>5, <1>6 DEF IInv, Sound, Listed, Tried, FinishedReported, Counted

\* An agent that is there was created by a request, and so was the state of the work.
LEMMA Started ==
  ASSUME IInv, Up, agents # <<>> \/ rc.state # "IDEL_STATE"
  PROVE  starts # 0
BY DEF IInv, Sound, Counted

LEMMA ActingAgent ==
  ASSUME IInv, Up, NEW a \in DOMAIN agents
  PROVE  /\ Sound(rc, agents, starts, reported) /\ starts # 0
         /\ agents[a] \in AgentRecords /\ agents[a].ip \in Nodes
<1>1. agents # <<>>
  OBVIOUS
<1>2. agents[a] \in AgentRecords
  <2>1. agents \in Seq(AgentRecords)
    BY DEF IInv, TypeOK
  <2>. QED  BY <2>1, LenProperties
<1>. QED  BY <1>1, <1>2, Started DEF IInv, AgentRecords

LEMMA StartStep ==
  ASSUME IInv, Up, NEW shut \in SUBSET Nodes, start_do_recylcer(shut)
  PROVE  IInv'
<1>. DEFINE m0 == [rc EXCEPT !.state = "GENERATE_BITMAP"]
<1>1. PICK m : m = get_all_rules(m0, MURule)
  OBVIOUS
<1>2. PICK ips : ips = SetToSeq(DOMAIN m.agent)
  OBVIOUS
<1>3. /\ shut \in SUBSET DOMAIN m.agent
      /\ starts' = starts + 1 /\ failures' = failures + Cardinality(shut)
      /\ rc' = connect_all_node_start_rc(m, ips, shut)
      /\ agents' = agents \o NewAgents(ips, shut)
      /\ reported' = reported
  BY <1>1, <1>2 DEF start_do_recylcer
<1>4. /\ rc \in Managers /\ agents \in Seq(AgentRecords) /\ starts \in Nat /\ failures \in Nat
      /\ reported \subseteq Nat
  BY DEF IInv, TypeOK
<1>5. /\ m0 \in Managers /\ m0.agent = rc.agent /\ m0.rules = rc.rules
      /\ m0.holders = rc.holders /\ m0.server = rc.server
  BY <1>4 DEF Managers
<1>. HIDE DEF m0
<1>6. WithRules(m0, m)
  <2>1. MURule \in Seq(SUBSET Nodes)
    BY RecyclerAssumption
  <2>. QED  BY <1>1, <1>5, <2>1, RulesManager
<1>7. m \in Managers /\ Listed(m, agents)
  <2>1. Listed(rc, agents)
    BY DEF IInv, Sound
  <2>. QED  BY <1>5, <1>6, <2>1 DEF WithRules, Listed
<1>8. ips \in Seq(Nodes) /\ ToSet(ips) = DOMAIN m.agent
  BY <1>2, <1>7, ManagerFields, FiniteNodes
<1>9. AllTried(m, agents, rc', agents')
  BY <1>3, <1>4, <1>7, <1>8, ConnectingManager
<1>10. Cardinality(shut) \in Nat
  BY FiniteNodes, FS_CardinalityType
<1>11. TypeOK'
  BY <1>3, <1>4, <1>9, <1>10 DEF TypeOK, AllTried
<1>12. FinishedReported(rc, reported) /\ Counted(rc, agents, starts)
  BY DEF IInv, Sound
<1>13. FinishedReported(rc', reported')
  BY <1>3, <1>5, <1>6, <1>9, <1>12 DEF FinishedReported, AllTried, WithRules
<1>14. Counted(rc', agents', starts')
  <2>1. rc'.holders = rc.holders /\ Holding(agents') = Holding(agents)
    BY <1>5, <1>6, <1>9 DEF AllTried, WithRules
  <2>2. starts + 1 # 0 /\ (starts + 1 = 1 => starts = 0)
    BY <1>4
  <2>3. starts = 0 => Holding(agents) = {} /\ rc.holders = 0
    BY <1>12 DEF Counted, Holding
  <2>4. starts = 0 => Cardinality(Holding(agents)) <= rc.holders
    BY <2>3, FS_EmptySet
  <2>. QED  BY <1>3, <1>12, <2>1, <2>2, <2>4 DEF Counted
<1>. QED  BY <1>9, <1>11, <1>13, <1>14 DEF IInv, Sound, AllTried

\* The first command makes an entry, if the node has none.
LEMMA CommandedManager ==
  ASSUME NEW m \in Managers, NEW ip \in Nodes, NEW k, k = send_first_command(m, ip)
  PROVE  /\ k \in Managers /\ k.state = m.state /\ k.agent = m.agent /\ k.retry = m.retry
         /\ k.holders = m.holders /\ k.rules = m.rules
<1>1. CASE ip \in DOMAIN m.hb
  BY <1>1 DEF send_first_command
<1>2. CASE ip \notin DOMAIN m.hb
  <2>1. With(m.hb, {ip}, "INITING") \in Maps({"INITING", "RECYCLERING"})
    BY ManagerFields, MapWith
  <2>2. k = [m EXCEPT !.hb = With(m.hb, {ip}, "INITING")]
    BY <1>2 DEF send_first_command
  <2>. QED  BY <2>1, <2>2 DEF Managers
<1>. QED  BY <1>1, <1>2

LEMMA ConnectedStep ==
  ASSUME IInv, Up, NEW a \in DOMAIN agents, Connected(a)
  PROVE  IInv'
<1>1. /\ rc \in Managers /\ agents \in Seq(AgentRecords) /\ starts \in Nat /\ failures \in Nat
      /\ reported \subseteq Nat
  BY DEF IInv, TypeOK
<1>2. /\ Sound(rc, agents, starts, reported) /\ starts # 0
      /\ agents[a] \in AgentRecords /\ agents[a].ip \in Nodes
  BY ActingAgent
<1>. DEFINE rec == [agents[a] EXCEPT !.st = "open"]
<1>3. /\ agents' = [agents EXCEPT ![a] = rec] /\ rc' = send_first_command(rc, agents[a].ip)
      /\ agents[a].st = "connecting"
      /\ starts' = starts /\ failures' = failures /\ reported' = reported
  BY DEF Connected
<1>4. /\ rec \in AgentRecords /\ rec.ip = agents[a].ip /\ rec.st = "open"
      /\ rec.token = agents[a].token
  BY <1>2 DEF AgentRecords
<1>. HIDE DEF rec
<1>5. /\ agents' \in Seq(AgentRecords) /\ DOMAIN agents' = DOMAIN agents
      /\ agents'[a] = rec /\ \A b \in DOMAIN agents \ {a} : agents'[b] = agents[b]
  BY <1>1, <1>3, <1>4, ChangedAgent
<1>6. /\ rc' \in Managers /\ rc'.state = rc.state /\ rc'.agent = rc.agent /\ rc'.retry = rc.retry
      /\ rc'.holders = rc.holders /\ rc'.rules = rc.rules
  BY <1>1, <1>2, <1>3, CommandedManager
<1>7. Kept(rc, agents, rc', agents') /\ Holding(agents') \subseteq Holding(agents)
  BY <1>3, <1>4, <1>5, <1>6 DEF Kept, Holding
<1>8. Sound(rc', agents', starts, reported)
  BY <1>1, <1>2, <1>5, <1>6, <1>7, KeptSound
<1>. QED  BY <1>1, <1>3, <1>5, <1>6, <1>8 DEF IInv, TypeOK

\* A node whose agent is lost is on the retry list, also if it was there before.
LEMMA LosingStep ==
  ASSUME IInv, NEW a \in DOMAIN agents, NEW m \in Managers, m.server = "up",
         Sound(m, agents, starts, reported), starts # 0,
         rc' = agent_run_error(m, {agents[a].ip}), agents' = Freed(agents, {a}),
         starts' = starts, failures' \in Nat, reported' = reported
  PROVE  IInv'
<1>1. agents \in Seq(AgentRecords) /\ starts \in Nat /\ reported \subseteq Nat
  BY DEF IInv, TypeOK
<1>2. {agents[a].ip} \in SUBSET Nodes
  <2>1. agents[a] \in AgentRecords
    BY <1>1, LenProperties
  <2>. QED  BY <2>1 DEF AgentRecords
<1>3. rc' \in Managers
  BY <1>2, LostManager
<1>4. agents' \in Seq(AgentRecords)
  BY <1>1, FreedAgents
<1>5. TypeOK'
  BY <1>1, <1>3, <1>4 DEF TypeOK
<1>6. ASSUME rc'.server = "up" PROVE Sound(rc', agents', starts, reported)
  <2>1. \A b \in {a} \cap DOMAIN agents : agents[b].ip \in {agents[a].ip}
    OBVIOUS
  <2>. QED  BY <1>1, <1>2, <1>6, <2>1, LostAgents
<1>. QED  BY <1>5, <1>6 DEF IInv, Up

LEMMA RefusedStep ==
  ASSUME IInv, Up, NEW a \in DOMAIN agents, Refused(a)
  PROVE  IInv'
<1>1. rc \in Managers /\ failures \in Nat
  BY DEF IInv, TypeOK
<1>2. /\ Sound(rc, agents, starts, reported) /\ starts # 0 /\ agents[a].ip \in Nodes
  BY ActingAgent
<1>. DEFINE retry == Append(rc.retry, agents[a].ip)
            m == [rc EXCEPT !.retry = retry]
<1>3. retry \in Seq(Nodes) /\ ToSet(rc.retry) \subseteq ToSet(retry)
  <2>1. rc.retry \in Seq(Nodes)
    BY <1>1, ManagerFields
  <2>2. /\ retry \in Seq(Nodes) /\ Len(retry) = Len(rc.retry) + 1
        /\ \A i \in 1..Len(rc.retry) : retry[i] = rc.retry[i]
    BY <1>2, <2>1, AppendProperties
  <2>3. DOMAIN rc.retry = 1..Len(rc.retry) /\ DOMAIN retry = 1..Len(retry) /\ Len(rc.retry) \in Nat
    BY <2>1, <2>2, LenProperties
  <2>. HIDE DEF retry
  <2>4. DOMAIN rc.retry \subseteq DOMAIN retry
    BY <2>2, <2>3
  <2>. QED  BY <2>2, <2>3, <2>4 DEF ToSet
<1>. HIDE DEF retry
<1>4. /\ m \in Managers /\ m.server = "up" /\ m.state = rc.state /\ m.agent = rc.agent
      /\ m.rules = rc.rules /\ m.holders = rc.holders /\ m.retry = retry
  BY <1>1, <1>3 DEF Managers, Up
<1>5. /\ rc' = agent_run_error(m, {agents[a].ip}) /\ agents' = Freed(agents, {a})
      /\ starts' = starts /\ failures' = failures + 1 /\ reported' = reported
  BY DEF Refused, retry
<1>. HIDE DEF m
<1>6. Sound(m, agents, starts, reported)
  BY <1>2, <1>3, <1>4 DEF Sound, Listed, Tried, FinishedReported, Counted
<1>. QED  BY <1>1, <1>2, <1>4, <1>5, <1>6, LosingStep

LEMMA ClosedStep ==
  ASSUME IInv, Up, NEW a \in DOMAIN agents, Closed(a)
  PROVE  IInv'
<1>1. rc \in Managers /\ failures \in Nat
  BY DEF IInv, TypeOK
<1>2. /\ Sound(rc, agents, starts, reported) /\ starts # 0
  BY ActingAgent
<1>3. /\ rc' = agent_run_error(rc, {agents[a].ip}) /\ agents' = Freed(agents, {a})
      /\ starts' = starts /\ failures' = failures + 1 /\ reported' = reported
  BY DEF Closed
<1>. QED  BY <1>1, <1>2, <1>3, LosingStep DEF Up

LEMMA TimerStep ==
  ASSUME IInv, Up, NEW late \in SUBSET DOMAIN rc.hb, NEW fate \in {"up", "undefined", "spins"},
         check_heartbeat_state(late, fate)
  PROVE  IInv'
<1>1. /\ rc \in Managers /\ agents \in Seq(AgentRecords) /\ starts \in Nat /\ failures \in Nat
      /\ reported \subseteq Nat
  BY DEF IInv, TypeOK
<1>2. starts # 0 /\ Sound(rc, agents, starts, reported) /\ rc.server = "up"
  BY Started DEF check_heartbeat_state, Running, IInv, Up
<1>3. late \in SUBSET Nodes /\ failures + Cardinality(late) \in Nat
  <2>1. late \in SUBSET Nodes
    BY <1>1, ManagerFields
  <2>2. Cardinality(late) \in Nat
    BY <2>1, FiniteNodes, FS_CardinalityType
  <2>. QED  BY <1>1, <2>1, <2>2
<1>4. PICK m : m = TimedOut(late)
  OBVIOUS
<1>5. /\ failures' = failures + Cardinality(late) /\ starts' = starts /\ reported' = reported
      /\ IF m.server = "up" /\ fate = "up"
         THEN /\ rc' = [Remember(m, m.retry) EXCEPT !.retry = <<>>]
              /\ agents' = agents \o NewAgents(m.retry, {})
         ELSE /\ rc' = IF m.server # "up" THEN m ELSE Fails(m, fate)
              /\ agents' = agents
  BY <1>4 DEF check_heartbeat_state
<1>6. \/ m = agent_run_error(rc, late)
      \/ m = Fails(rc, "null")
  BY <1>4 DEF TimedOut
<1>7. m \in Managers
  <2>1. agent_run_error(rc, late) \in Managers
    BY <1>1, <1>2, <1>3, LostManager
  <2>. QED  BY <1>1, <1>6, <2>1, FailsManager
<1>8. CASE m.server = "up" /\ fate = "up"
  <2>1. m = agent_run_error(rc, late)
    BY <1>1, <1>6, <1>8, FailsManager
  <2>2. agents = Freed(agents, {})
    <3>1. agents = [a \in DOMAIN agents |-> agents[a]]
      BY <1>1, LenProperties
    <3>. QED  BY <3>1 DEF Freed
  <2>3. Sound(m, agents, starts, reported)
    <3>1. \A b \in {} \cap DOMAIN agents : agents[b].ip \in late
      OBVIOUS
    <3>. QED  BY <1>1, <1>2, <1>3, <1>8, <2>1, <2>2, <3>1, LostAgents
  <2>4. Listed(m, agents) /\ Tried(m, agents) /\ FinishedReported(m, reported)
        /\ Counted(m, agents, starts)
    BY <2>3 DEF Sound
  <2>5. m.retry \in Seq(Nodes)
    BY <1>7, ManagerFields
  <2>6. PICK r : r = Remember(m, m.retry)
    OBVIOUS
  <2>7. agents' = agents \o NewAgents(m.retry, {}) /\ rc' = [r EXCEPT !.retry = <<>>]
    BY <1>5, <1>8, <2>6
  <2>8. Connecting(m, m.retry, {}, agents, r, agents')
    BY <1>1, <1>7, <2>4, <2>5, <2>6, <2>7, RememberedAgents
  <2>9. <<>> \in Seq(Nodes)
    BY EmptySeq
  <2>10. /\ rc' \in Managers /\ rc'.state = m.state /\ rc'.rules = m.rules /\ rc'.agent = r.agent
         /\ rc'.holders = m.holders
    <3>1. r \in Managers /\ r.state = m.state /\ r.rules = m.rules /\ r.holders = m.holders
      BY <2>8 DEF Connecting
    <3>. QED  BY <2>7, <2>9, <3>1 DEF Managers
  <2>11. Listed(rc', agents')
    BY <2>8, <2>10 DEF Connecting, Listed
  <2>12. Tried(rc', agents')
    <3>. SUFFICES ASSUME m.state \in {"GENERATE_BITMAP", "CHECK_INFOHASH"}, NEW n \in DOMAIN m.agent
                  PROVE  \E a \in DOMAIN agents' :
                           agents'[a].ip = n /\ agents'[a].st \in {"connecting", "open"}
      BY <2>8, <2>10 DEF Tried, Connecting
    <3>1. CASE n \in ToSet(m.retry)
      <4>1. PICK a \in DOMAIN agents' : agents'[a].ip = n /\ agents'[a].st = "connecting"
        BY <2>8, <3>1 DEF Connecting
      <4>. QED  BY <4>1
    <3>2. CASE n \notin ToSet(m.retry)
      <4>1. PICK a \in DOMAIN agents : agents[a].ip = n /\ agents[a].st \in {"connecting", "open"}
        BY <2>4, <3>2 DEF Tried
      <4>2. a \in DOMAIN agents' /\ agents'[a] = agents[a]
        BY <2>8 DEF Connecting
      <4>. QED  BY <4>1, <4>2
    <3>. QED  BY <3>1, <3>2
  <2>13. FinishedReported(rc', reported)
    BY <2>4, <2>10 DEF FinishedReported
  <2>14. Counted(rc', agents', starts)
    BY <1>2, <2>4, <2>8, <2>10 DEF Counted, Connecting
  <2>15. TypeOK'
    BY <1>1, <1>3, <1>5, <2>8, <2>10 DEF TypeOK, Connecting
  <2>. QED  BY <1>5, <2>11, <2>12, <2>13, <2>14, <2>15 DEF IInv, Sound
<1>9. CASE ~(m.server = "up" /\ fate = "up")
  <2>1. rc' \in Managers /\ rc'.server # "up"
    BY <1>5, <1>7, <1>9, FailsManager
  <2>2. TypeOK'
    BY <1>1, <1>3, <1>5, <1>9, <2>1 DEF TypeOK
  <2>. QED  BY <2>1, <2>2 DEF IInv, Up
<1>. QED  BY <1>8, <1>9

-----------------------------------------------------------------------------
(* The messages of a node.                                                 *)

\* A rule changes.
ChangedRule(m, i, rule, k) ==
  /\ k \in Managers /\ k.state = m.state /\ k.agent = m.agent /\ k.retry = m.retry
  /\ k.holders = m.holders /\ k.server = m.server
  /\ DOMAIN k.rules = DOMAIN m.rules /\ Len(k.rules) = Len(m.rules) /\ k.rules[i] = rule
  /\ \A j \in DOMAIN m.rules \ {i} : k.rules[j] = m.rules[j]

LEMMA RuleManager ==
  ASSUME NEW m \in Managers, NEW i \in DOMAIN m.rules, NEW rule \in Rules,
         NEW k, k = [m EXCEPT !.rules = [m.rules EXCEPT ![i] = rule]]
  PROVE  ChangedRule(m, i, rule, k)
<1>. DEFINE rules == [m.rules EXCEPT ![i] = rule]
<1>1. m.rules \in Seq(Rules) /\ DOMAIN m.rules = 1..Len(m.rules)
  BY ManagerFields, LenProperties
<1>2. rules \in Seq(Rules) /\ Len(rules) = Len(m.rules)
  BY <1>1, ExceptSeq
<1>3. /\ DOMAIN rules = DOMAIN m.rules /\ rules[i] = rule
      /\ \A j \in DOMAIN m.rules \ {i} : rules[j] = m.rules[j]
  OBVIOUS
<1>. HIDE DEF rules
<1>4. /\ k \in Managers /\ k.state = m.state /\ k.agent = m.agent /\ k.retry = m.retry
      /\ k.holders = m.holders /\ k.server = m.server /\ k.rules = rules
  <2>1. k = [m EXCEPT !.rules = rules]
    BY DEF rules
  <2>. QED  BY <1>2, <2>1 DEF Managers
<1>. QED  BY <1>2, <1>3, <1>4 DEF ChangedRule

\* The next bucket is one of the rules, if there is one, and none is left only when all
\* are finished.
LEMMA NextBucket ==
  ASSUME NEW m \in Managers, NEW ip, NEW next, next = find_next_bucket(m, ip)
  PROVE  /\ next \in Nat \cup {-1, -2}
         /\ next = -2 => \A i \in DOMAIN m.rules : m.rules[i].status = "FINISHED"
<1>. DEFINE free == {i \in DOMAIN m.rules : m.rules[i].status = "NOT_START" /\ ip \in m.rules[i].ip}
<1>1. m.rules \in Seq(Rules) /\ DOMAIN m.rules = 1..Len(m.rules) /\ Len(m.rules) \in Nat
  BY ManagerFields, LenProperties
<1>2. free # {} => m.rules[Min(free)].bucket_nr \in Nat
  <2>. SUFFICES ASSUME free # {} PROVE m.rules[Min(free)].bucket_nr \in Nat
    OBVIOUS
  <2>1. free \in SUBSET Nat
    BY <1>1
  <2>2. Min(free) \in free
    BY <2>1, LeastNumber
  <2>3. Min(free) \in 1..Len(m.rules)
    BY <1>1, <2>2
  <2>. HIDE DEF free
  <2>4. m.rules[Min(free)] \in Rules
    BY <1>1, <2>3, ElementOfSeq
  <2>. QED  BY <2>4 DEF Rules
<1>3. next = CASE \A i \in DOMAIN m.rules : m.rules[i].status = "FINISHED" -> -2
               [] free # {} -> m.rules[Min(free)].bucket_nr
               [] OTHER -> -1
  BY DEF find_next_bucket
<1>. HIDE DEF free
<1>. QED  BY <1>2, <1>3

\* A message that touches no connection, reports no bucket and counts no token.
LEMMA MessageStep ==
  ASSUME IInv, Up, NEW a \in DOMAIN agents, NEW rec \in AgentRecords,
         rec.ip = agents[a].ip, rec.st = agents[a].st, rec.token = "has" => agents[a].token = "has",
         agents' = [agents EXCEPT ![a] = rec],
         rc' \in Managers, rc'.state = rc.state, rc'.agent = rc.agent, rc'.retry = rc.retry,
         rc'.holders = rc.holders,
         \A i \in DOMAIN rc'.rules : rc'.rules[i].status = "FINISHED" =>
            i \in DOMAIN rc.rules /\ rc.rules[i].status = "FINISHED",
         starts' = starts, failures' = failures, reported' = reported
  PROVE  IInv'
<1>1. /\ rc \in Managers /\ agents \in Seq(AgentRecords) /\ starts \in Nat /\ failures \in Nat
      /\ reported \subseteq Nat
  BY DEF IInv, TypeOK
<1>2. Sound(rc, agents, starts, reported) /\ starts # 0
  BY ActingAgent
<1>3. /\ agents' \in Seq(AgentRecords) /\ DOMAIN agents' = DOMAIN agents
      /\ agents'[a] = rec /\ \A b \in DOMAIN agents \ {a} : agents'[b] = agents[b]
  BY <1>1, ChangedAgent
<1>4. Kept(rc, agents, rc', agents')
  BY <1>3 DEF Kept
<1>5. Holding(agents') \subseteq Holding(agents)
  BY <1>3 DEF Holding
<1>6. Sound(rc', agents', starts, reported)
  BY <1>1, <1>2, <1>3, <1>4, <1>5, KeptSound
<1>. QED  BY <1>1, <1>3, <1>6 DEF IInv, TypeOK

\* One that leaves the agents alone.
LEMMA ManagerStep ==
  ASSUME IInv, Up, NEW a \in DOMAIN agents, agents' = agents,
         rc' \in Managers, rc'.state = rc.state, rc'.agent = rc.agent, rc'.retry = rc.retry,
         rc'.holders = rc.holders,
         \A i \in DOMAIN rc'.rules : rc'.rules[i].status = "FINISHED" =>
            i \in DOMAIN rc.rules /\ rc.rules[i].status = "FINISHED",
         starts' = starts, failures' = failures, reported' = reported
  PROVE  IInv'
<1>1. agents \in Seq(AgentRecords) /\ agents[a] \in AgentRecords
  BY ActingAgent DEF IInv, TypeOK
<1>2. agents' = [agents EXCEPT ![a] = agents[a]]
  BY <1>1
<1>. QED  BY <1>1, <1>2, MessageStep

LEMMA InitAckStep ==
  ASSUME IInv, Up, NEW a \in DOMAIN agents, NEW err \in BOOLEAN, InitAck(a, err)
  PROVE  IInv'
<1>1. rc \in Managers /\ agents[a] \in AgentRecords /\ agents[a].ip \in Nodes
  BY ActingAgent DEF IInv, TypeOK
<1>2. starts' = starts /\ failures' = failures /\ reported' = reported
  BY DEF InitAck, Reads
<1>3. CASE rc' = send_first_command(rc, agents[a].ip) /\ agents' = agents
  <2>1. /\ rc' \in Managers /\ rc'.state = rc.state /\ rc'.agent = rc.agent /\ rc'.retry = rc.retry
        /\ rc'.holders = rc.holders /\ rc'.rules = rc.rules
    BY <1>1, <1>3, CommandedManager
  <2>. QED  BY <1>2, <1>3, <2>1, ManagerStep
<1>4. CASE rc' = rc /\ \E b \in {NoBucket} \cup Buckets :
                agents' = [agents EXCEPT ![a].ready = TRUE, ![a].work = b]
  <2>1. PICK b \in {NoBucket} \cup Buckets :
               agents' = [agents EXCEPT ![a].ready = TRUE, ![a].work = b]
    BY <1>4
  <2>2. b \in Nat \cup {NoBucket}
    BY <2>1 DEF Buckets
  <2>. DEFINE rec == [[agents[a] EXCEPT !.ready = TRUE] EXCEPT !.work = b]
  <2>3. agents' = [agents EXCEPT ![a] = rec]
    BY <1>1, <2>1 DEF AgentRecords
  <2>4. rec \in AgentRecords /\ rec.ip = agents[a].ip /\ rec.st = agents[a].st
        /\ rec.token = agents[a].token
    BY <1>1, <2>2 DEF AgentRecords
  <2>. HIDE DEF rec
  <2>. QED  BY <1>1, <1>2, <1>4, <2>3, <2>4, MessageStep
<1>. QED  BY <1>3, <1>4 DEF InitAck

LEMMA HeartbeatStep ==
  ASSUME IInv, Up, NEW a \in DOMAIN agents, Heartbeat(a)
  PROVE  IInv'
<1>1. rc \in Managers
  BY DEF IInv, TypeOK
<1>2. /\ agents' = agents /\ starts' = starts /\ failures' = failures /\ reported' = reported
      /\ \/ rc' = Fails(rc, "null")
         \/ rc' = Fails(rc, "assert")
         \/ /\ agents[a].ip \in DOMAIN rc.hb
            /\ \E v \in {"INITING", "RECYCLERING"} : rc' = [rc EXCEPT !.hb[agents[a].ip] = v]
  <2>1. (IF agents[a].ready THEN "RECYCLERING" ELSE "INITING") \in {"INITING", "RECYCLERING"}
    OBVIOUS
  <2>. QED  BY <2>1 DEF Heartbeat, Reads
<1>3. CASE rc' = Fails(rc, "null") \/ rc' = Fails(rc, "assert")
  BY <1>1, <1>2, <1>3, FailsManager, ManagerStep
<1>4. ASSUME agents[a].ip \in DOMAIN rc.hb, NEW v \in {"INITING", "RECYCLERING"},
             rc' = [rc EXCEPT !.hb[agents[a].ip] = v]
      PROVE  IInv'
  <2>. DEFINE hb == [rc.hb EXCEPT ![agents[a].ip] = v]
  <2>1. rc.hb \in Maps({"INITING", "RECYCLERING"})
    BY <1>1, ManagerFields
  <2>2. PICK D \in SUBSET Nodes : rc.hb \in [D -> {"INITING", "RECYCLERING"}]
    BY <2>1 DEF Maps
  <2>3. hb \in [D -> {"INITING", "RECYCLERING"}]
    BY <2>2
  <2>4. hb \in Maps({"INITING", "RECYCLERING"})
    BY <2>3 DEF Maps
  <2>5. rc' = [rc EXCEPT !.hb = hb]
    BY <1>4
  <2>. HIDE DEF hb
  <2>6. /\ rc' \in Managers /\ rc'.state = rc.state /\ rc'.agent = rc.agent /\ rc'.retry = rc.retry
        /\ rc'.holders = rc.holders /\ rc'.rules = rc.rules
    BY <1>1, <2>4, <2>5 DEF Managers
  <2>. QED  BY <1>2, <2>6, ManagerStep
<1>. QED  BY <1>2, <1>3, <1>4

LEMMA StartAckStep ==
  ASSUME IInv, Up, NEW a \in DOMAIN agents, NEW err \in BOOLEAN, StartAck(a, err)
  PROVE  IInv'
<1>. DEFINE b == agents[a].cmd
<1>1. rc \in Managers /\ agents[a] \in AgentRecords /\ agents[a].ip \in Nodes
  BY ActingAgent DEF IInv, TypeOK
<1>2. /\ starts' = starts /\ failures' = failures /\ reported' = reported
      /\ b \in Nat /\ NoBucket \in {NoBucket}
  BY <1>1 DEF StartAck, Reads, AgentRecords
<1>3. CASE err
  <2>1. PICK next : next = find_next_bucket(rc, agents[a].ip)
    OBVIOUS
  <2>2. next \in Nat \cup {-1, -2}
    BY <1>1, <2>1, NextBucket
  <2>3. PICK c : c = IF next > 0 THEN next ELSE NoBucket
    OBVIOUS
  <2>4. c \in Nat \cup {NoBucket}
    BY <2>2, <2>3
  <2>. DEFINE rec == [agents[a] EXCEPT !.cmd = c]
  <2>5. agents' = [agents EXCEPT ![a] = rec] /\ rc' = rc
    BY <1>3, <2>1, <2>3 DEF StartAck
  <2>6. rec \in AgentRecords /\ rec.ip = agents[a].ip /\ rec.st = agents[a].st
        /\ rec.token = agents[a].token
    BY <1>1, <2>4 DEF AgentRecords
  <2>. HIDE DEF rec
  <2>. QED  BY <1>1, <1>2, <2>5, <2>6, MessageStep
<1>4. CASE ~err
  <2>. DEFINE rec == [[[agents[a] EXCEPT !.cmd = NoBucket] EXCEPT !.work = b] EXCEPT !.token = "none"]
  <2>1. agents' = [agents EXCEPT ![a].cmd = NoBucket, ![a].work = b, ![a].token = "none"]
    BY <1>4 DEF StartAck
  <2>2. agents' = [agents EXCEPT ![a] = rec]
    BY <1>1, <2>1 DEF AgentRecords
  <2>3. rec \in AgentRecords /\ rec.ip = agents[a].ip /\ rec.st = agents[a].st
        /\ rec.token = "none"
    BY <1>1, <1>2 DEF AgentRecords
  <2>. HIDE DEF rec
  <2>4. CASE b >= Len(rc.rules)
    <3>1. rc' = Fails(rc, "undefined")
      BY <1>4, <2>4 DEF StartAck
    <3>2. /\ rc' \in Managers /\ rc'.state = rc.state /\ rc'.agent = rc.agent
          /\ rc'.retry = rc.retry /\ rc'.holders = rc.holders /\ rc'.rules = rc.rules
      BY <1>1, <3>1, FailsManager
    <3>. QED  BY <1>2, <2>2, <2>3, <3>2, MessageStep
  <2>5. CASE ~(b >= Len(rc.rules))
    <3>1. /\ rc.rules \in Seq(Rules) /\ DOMAIN rc.rules = 1..Len(rc.rules)
          /\ Len(rc.rules) \in Nat
      BY <1>1, ManagerFields, LenProperties
    <3>2. b + 1 \in DOMAIN rc.rules
      BY <1>2, <2>5, <3>1
    <3>. DEFINE rule == [[rc.rules[b + 1] EXCEPT !.status = "WORKING"]
                           EXCEPT !.using = agents[a].ip]
    <3>3. rc.rules[b + 1] \in Rules
      BY <3>1, <3>2
    <3>4. rule \in Rules /\ rule.status = "WORKING"
      BY <1>1, <3>3 DEF Rules
    <3>5. rc' = [rc EXCEPT !.rules[b + 1].status = "WORKING", !.rules[b + 1].using = agents[a].ip]
      BY <1>4, <2>5 DEF StartAck
    <3>6. rc' = [rc EXCEPT !.rules = [rc.rules EXCEPT ![b + 1] = rule]]
      BY <1>1, <3>1, <3>2, <3>5 DEF Managers
    <3>. HIDE DEF rule
    <3>7. ChangedRule(rc, b + 1, rule, rc')
      BY <1>1, <3>2, <3>4, <3>6, RuleManager
    <3>8. \A i \in DOMAIN rc'.rules : rc'.rules[i].status = "FINISHED" =>
            i \in DOMAIN rc.rules /\ rc.rules[i].status = "FINISHED"
      BY <3>4, <3>7 DEF ChangedRule
    <3>. QED  BY <1>2, <2>2, <2>3, <3>7, <3>8, MessageStep DEF ChangedRule
  <2>. QED  BY <2>4, <2>5
<1>. QED  BY <1>3, <1>4

LEMMA GetTokenStep ==
  ASSUME IInv, Up, NEW a \in DOMAIN agents, GetToken(a)
  PROVE  IInv'
<1>1. /\ rc \in Managers /\ agents \in Seq(AgentRecords) /\ starts \in Nat /\ failures \in Nat
      /\ reported \subseteq Nat
  BY DEF IInv, TypeOK
<1>2. /\ Sound(rc, agents, starts, reported) /\ starts # 0
      /\ agents[a] \in AgentRecords /\ agents[a].ip \in Nodes
  BY ActingAgent
<1>3. starts' = starts /\ failures' = failures /\ reported' = reported
  BY DEF GetToken, Reads
<1>4. CASE rc.holders = m_max_token_holders
  <2>. DEFINE rec == [agents[a] EXCEPT !.token = "asked"]
              apply == Append(rc.apply, agents[a].ip)
  <2>1. agents' = [agents EXCEPT ![a] = rec] /\ rc' = [rc EXCEPT !.apply = apply]
    BY <1>4 DEF GetToken
  <2>2. rec \in AgentRecords /\ rec.ip = agents[a].ip /\ rec.st = agents[a].st
        /\ rec.token = "asked"
    BY <1>2 DEF AgentRecords
  <2>3. apply \in Seq(Nodes)
    BY <1>1, <1>2, ManagerFields, AppendProperties
  <2>. HIDE DEF rec, apply
  <2>4. /\ rc' \in Managers /\ rc'.state = rc.state /\ rc'.agent = rc.agent /\ rc'.retry = rc.retry
        /\ rc'.holders = rc.holders /\ rc'.rules = rc.rules
    BY <1>1, <2>1, <2>3 DEF Managers
  <2>. QED  BY <1>3, <2>1, <2>2, <2>4, MessageStep
<1>5. CASE rc.holders # m_max_token_holders
  <2>. DEFINE rec == [agents[a] EXCEPT !.token = "has"]
  <2>1. agents' = [agents EXCEPT ![a] = rec] /\ rc' = [rc EXCEPT !.holders = rc.holders + 1]
    BY <1>5 DEF GetToken
  <2>2. rec \in AgentRecords /\ rec.ip = agents[a].ip /\ rec.st = agents[a].st
    BY <1>2 DEF AgentRecords
  <2>. HIDE DEF rec
  <2>3. rc.holders \in Nat
    BY <1>1, ManagerFields
  <2>4. /\ rc' \in Managers /\ rc'.state = rc.state /\ rc'.agent = rc.agent /\ rc'.retry = rc.retry
        /\ rc'.holders = rc.holders + 1 /\ rc'.rules = rc.rules
    <3>1. PICK h : h = rc.holders + 1
      OBVIOUS
    <3>2. h \in Nat /\ rc' = [rc EXCEPT !.holders = h]
      BY <2>1, <2>3, <3>1
    <3>. QED  BY <1>1, <3>1, <3>2 DEF Managers
  <2>5. /\ agents' \in Seq(AgentRecords) /\ DOMAIN agents' = DOMAIN agents
        /\ agents'[a] = rec /\ \A b \in DOMAIN agents \ {a} : agents'[b] = agents[b]
    BY <1>1, <2>1, <2>2, ChangedAgent
  <2>6. Kept(rc, agents, rc', agents')
    BY <2>2, <2>4, <2>5 DEF Kept
  <2>7. Listed(rc, agents) /\ Tried(rc, agents) /\ FinishedReported(rc, reported)
        /\ Counted(rc, agents, starts)
    BY <1>2 DEF Sound
  <2>8. Listed(rc', agents') /\ Tried(rc', agents')
    BY <2>6, <2>7, KeptAgents
  <2>9. FinishedReported(rc', reported)
    BY <2>4, <2>7 DEF FinishedReported
  <2>10. rc.holders + 1 <= m_max_token_holders
    <3>1. m_max_token_holders \in Nat /\ rc.holders <= m_max_token_holders
      BY <2>7, RecyclerAssumption DEF Counted
    <3>. QED  BY <1>5, <2>3, <3>1
  <2>11. Cardinality(Holding(agents')) <= Cardinality(Holding(agents)) + 1
    <3>1. IsFiniteSet(Holding(agents)) /\ Cardinality(Holding(agents)) \in Nat
      BY <1>1, HoldingCount
    <3>2. /\ IsFiniteSet(Holding(agents) \cup {a})
          /\ Cardinality(Holding(agents) \cup {a}) <= Cardinality(Holding(agents)) + 1
      BY <3>1, FS_AddElement
    <3>3. Holding(agents') \subseteq Holding(agents) \cup {a}
      BY <2>5 DEF Holding
    <3>4. /\ Cardinality(Holding(agents')) <= Cardinality(Holding(agents) \cup {a})
          /\ Cardinality(Holding(agents')) \in Nat /\ Cardinality(Holding(agents) \cup {a}) \in Nat
      BY <3>2, <3>3, FS_Subset, FS_CardinalityType
    <3>. QED  BY <3>1, <3>2, <3>4
  <2>12. ASSUME rc.state = "GENERATE_BITMAP", starts = 1
         PROVE  Cardinality(Holding(agents')) <= rc.holders + 1
    <3>1. Cardinality(Holding(agents)) <= rc.holders
      BY <2>7, <2>12 DEF Counted
    <3>2. Cardinality(Holding(agents)) \in Nat /\ Cardinality(Holding(agents')) \in Nat
      BY <1>1, <2>5, HoldingCount
    <3>. QED  BY <2>3, <2>11, <3>1, <3>2
  <2>13. Counted(rc', agents', starts)
    BY <1>2, <2>4, <2>10, <2>12 DEF Counted
  <2>. QED  BY <1>1, <1>3, <2>4, <2>5, <2>8, <2>9, <2>13 DEF IInv, TypeOK, Sound
<1>. QED  BY <1>4, <1>5

\* The token goes on from one agent to another.
LEMMA PassedCount ==
  ASSUME NEW as \in Seq(AgentRecords), NEW bs \in Seq(AgentRecords),
         NEW a \in Holding(as), NEW b, a \notin Holding(bs), Holding(bs) \subseteq Holding(as) \cup {b}
  PROVE  Cardinality(Holding(bs)) <= Cardinality(Holding(as))
<1>. DEFINE H == Holding(as)
            R == H \ {a}
<1>1. IsFiniteSet(H) /\ Cardinality(H) \in Nat
  BY HoldingCount
<1>2. IsFiniteSet(R) /\ Cardinality(R) = Cardinality(H) - 1
  BY <1>1, FS_RemoveElement
<1>3. Cardinality(R) \in Nat
  BY <1>2, FS_CardinalityType
<1>4. Holding(bs) \subseteq R \cup {b}
  OBVIOUS
<1>. HIDE DEF R
<1>5. IsFiniteSet(R \cup {b}) /\ Cardinality(R \cup {b}) <= Cardinality(R) + 1
  <2>1. IsFiniteSet(R)
    BY <1>2
  <2>2. /\ IsFiniteSet(R \cup {b})
        /\ Cardinality(R \cup {b}) = IF b \in R THEN Cardinality(R) ELSE Cardinality(R) + 1
    BY <2>1, FS_AddElement
  <2>. QED  BY <1>3, <2>2
<1>6. /\ Cardinality(Holding(bs)) <= Cardinality(R \cup {b})
      /\ Cardinality(Holding(bs)) \in Nat /\ Cardinality(R \cup {b}) \in Nat
  BY <1>4, <1>5, FS_Subset, FS_CardinalityType
<1>. HIDE DEF H
<1>7. Cardinality(Holding(bs)) <= Cardinality(H)
  <2>. DEFINE x == Cardinality(Holding(bs))
              y == Cardinality(R \cup {b})
              z == Cardinality(R)
              w == Cardinality(H)
  <2>1. x \in Nat /\ y \in Nat /\ z \in Nat /\ w \in Nat /\ x <= y /\ y <= z + 1 /\ z = w - 1
    BY <1>1, <1>2, <1>3, <1>5, <1>6
  <2>. HIDE DEF x, y, z, w
  <2>2. x <= w
    BY <2>1
  <2>. QED  BY <2>2 DEF x, w
<1>. QED  BY <1>7 DEF H

LEMMA UploadStep ==
  ASSUME IInv, Up, NEW a \in DOMAIN agents, Upload(a)
  PROVE  IInv'
<1>1. /\ rc \in Managers /\ agents \in Seq(AgentRecords) /\ starts \in Nat /\ failures \in Nat
      /\ reported \subseteq Nat
  BY DEF IInv, TypeOK
<1>2. /\ Sound(rc, agents, starts, reported) /\ starts # 0
      /\ agents[a] \in AgentRecords /\ agents[a].ip \in Nodes
  BY ActingAgent
<1>3. /\ starts' = starts /\ failures' = failures /\ reported' = reported
      /\ agents[a].token = "has"
  BY DEF Upload, Reads
<1>. DEFINE rec == [agents[a] EXCEPT !.token = "given"]
<1>4. rec \in AgentRecords /\ rec.ip = agents[a].ip /\ rec.st = agents[a].st
      /\ rec.token = "given"
  BY <1>2 DEF AgentRecords
<1>5. CASE rc.apply = <<>>
  <2>1. agents' = [agents EXCEPT ![a] = rec] /\ rc' = rc
    BY <1>5 DEF Upload
  <2>. HIDE DEF rec
  <2>. QED  BY <1>1, <1>3, <1>4, <2>1, MessageStep
<1>6. CASE rc.apply # <<>>
  <2>1. PICK next : next = IF Head(rc.apply) \in DOMAIN rc.agent THEN rc.agent[Head(rc.apply)]
                           ELSE NoAgent
    OBVIOUS
  <2>2. CASE next = NULL
    <3>1. rc' = Fails(rc, "null") /\ agents' = agents
      BY <1>6, <2>1, <2>2 DEF Upload
    <3>. QED  BY <1>1, <1>3, <3>1, FailsManager, ManagerStep
  <2>3. CASE next # NULL
    <3>. DEFINE as == [agents EXCEPT ![a] = rec]
    <3>1. /\ as \in Seq(AgentRecords) /\ DOMAIN as = DOMAIN agents
          /\ as[a] = rec /\ \A b \in DOMAIN agents \ {a} : as[b] = agents[b]
      BY <1>1, <1>4, ChangedAgent
    <3>2. agents' = [as EXCEPT ![next].token = IF @ = "asked" THEN "has" ELSE @]
      <4>1. as = [agents EXCEPT ![a].token = "given"]
        OBVIOUS
      <4>. QED  BY <1>6, <2>1, <2>3, <4>1 DEF Upload
    <3>3. rc' = [rc EXCEPT !.apply = Tail(rc.apply)]
      BY <1>6, <2>1, <2>3 DEF Upload
    <3>4. Tail(rc.apply) \in Seq(Nodes)
      BY <1>1, <1>6, ManagerFields, HeadTailProperties
    <3>5. /\ rc' \in Managers /\ rc'.state = rc.state /\ rc'.agent = rc.agent /\ rc'.retry = rc.retry
          /\ rc'.holders = rc.holders /\ rc'.rules = rc.rules
      BY <1>1, <3>3, <3>4 DEF Managers
    <3>. HIDE DEF as
    <3>6. /\ agents' \in Seq(AgentRecords) /\ DOMAIN agents' = DOMAIN agents
          /\ \A b \in DOMAIN agents : agents'[b].ip = as[b].ip /\ agents'[b].st = as[b].st
          /\ \A b \in DOMAIN agents \ {next} : agents'[b] = as[b]
          /\ next \in DOMAIN as /\ as[next].token # "asked" => agents'[next].token = as[next].token
      <4>1. CASE next \in DOMAIN as
        <5>1. PICK r2 : r2 = [as[next] EXCEPT !.token = IF @ = "asked" THEN "has" ELSE @]
          OBVIOUS
        <5>2. as[next] \in AgentRecords
          <6>1. as \in Seq(AgentRecords) /\ next \in 1..Len(as)
            BY <3>1, <4>1, LenProperties
          <6>. QED  BY <6>1, ElementOfSeq
        <5>3. /\ r2 \in AgentRecords /\ r2.ip = as[next].ip /\ r2.st = as[next].st
              /\ as[next].token # "asked" => r2.token = as[next].token
          BY <5>1, <5>2 DEF AgentRecords
        <5>4. agents' = [as EXCEPT ![next] = r2]
          BY <3>2, <5>1
        <5>5. /\ agents' \in Seq(AgentRecords) /\ DOMAIN agents' = DOMAIN as
              /\ agents'[next] = r2 /\ \A b \in DOMAIN as \ {next} : agents'[b] = as[b]
          BY <3>1, <4>1, <5>3, <5>4, ChangedAgent
        <5>. QED  BY <3>1, <5>3, <5>5
      <4>2. CASE next \notin DOMAIN as
        <5>1. as = [b \in DOMAIN as |-> as[b]]
          BY <3>1, LenProperties
        <5>2. agents' = as
          BY <3>2, <4>2, <5>1
        <5>. QED  BY <3>1, <4>2, <5>2
      <4>. QED  BY <4>1, <4>2
    <3>7. \A b \in DOMAIN agents : agents'[b].ip = agents[b].ip /\ agents'[b].st = agents[b].st
      BY <1>4, <3>1, <3>6
    <3>8. Kept(rc, agents, rc', agents')
      BY <3>5, <3>6, <3>7 DEF Kept
    <3>9. agents'[a].token = "given"
      BY <1>4, <3>1, <3>6
    <3>10. /\ a \in Holding(agents) /\ a \notin Holding(agents')
           /\ Holding(agents') \subseteq Holding(agents) \cup {next}
      BY <1>3, <3>1, <3>6, <3>9 DEF Holding
    <3>11. Listed(rc, agents) /\ Tried(rc, agents) /\ FinishedReported(rc, reported)
           /\ Counted(rc, agents, starts)
      BY <1>2 DEF Sound
    <3>12. Listed(rc', agents') /\ Tried(rc', agents')
      BY <3>8, <3>11, KeptAgents
    <3>13. FinishedReported(rc', reported)
      BY <3>5, <3>11 DEF FinishedReported
    <3>14. ASSUME rc.state = "GENERATE_BITMAP", starts = 1
           PROVE  Cardinality(Holding(agents')) <= rc.holders
      <4>1. Cardinality(Holding(agents)) <= rc.holders
        BY <3>11, <3>14 DEF Counted
      <4>2. Cardinality(Holding(agents')) <= Cardinality(Holding(agents))
        BY <1>1, <3>6, <3>10, PassedCount
      <4>3. /\ Cardinality(Holding(agents)) \in Nat /\ Cardinality(Holding(agents')) \in Nat
            /\ rc.holders \in Nat
        BY <1>1, <3>6, HoldingCount, ManagerFields
      <4>. QED  BY <4>1, <4>2, <4>3
    <3>15. Counted(rc', agents', starts)
      BY <1>2, <3>5, <3>11, <3>14 DEF Counted
    <3>. QED  BY <1>1, <1>3, <3>5, <3>6, <3>12, <3>13, <3>15 DEF IInv, TypeOK, Sound
  <2>. QED  BY <2>2, <2>3
<1>. QED  BY <1>5, <1>6

\* The end of a phase: nothing is left of it but agents nobody remembers.
LEMMA MergeStep ==
  ASSUME IInv, Up, NEW a \in DOMAIN agents, NEW m \in Managers, start_merge_all_bitmap(m, a),
         starts' = starts, reported' = {}
  PROVE  IInv'
<1>1. /\ agents \in Seq(AgentRecords) /\ starts \in Nat /\ failures \in Nat /\ starts # 0
  BY ActingAgent DEF IInv, TypeOK
<1>. DEFINE mine == {m.agent[n] : n \in DOMAIN m.agent}
            empty == [m EXCEPT !.rules = <<>>, !.agent = <<>>, !.hb = <<>>, !.retry = <<>>,
                               !.holders = 0, !.apply = <<>>]
            second == [empty EXCEPT !.state = "CHECK_INFOHASH"]
            last == [empty EXCEPT !.state = "FINISH_RECYCLER"]
<1>2. PICK next : next = get_all_rules(second, SURule)
  OBVIOUS
<1>3. PICK ips : ips = SetToSeq(DOMAIN next.agent)
  OBVIOUS
<1>4. \/ rc' = Fails(m, "null") /\ agents' = agents /\ failures' = failures
      \/ \E fate \in {"up", "undefined"}, shut \in SUBSET DOMAIN next.agent :
           /\ failures' = failures + Cardinality(shut)
           /\ \/ /\ rc' = Fails(connect_all_node_start_rc(next, ips, shut), fate)
                 /\ agents' = Freed(agents, mine) \o NewAgents(ips, shut)
              \/ rc' = Fails(last, fate) /\ agents' = Freed(agents, mine)
  BY <1>2, <1>3 DEF start_merge_all_bitmap
<1>5. /\ empty \in Managers /\ empty.rules = <<>> /\ empty.agent = <<>> /\ empty.holders = 0
  <2>1. <<>> \in Maps(Nat \cup {NULL}) /\ <<>> \in Maps({"INITING", "RECYCLERING"})
    <3>1. \A V : <<>> \in Maps(V)
      <4>. SUFFICES ASSUME NEW V PROVE <<>> \in Maps(V)
        OBVIOUS
      <4>1. DOMAIN <<>> = {} /\ <<>> = [n \in {} |-> <<>>[n]]
        OBVIOUS
      <4>. QED  BY <4>1, MapMember
    <3>. QED  BY <3>1
  <2>2. <<>> \in Seq(Rules) /\ <<>> \in Seq(Nodes)
    BY EmptySeq
  <2>. QED  BY <2>1, <2>2 DEF Managers
<1>. HIDE DEF empty
<1>6. /\ second \in Managers /\ second.state = "CHECK_INFOHASH" /\ second.rules = <<>>
      /\ second.agent = <<>> /\ second.holders = 0
      /\ last \in Managers /\ last.state = "FINISH_RECYCLER" /\ last.rules = <<>>
      /\ last.agent = <<>> /\ last.holders = 0
  BY <1>5 DEF Managers
<1>7. DOMAIN <<>> = {}
  OBVIOUS
<1>. HIDE DEF second, last, mine
<1>8. WithRules(second, next)
  <2>1. SURule \in Seq(SUBSET Nodes)
    BY RecyclerAssumption
  <2>. QED  BY <1>2, <1>6, <2>1, RulesManager
<1>9. /\ next \in Managers /\ \A n \in DOMAIN next.agent : next.agent[n] = NULL
      /\ next.holders = 0 /\ next.state # "GENERATE_BITMAP"
      /\ \A i \in DOMAIN next.rules : next.rules[i].status # "FINISHED"
  BY <1>6, <1>7, <1>8 DEF WithRules
<1>10. /\ Freed(agents, mine) \in Seq(AgentRecords)
       /\ Len(Freed(agents, mine)) = Len(agents)
  BY <1>1, FreedAgents
<1>11. m_max_token_holders \in Nat
  BY RecyclerAssumption
<1>12. ASSUME NEW fate \in {"up", "undefined"}, NEW shut \in SUBSET DOMAIN next.agent,
              failures' = failures + Cardinality(shut),
              rc' = Fails(connect_all_node_start_rc(next, ips, shut), fate),
              agents' = Freed(agents, mine) \o NewAgents(ips, shut)
       PROVE  IInv'
  <2>1. DOMAIN next.agent \in SUBSET Nodes
    BY <1>9, ManagerFields
  <2>2. ips \in Seq(Nodes) /\ ToSet(ips) = DOMAIN next.agent
    BY <1>3, <2>1, FiniteNodes
  <2>3. Cardinality(shut) \in Nat
    BY <2>1, FiniteNodes, FS_CardinalityType
  <2>4. PICK c : c = connect_all_node_start_rc(next, ips, shut)
    OBVIOUS
  <2>5. Listed(next, Freed(agents, mine))
    BY <1>9 DEF Listed
  <2>6. AllTried(next, Freed(agents, mine), c, agents')
    BY <1>9, <1>10, <1>12, <2>2, <2>4, <2>5, ConnectingManager
  <2>7. /\ c \in Managers /\ agents' \in Seq(AgentRecords)
        /\ Listed(c, agents') /\ Tried(c, agents')
        /\ c.holders = 0 /\ c.state # "GENERATE_BITMAP" /\ c.rules = next.rules
    BY <1>9, <2>6 DEF AllTried
  <2>8. /\ rc' \in Managers /\ rc'.state = c.state /\ rc'.agent = c.agent /\ rc'.retry = c.retry
        /\ rc'.holders = c.holders /\ rc'.rules = c.rules
    BY <1>12, <2>4, <2>7, FailsManager
  <2>9. Listed(rc', agents') /\ Tried(rc', agents')
    BY <2>7, <2>8 DEF Listed, Tried
  <2>10. FinishedReported(rc', {})
    BY <1>9, <2>7, <2>8 DEF FinishedReported
  <2>11. Counted(rc', agents', starts)
    BY <1>1, <1>11, <2>7, <2>8 DEF Counted
  <2>12. TypeOK'
    BY <1>1, <1>12, <2>3, <2>7, <2>8 DEF TypeOK
  <2>. QED  BY <2>9, <2>10, <2>11, <2>12 DEF IInv, Sound
<1>13. ASSUME NEW fate \in {"up", "undefined"}, NEW shut \in SUBSET DOMAIN next.agent,
              failures' = failures + Cardinality(shut),
              rc' = Fails(last, fate), agents' = Freed(agents, mine)
       PROVE  IInv'
  <2>1. Cardinality(shut) \in Nat
    BY <1>9, ManagerFields, FiniteNodes, FS_CardinalityType
  <2>2. /\ rc' \in Managers /\ rc'.state = "FINISH_RECYCLER" /\ rc'.agent = <<>>
        /\ rc'.holders = 0 /\ rc'.rules = <<>>
    BY <1>6, <1>13, FailsManager
  <2>3. TypeOK'
    BY <1>1, <1>10, <1>13, <2>1, <2>2 DEF TypeOK
  <2>4. Listed(rc', agents') /\ Tried(rc', agents') /\ FinishedReported(rc', {})
    BY <1>7, <2>2 DEF Listed, Tried, FinishedReported
  <2>5. Counted(rc', agents', starts)
    BY <1>1, <1>11, <2>2 DEF Counted
  <2>. QED  BY <2>3, <2>4, <2>5 DEF IInv, Sound
<1>14. CASE rc' = Fails(m, "null") /\ agents' = agents /\ failures' = failures
  <2>1. rc' \in Managers /\ rc'.server # "up"
    BY <1>14, FailsManager
  <2>. QED  BY <1>1, <1>14, <2>1 DEF IInv, TypeOK, Up
<1>. QED  BY <1>4, <1>12, <1>13, <1>14

\* A bucket that was worked on is finished, or open again.
LEMMA DoneManager ==
  ASSUME rc \in Managers, NEW b \in Nat, b < Len(rc.rules), NEW ip, NEW err \in BOOLEAN,
         NEW done, done = FinishedBucket(ip, b, err)
  PROVE  \E rule \in Rules : /\ rule.status = IF err THEN "NOT_START" ELSE "FINISHED"
                            /\ ChangedRule(rc, b + 1, rule, done)
<1>1. rc.rules \in Seq(Rules) /\ DOMAIN rc.rules = 1..Len(rc.rules) /\ Len(rc.rules) \in Nat
  BY ManagerFields, LenProperties
<1>2. b + 1 \in DOMAIN rc.rules
  BY <1>1
<1>3. rc.rules[b + 1] \in Rules
  BY <1>1, <1>2, ElementOfSeq
<1>4. CASE err
  <2>. DEFINE rule == [rc.rules[b + 1] EXCEPT !.status = "NOT_START", !.using = NULL,
                                              !.ip = rc.rules[b + 1].ip \ {ip}]
  <2>1. rule \in Rules /\ rule.status = "NOT_START"
    BY <1>3 DEF Rules
  <2>2. done = [rc EXCEPT !.rules = [rc.rules EXCEPT ![b + 1] = rule]]
    BY <1>4 DEF FinishedBucket
  <2>. HIDE DEF rule
  <2>3. ChangedRule(rc, b + 1, rule, done)
    BY <1>2, <2>1, <2>2, RuleManager
  <2>. QED  BY <1>4, <2>1, <2>3
<1>5. CASE ~err
  <2>. DEFINE rule == [rc.rules[b + 1] EXCEPT !.status = "FINISHED", !.using = NULL]
  <2>1. rule \in Rules /\ rule.status = "FINISHED"
    BY <1>3 DEF Rules
  <2>2. done = [rc EXCEPT !.rules = [rc.rules EXCEPT ![b + 1] = rule]]
    BY <1>5 DEF FinishedBucket
  <2>. HIDE DEF rule
  <2>3. ChangedRule(rc, b + 1, rule, done)
    BY <1>2, <2>1, <2>2, RuleManager
  <2>. QED  BY <1>5, <2>1, <2>3
<1>. QED  BY <1>4, <1>5

\* What comes of the report of a node: its bucket cannot be taken, or a phase ends, or it
\* goes on.
Reported(a, err, b, done, next) ==
  \/ /\ rc' = Fails(rc, "undefined") \/ rc' = Fails(rc, "assert")
     /\ agents' = agents /\ failures' = failures /\ reported' = reported
  \/ /\ ~(b >= Len(rc.rules)) /\ next = -2
     /\ start_merge_all_bitmap(done, a) /\ reported' = {}
  \/ /\ ~(b >= Len(rc.rules)) /\ next # -2
     /\ rc' = done
     /\ agents' = [agents EXCEPT ![a].work = NoBucket,
                                 ![a].token = IF err THEN @ ELSE "none",
                                 ![a].cmd = IF next < 0 THEN @ ELSE next]
     /\ reported' = IF err THEN reported \ {b} ELSE reported \cup {b}
     /\ failures' = failures

LEMMA FinishCases ==
  ASSUME IInv, Up, NEW a \in DOMAIN agents, NEW err \in BOOLEAN, Finish(a, err),
         NEW b, b = agents[a].work, NEW done, done = FinishedBucket(agents[a].ip, b, err),
         NEW next, next = find_next_bucket(done, agents[a].ip)
  PROVE  b \in Nat /\ starts' = starts /\ Reported(a, err, b, done, next)
<1>1. b \in Nat /\ starts' = starts
  <2>1. b \in Nat \cup {NoBucket} /\ b # NoBucket /\ starts' = starts
    BY ActingAgent DEF Finish, AgentRecords
  <2>. QED  BY <2>1
<1>. QED  BY <1>1 DEF Finish, Reported

LEMMA FinishStep ==
  ASSUME IInv, Up, NEW a \in DOMAIN agents, NEW err \in BOOLEAN, Finish(a, err)
  PROVE  IInv'
<1>1. /\ rc \in Managers /\ agents \in Seq(AgentRecords) /\ starts \in Nat /\ failures \in Nat
      /\ reported \subseteq Nat
  BY DEF IInv, TypeOK
<1>2. /\ Sound(rc, agents, starts, reported) /\ starts # 0
      /\ agents[a] \in AgentRecords /\ agents[a].ip \in Nodes
  BY ActingAgent
<1>3. PICK b : b = agents[a].work
  OBVIOUS
<1>4. PICK done : done = FinishedBucket(agents[a].ip, b, err)
  OBVIOUS
<1>5. PICK next : next = find_next_bucket(done, agents[a].ip)
  OBVIOUS
<1>6. b \in Nat /\ starts' = starts
  BY <1>3, <1>4, <1>5, FinishCases
<1>7. CASE /\ rc' = Fails(rc, "undefined") \/ rc' = Fails(rc, "assert")
           /\ agents' = agents /\ failures' = failures /\ reported' = reported
  BY <1>1, <1>6, <1>7, FailsManager, ManagerStep
<1>8. CASE /\ ~(b >= Len(rc.rules)) /\ next = -2
           /\ start_merge_all_bitmap(done, a) /\ reported' = {}
  <2>1. b < Len(rc.rules)
    BY <1>1, <1>6, <1>8, ManagerFields, LenProperties
  <2>2. done \in Managers
    BY <1>1, <1>4, <1>6, <2>1, DoneManager DEF ChangedRule
  <2>. QED  BY <1>6, <1>8, <2>2, MergeStep
<1>9. CASE /\ ~(b >= Len(rc.rules)) /\ next # -2
           /\ rc' = done
           /\ agents' = [agents EXCEPT ![a].work = NoBucket,
                                       ![a].token = IF err THEN @ ELSE "none",
                                       ![a].cmd = IF next < 0 THEN @ ELSE next]
           /\ reported' = IF err THEN reported \ {b} ELSE reported \cup {b}
           /\ failures' = failures
  <2>1. rc.rules \in Seq(Rules) /\ DOMAIN rc.rules = 1..Len(rc.rules) /\ Len(rc.rules) \in Nat
    BY <1>1, ManagerFields, LenProperties
  <2>2. b < Len(rc.rules)
    BY <1>6, <1>9, <2>1
  <2>3. PICK rule \in Rules : /\ rule.status = IF err THEN "NOT_START" ELSE "FINISHED"
                              /\ ChangedRule(rc, b + 1, rule, rc')
    BY <1>1, <1>4, <1>6, <1>9, <2>2, DoneManager
  <2>4. /\ rc' \in Managers /\ rc'.state = rc.state /\ rc'.agent = rc.agent /\ rc'.retry = rc.retry
        /\ rc'.holders = rc.holders
    BY <2>3 DEF ChangedRule
  <2>5. next \in Nat \cup {-1, -2}
    BY <1>5, <1>9, <2>4, NextBucket
  <2>6. PICK token : token = IF err THEN agents[a].token ELSE "none"
    OBVIOUS
  <2>7. PICK cmd : cmd = IF next < 0 THEN agents[a].cmd ELSE next
    OBVIOUS
  <2>8. /\ token \in {"none", "asked", "has", "given"} /\ token \in {agents[a].token, "none"}
        /\ cmd \in Nat \cup {NoBucket}
    BY <1>2, <2>5, <2>6, <2>7 DEF AgentRecords
  <2>. DEFINE rec == [[[agents[a] EXCEPT !.work = NoBucket] EXCEPT !.token = token] EXCEPT !.cmd = cmd]
  <2>9. rec \in AgentRecords /\ rec.ip = agents[a].ip /\ rec.st = agents[a].st
        /\ rec.token = token
    BY <1>2, <2>8 DEF AgentRecords
  <2>10. agents' = [agents EXCEPT ![a] = rec]
    BY <1>2, <1>9, <2>6, <2>7 DEF AgentRecords
  <2>. HIDE DEF rec
  <2>11. /\ agents' \in Seq(AgentRecords) /\ DOMAIN agents' = DOMAIN agents
         /\ agents'[a] = rec /\ \A c \in DOMAIN agents \ {a} : agents'[c] = agents[c]
    BY <1>1, <2>9, <2>10, ChangedAgent
  <2>12. Kept(rc, agents, rc', agents')
    BY <2>4, <2>9, <2>11 DEF Kept
  <2>13. Holding(agents') \subseteq Holding(agents)
    BY <2>8, <2>9, <2>11 DEF Holding
  <2>14. Listed(rc, agents) /\ Tried(rc, agents) /\ FinishedReported(rc, reported)
         /\ Counted(rc, agents, starts)
    BY <1>2 DEF Sound
  <2>15. Listed(rc', agents') /\ Tried(rc', agents')
    BY <2>12, <2>14, KeptAgents
  <2>16. Counted(rc', agents', starts)
    BY <1>1, <1>2, <2>4, <2>11, <2>13, <2>14, KeptCount
  <2>17. FinishedReported(rc', reported')
    <3>. SUFFICES ASSUME NEW i \in DOMAIN rc.rules, rc'.rules[i].status = "FINISHED"
                  PROVE  i - 1 \in reported'
      BY <2>3 DEF FinishedReported, ChangedRule
    <3>1. CASE i = b + 1
      <4>1. ~err
        BY <2>3, <3>1 DEF ChangedRule
      <4>2. i - 1 = b
        BY <1>6, <3>1
      <4>. QED  BY <1>9, <4>1, <4>2
    <3>2. CASE i # b + 1
      <4>1. i - 1 \in reported
        BY <2>3, <2>14, <3>2 DEF FinishedReported, ChangedRule
      <4>2. i - 1 # b
        BY <1>6, <2>1, <3>2
      <4>. QED  BY <1>9, <4>1, <4>2
    <3>. QED  BY <3>1, <3>2
  <2>18. reported' \subseteq Nat
    BY <1>1, <1>6, <1>9
  <2>. QED  BY <1>1, <1>6, <1>9, <2>4, <2>11, <2>15, <2>16, <2>17, <2>18 DEF IInv, TypeOK, Sound
<1>10. Reported(a, err, b, done, next)
  BY <1>3, <1>4, <1>5, FinishCases
<1>. QED  BY <1>7, <1>8, <1>9, <1>10 DEF Reported

-----------------------------------------------------------------------------
(* The theorems.                                                           *)

LEMMA NextIInv == IInv /\ [Next]_vars => IInv'
<1>. SUFFICES ASSUME IInv, [Next]_vars PROVE IInv'
  OBVIOUS
<1>1. CASE UNCHANGED vars
  BY <1>1 DEF vars, IInv, TypeOK, Up
<1>2. ASSUME Up, NEW shut \in SUBSET Nodes, start_do_recylcer(shut) PROVE IInv'
  BY <1>2, StartStep
<1>3. ASSUME Up, Timer PROVE IInv'
  BY <1>3, TimerStep DEF Timer
<1>4. ASSUME Up, NEW a \in DOMAIN agents, Connected(a) \/ Refused(a) \/ Closed(a) PROVE IInv'
  BY <1>4, ConnectedStep, RefusedStep, ClosedStep
<1>5. ASSUME Up, NEW a \in DOMAIN agents, Message(a) PROVE IInv'
  <2>1. ASSUME NEW err \in BOOLEAN, InitAck(a, err) \/ StartAck(a, err) \/ Finish(a, err) PROVE IInv'
    BY <1>5, <2>1, InitAckStep, StartAckStep, FinishStep
  <2>2. ASSUME Heartbeat(a) \/ GetToken(a) \/ Upload(a) PROVE IInv'
    BY <1>5, <2>2, HeartbeatStep, GetTokenStep, UploadStep
  <2>. QED  BY <1>5, <2>1, <2>2 DEF Message
<1>. QED  BY <1>1, <1>2, <1>3, <1>4, <1>5 DEF Next

LEMMA SpecIInv == Spec => []IInv
<1>. QED  BY InitIInv, NextIInv, PTL DEF Spec

\* Every variable of RCManager and of its agents keeps its type, whatever fails and
\* however often recycling is started.
THEOREM RecyclerTypes == Spec => []TypeOK
<1>1. IInv => TypeOK
  BY DEF IInv
<1>. QED  BY <1>1, SpecIInv, PTL

\* Every node of the rules has a connection, is about to have one, or is on the retry
\* list, and the map of agents points to none that was deleted nor to that of another
\* node: for any nodes and rules, and any number of requests and failures.
THEOREM RecyclerNodes == Spec => []NodesAccountedFor
<1>1. IInv => NodesAccountedFor
  <2>. SUFFICES ASSUME IInv, Up, NEW n \in DOMAIN rc.agent
                PROVE  /\ Running => \/ n \in ToSet(rc.retry)
                                     \/ \E a \in DOMAIN agents : agents[a].ip = n /\ Live(a)
                       /\ rc.agent[n] # NULL => /\ agents[rc.agent[n]].ip = n
                                                /\ agents[rc.agent[n]].st # "freed"
    BY DEF NodesAccountedFor
  <2>1. Listed(rc, agents) /\ Tried(rc, agents)
    BY DEF IInv, Sound
  <2>. QED  BY <2>1 DEF Listed, Tried, Running, Live
<1>. QED  BY <1>1, SpecIInv, PTL

\* The token has no more holders than m_max_token_holders while the first phase of the
\* first request lasts, also when holders are lost and their agents deleted.
THEOREM RecyclerTokens == Spec => []TokenLimit
<1>1. IInv => TokenLimit
  <2>. SUFFICES ASSUME IInv, Up, rc.state = "GENERATE_BITMAP", starts = 1
                PROVE  Cardinality(Holding(agents)) <= m_max_token_holders
    BY DEF TokenLimit, Holding
  <2>. DEFINE x == Cardinality(Holding(agents))
              y == rc.holders
  <2>1. x <= y /\ y <= m_max_token_holders
    BY DEF IInv, Sound, Counted
  <2>2. x \in Nat /\ y \in Nat /\ m_max_token_holders \in Nat
    BY HoldingCount, ManagerFields, RecyclerAssumption DEF IInv, TypeOK
  <2>. HIDE DEF x, y
  <2>3. x <= m_max_token_holders
    BY <2>1, <2>2
  <2>. QED  BY <2>3 DEF x
<1>. QED  BY <1>1, SpecIInv, PTL

LEMMA FinishPhase ==
  ASSUME IInv, Up, NEW a \in DOMAIN agents, NEW err \in BOOLEAN, Finish(a, err),
         rc'.state # rc.state
  PROVE  Cardinality((0..Len(rc.rules) - 1) \ reported) <= 1
<1>1. rc \in Managers /\ FinishedReported(rc, reported)
  BY DEF IInv, TypeOK, Sound
<1>2. rc.rules \in Seq(Rules) /\ DOMAIN rc.rules = 1..Len(rc.rules) /\ Len(rc.rules) \in Nat
  BY <1>1, ManagerFields, LenProperties
<1>3. PICK b : b = agents[a].work
  OBVIOUS
<1>4. PICK done : done = FinishedBucket(agents[a].ip, b, err)
  OBVIOUS
<1>5. PICK next : next = find_next_bucket(done, agents[a].ip)
  OBVIOUS
<1>6. b \in Nat /\ Reported(a, err, b, done, next)
  BY <1>3, <1>4, <1>5, FinishCases
<1>7. b < Len(rc.rules)
  <2>1. ~(b >= Len(rc.rules))
    BY <1>1, <1>6, FailsManager DEF Reported
  <2>. QED  BY <1>2, <1>6, <2>1
<1>8. PICK rule \in Rules : /\ rule.status = IF err THEN "NOT_START" ELSE "FINISHED"
                            /\ ChangedRule(rc, b + 1, rule, done)
  BY <1>1, <1>4, <1>6, <1>7, DoneManager
<1>9. next = -2
  BY <1>1, <1>6, <1>8, FailsManager DEF Reported, ChangedRule
<1>10. \A i \in DOMAIN rc.rules : done.rules[i].status = "FINISHED"
  BY <1>5, <1>8, <1>9, NextBucket DEF ChangedRule
<1>11. \A i \in DOMAIN rc.rules \ {b + 1} : i - 1 \in reported
  BY <1>1, <1>8, <1>10 DEF ChangedRule, FinishedReported
<1>12. (0..Len(rc.rules) - 1) \ reported \subseteq {b}
  <2>. SUFFICES ASSUME NEW j \in 0..Len(rc.rules) - 1, j # b PROVE j \in reported
    OBVIOUS
  <2>1. j + 1 \in DOMAIN rc.rules \ {b + 1} /\ (j + 1) - 1 = j
    BY <1>2, <1>6
  <2>. QED  BY <1>11, <2>1
<1>13. IsFiniteSet({b}) /\ Cardinality({b}) = 1
  BY FS_Singleton
<1>. QED  BY <1>12, <1>13, FS_Subset

\* A phase ends, with its state taking another value, only when every bucket of its rules
\* was reported as finished, the last one by the message that ends it.
THEOREM RecyclerPhases == Spec => PhaseEndsFinished
<1>1. IInv /\ [Next]_vars =>
        [Running /\ starts' = starts /\ rc.state # rc'.state =>
           Cardinality((0..Len(rc.rules) - 1) \ reported) <= 1]_vars
  <2>. SUFFICES ASSUME IInv, Next, starts' = starts, rc.state # rc'.state
                PROVE  Cardinality((0..Len(rc.rules) - 1) \ reported) <= 1
    BY DEF vars
  <2>1. Up /\ rc \in Managers /\ starts \in Nat
    BY DEF Next, IInv, TypeOK
  <2>2. \A shut \in SUBSET Nodes : ~start_do_recylcer(shut)
    <3>1. starts + 1 # starts
      BY <2>1
    <3>. QED  BY <3>1 DEF start_do_recylcer
  <2>3. \A ips \in SUBSET Nodes : agent_run_error(rc, ips).state = rc.state
    BY <2>1, LostManager DEF Up
  <2>4. ~Timer
    <3>. SUFFICES ASSUME NEW late \in SUBSET DOMAIN rc.hb, NEW fate \in {"up", "undefined", "spins"},
                         check_heartbeat_state(late, fate)
                  PROVE  FALSE
      BY DEF Timer
    <3>1. PICK m : m = TimedOut(late)
      OBVIOUS
    <3>2. late \in SUBSET Nodes
      BY <2>1, ManagerFields
    <3>3. m \in Managers /\ m.state = rc.state
      <4>1. agent_run_error(rc, late) \in Managers
        BY <2>1, <3>2, LostManager DEF Up
      <4>2. Fails(rc, "null") \in Managers /\ Fails(rc, "null").state = rc.state
        BY <2>1, FailsManager
      <4>. QED  BY <2>3, <3>1, <3>2, <4>1, <4>2 DEF TimedOut
    <3>4. rc' = [Remember(m, m.retry) EXCEPT !.retry = <<>>] \/ rc' = m \/ rc' = Fails(m, fate)
      BY <3>1 DEF check_heartbeat_state
    <3>5. [Remember(m, m.retry) EXCEPT !.retry = <<>>].state = m.state
      BY <3>3 DEF Remember, Managers
    <3>6. Fails(m, fate).state = m.state
      BY <3>3, FailsManager
    <3>. QED  BY <3>3, <3>4, <3>5, <3>6
  <2>5. PICK a \in DOMAIN agents : Connected(a) \/ Refused(a) \/ Closed(a) \/ Message(a)
    BY <2>2, <2>4 DEF Next
  <2>6. agents[a] \in AgentRecords /\ agents[a].ip \in Nodes
    BY <2>1, ActingAgent
  <2>7. send_first_command(rc, agents[a].ip).state = rc.state
    BY <2>1, <2>6, CommandedManager
  <2>8. ~Connected(a) /\ ~Closed(a)
    BY <2>3, <2>6, <2>7 DEF Connected, Closed
  <2>9. ~Refused(a)
    <3>. SUFFICES ASSUME Refused(a) PROVE FALSE
      OBVIOUS
    <3>. DEFINE retry == Append(rc.retry, agents[a].ip)
                m == [rc EXCEPT !.retry = retry]
    <3>1. retry \in Seq(Nodes)
      BY <2>1, <2>6, ManagerFields, AppendProperties
    <3>. HIDE DEF retry
    <3>2. m \in Managers /\ m.server = "up" /\ m.state = rc.state
      BY <2>1, <3>1 DEF Managers, Up
    <3>3. rc' = agent_run_error(m, {agents[a].ip})
      BY DEF Refused, retry
    <3>. HIDE DEF m
    <3>4. rc'.state = m.state
      BY <2>6, <3>2, <3>3, LostManager
    <3>. QED  BY <3>2, <3>4
  <2>10. ~Heartbeat(a) /\ ~GetToken(a) /\ ~Upload(a)
    BY <2>1 DEF Heartbeat, GetToken, Upload, Fails, Managers
  <2>11. \A err \in BOOLEAN : ~InitAck(a, err) /\ ~StartAck(a, err)
    BY <2>1, <2>7 DEF InitAck, StartAck, Fails, Managers
  <2>12. PICK err \in BOOLEAN : Finish(a, err)
    BY <2>5, <2>8, <2>9, <2>10, <2>11 DEF Message
  <2>. QED  BY <2>1, <2>12, FinishPhase
<1>. QED  BY <1>1, SpecIInv, PTL DEF Spec, PhaseEndsFinished
==============================================================================
