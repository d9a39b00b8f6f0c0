------------------------- MODULE RegistrationProofs -------------------------
(***************************************************************************)
(* Proofs about Registration for any number of nodes and connections, any  *)
(* layout and any number of deployments and restarts: that the tables of a *)
(* deployed type agree with memory, that the copies of a bucket are on     *)
(* different nodes, and that only nodes that are there are counted.        *)
(***************************************************************************)
EXTENDS Registration, FiniteSetTheorems, SequenceTheorems, WellFoundedInduction, TLAPS

-----------------------------------------------------------------------------
(* Induction and recursion.                                                *)

\* A set of naturals that has 0 and the successor of whatever it has is all of them.
LEMMA NaturalsSet ==
  ASSUME NEW T \in SUBSET Nat, 0 \in T, \A n \in T : n + 1 \in T
  PROVE  T = Nat
<1>. SUFFICES ASSUME Nat \ T # {} PROVE FALSE
  OBVIOUS
<1>1. PICK n \in Nat \ T : \A m \in Nat \ T : ~(<<m, n>> \in OpToRel(<, Nat))
  BY NatLessThanWellFounded, WFMin
<1>2. \A m \in Nat \ T : ~(m < n)
  BY <1>1 DEF OpToRel
<1>3. n # 0 /\ n - 1 \in Nat /\ n - 1 < n
  OBVIOUS
<1>4. n - 1 \in T /\ (n - 1) + 1 = n
  BY <1>2, <1>3
<1>. QED  BY <1>4

\* The functions on 0..K that are base at 0, and at every other number n what step
\* makes of n and the value before.
Iterations(V) == [Nat -> [V -> V]]
Iterated(K, V, base, step) ==
  {f \in [0..K -> V] : /\ f[0] = base
                       /\ \A n \in 1..K : f[n] = step[n][f[n - 1]]}

\* There is such a function.
LEMMA NaturalsRecursion ==
  ASSUME NEW K \in Nat, NEW V, NEW base \in V, NEW step \in Iterations(V)
  PROVE  Iterated(K, V, base, step) # {}
<1>. DEFINE T == {k \in Nat : Iterated(k, V, base, step) # {}}
<1>1. 0 \in T
  <2>. DEFINE f == [n \in 0..0 |-> base]
  <2>1. f \in Iterated(0, V, base, step)
    BY DEF Iterated
  <2>. QED  BY <2>1
<1>2. ASSUME NEW k \in T PROVE k + 1 \in T
  <2>1. k \in Nat /\ \E f : f \in Iterated(k, V, base, step)
    OBVIOUS
  <2>. HIDE DEF T
  <2>2. PICK f \in [0..k -> V] : f[0] = base /\ \A n \in 1..k : f[n] = step[n][f[n - 1]]
    BY <2>1 DEF Iterated
  <2>3. k \in 0..k /\ f[k] \in V /\ k + 1 \in Nat
    BY <2>1, <2>2
  <2>. DEFINE x == step[k + 1][f[k]]
              g == [n \in 0..(k + 1) |-> IF n = k + 1 THEN x ELSE f[n]]
  <2>4. x \in V
    <3>1. step[k + 1] \in [V -> V]
      BY <2>3 DEF Iterations
    <3>. QED  BY <2>3, <3>1
  <2>5. /\ \A n \in 0..k : n \in 0..(k + 1) /\ n # k + 1
        /\ \A n \in 0..(k + 1) : n = k + 1 \/ n \in 0..k
    BY <2>1
  <2>6. g \in [0..(k + 1) -> V]
    <3>. HIDE DEF x
    <3>. QED  BY <2>2, <2>4, <2>5
  <2>7. \A n \in 0..k : g[n] = f[n]
    <3>. HIDE DEF x
    <3>. QED  BY <2>5
  <2>8. g[k + 1] = x
    <3>. HIDE DEF x
    <3>. QED  BY <2>1
  <2>. HIDE DEF g
  <2>9. ASSUME NEW n \in 1..(k + 1) PROVE g[n] = step[n][g[n - 1]]
    <3>1. CASE n = k + 1
      <4>1. n - 1 = k
        BY <2>1, <3>1
      <4>. QED  BY <2>3, <2>7, <2>8, <3>1, <4>1
    <3>2. CASE n # k + 1
      <4>1. n \in 1..k /\ n \in 0..k /\ n - 1 \in 0..k
        BY <2>1, <3>2
      <4>. QED  BY <2>2, <2>7, <4>1
    <3>. QED  BY <3>1, <3>2
  <2>10. g[0] = base
    BY <2>1, <2>2, <2>7
  <2>11. g \in Iterated(k + 1, V, base, step)
    BY <2>6, <2>9, <2>10 DEF Iterated
  <2>. QED  BY <2>3, <2>11 DEF T
<1>. HIDE DEF T
<1>3. T \in SUBSET Nat
  BY DEF T
<1>4. T = Nat
  BY <1>1, <1>2, <1>3, NaturalsSet
<1>. QED  BY <1>4 DEF T

-----------------------------------------------------------------------------
(* Powers of two.                                                          *)

\* The powers of two, which are the numbers of subsets.
LEMMA PowersOfTwo ==
  /\ 2 ^ 0 = 1
  /\ \A n \in Nat : 2 ^ n \in Nat \ {0} /\ 2 ^ (n + 1) = 2 * 2 ^ n
<1>. DEFINE S(n) == SUBSET (1..n)
            Larger(n) == {T \cup {n + 1} : T \in S(n)}
<1>1. \A n \in Nat : IsFiniteSet(1..n) /\ Cardinality(1..n) = n
  BY FS_Interval
<1>2. \A n \in Nat : IsFiniteSet(S(n)) /\ Cardinality(S(n)) = 2 ^ n
  <2>. SUFFICES ASSUME NEW n \in Nat PROVE IsFiniteSet(S(n)) /\ Cardinality(S(n)) = 2 ^ n
    OBVIOUS
  <2>1. /\ IsFiniteSet(SUBSET (1..n))
        /\ Cardinality(SUBSET (1..n)) = 2 ^ Cardinality(1..n)
    BY <1>1, FS_SUBSET
  <2>. QED  BY <1>1, <2>1
<1>3. 2 ^ 0 = 1
  <2>1. S(0) = {{}}
    OBVIOUS
  <2>2. Cardinality({{}}) = 1
    BY FS_Singleton
  <2>. QED  BY <1>2, <2>1, <2>2
<1>4. ASSUME NEW n \in Nat
      PROVE  2 ^ n \in Nat \ {0} /\ 2 ^ (n + 1) = 2 * 2 ^ n
  <2>1. 2 ^ n \in Nat \ {0}
    <3>1. {} \in S(n)
      OBVIOUS
    <3>2. Cardinality(S(n)) \in Nat /\ Cardinality(S(n)) # 0
      BY <1>2, <3>1, FS_CardinalityType, FS_EmptySet
    <3>. QED  BY <1>2, <3>2
  <2>2. S(n + 1) = S(n) \cup Larger(n)
    <3>1. ASSUME NEW T \in S(n + 1) PROVE T \in S(n) \cup Larger(n)
      <4>1. CASE n + 1 \notin T
        BY <4>1
      <4>2. CASE n + 1 \in T
        <5>1. T \ {n + 1} \in S(n) /\ T = (T \ {n + 1}) \cup {n + 1}
          BY <4>2
        <5>. QED  BY <5>1
      <4>. QED  BY <4>1, <4>2
    <3>2. 1..n \subseteq 1..(n + 1) /\ n + 1 \in 1..(n + 1)
      OBVIOUS
    <3>. QED  BY <3>1, <3>2
  <2>3. S(n) \cap Larger(n) = {}
    OBVIOUS
  <2>4. IsFiniteSet(Larger(n)) /\ Cardinality(Larger(n)) = 2 ^ n
    <3>. DEFINE f == [T \in S(n) |-> T \cup {n + 1}]
    <3>1. f \in Bijection(S(n), Larger(n))
      <4>1. f \in [S(n) -> Larger(n)]
        OBVIOUS
      <4>2. ASSUME NEW T \in S(n), NEW U \in S(n), f[T] = f[U] PROVE T = U
        <5>1. T = f[T] \ {n + 1} /\ U = f[U] \ {n + 1}
          OBVIOUS
        <5>. QED  BY <4>2, <5>1
      <4>3. \A U \in Larger(n) : \E T \in S(n) : f[T] = U
        OBVIOUS
      <4>. QED  BY <4>1, <4>2, <4>3 DEF Bijection, Injection, Surjection, IsInjective
    <3>2. ExistsBijection(S(n), Larger(n))
      BY <3>1 DEF ExistsBijection
    <3>. HIDE DEF S, Larger
    <3>3. IsFiniteSet(Larger(n)) /\ Cardinality(Larger(n)) = Cardinality(S(n))
      BY <1>2, <3>2, FS_Bijection
    <3>. QED  BY <1>2, <3>3
  <2>. HIDE DEF S, Larger
  <2>5. Cardinality(S(n) \cup Larger(n)) = Cardinality(S(n)) + Cardinality(Larger(n))
    <3>1. /\ Cardinality(S(n) \cup Larger(n)) =
               Cardinality(S(n)) + Cardinality(Larger(n)) - Cardinality(S(n) \cap Larger(n))
      BY <1>2, <2>4, FS_Union
    <3>2. Cardinality(S(n) \cap Larger(n)) = 0
      BY <2>3, FS_EmptySet
    <3>. QED  BY <1>2, <2>1, <2>4, <3>1, <3>2
  <2>. QED  BY <1>2, <2>1, <2>2, <2>4, <2>5
<1>. QED  BY <1>3, <1>4

-----------------------------------------------------------------------------
(* The inductive invariant.                                                *)

Entries == [index : Conns, ip : Nodes]
Copies(ty) == [0..dup[ty] - 1 -> Nodes]

\* The rules of some of the buckets.
Partial(ty) == UNION {[D -> Copies(ty)] : D \in SUBSET (0..2 ^ mod[ty] - 1)}

Begun == {"drop_rule", "create_rule", "drop_order", "create_order", "history", "rows", "done"}
Failing == {"undo_order", "undo_rule", "failed"}

Tasks == [type : Types, list : Seq(Nodes), id : Nat, step : Begun \cup Failing, row : Nat]

ControlTypes ==
  /\ m_running \in BOOLEAN /\ up \in BOOLEAN /\ extra \in Nat
  /\ m_finish \in [Types -> BOOLEAN]
  /\ m_register_list \in [Types -> Seq(Entries)]
  /\ agent \in [Conns -> {"none", "open", "closed"}]
  /\ m_type \in [Conns -> Types] /\ answered \in [Conns -> SUBSET Types]
  /\ repeated \subseteq Conns

TableTypes ==
  /\ task \subseteq Tasks
  /\ m_current_bucket_number \in [Types -> Nat]
  /\ order_table \in [Types -> BOOLEAN]
  /\ m_hash_table = [ty \in Types |-> m_hash_table[ty]]
  /\ rule_table \in [Types -> [exists : BOOLEAN, rows : UNION {Partial(ty) : ty \in Types}]]
  /\ \A ty \in Types : m_hash_table[ty] \in Partial(ty) /\ rule_table[ty].rows \in Partial(ty)
  /\ doubled \subseteq Types /\ disturbed \subseteq Types

TypeOK == ControlTypes /\ TableTypes

\* A server that has not started, or has ended, has nothing in memory.
AtRest == ~up => /\ task = {} /\ m_register_list = [ty \in Types |-> <<>>]

\* There is room for the copies of a bucket in every list that is laid out.
EnoughNodes ==
  \A t \in task : /\ Len(t.list) >= dup[t.type]
                  /\ t.type \notin doubled => IsInjective(t.list)

\* How far a task got with its rows.
Counted(t) ==
  /\ t.step = "rows" => t.row < 2 ^ mod[t.type]
  /\ t.step = "done" => t.row = 2 ^ mod[t.type]
  /\ t.step \in Begun \ {"rows", "done"} => t.row = 0
RowsCounted == \A t \in task : Counted(t)

\* Types that are not disturbed are laid out by one task at a time, which did not fail.
Undisturbed ==
  /\ \A t, u \in task : t.type = u.type /\ t.type \notin disturbed => t = u
  /\ \A t \in task : t.step \in Failing => t.type \in disturbed

\* What such a task finds in the tables is what it put there.
LaidOut(t) ==
  LET rows == rule_table[t.type].rows
  IN /\ rule_table[t.type].exists
     /\ DOMAIN rows = 0..t.row - 1
     /\ \A b \in DOMAIN rows : rows[b] = layout_all_bucket(t.type, t.list)[b]

TablesFollow ==
  \A t \in task : t.type \notin disturbed =>
    /\ t.step \in {"drop_order", "create_order", "history", "rows", "done"} => LaidOut(t)
    /\ t.step \in {"history", "rows", "done"} => order_table[t.type]

\* A table that does not exist has no rows; one that does, and that no initialisation
\* is about, is complete.
QuietTables ==
  \A ty \in Types :
    /\ ~rule_table[ty].exists => rule_table[ty].rows = <<>>
    /\ Quiet(ty) /\ rule_table[ty].exists => order_table[ty] /\ rule_table[ty].rows \in Layouts(ty)

TaskInv ==
  /\ EnoughNodes
  /\ RowsCounted
  /\ Undisturbed
  /\ TablesFollow
  /\ QuietTables
  /\ DeployedMatchesDatabase
  /\ EachCopyElsewhere

IInv ==
  /\ TypeOK
  /\ AtRest
  /\ EnoughAreDeployed
  /\ TaskInv

-----------------------------------------------------------------------------
(* The list of registered nodes: what erasing leaves, by induction.        *)

\* A pass erases something if there is something to erase.
LEMMA ErasedEntries ==
  ASSUME NEW S, NEW list \in Seq(S)
  PROVE  /\ Erased(list) \subseteq DOMAIN list
         /\ Erased(list) = {} => \A i \in DOMAIN list : ~Gone(list[i])
<1>. DEFINE K == Len(list)
            body(f, i) == i > 0 /\ Gone(list[i]) /\ ~f[i - 1]
            IsErased(f) == f = [i \in 0..K |-> body(f, i)]
            erased == CHOOSE f : IsErased(f)
            step == [n \in Nat |-> [v \in BOOLEAN |-> n > 0 /\ Gone(list[n]) /\ ~v]]
<1>1. Erased(list) = {i \in DOMAIN list : erased[i]}
  BY DEF Erased
<1>2. K \in Nat /\ DOMAIN list = 1..K
  OBVIOUS
<1>. HIDE DEF K
<1>3. IsErased(erased)
  <2>1. step \in Iterations(BOOLEAN)
    BY DEF Iterations
  <2>. HIDE DEF step
  <2>2. Iterated(K, BOOLEAN, FALSE, step) # {}
    BY <1>2, <2>1, NaturalsRecursion
  <2>3. PICK f \in [0..K -> BOOLEAN] : f[0] = FALSE /\ \A n \in 1..K : f[n] = step[n][f[n - 1]]
    BY <2>2 DEF Iterated
  <2>4. ASSUME NEW n \in 0..K PROVE f[n] = body(f, n)
    <3>1. CASE n = 0
      BY <2>3, <3>1
    <3>2. CASE n # 0
      <4>1. n \in 1..K /\ n \in Nat /\ n > 0 /\ n - 1 \in 0..K
        BY <1>2, <3>2
      <4>2. f[n - 1] \in BOOLEAN
        BY <2>3, <4>1
      <4>3. step[n][f[n - 1]] = (n > 0 /\ Gone(list[n]) /\ ~f[n - 1])
        BY <4>1, <4>2 DEF step
      <4>. QED  BY <2>3, <4>1, <4>3
    <3>. QED  BY <3>1, <3>2
  <2>. HIDE DEF body
  <2>5. IsErased(f)
    <3>1. f = [n \in 0..K |-> f[n]]
      BY <2>3
    <3>. QED  BY <2>4, <3>1 DEF IsErased
  <2>. QED  BY <2>5 DEF erased
<1>. HIDE DEF erased
<1>4. \A i \in 0..K : erased[i] = body(erased, i)
  <2>. HIDE DEF body
  <2>. QED  BY <1>3
<1>5. ASSUME NEW i \in DOMAIN list, Gone(list[i]) PROVE Erased(list) # {}
  <2>1. i \in 1..K /\ i \in 0..K /\ i > 0 /\ i - 1 \in 0..K
    BY <1>2
  <2>2. CASE erased[i]
    BY <1>1, <2>2
  <2>3. CASE ~erased[i]
    <3>1. erased[i - 1]
      BY <1>4, <1>5, <2>1, <2>3
    <3>2. i - 1 > 0
      BY <1>4, <2>1, <3>1
    <3>3. i - 1 \in DOMAIN list
      BY <1>2, <2>1, <3>2
    <3>. QED  BY <1>1, <3>1, <3>3
  <2>. QED  BY <2>2, <2>3
<1>. QED  BY <1>1, <1>5

\* It keeps the rest.
LEMMA KeptEntries ==
  ASSUME NEW S, NEW list \in Seq(S)
  PROVE  /\ Kept(list) \in Seq(S)
         /\ IF Erased(list) = {} THEN Kept(list) = list ELSE Len(Kept(list)) < Len(list)
<1>. DEFINE K == Len(list)
            V == Seq(S)
            body(f, i) == IF i = 0 THEN <<>>
                          ELSE IF i \in Erased(list) THEN f[i - 1] ELSE Append(f[i - 1], list[i])
            IsKept(f) == f = [i \in 0..K |-> body(f, i)]
            kept == CHOOSE f : IsKept(f)
            step == [n \in Nat |-> [v \in V |->
                       IF n \in Erased(list) \/ n \notin 1..K THEN v ELSE Append(v, list[n])]]
<1>1. Kept(list) = kept[K]
  BY DEF Kept
<1>2. /\ K \in Nat /\ DOMAIN list = 1..K /\ \A i \in 1..K : list[i] \in S
      /\ <<>> \in V /\ Len(<<>>) = 0
  OBVIOUS
<1>3. Erased(list) \subseteq 1..K
  BY <1>2, ErasedEntries
<1>. HIDE DEF K
<1>4. IsKept(kept)
  <2>1. step \in Iterations(V)
    BY <1>2 DEF Iterations
  <2>. HIDE DEF step, V
  <2>2. Iterated(K, V, <<>>, step) # {}
    BY <1>2, <2>1, NaturalsRecursion
  <2>3. PICK f \in [0..K -> V] : f[0] = <<>> /\ \A n \in 1..K : f[n] = step[n][f[n - 1]]
    BY <2>2 DEF Iterated
  <2>. HIDE DEF V
  <2>4. ASSUME NEW n \in 0..K PROVE f[n] = body(f, n)
    <3>1. CASE n = 0
      BY <2>3, <3>1
    <3>2. CASE n # 0
      <4>1. n \in 1..K /\ n \in Nat /\ n - 1 \in 0..K
        BY <1>2, <3>2
      <4>2. f[n - 1] \in V
        BY <2>3, <4>1
      <4>3. step[n][f[n - 1]] = IF n \in Erased(list) THEN f[n - 1] ELSE Append(f[n - 1], list[n])
        BY <4>1, <4>2 DEF step
      <4>. QED  BY <2>3, <3>2, <4>1, <4>3
    <3>. QED  BY <3>1, <3>2
  <2>. HIDE DEF body
  <2>5. IsKept(f)
    <3>1. f = [n \in 0..K |-> f[n]]
      BY <2>3
    <3>. QED  BY <2>4, <3>1 DEF IsKept
  <2>. QED  BY <2>5 DEF kept
<1>. HIDE DEF kept
<1>5. /\ kept[0] = <<>>
      /\ \A n \in 1..K : kept[n] = IF n \in Erased(list) THEN kept[n - 1]
                                                         ELSE Append(kept[n - 1], list[n])
  <2>1. \A i \in 0..K : kept[i] = body(kept, i)
    <3>. HIDE DEF body
    <3>. QED  BY <1>4
  <2>2. 0 \in 0..K /\ \A n \in 1..K : n \in 0..K /\ n # 0
    BY <1>2
  <2>. QED  BY <2>1, <2>2
<1>. DEFINE Good(n) == /\ kept[n] \in V /\ Len(kept[n]) <= n
                       /\ IF \E i \in 1..n : i \in Erased(list)
                          THEN Len(kept[n]) < n
                          ELSE Len(kept[n]) = n /\ \A i \in 1..n : kept[n][i] = list[i]
            T == {n \in Nat : n <= K => Good(n)}
<1>6. 0 \in T
  <2>1. Good(0)
    BY <1>2, <1>5
  <2>. QED  BY <2>1
<1>7. ASSUME NEW n \in T PROVE n + 1 \in T
  <2>. SUFFICES ASSUME n + 1 <= K PROVE Good(n + 1)
    OBVIOUS
  <2>1. n \in Nat /\ n + 1 \in 1..K /\ (n + 1) - 1 = n /\ Good(n)
    BY <1>2
  <2>. HIDE DEF T
  <2>2. \A i \in 1..(n + 1) : i = n + 1 \/ i \in 1..n
    BY <2>1
  <2>3. 1..n \subseteq 1..(n + 1) /\ n + 1 \in 1..(n + 1)
    BY <2>1
  <2>4. CASE n + 1 \in Erased(list)
    <3>1. kept[n + 1] = kept[n]
      BY <1>5, <2>1, <2>4
    <3>2. Len(kept[n]) < n + 1 /\ Len(kept[n]) <= n + 1 /\ kept[n] \in V
      BY <2>1
    <3>. QED  BY <2>3, <2>4, <3>1, <3>2
  <2>5. CASE n + 1 \notin Erased(list)
    <3>1. kept[n + 1] = Append(kept[n], list[n + 1]) /\ list[n + 1] \in S
      BY <1>2, <1>5, <2>1, <2>5
    <3>2. /\ kept[n] \in Seq(S)
          /\ kept[n + 1] \in Seq(S) /\ Len(kept[n + 1]) = Len(kept[n]) + 1
          /\ kept[n + 1][Len(kept[n]) + 1] = list[n + 1]
          /\ \A i \in 1..Len(kept[n]) : kept[n + 1][i] = kept[n][i]
      BY <2>1, <3>1
    <3>3. CASE \E i \in 1..n : i \in Erased(list)
      BY <2>1, <2>3, <3>2, <3>3
    <3>4. CASE ~\E i \in 1..n : i \in Erased(list)
      <4>1. Len(kept[n]) = n /\ \A i \in 1..n : kept[n][i] = list[i]
        BY <2>1, <3>4
      <4>2. ~\E i \in 1..(n + 1) : i \in Erased(list)
        BY <2>2, <2>5, <3>4
      <4>3. \A i \in 1..(n + 1) : kept[n + 1][i] = list[i]
        BY <2>2, <3>2, <4>1
      <4>. QED  BY <2>1, <3>2, <4>1, <4>2, <4>3
    <3>. QED  BY <3>3, <3>4
  <2>. QED  BY <2>4, <2>5
<1>8. T \in SUBSET Nat
  OBVIOUS
<1>. HIDE DEF T
<1>9. T = Nat
  BY <1>6, <1>7, <1>8, NaturalsSet
<1>10. Good(K)
  BY <1>2, <1>9 DEF T
<1>11. CASE Erased(list) = {}
  <2>1. Len(kept[K]) = K /\ \A i \in 1..K : kept[K][i] = list[i]
    BY <1>10, <1>11
  <2>2. kept[K] = list
    BY <1>2, <1>10, <2>1, SeqEqual DEF K
  <2>. QED  BY <1>1, <1>10, <1>11, <2>2
<1>12. CASE Erased(list) # {}
  <2>1. \E i \in 1..K : i \in Erased(list)
    BY <1>3, <1>12
  <2>. QED  BY <1>1, <1>10, <1>12, <2>1 DEF K
<1>. QED  BY <1>11, <1>12

\* The list gets shorter unless all its nodes are there.
LEMMA PurgedEntries ==
  ASSUME NEW S, NEW list \in Seq(S)
  PROVE  /\ Purge(list) \in Seq(S)
         /\ \/ Len(Purge(list)) < Len(list)
            \/ Purge(list) = list /\ \A i \in DOMAIN list : ~Gone(list[i])
<1>. DEFINE K == Len(list)
            V == Seq(S)
            next(l) == IF Len(l) \in Erased(l) THEN Kept(l) ELSE l
            body(f, n) == IF n = 0 THEN list ELSE next(f[n - 1])
            IsPassed(f) == f = [n \in 0..K |-> body(f, n)]
            passed == CHOOSE f : IsPassed(f)
            step == [n \in Nat |-> [v \in V |-> next(v)]]
<1>1. Purge(list) = Kept(passed[K])
  BY DEF Purge
<1>2. K \in Nat
  OBVIOUS
<1>. HIDE DEF K
<1>3. \A l \in V : next(l) \in V /\ (next(l) = l \/ Len(next(l)) < Len(l))
  BY KeptEntries
<1>. HIDE DEF next
<1>4. IsPassed(passed)
  <2>1. step \in Iterations(V)
    BY <1>3 DEF Iterations
  <2>. HIDE DEF step
  <2>2. Iterated(K, V, list, step) # {}
    BY <1>2, <2>1, NaturalsRecursion
  <2>3. PICK f \in [0..K -> V] : f[0] = list /\ \A n \in 1..K : f[n] = step[n][f[n - 1]]
    BY <2>2 DEF Iterated
  <2>. HIDE DEF V
  <2>4. ASSUME NEW n \in 0..K PROVE f[n] = body(f, n)
    <3>1. CASE n = 0
      BY <2>3, <3>1
    <3>2. CASE n # 0
      <4>1. n \in 1..K /\ n \in Nat /\ n - 1 \in 0..K
        BY <1>2, <3>2
      <4>2. f[n - 1] \in V
        BY <2>3, <4>1
      <4>3. step[n][f[n - 1]] = next(f[n - 1])
        BY <4>1, <4>2 DEF step
      <4>. QED  BY <2>3, <3>2, <4>1, <4>3
    <3>. QED  BY <3>1, <3>2
  <2>. HIDE DEF body
  <2>5. IsPassed(f)
    <3>1. f = [n \in 0..K |-> f[n]]
      BY <2>3
    <3>. QED  BY <2>4, <3>1 DEF IsPassed
  <2>. QED  BY <2>5 DEF passed
<1>. HIDE DEF passed
<1>5. passed[0] = list /\ \A n \in 1..K : passed[n] = next(passed[n - 1])
  <2>1. \A n \in 0..K : passed[n] = body(passed, n)
    <3>. HIDE DEF body
    <3>. QED  BY <1>4
  <2>2. 0 \in 0..K /\ \A n \in 1..K : n \in 0..K /\ n # 0
    BY <1>2
  <2>. QED  BY <2>1, <2>2
<1>. DEFINE Good(n) == passed[n] \in V /\ (passed[n] = list \/ Len(passed[n]) < K)
            T == {n \in Nat : n <= K => Good(n)}
<1>6. 0 \in T
  BY <1>5
<1>7. ASSUME NEW n \in T PROVE n + 1 \in T
  <2>. SUFFICES ASSUME n + 1 <= K PROVE Good(n + 1)
    OBVIOUS
  <2>1. n \in Nat /\ n + 1 \in 1..K /\ (n + 1) - 1 = n /\ Good(n)
    BY <1>2
  <2>. HIDE DEF T
  <2>2. passed[n + 1] = next(passed[n])
    BY <1>5, <2>1
  <2>3. passed[n + 1] \in V /\ (passed[n + 1] = passed[n] \/ Len(passed[n + 1]) < Len(passed[n]))
    BY <1>3, <2>1, <2>2
  <2>4. Len(passed[n]) \in Nat /\ Len(passed[n + 1]) \in Nat
    BY <2>1, <2>3
  <2>5. passed[n] = list => Len(passed[n]) = K
    BY DEF K
  <2>. QED  BY <1>2, <2>1, <2>3, <2>4, <2>5
<1>8. T \in SUBSET Nat
  OBVIOUS
<1>. HIDE DEF T
<1>9. T = Nat
  BY <1>6, <1>7, <1>8, NaturalsSet
<1>10. passed[K] \in V /\ (passed[K] = list \/ Len(passed[K]) < K)
  BY <1>2, <1>9 DEF T
<1>11. /\ Kept(passed[K]) \in V
       /\ IF Erased(passed[K]) = {} THEN Kept(passed[K]) = passed[K]
                                    ELSE Len(Kept(passed[K])) < Len(passed[K])
  BY <1>10, KeptEntries
<1>12. CASE Len(passed[K]) < K
  <2>1. Len(passed[K]) \in Nat /\ Len(Kept(passed[K])) \in Nat
    BY <1>10, <1>11
  <2>. QED  BY <1>1, <1>2, <1>11, <1>12, <2>1 DEF K
<1>13. CASE passed[K] = list
  BY <1>1, <1>11, <1>13, ErasedEntries
<1>. QED  BY <1>10, <1>12, <1>13

-----------------------------------------------------------------------------
(* Layouts.                                                                *)

\* Different places less than n apart have different remainders modulo n.
LEMMA DistinctRemainders ==
  ASSUME NEW n \in Nat \ {0}, NEW x \in Nat, NEW j \in 0..n - 1, NEW k \in 0..n - 1,
         (x + j) % n = (x + k) % n
  PROVE  j = k
<1>1. ASSUME NEW a \in Nat
      PROVE  a % n \in 0..n - 1 /\ a \div n \in Nat /\ a = n * (a \div n) + (a % n)
  OBVIOUS
<1>2. ASSUME NEW p \in Nat, NEW q \in Nat, p < q PROVE n * q >= n * p + n
  <2>1. PICK d \in Nat : q = p + 1 + d
    <3>1. q - p - 1 \in Nat /\ q = p + 1 + (q - p - 1)
      BY <1>2
    <3>. QED  BY <3>1
  <2>2. n * q = n * p + n + n * d /\ n * d \in Nat
    BY <2>1
  <2>. QED  BY <2>2
<1>. DEFINE p == (x + j) \div n
            q == (x + k) \div n
            r == (x + j) % n
<1>3. /\ p \in Nat /\ q \in Nat /\ r \in 0..n - 1
      /\ x + j = n * p + r /\ x + k = n * q + r
      /\ n * p \in Nat /\ n * q \in Nat
  <2>1. x + j \in Nat /\ x + k \in Nat
    OBVIOUS
  <2>. QED  BY <1>1, <2>1
<1>. HIDE DEF p, q, r
<1>4. ~(p < q)
  <2>. SUFFICES ASSUME p < q PROVE FALSE
    OBVIOUS
  <2>1. n * q >= n * p + n
    BY <1>2, <1>3
  <2>. QED  BY <1>3, <2>1
<1>5. ~(q < p)
  <2>. SUFFICES ASSUME q < p PROVE FALSE
    OBVIOUS
  <2>1. n * p >= n * q + n
    BY <1>2, <1>3
  <2>. QED  BY <1>3, <2>1
<1>6. p = q
  BY <1>3, <1>4, <1>5
<1>. QED  BY <1>3, <1>6

\* A layout has rules for all buckets, and the copies of a bucket are on different
\* nodes if the list has no node twice.
LEMMA LaidOutBuckets ==
  ASSUME NEW ty \in Types, NEW list \in Seq(Nodes), Len(list) >= dup[ty]
  PROVE  /\ layout_all_bucket(ty, list) \in Layouts(ty)
         /\ IsInjective(list) => \A b \in 0..2 ^ mod[ty] - 1 :
                                   IsInjective(layout_all_bucket(ty, list)[b])
<1>. DEFINE L == Len(list)
            D == dup[ty]
            M == 2 ^ mod[ty]
            place(b, j) == (b * D + j) % L
<1>1. D \in Nat \ {0} /\ L \in Nat \ {0} /\ D <= L /\ M \in Nat
  <2>1. D \in Nat \ {0} /\ mod[ty] \in Nat
    BY RegistrationAssumption
  <2>. QED  BY <2>1, PowersOfTwo
<1>2. \A i \in 1..L : list[i] \in Nodes
  OBVIOUS
<1>3. layout_all_bucket(ty, list) = [b \in 0..M - 1 |-> [j \in 0..D - 1 |-> list[1 + place(b, j)]]]
  BY DEF layout_all_bucket
<1>4. DOMAIN list = 1..L
  OBVIOUS
<1>5. Layouts(ty) = [0..M - 1 -> [0..D - 1 -> Nodes]]
  BY DEF Layouts
<1>. HIDE DEF L, D, M
<1>6. \A b \in 0..M - 1 : \A j \in 0..D - 1 : b * D + j \in Nat /\ b * D \in Nat
  BY <1>1
<1>7. \A b \in 0..M - 1 : \A j \in 0..D - 1 : place(b, j) \in 0..L - 1
  BY <1>1, <1>6
<1>8. layout_all_bucket(ty, list) \in Layouts(ty)
  <2>1. \A b \in 0..M - 1 : \A j \in 0..D - 1 : list[1 + place(b, j)] \in Nodes
    <3>1. \A p \in 0..L - 1 : list[1 + p] \in Nodes
      BY <1>1, <1>2
    <3>. HIDE DEF place
    <3>. QED  BY <1>7, <3>1
  <2>. HIDE DEF place
  <2>. QED  BY <1>3, <1>5, <2>1
<1>9. ASSUME IsInjective(list), NEW b \in 0..M - 1
      PROVE  IsInjective(layout_all_bucket(ty, list)[b])
  <2>1. layout_all_bucket(ty, list)[b] = [j \in 0..D - 1 |-> list[1 + place(b, j)]]
    <3>. HIDE DEF place
    <3>. QED  BY <1>3
  <2>2. ASSUME NEW j \in 0..D - 1, NEW k \in 0..D - 1, list[1 + place(b, j)] = list[1 + place(b, k)]
        PROVE  j = k
    <3>1. place(b, j) \in 0..L - 1 /\ place(b, k) \in 0..L - 1
      BY <1>7
    <3>2. place(b, j) = place(b, k)
      <4>. HIDE DEF place
      <4>1. 1 + place(b, j) \in DOMAIN list /\ 1 + place(b, k) \in DOMAIN list
        BY <1>1, <1>4, <3>1
      <4>2. 1 + place(b, j) = 1 + place(b, k)
        BY <1>9, <2>2, <4>1 DEF IsInjective
      <4>. QED  BY <3>1, <4>2
    <3>3. j \in 0..L - 1 /\ k \in 0..L - 1 /\ b * D \in Nat
      BY <1>1, <1>6
    <3>. QED  BY <1>1, <3>2, <3>3, DistinctRemainders
  <2>. HIDE DEF place
  <2>. QED  BY <2>1, <2>2 DEF IsInjective
<1>. QED  BY <1>5, <1>8, <1>9 DEF M

\* The rules of some of the buckets, and of none.
LEMMA PartialLayout ==
  ASSUME NEW ty \in Types, NEW f
  PROVE  f \in Partial(ty) <=> /\ f = [b \in DOMAIN f |-> f[b]]
                               /\ DOMAIN f \subseteq 0..2 ^ mod[ty] - 1
                               /\ \A b \in DOMAIN f : f[b] \in Copies(ty)
<1>1. ASSUME f \in Partial(ty)
      PROVE  /\ f = [b \in DOMAIN f |-> f[b]] /\ DOMAIN f \subseteq 0..2 ^ mod[ty] - 1
             /\ \A b \in DOMAIN f : f[b] \in Copies(ty)
  <2>1. PICK D \in SUBSET (0..2 ^ mod[ty] - 1) : f \in [D -> Copies(ty)]
    BY <1>1 DEF Partial
  <2>. QED  BY <2>1
<1>2. ASSUME f = [b \in DOMAIN f |-> f[b]], DOMAIN f \subseteq 0..2 ^ mod[ty] - 1,
             \A b \in DOMAIN f : f[b] \in Copies(ty)
      PROVE  f \in Partial(ty)
  <2>1. f \in [DOMAIN f -> Copies(ty)] /\ DOMAIN f \in SUBSET (0..2 ^ mod[ty] - 1)
    BY <1>2
  <2>. QED  BY <2>1 DEF Partial
<1>. QED  BY <1>1, <1>2

LEMMA EmptyLayout ==
  ASSUME NEW ty \in Types
  PROVE  <<>> \in Partial(ty) /\ DOMAIN <<>> = {}
<1>1. DOMAIN <<>> = {} /\ <<>> = [b \in {} |-> <<>>[b]]
  OBVIOUS
<1>. QED  BY <1>1, PartialLayout

\* All the rules.
LEMMA FullLayout ==
  ASSUME NEW ty \in Types, NEW f \in Partial(ty), DOMAIN f = 0..2 ^ mod[ty] - 1
  PROVE  f \in Layouts(ty) /\ Cardinality(DOMAIN f) = 2 ^ mod[ty]
<1>1. f \in Layouts(ty)
  <2>1. f = [b \in DOMAIN f |-> f[b]] /\ \A b \in DOMAIN f : f[b] \in Copies(ty)
    BY PartialLayout
  <2>. QED  BY <2>1 DEF Layouts, Copies
<1>2. 2 ^ mod[ty] \in Nat
  BY RegistrationAssumption, PowersOfTwo
<1>3. Cardinality(0..2 ^ mod[ty] - 1) = 2 ^ mod[ty]
  <2>1. \A m \in Nat : Cardinality(0..m - 1) = m
    <3>. SUFFICES ASSUME NEW m \in Nat PROVE Cardinality(0..m - 1) = m
      OBVIOUS
    <3>1. Cardinality(0..m - 1) = IF 0 > m - 1 THEN 0 ELSE (m - 1) - 0 + 1
      BY FS_Interval
    <3>. QED  BY <3>1
  <2>. QED  BY <1>2, <2>1
<1>. QED  BY <1>1, <1>3

\* The rule of one more bucket.
LEMMA AddRow ==
  ASSUME NEW ty \in Types, NEW f \in Partial(ty), NEW b \in 0..2 ^ mod[ty] - 1,
         NEW g, g[b] \in Copies(ty)
  PROVE  [c \in DOMAIN f \cup {b} |-> IF c = b THEN g[c] ELSE f[c]] \in Partial(ty)
<1>. DEFINE h == [c \in DOMAIN f \cup {b} |-> IF c = b THEN g[c] ELSE f[c]]
<1>1. /\ DOMAIN f \subseteq 0..2 ^ mod[ty] - 1
      /\ \A c \in DOMAIN f : f[c] \in Copies(ty)
  BY PartialLayout
<1>2. /\ DOMAIN h = DOMAIN f \cup {b} /\ h = [c \in DOMAIN h |-> h[c]]
      /\ \A c \in DOMAIN h : h[c] = IF c = b THEN g[c] ELSE f[c]
  OBVIOUS
<1>. HIDE DEF h
<1>3. \A c \in DOMAIN h : h[c] \in Copies(ty)
  BY <1>1, <1>2
<1>4. h \in Partial(ty)
  BY <1>1, <1>2, <1>3, PartialLayout
<1>. QED  BY <1>4 DEF h

-----------------------------------------------------------------------------
(* The tasks.  What a step means for them depends on the task it is about. *)

\* What is said of one type.
TypeQuiet(ty) ==
  /\ ~rule_table[ty].exists => rule_table[ty].rows = <<>>
  /\ Quiet(ty) => /\ rule_table[ty].exists => order_table[ty] /\ rule_table[ty].rows \in Layouts(ty)
                  /\ up => /\ m_hash_table[ty] = rule_table[ty].rows
                           /\ m_current_bucket_number[ty] = Cardinality(DOMAIN rule_table[ty].rows)
  /\ ty \notin doubled => \A b \in DOMAIN rule_table[ty].rows : IsInjective(rule_table[ty].rows[b])

\* What is said of one task.
TaskOK(t) ==
  /\ Len(t.list) >= dup[t.type]
  /\ t.type \notin doubled => IsInjective(t.list)
  /\ Counted(t)
  /\ t.step \in Failing => t.type \in disturbed
  /\ t.type \notin disturbed =>
       /\ t.step \in {"drop_order", "create_order", "history", "rows", "done"} => LaidOut(t)
       /\ t.step \in {"history", "rows", "done"} => order_table[t.type]

TaskParts ==
  /\ \A ty \in Types : TypeQuiet(ty)
  /\ \A t \in task : TaskOK(t)
  /\ \A t, u \in task : t.type = u.type /\ t.type \notin disturbed => t = u

\* The invariant says it of all of them.
LEMMA TaskInvParts == TaskInv <=> TaskParts
<1>1. ASSUME TaskInv PROVE TaskParts
  <2>1. \A ty \in Types : TypeQuiet(ty)
    BY <1>1 DEF TaskInv, QuietTables, DeployedMatchesDatabase, EachCopyElsewhere, TypeQuiet
  <2>2. \A t \in task : TaskOK(t)
    BY <1>1 DEF TaskInv, EnoughNodes, RowsCounted, Undisturbed, TablesFollow, TaskOK
  <2>. QED  BY <1>1, <2>1, <2>2 DEF TaskInv, Undisturbed, TaskParts
<1>2. ASSUME TaskParts PROVE TaskInv
  <2>1. EnoughNodes /\ RowsCounted /\ Undisturbed /\ TablesFollow
    BY <1>2 DEF TaskParts, EnoughNodes, RowsCounted, Undisturbed, TablesFollow, TaskOK
  <2>2. QuietTables
    BY <1>2 DEF TaskParts, QuietTables, TypeQuiet
  <2>3. DeployedMatchesDatabase
    <3>. SUFFICES ASSUME up, NEW ty \in Types, Quiet(ty)
                  PROVE  /\ m_hash_table[ty] = rule_table[ty].rows
                         /\ m_current_bucket_number[ty] = Cardinality(DOMAIN rule_table[ty].rows)
                         /\ rule_table[ty].exists =>
                              order_table[ty] /\ rule_table[ty].rows \in Layouts(ty)
      BY DEF DeployedMatchesDatabase
    <3>. QED  BY <1>2 DEF TaskParts, TypeQuiet
  <2>4. EachCopyElsewhere
    BY <1>2 DEF TaskParts, EachCopyElsewhere, TypeQuiet
  <2>. QED  BY <2>1, <2>2, <2>3, <2>4 DEF TaskInv
<1>. QED  BY <1>1, <1>2

LEMMA TaskInvNext == TaskInv' <=> TaskParts'
BY TaskInvParts, PTL

TaskVars == <<task, memory, database, up, doubled, disturbed>>

\* Steps that leave tasks and tables alone.
LEMMA TasksKept ==
  ASSUME TableTypes, TaskInv, UNCHANGED TaskVars
  PROVE  TableTypes' /\ TaskInv'
<1>0. /\ task' = task /\ m_hash_table' = m_hash_table
      /\ m_current_bucket_number' = m_current_bucket_number
      /\ rule_table' = rule_table /\ order_table' = order_table /\ up' = up
      /\ doubled' = doubled /\ disturbed' = disturbed
  BY DEF TaskVars, memory, database
<1>1. TableTypes'
  BY <1>0 DEF TableTypes
<1>2. \A ty : Quiet(ty)' = Quiet(ty)
  BY <1>0 DEF Quiet, UnderWay
<1>3. \A ty \in Types : TypeQuiet(ty)'
  BY <1>0, <1>2, TaskInvParts DEF TaskParts, TypeQuiet
<1>4. \A t \in task' : TaskOK(t)'
  BY <1>0, TaskInvParts DEF TaskParts, TaskOK, LaidOut
<1>5. \A t, u \in task' : t.type = u.type /\ t.type \notin disturbed' => t = u
  BY <1>0, TaskInvParts DEF TaskParts
<1>. QED  BY <1>1, <1>3, <1>4, <1>5, TaskInvNext DEF TaskParts

\* A new task begins.
LEMMA TaskBegins ==
  ASSUME TableTypes, TaskInv,
         NEW ty \in Types, NEW list \in Seq(Nodes), NEW id \in Nat, Len(list) >= dup[ty],
         NewTask(ty, list, id), UNCHANGED <<memory, database, up>>
  PROVE  TableTypes' /\ TaskInv'
<1>. DEFINE new == [type |-> ty, list |-> list, id |-> id, step |-> "drop_rule", row |-> 0]
<1>0. /\ m_hash_table' = m_hash_table /\ m_current_bucket_number' = m_current_bucket_number
      /\ rule_table' = rule_table /\ order_table' = order_table /\ up' = up
  BY DEF memory, database
<1>1. /\ task' = task \cup {new}
      /\ doubled' = IF IsInjective(list) THEN doubled ELSE doubled \cup {ty}
      /\ disturbed' = IF UnderWay(ty) = {} THEN disturbed \ {ty} ELSE disturbed \cup {ty}
  BY DEF NewTask
<1>2. /\ new.type = ty /\ new.list = list /\ new.step = "drop_rule" /\ new.row = 0
      /\ new \in Tasks
  BY DEF Tasks, Begun
<1>. HIDE DEF new
<1>3. TableTypes'
  BY <1>0, <1>1, <1>2 DEF TableTypes
<1>4. \A u \in task : TaskOK(u)
  BY TaskInvParts DEF TaskParts
<1>5. /\ \A u \in task : u.type = ty => UnderWay(ty) # {}
      /\ \A u \in task : u.type \in disturbed => u.type \in disturbed'
      /\ \A u \in task : u.type \notin disturbed' => u.type \notin disturbed /\ u.type # ty
  BY <1>1 DEF UnderWay
<1>6. ASSUME NEW u \in task' PROVE TaskOK(u)'
  <2>1. CASE u = new
    <3>1. Counted(new)
      BY <1>2 DEF Counted, Begun
    <3>. QED  BY <1>1, <1>2, <2>1, <3>1 DEF TaskOK, Counted, Failing
  <2>2. CASE u \in task
    <3>1. LaidOut(u)' = LaidOut(u)
      BY <1>0 DEF LaidOut
    <3>. QED  BY <1>0, <1>1, <1>4, <1>5, <2>2, <3>1 DEF TaskOK
  <2>. QED  BY <1>1, <2>1, <2>2
<1>7. ASSUME NEW u \in task', NEW v \in task', u.type = v.type, u.type \notin disturbed'
      PROVE  u = v
  <2>1. CASE u.type = ty
    BY <1>1, <1>5, <1>7, <2>1
  <2>2. CASE u.type # ty
    <3>1. u \in task /\ v \in task /\ u.type \notin disturbed
      BY <1>1, <1>2, <1>7, <2>2
    <3>. QED  BY <1>7, <3>1, TaskInvParts DEF TaskParts
  <2>. QED  BY <2>1, <2>2
<1>8. ASSUME NEW other \in Types PROVE TypeQuiet(other)'
  <2>1. TypeQuiet(other)
    BY TaskInvParts DEF TaskParts
  <2>2. Quiet(other)' => Quiet(other)
    BY <1>1, <1>2 DEF Quiet, UnderWay
  <2>. QED  BY <1>0, <1>1, <2>1, <2>2 DEF TypeQuiet
<1>. QED  BY <1>3, <1>6, <1>7, <1>8, TaskInvNext DEF TaskParts

\* A statement of a task: what it does to the tables of its type is right if what the
\* task is then is.
LEMMA TaskProceeds ==
  ASSUME TableTypes, TaskInv,
         NEW t \in task, NEW new \in Tasks, new.type = t.type, new.list = t.list,
         Becomes(t, new), UNCHANGED <<memory, up, doubled>>,
         NEW R \in [exists : BOOLEAN, rows : Partial(t.type)], NEW O \in BOOLEAN,
         rule_table' = [rule_table EXCEPT ![t.type] = R],
         order_table' = [order_table EXCEPT ![t.type] = O],
         disturbed' = disturbed \/ disturbed' = disturbed \cup {t.type},
         ~R.exists => R.rows = <<>>,
         t.type \notin doubled => \A b \in DOMAIN R.rows : IsInjective(R.rows[b]),
         Counted(new),
         new.step \in Failing => t.type \in disturbed',
         t.type \notin disturbed' =>
           /\ new.step \in {"drop_order", "create_order", "history", "rows", "done"} =>
                /\ R.exists
                /\ DOMAIN R.rows = 0..new.row - 1
                /\ \A b \in DOMAIN R.rows : R.rows[b] = layout_all_bucket(t.type, t.list)[b]
           /\ new.step \in {"history", "rows", "done"} => O
  PROVE  TableTypes' /\ TaskInv'
<1>. DEFINE ty == t.type
            Tables == [exists : BOOLEAN, rows : UNION {Partial(u) : u \in Types}]
<1>0. /\ m_hash_table' = m_hash_table /\ m_current_bucket_number' = m_current_bucket_number
      /\ up' = up /\ doubled' = doubled /\ task' = (task \ {t}) \cup {new}
  BY DEF memory, Becomes
<1>1. /\ ty \in Types /\ task \subseteq Tasks
      /\ rule_table \in [Types -> Tables] /\ order_table \in [Types -> BOOLEAN]
      /\ disturbed \subseteq Types /\ doubled \subseteq Types
  BY DEF TableTypes, Tasks
<1>2. /\ rule_table'[ty] = R /\ order_table'[ty] = O
      /\ \A other \in Types \ {ty} : /\ rule_table'[other] = rule_table[other]
                                     /\ order_table'[other] = order_table[other]
  BY <1>1
<1>3. R.rows \in Partial(ty) /\ R.exists \in BOOLEAN
  OBVIOUS
<1>4. /\ rule_table' \in [Types -> Tables] /\ order_table' \in [Types -> BOOLEAN]
      /\ disturbed' \subseteq Types
  <2>1. R \in Tables
    BY <1>1
  <2>. HIDE DEF Tables, ty
  <2>. QED  BY <1>1, <2>1 DEF ty
<1>. HIDE DEF ty
<1>5. TableTypes'
  <2>1. \A other \in Types : rule_table'[other].rows \in Partial(other)
    BY <1>1, <1>2, <1>3 DEF TableTypes
  <2>. QED  BY <1>0, <1>1, <1>4, <2>1 DEF TableTypes
<1>6. TaskOK(t) /\ \A u \in task : TaskOK(u)
  BY TaskInvParts DEF TaskParts
<1>7. ASSUME NEW u \in task', NEW v \in task', u.type = v.type, u.type \notin disturbed'
      PROVE  u = v /\ (u.type = ty => u = new)
  <2>1. u.type \notin disturbed
    BY <1>7
  <2>2. \A w \in task : w.type = ty /\ w.type \notin disturbed => w = t
    BY TaskInvParts DEF TaskParts, ty
  <2>3. CASE u.type = ty
    BY <1>0, <1>7, <2>1, <2>2, <2>3
  <2>4. CASE u.type # ty
    <3>1. u \in task /\ v \in task
      BY <1>0, <1>7, <2>4 DEF ty
    <3>. QED  BY <1>7, <2>1, <2>4, <3>1, TaskInvParts DEF TaskParts
  <2>. QED  BY <2>3, <2>4
<1>8. ASSUME NEW u \in task' PROVE TaskOK(u)'
  <2>1. CASE u = new
    <3>1. Len(new.list) >= dup[new.type] /\ (new.type \notin doubled => IsInjective(new.list))
      BY <1>6 DEF TaskOK
    <3>2. rule_table'[new.type] = R /\ order_table'[new.type] = O
      BY <1>2 DEF ty
    <3>3. ASSUME new.type \notin disturbed'
          PROVE  /\ new.step \in {"drop_order", "create_order", "history", "rows", "done"} =>
                      LaidOut(new)'
                 /\ new.step \in {"history", "rows", "done"} => order_table'[new.type]
      BY <3>2, <3>3 DEF LaidOut
    <3>. QED  BY <1>0, <2>1, <3>1, <3>3 DEF TaskOK, Counted
  <2>2. CASE u # new
    <3>1. u \in task /\ TaskOK(u)
      BY <1>0, <1>6, <2>2
    <3>2. u.type \in disturbed => u.type \in disturbed'
      OBVIOUS
    <3>3. ASSUME u.type \notin disturbed'
          PROVE  /\ u.step \in {"drop_order", "create_order", "history", "rows", "done"} =>
                      LaidOut(u)'
                 /\ u.step \in {"history", "rows", "done"} => order_table'[u.type]
      <4>1. u.type # ty /\ u.type \in Types
        BY <1>1, <1>7, <2>2, <3>1, <3>3 DEF Tasks
      <4>2. rule_table'[u.type] = rule_table[u.type] /\ order_table'[u.type] = order_table[u.type]
        BY <1>2, <4>1
      <4>3. u.type \notin disturbed
        BY <3>2, <3>3
      <4>. QED  BY <3>1, <4>2, <4>3 DEF TaskOK, LaidOut
    <3>. QED  BY <1>0, <3>1, <3>2, <3>3 DEF TaskOK, Counted
  <2>. QED  BY <2>1, <2>2
<1>9. ASSUME NEW other \in Types PROVE TypeQuiet(other)'
  <2>1. TypeQuiet(other)
    BY TaskInvParts DEF TaskParts
  <2>2. CASE other = ty
    <3>1. ~Quiet(ty)'
      BY <1>0 DEF Quiet, UnderWay, ty
    <3>. QED  BY <1>0, <1>2, <2>2, <3>1 DEF TypeQuiet, ty
  <2>3. CASE other # ty
    <3>1. Quiet(other)' => Quiet(other)
      BY <1>0, <2>3 DEF Quiet, UnderWay, ty
    <3>2. rule_table'[other] = rule_table[other] /\ order_table'[other] = order_table[other]
      BY <1>2, <2>3
    <3>. QED  BY <1>0, <2>1, <3>1, <3>2 DEF TypeQuiet
  <2>. QED  BY <2>2, <2>3
<1>10. \A u, v \in task' : u.type = v.type /\ u.type \notin disturbed' => u = v
  BY <1>7
<1>. QED  BY <1>5, <1>8, <1>9, <1>10, TaskInvNext DEF TaskParts

\* A task is gone: memory has what the tables have, if nothing disturbed it.
LEMMA TaskLeaves ==
  ASSUME TableTypes, TaskInv,
         NEW t \in task, task' = task \ {t}, UNCHANGED <<database, up, doubled, disturbed>>,
         NEW H \in Partial(t.type), NEW n \in Nat,
         m_hash_table' = [m_hash_table EXCEPT ![t.type] = H],
         m_current_bucket_number' = [m_current_bucket_number EXCEPT ![t.type] = n],
         t.type \notin disturbed =>
           /\ H = rule_table[t.type].rows /\ n = Cardinality(DOMAIN rule_table[t.type].rows)
           /\ order_table[t.type] /\ rule_table[t.type].rows \in Layouts(t.type)
  PROVE  TableTypes' /\ TaskInv'
<1>. DEFINE ty == t.type
<1>0. /\ rule_table' = rule_table /\ order_table' = order_table /\ up' = up
      /\ doubled' = doubled /\ disturbed' = disturbed
  BY DEF database
<1>1. /\ ty \in Types /\ task \subseteq Tasks
      /\ m_hash_table = [u \in Types |-> m_hash_table[u]]
      /\ m_current_bucket_number \in [Types -> Nat]
  BY DEF TableTypes, Tasks
<1>. HIDE DEF ty
<1>2. /\ m_hash_table'[ty] = H /\ m_current_bucket_number'[ty] = n
      /\ m_hash_table' = [u \in Types |-> m_hash_table'[u]]
      /\ m_current_bucket_number' \in [Types -> Nat]
      /\ \A other \in Types \ {ty} :
           /\ m_hash_table'[other] = m_hash_table[other]
           /\ m_current_bucket_number'[other] = m_current_bucket_number[other]
  BY <1>1 DEF ty
<1>3. TableTypes'
  <2>1. \A other \in Types : m_hash_table'[other] \in Partial(other)
    BY <1>2 DEF TableTypes, ty
  <2>. QED  BY <1>0, <1>1, <1>2, <2>1 DEF TableTypes
<1>4. \A u \in task' : TaskOK(u)'
  <2>. SUFFICES ASSUME NEW u \in task' PROVE TaskOK(u)'
    OBVIOUS
  <2>1. TaskOK(u)
    BY TaskInvParts DEF TaskParts
  <2>. QED  BY <1>0, <2>1 DEF TaskOK, LaidOut
<1>5. \A u, v \in task' : u.type = v.type /\ u.type \notin disturbed' => u = v
  BY <1>0, TaskInvParts DEF TaskParts
<1>6. ASSUME NEW other \in Types PROVE TypeQuiet(other)'
  <2>1. TypeQuiet(other)
    BY TaskInvParts DEF TaskParts
  <2>2. CASE other = ty
    BY <1>0, <1>2, <2>1, <2>2 DEF TypeQuiet, Quiet, ty
  <2>3. CASE other # ty
    <3>1. Quiet(other)' => Quiet(other)
      BY <1>0, <2>3 DEF Quiet, UnderWay, ty
    <3>. QED  BY <1>0, <1>2, <2>1, <2>3, <3>1 DEF TypeQuiet
  <2>. QED  BY <2>2, <2>3
<1>. QED  BY <1>3, <1>4, <1>5, <1>6, TaskInvNext DEF TaskParts

-----------------------------------------------------------------------------
(* The statements of a work item.                                          *)

\* Steps that leave lists and connections alone.
LEMMA ControlKept ==
  ASSUME ControlTypes, EnoughAreDeployed, up, UNCHANGED <<control, connections, up, extra, repeated>>
  PROVE  ControlTypes' /\ AtRest' /\ EnoughAreDeployed'
<1>0. /\ m_running' = m_running /\ m_finish' = m_finish /\ m_register_list' = m_register_list
      /\ agent' = agent /\ m_type' = m_type /\ answered' = answered
      /\ up' = up /\ extra' = extra /\ repeated' = repeated
  BY DEF control, connections
<1>1. ControlTypes'
  BY <1>0 DEF ControlTypes
<1>. QED  BY <1>0, <1>1 DEF AtRest, EnoughAreDeployed

\* A task at its next step.
LEMMA TaskEnters ==
  ASSUME NEW t \in Tasks, NEW step \in Begun \cup Failing
  PROVE  /\ [t EXCEPT !.step = step] \in Tasks
         /\ [t EXCEPT !.step = step].type = t.type /\ [t EXCEPT !.step = step].list = t.list
         /\ [t EXCEPT !.step = step].row = t.row /\ [t EXCEPT !.step = step].step = step
BY DEF Tasks

\* What a task finds.
LEMMA TaskFacts ==
  ASSUME TableTypes, TaskInv, NEW t \in task
  PROVE  /\ t \in Tasks /\ t.type \in Types /\ t.row \in Nat /\ t.list \in Seq(Nodes)
         /\ rule_table[t.type] \in [exists : BOOLEAN, rows : Partial(t.type)]
         /\ order_table[t.type] \in BOOLEAN
         /\ rule_table = [rule_table EXCEPT ![t.type] = rule_table[t.type]]
         /\ order_table = [order_table EXCEPT ![t.type] = order_table[t.type]]
         /\ ~rule_table[t.type].exists => rule_table[t.type].rows = <<>>
         /\ t.type \notin doubled => \A b \in DOMAIN rule_table[t.type].rows :
                                       IsInjective(rule_table[t.type].rows[b])
         /\ TaskOK(t)
<1>1. t \in Tasks /\ t.type \in Types /\ t.row \in Nat /\ t.list \in Seq(Nodes)
  BY DEF TableTypes, Tasks
<1>2. TypeQuiet(t.type) /\ TaskOK(t)
  BY <1>1, TaskInvParts DEF TaskParts
<1>3. /\ rule_table[t.type] \in [exists : BOOLEAN, rows : UNION {Partial(ty) : ty \in Types}]
      /\ rule_table[t.type].rows \in Partial(t.type)
      /\ order_table[t.type] \in BOOLEAN
  BY <1>1 DEF TableTypes
<1>4. rule_table[t.type] \in [exists : BOOLEAN, rows : Partial(t.type)]
  BY <1>3
<1>5. /\ rule_table = [rule_table EXCEPT ![t.type] = rule_table[t.type]]
      /\ order_table = [order_table EXCEPT ![t.type] = order_table[t.type]]
  BY <1>1 DEF TableTypes
<1>. QED  BY <1>1, <1>2, <1>3, <1>4, <1>5 DEF TypeQuiet

\* Dropping and creating a rule table.
LEMMA EmptyTables ==
  ASSUME NEW ty \in Types
  PROVE  /\ NoTable \in [exists : BOOLEAN, rows : Partial(ty)]
         /\ EmptyTable \in [exists : BOOLEAN, rows : Partial(ty)]
         /\ NoTable.exists = FALSE /\ NoTable.rows = <<>>
         /\ EmptyTable.exists = TRUE /\ EmptyTable.rows = <<>>
         /\ DOMAIN NoTable.rows = {} /\ DOMAIN EmptyTable.rows = {}
BY EmptyLayout DEF NoTable, EmptyTable

\* A statement failed; the tables are as they were.
LEMMA FailsIInv ==
  ASSUME TableTypes, TaskInv, NEW t \in task, NEW step \in Failing, Fails(t, step),
         UNCHANGED <<memory, database, up, doubled>>
  PROVE  TableTypes' /\ TaskInv'
<1>. DEFINE new == [t EXCEPT !.step = step]
<1>0. /\ rule_table' = rule_table /\ order_table' = order_table
      /\ Becomes(t, new) /\ disturbed' = disturbed \cup {t.type}
  BY DEF database, Fails, Enters
<1>1. /\ new \in Tasks /\ new.type = t.type /\ new.list = t.list /\ new.step = step
  <2>1. t \in Tasks /\ step \in Begun \cup Failing
    BY TaskFacts
  <2>. QED  BY <2>1, TaskEnters
<1>. HIDE DEF new
<1>2. Counted(new)
  BY <1>1 DEF Counted, Begun, Failing
<1>3. UNCHANGED <<memory, up, doubled>> /\ t.type \in disturbed'
  BY <1>0
<1>4. /\ rule_table[t.type] \in [exists : BOOLEAN, rows : Partial(t.type)]
      /\ order_table[t.type] \in BOOLEAN
      /\ rule_table' = [rule_table EXCEPT ![t.type] = rule_table[t.type]]
      /\ order_table' = [order_table EXCEPT ![t.type] = order_table[t.type]]
      /\ ~rule_table[t.type].exists => rule_table[t.type].rows = <<>>
      /\ t.type \notin doubled => \A b \in DOMAIN rule_table[t.type].rows :
                                    IsInjective(rule_table[t.type].rows[b])
  BY <1>0, TaskFacts
<1>. QED  BY <1>0, <1>1, <1>2, <1>3, <1>4, TaskProceeds

LEMMA DropRuleIInv ==
  ASSUME TableTypes, TaskInv, NEW t \in task, drop_rule(t)
  PROVE  TableTypes' /\ TaskInv'
<1>. DEFINE new == [t EXCEPT !.step = "create_rule"]
<1>0. /\ UNCHANGED <<memory, up, doubled>> /\ order_table' = order_table
      /\ disturbed' = disturbed /\ Becomes(t, new) /\ t.step = "drop_rule"
      /\ rule_table' = [rule_table EXCEPT ![t.type] = NoTable]
  BY DEF drop_rule, OnlyTask, Enters
<1>1. /\ new \in Tasks /\ new.type = t.type /\ new.list = t.list /\ new.step = "create_rule"
      /\ new.row = t.row
  <2>1. t \in Tasks /\ "create_rule" \in Begun \cup Failing
    BY TaskFacts DEF Begun
  <2>. QED  BY <2>1, TaskEnters
<1>. HIDE DEF new
<1>2. Counted(new) /\ new.step \notin Failing
  BY <1>0, <1>1, TaskFacts DEF TaskOK, Counted, Begun, Failing
<1>. QED  BY <1>0, <1>1, <1>2, TaskFacts, EmptyTables, TaskProceeds

LEMMA CreateRuleIInv ==
  ASSUME TableTypes, TaskInv, NEW t \in task, create_rule(t)
  PROVE  TableTypes' /\ TaskInv'
<1>1. CASE rule_table[t.type].exists
  BY <1>1, FailsIInv DEF create_rule, OnlyTask, database, Failing
<1>2. CASE ~rule_table[t.type].exists
  <2>. DEFINE new == [t EXCEPT !.step = "drop_order"]
  <2>0. /\ UNCHANGED <<memory, up, doubled>> /\ order_table' = order_table
        /\ disturbed' = disturbed /\ Becomes(t, new) /\ t.step = "create_rule"
        /\ rule_table' = [rule_table EXCEPT ![t.type] = EmptyTable]
    BY <1>2 DEF create_rule, OnlyTask, Enters
  <2>1. /\ new \in Tasks /\ new.type = t.type /\ new.list = t.list /\ new.step = "drop_order"
        /\ new.row = t.row
    <3>1. t \in Tasks /\ "drop_order" \in Begun \cup Failing
      BY TaskFacts DEF Begun
    <3>. QED  BY <3>1, TaskEnters
  <2>. HIDE DEF new
  <2>2. Counted(new) /\ new.step \notin Failing /\ new.row = 0
    BY <2>0, <2>1, TaskFacts DEF TaskOK, Counted, Begun, Failing
  <2>3. DOMAIN EmptyTable.rows = 0..new.row - 1
    <3>1. 0..0 - 1 = {}
      OBVIOUS
    <3>. QED  BY <2>2, <3>1, TaskFacts, EmptyTables
  <2>. QED  BY <2>0, <2>1, <2>2, <2>3, TaskFacts, EmptyTables, TaskProceeds
<1>. QED  BY <1>1, <1>2

\* The order table and the history: the rule table is empty all the time.
LEMMA OrderStepIInv ==
  ASSUME TableTypes, TaskInv, NEW t \in task,
         NEW step \in {"create_order", "history", "rows"},
         \/ t.step = "drop_order" /\ step = "create_order"
         \/ t.step = "create_order" /\ step = "history"
         \/ t.step = "history" /\ step = "rows",
         Enters(t, step), UNCHANGED <<memory, up, doubled, disturbed, rule_table>>,
         NEW O \in BOOLEAN, order_table' = [order_table EXCEPT ![t.type] = O],
         step = "history" => O, step = "rows" => O = order_table[t.type]
  PROVE  TableTypes' /\ TaskInv'
<1>. DEFINE new == [t EXCEPT !.step = step]
<1>0. /\ UNCHANGED <<memory, up, doubled>> /\ disturbed' = disturbed
      /\ rule_table' = rule_table /\ Becomes(t, new)
  BY DEF Enters
<1>1. /\ new \in Tasks /\ new.type = t.type /\ new.list = t.list /\ new.step = step
      /\ new.row = t.row
  <2>1. t \in Tasks /\ step \in Begun \cup Failing
    BY TaskFacts DEF Begun
  <2>. QED  BY <2>1, TaskEnters
<1>. HIDE DEF new
<1>2. TaskOK(t) /\ t.type \in Types
  BY TaskFacts
<1>3. Counted(new) /\ new.step \notin Failing /\ new.row = t.row
  <2>1. t.row = 0
    BY <1>2 DEF TaskOK, Counted, Begun
  <2>2. 0 < 2 ^ mod[t.type]
    BY <1>2, RegistrationAssumption, PowersOfTwo
  <2>. QED  BY <1>1, <2>1, <2>2 DEF Counted, Begun, Failing
<1>4. ASSUME t.type \notin disturbed
      PROVE  /\ rule_table[t.type].exists /\ DOMAIN rule_table[t.type].rows = 0..new.row - 1
             /\ \A b \in DOMAIN rule_table[t.type].rows :
                  rule_table[t.type].rows[b] = layout_all_bucket(t.type, t.list)[b]
             /\ step \in {"history", "rows"} => O
  BY <1>1, <1>2, <1>4 DEF TaskOK, LaidOut
<1>5. /\ rule_table[t.type] \in [exists : BOOLEAN, rows : Partial(t.type)]
      /\ rule_table' = [rule_table EXCEPT ![t.type] = rule_table[t.type]]
      /\ ~rule_table[t.type].exists => rule_table[t.type].rows = <<>>
      /\ t.type \notin doubled => \A b \in DOMAIN rule_table[t.type].rows :
                                    IsInjective(rule_table[t.type].rows[b])
  BY <1>0, TaskFacts
<1>. QED  BY <1>0, <1>1, <1>3, <1>4, <1>5, TaskProceeds

LEMMA DropOrderIInv ==
  ASSUME TableTypes, TaskInv, NEW t \in task, drop_order(t)
  PROVE  TableTypes' /\ TaskInv'
BY OrderStepIInv DEF drop_order, OnlyTask

LEMMA CreateOrderIInv ==
  ASSUME TableTypes, TaskInv, NEW t \in task, create_order(t)
  PROVE  TableTypes' /\ TaskInv'
<1>1. CASE order_table[t.type]
  BY <1>1, FailsIInv DEF create_order, OnlyTask, database, Failing
<1>2. CASE ~order_table[t.type]
  BY <1>2, OrderStepIInv DEF create_order, OnlyTask
<1>. QED  BY <1>1, <1>2

LEMMA HistoryIInv ==
  ASSUME TableTypes, TaskInv, NEW t \in task, init_operation_table(t)
  PROVE  TableTypes' /\ TaskInv'
<1>1. order_table' = [order_table EXCEPT ![t.type] = order_table[t.type]] /\ order_table[t.type] \in BOOLEAN
  BY TaskFacts DEF init_operation_table, database
<1>. QED  BY <1>1, OrderStepIInv DEF init_operation_table, OnlyTask, database

LEMMA StatementFailsIInv ==
  ASSUME TableTypes, TaskInv, NEW t \in task, StatementFails(t)
  PROVE  TableTypes' /\ TaskInv'
<1>1. UNCHANGED <<memory, database, up, doubled>>
  BY DEF StatementFails, OnlyTask
<1>2. \E step \in Failing : Fails(t, step)
  BY DEF StatementFails, Failing
<1>. QED  BY <1>1, <1>2, FailsIInv

\* Undoing concerns a type that is disturbed.
LEMMA UndoIInv ==
  ASSUME TableTypes, TaskInv, NEW t \in task, Undo(t)
  PROVE  TableTypes' /\ TaskInv'
<1>0. UNCHANGED <<memory, up, doubled>> /\ disturbed' = disturbed
  BY DEF Undo, OnlyTask
<1>1. t.step \in Failing /\ t.type \in disturbed
  BY TaskFacts DEF Undo, TaskOK, Failing
<1>2. PICK step \in Failing : Enters(t, step)
  BY DEF Undo, Failing
<1>3. PICK R \in [exists : BOOLEAN, rows : Partial(t.type)], O \in BOOLEAN :
        /\ rule_table' = [rule_table EXCEPT ![t.type] = R]
        /\ order_table' = [order_table EXCEPT ![t.type] = O]
        /\ R = NoTable \/ R = rule_table[t.type]
  <2>1. CASE t.step = "undo_order"
    <3>1. PICK left \in {FALSE, order_table[t.type]} :
            order_table' = [order_table EXCEPT ![t.type] = left]
      BY <2>1 DEF Undo
    <3>2. rule_table' = [rule_table EXCEPT ![t.type] = rule_table[t.type]] /\ left \in BOOLEAN
      BY <2>1, TaskFacts DEF Undo
    <3>. QED  BY <3>1, <3>2, TaskFacts
  <2>2. CASE t.step = "undo_rule"
    <3>1. PICK left \in {NoTable, rule_table[t.type]} :
            rule_table' = [rule_table EXCEPT ![t.type] = left]
      BY <2>2 DEF Undo
    <3>2. order_table' = [order_table EXCEPT ![t.type] = order_table[t.type]]
      BY <2>2, TaskFacts DEF Undo
    <3>. QED  BY <3>1, <3>2, TaskFacts, EmptyTables
  <2>. QED  BY <2>1, <2>2 DEF Undo
<1>. DEFINE new == [t EXCEPT !.step = step]
<1>4. /\ new \in Tasks /\ new.type = t.type /\ new.list = t.list /\ new.step = step
      /\ Becomes(t, new)
  <2>1. t \in Tasks /\ step \in Begun \cup Failing
    BY TaskFacts
  <2>. QED  BY <1>2, <2>1, TaskEnters DEF Enters
<1>. HIDE DEF new
<1>5. Counted(new)
  BY <1>4 DEF Counted, Begun, Failing
<1>6. /\ ~R.exists => R.rows = <<>>
      /\ t.type \notin doubled => \A b \in DOMAIN R.rows : IsInjective(R.rows[b])
  BY <1>3, TaskFacts, EmptyTables
<1>. QED  BY <1>0, <1>1, <1>3, <1>4, <1>5, <1>6, TaskProceeds

\* One more row.
LEMMA RowIInv ==
  ASSUME TableTypes, TaskInv, NEW t \in task, generate_every_bucket_rule(t)
  PROVE  TableTypes' /\ TaskInv'
<1>. DEFINE ty == t.type
            M == 2 ^ mod[ty]
            layout == layout_all_bucket(t.type, t.list)
            rows == rule_table[t.type].rows
            more == [b \in DOMAIN rows \cup {t.row} |-> IF b = t.row THEN layout[b] ELSE rows[b]]
            last == t.row + 1 \notin DOMAIN layout
            new == [t EXCEPT !.row = @ + 1, !.step = IF last THEN "done" ELSE "rows"]
            R == [rule_table[t.type] EXCEPT !.rows = more]
<1>1. CASE ~rule_table[t.type].exists \/ t.row \in DOMAIN rows
  BY <1>1, FailsIInv DEF generate_every_bucket_rule, OnlyTask, database, Failing
<1>2. CASE ~(~rule_table[t.type].exists \/ t.row \in DOMAIN rows)
  <2>0. /\ UNCHANGED <<memory, up, doubled>> /\ order_table' = order_table
        /\ disturbed' = disturbed /\ Becomes(t, new) /\ t.step = "rows"
        /\ rule_table' = [rule_table EXCEPT ![t.type].rows = more]
    BY <1>2 DEF generate_every_bucket_rule, OnlyTask
  <2>1. /\ ty \in Types /\ t \in Tasks /\ t.row \in Nat /\ t.list \in Seq(Nodes)
        /\ Len(t.list) >= dup[ty] /\ t.row < M
        /\ ty \notin doubled => IsInjective(t.list)
        /\ ty \notin disturbed => LaidOut(t) /\ order_table[t.type]
    BY <2>0, TaskFacts DEF TaskOK, Counted
  <2>2. M \in Nat /\ t.row \in 0..M - 1
    <3>1. M \in Nat
      BY <2>1, RegistrationAssumption, PowersOfTwo
    <3>. QED  BY <2>1, <3>1
  <2>3. /\ layout \in Layouts(ty)
        /\ ty \notin doubled => \A b \in 0..M - 1 : IsInjective(layout[b])
    BY <2>1, LaidOutBuckets
  <2>4. DOMAIN layout = 0..M - 1 /\ layout[t.row] \in Copies(ty)
    BY <2>2, <2>3 DEF Layouts, Copies
  <2>5. /\ rule_table[t.type] \in [exists : BOOLEAN, rows : Partial(ty)]
        /\ rows \in Partial(ty) /\ rule_table[t.type].exists
        /\ ty \notin doubled => \A b \in DOMAIN rows : IsInjective(rows[b])
        /\ order_table[t.type] \in BOOLEAN
        /\ order_table' = [order_table EXCEPT ![t.type] = order_table[t.type]]
    BY <1>2, <2>0, TaskFacts
  <2>6. /\ last <=> t.row + 1 = M
        /\ new \in Tasks /\ new.type = ty /\ new.list = t.list /\ new.row = t.row + 1
        /\ new.step = IF last THEN "done" ELSE "rows"
    <3>1. last <=> t.row + 1 = M
      BY <2>2, <2>4
    <3>2. t.row + 1 \in Nat /\ (IF last THEN "done" ELSE "rows") \in Begun \cup Failing
      BY <2>1 DEF Begun
    <3>3. /\ new.type = t.type /\ new.list = t.list /\ new.row = t.row + 1
          /\ new.step = IF last THEN "done" ELSE "rows"
      <4>. HIDE DEF last
      <4>. QED  BY <2>1 DEF Tasks
    <3>4. new \in Tasks
      <4>. DEFINE step == IF last THEN "done" ELSE "rows"
      <4>. HIDE DEF last
      <4>1. step \in Begun \cup Failing
        BY <3>2
      <4>. HIDE DEF step
      <4>2. [t EXCEPT !.row = @ + 1, !.step = step] \in Tasks
        BY <2>1, <3>2, <4>1 DEF Tasks
      <4>. QED  BY <4>2 DEF step
    <3>. QED  BY <3>1, <3>3, <3>4
  <2>7. Counted(new) /\ new.step \notin Failing
    <3>1. new.step \in {"done", "rows"}
      BY <2>6
    <3>. HIDE DEF new, last, layout
    <3>. QED  BY <2>1, <2>2, <2>6, <3>1 DEF Counted, Begun, Failing
  <2>8. /\ DOMAIN more = DOMAIN rows \cup {t.row}
        /\ \A b \in DOMAIN more : more[b] = IF b = t.row THEN layout[b] ELSE rows[b]
    OBVIOUS
  <2>9. more \in Partial(ty)
    <3>. HIDE DEF layout
    <3>. QED  BY <2>1, <2>2, <2>4, <2>5, AddRow
  <2>. HIDE DEF more, layout, last, new
  <2>10. /\ R \in [exists : BOOLEAN, rows : Partial(ty)]
         /\ R.exists /\ R.rows = more
    BY <2>5, <2>9
  <2>11. rule_table' = [rule_table EXCEPT ![t.type] = R]
    BY <2>0
  <2>12. ty \notin doubled => \A b \in DOMAIN more : IsInjective(more[b])
    BY <2>2, <2>3, <2>5, <2>8
  <2>13. ASSUME ty \notin disturbed
         PROVE  /\ DOMAIN more = 0..new.row - 1
                /\ \A b \in DOMAIN more : more[b] = layout[b]
    <3>1. DOMAIN rows = 0..t.row - 1 /\ \A b \in DOMAIN rows : rows[b] = layout[b]
      BY <2>1, <2>13 DEF LaidOut, layout
    <3>2. (0..t.row - 1) \cup {t.row} = 0..new.row - 1
      BY <2>1, <2>6
    <3>. QED  BY <2>8, <3>1, <3>2
  <2>14. ty \notin disturbed' => order_table[t.type]
    BY <2>0, <2>1
  <2>. HIDE DEF R
  <2>15. /\ ty \notin doubled => \A b \in DOMAIN R.rows : IsInjective(R.rows[b])
         /\ ty \notin disturbed' =>
              /\ R.exists /\ DOMAIN R.rows = 0..new.row - 1
              /\ \A b \in DOMAIN R.rows : R.rows[b] = layout_all_bucket(t.type, t.list)[b]
    BY <2>0, <2>10, <2>12, <2>13 DEF layout
  <2>16. UNCHANGED <<memory, up, doubled>> /\ Becomes(t, new) /\ disturbed' = disturbed
    BY <2>0
  <2>. QED  BY <2>5, <2>6, <2>7, <2>10, <2>11, <2>14, <2>15, <2>16, TaskProceeds
<1>. QED  BY <1>1, <1>2

\* The statements of work items preserve the invariant.
LEMMA WorkerIInv ==
  ASSUME IInv, up, NEW t \in task, Worker(t)
  PROVE  IInv'
<1>1. ControlTypes /\ TableTypes /\ TaskInv /\ EnoughAreDeployed
  BY DEF IInv, TypeOK
<1>2. UNCHANGED <<control, connections, up, extra, repeated>>
  BY DEF Worker, drop_rule, create_rule, drop_order, create_order, init_operation_table,
         generate_every_bucket_rule, StatementFails, Undo, OnlyTask
<1>3. TableTypes' /\ TaskInv'
  BY <1>1, DropRuleIInv, CreateRuleIInv, DropOrderIInv, CreateOrderIInv, HistoryIInv, RowIInv,
     StatementFailsIInv, UndoIInv DEF Worker
<1>4. ControlTypes' /\ AtRest' /\ EnoughAreDeployed'
  BY <1>1, <1>2, ControlKept
<1>. QED  BY <1>3, <1>4 DEF IInv, TypeOK

-----------------------------------------------------------------------------
(* The callbacks, the end of the process and its start.                    *)

LEMMA EndsIInv ==
  ASSUME IInv, Ends
  PROVE  IInv'
<1>0. /\ TableTypes /\ TaskInv /\ ControlTypes
      /\ up' = FALSE /\ m_running' = FALSE /\ m_finish' = [ty \in Types |-> FALSE]
      /\ m_register_list' = [ty \in Types |-> <<>>]
      /\ agent' = [c \in Conns |-> "none"] /\ answered' = [c \in Conns |-> {}]
      /\ m_type' = [c \in Conns |-> AnyType] /\ task' = {}
      /\ m_hash_table' = [ty \in Types |-> <<>>]
      /\ m_current_bucket_number' = [ty \in Types |-> 0]
      /\ repeated' = {} /\ disturbed' = disturbed \cup {t.type : t \in task}
      /\ rule_table' = rule_table /\ order_table' = order_table
      /\ extra' = extra /\ doubled' = doubled
  BY DEF IInv, TypeOK, Ends, database
<1>1. ControlTypes'
  <2>1. AnyType \in Types
    BY RegistrationAssumption DEF AnyType
  <2>2. <<>> \in Seq(Entries)
    OBVIOUS
  <2>. QED  BY <1>0, <2>1, <2>2 DEF ControlTypes
<1>2. TableTypes'
  <2>1. \A ty \in Types : m_hash_table'[ty] \in Partial(ty)
    BY <1>0, EmptyLayout
  <2>2. disturbed' \subseteq Types
    BY <1>0 DEF TableTypes, Tasks
  <2>. QED  BY <1>0, <2>1, <2>2 DEF TableTypes
<1>3. ASSUME NEW ty \in Types PROVE TypeQuiet(ty)'
  <2>1. TypeQuiet(ty)
    BY <1>0, TaskInvParts DEF TaskParts
  <2>2. Quiet(ty)' => Quiet(ty)
    BY <1>0 DEF Quiet, UnderWay
  <2>. QED  BY <1>0, <2>1, <2>2 DEF TypeQuiet
<1>4. TaskInv'
  BY <1>0, <1>3, TaskInvNext DEF TaskParts
<1>5. AtRest' /\ EnoughAreDeployed'
  BY <1>0 DEF AtRest, EnoughAreDeployed
<1>. QED  BY <1>1, <1>2, <1>4, <1>5 DEF IInv, TypeOK

\* The logarithm of a power of two is exact.
LEMMA ExactLogarithm ==
  ASSUME NEW m \in Nat
  PROVE  cs_log(2 ^ m) \in Nat /\ 2 ^ cs_log(2 ^ m) = 2 ^ m
<1>. DEFINE T == {n \in Nat : n < 2 ^ n}
<1>1. 0 \in T /\ \A n \in T : n + 1 \in T
  BY PowersOfTwo
<1>2. m < 2 ^ m /\ 2 ^ m \in Nat
  <2>1. T \in SUBSET Nat
    OBVIOUS
  <2>. HIDE DEF T
  <2>2. T = Nat
    BY <1>1, <2>1, NaturalsSet
  <2>. QED  BY <2>2, PowersOfTwo DEF T
<1>3. m \in 0..2 ^ m
  BY <1>2
<1>. DEFINE k == CHOOSE k \in 0..2 ^ m : 2 ^ k = 2 ^ m
<1>4. k \in 0..2 ^ m /\ 2 ^ k = 2 ^ m
  BY <1>3
<1>5. cs_log(2 ^ m) = k
  BY <1>3 DEF cs_log
<1>. QED  BY <1>2, <1>4, <1>5

\* Of every number it is a number.
LEMMA LogarithmType ==
  ASSUME NEW n \in Nat
  PROVE  2 ^ cs_log(n) \in Nat
<1>1. cs_log(n) \in Nat
  <2>1. CASE \E k \in 0..n : 2 ^ k = n
    <3>. DEFINE k == CHOOSE k \in 0..n : 2 ^ k = n
    <3>1. k \in 0..n
      BY <2>1
    <3>2. cs_log(n) = k
      BY <2>1 DEF cs_log
    <3>. QED  BY <3>1, <3>2
  <2>2. CASE ~\E k \in 0..n : 2 ^ k = n
    BY <2>2 DEF cs_log
  <2>. QED  BY <2>1, <2>2
<1>. QED  BY <1>1, PowersOfTwo

LEMMA RestartIInv ==
  ASSUME IInv, prepare_run
  PROVE  IInv'
<1>. DEFINE Deployed == {ty \in Types : rule_table[ty].exists}
            size(ty) == Cardinality(DOMAIN rule_table[ty].rows)
<1>0. /\ TableTypes /\ TaskInv /\ ControlTypes /\ AtRest
      /\ ~up /\ up' = TRUE /\ extra' = extra + 1
      /\ m_hash_table' = [ty \in Types |-> rule_table[ty].rows]
      /\ m_current_bucket_number' =
           [ty \in Types |-> IF ty \in Deployed THEN 2 ^ cs_log(size(ty)) ELSE 0]
      /\ m_finish' = [ty \in Types |-> ty \in Deployed]
      /\ m_running' = (Deployed = Types)
      /\ m_register_list' = m_register_list /\ task' = task
      /\ agent' = agent /\ m_type' = m_type /\ answered' = answered
      /\ rule_table' = rule_table /\ order_table' = order_table
      /\ repeated' = repeated /\ doubled' = doubled /\ disturbed' = disturbed
  BY DEF IInv, TypeOK, prepare_run, connections, database, history
<1>1. task = {} /\ m_register_list = [ty \in Types |-> <<>>]
  BY <1>0 DEF AtRest
<1>2. ControlTypes'
  BY <1>0 DEF ControlTypes
<1>3. EnoughAreDeployed' /\ AtRest'
  <2>1. \A ty \in Types : Len(m_register_list[ty]) < number[ty]
    BY <1>1, RegistrationAssumption
  <2>. QED  BY <1>0, <2>1 DEF EnoughAreDeployed, AtRest
<1>4. \A ty \in Types : size(ty) \in Nat /\ rule_table[ty].rows \in Partial(ty)
  <2>. SUFFICES ASSUME NEW ty \in Types PROVE size(ty) \in Nat /\ rule_table[ty].rows \in Partial(ty)
    OBVIOUS
  <2>1. rule_table[ty].rows \in Partial(ty)
    BY <1>0 DEF TableTypes
  <2>2. DOMAIN rule_table[ty].rows \subseteq 0..2 ^ mod[ty] - 1
    BY <2>1, PartialLayout
  <2>3. IsFiniteSet(0..2 ^ mod[ty] - 1)
    <3>1. 2 ^ mod[ty] \in Nat
      BY RegistrationAssumption, PowersOfTwo
    <3>. QED  BY <3>1, FS_Interval
  <2>. QED  BY <2>1, <2>2, <2>3, FS_Subset, FS_CardinalityType
<1>5. TableTypes'
  <2>1. \A ty \in Types : 2 ^ cs_log(size(ty)) \in Nat
    BY <1>4, LogarithmType
  <2>. HIDE DEF size, Deployed
  <2>2. m_current_bucket_number' \in [Types -> Nat]
    BY <1>0, <2>1
  <2>. QED  BY <1>0, <1>4, <2>2 DEF TableTypes
<1>6. ASSUME NEW ty \in Types PROVE TypeQuiet(ty)'
  <2>1. TypeQuiet(ty)
    BY <1>0, TaskInvParts DEF TaskParts
  <2>2. Quiet(ty)' = Quiet(ty)
    BY <1>0 DEF Quiet, UnderWay
  <2>3. m_hash_table'[ty] = rule_table[ty].rows
    BY <1>0
  <2>4. ASSUME Quiet(ty) PROVE m_current_bucket_number'[ty] = size(ty)
    <3>1. CASE ty \in Deployed
      <4>1. rule_table[ty].rows \in Layouts(ty)
        BY <2>1, <2>4, <3>1 DEF TypeQuiet
      <4>2. DOMAIN rule_table[ty].rows = 0..2 ^ mod[ty] - 1
        BY <4>1 DEF Layouts
      <4>3. size(ty) = 2 ^ mod[ty]
        BY <1>4, <4>2, FullLayout
      <4>4. mod[ty] \in Nat
        BY RegistrationAssumption
      <4>5. 2 ^ cs_log(2 ^ mod[ty]) = 2 ^ mod[ty]
        BY <4>4, ExactLogarithm
      <4>6. m_current_bucket_number'[ty] = 2 ^ cs_log(size(ty))
        BY <1>0, <3>1
      <4>. QED  BY <4>3, <4>5, <4>6
    <3>2. CASE ty \notin Deployed
      <4>1. rule_table[ty].rows = <<>>
        BY <2>1, <3>2 DEF TypeQuiet
      <4>2. size(ty) = 0
        BY <4>1, EmptyLayout, FS_EmptySet
      <4>. QED  BY <1>0, <3>2, <4>2
    <3>. QED  BY <3>1, <3>2
  <2>. QED  BY <1>0, <2>1, <2>2, <2>3, <2>4 DEF TypeQuiet
<1>7. TaskInv'
  BY <1>0, <1>1, <1>6, TaskInvNext DEF TaskParts
<1>. QED  BY <1>2, <1>3, <1>5, <1>7 DEF IInv, TypeOK

LEMMA CallbackIInv ==
  ASSUME IInv, up, NEW t \in task, Callback(t)
  PROVE  IInv'
<1>. DEFINE ty == t.type
<1>1. ControlTypes /\ TableTypes /\ TaskInv /\ EnoughAreDeployed
  BY DEF IInv, TypeOK
<1>2. CASE after_init_db_rule(t)
  <2>. DEFINE layout == layout_all_bucket(t.type, t.list)
  <2>0. /\ t.step = "done" /\ task' = task \ {t}
        /\ m_hash_table' = [m_hash_table EXCEPT ![t.type] = layout]
        /\ m_current_bucket_number' = [m_current_bucket_number EXCEPT ![t.type] = 2 ^ mod[t.type]]
        /\ UNCHANGED <<database, up, doubled, disturbed>>
    BY <1>2 DEF after_init_db_rule, init_memory_rule, history
  <2>1. /\ ty \in Types /\ t.list \in Seq(Nodes) /\ Len(t.list) >= dup[ty]
        /\ t.row = 2 ^ mod[ty]
        /\ ty \notin disturbed => LaidOut(t) /\ order_table[ty]
    BY <1>1, <2>0, TaskFacts DEF TaskOK, Counted
  <2>2. layout \in Layouts(ty) /\ DOMAIN layout = 0..2 ^ mod[ty] - 1
    <3>1. layout \in Layouts(ty)
      BY <2>1, LaidOutBuckets
    <3>. HIDE DEF layout
    <3>. QED  BY <3>1 DEF Layouts
  <2>. HIDE DEF layout
  <2>3. layout \in Partial(ty)
    BY <2>2 DEF Partial, Layouts, Copies
  <2>4. 2 ^ mod[ty] \in Nat
    BY <2>1, RegistrationAssumption, PowersOfTwo
  <2>5. ASSUME ty \notin disturbed
        PROVE  /\ layout = rule_table[ty].rows
               /\ 2 ^ mod[ty] = Cardinality(DOMAIN rule_table[ty].rows)
               /\ order_table[ty] /\ rule_table[ty].rows \in Layouts(ty)
    <3>1. /\ DOMAIN rule_table[ty].rows = 0..2 ^ mod[ty] - 1
          /\ \A b \in DOMAIN rule_table[ty].rows : rule_table[ty].rows[b] = layout[b]
      BY <2>1, <2>5 DEF LaidOut, layout
    <3>2. rule_table[ty].rows \in Partial(ty)
      BY <1>1, <2>1 DEF TableTypes
    <3>3. /\ rule_table[ty].rows \in Layouts(ty)
          /\ Cardinality(DOMAIN rule_table[ty].rows) = 2 ^ mod[ty]
      BY <2>1, <3>1, <3>2, FullLayout
    <3>4. layout = rule_table[ty].rows
      <4>1. /\ layout = [b \in DOMAIN layout |-> layout[b]]
            /\ rule_table[ty].rows = [b \in DOMAIN rule_table[ty].rows |-> rule_table[ty].rows[b]]
        BY <2>1, <2>3, <3>2, PartialLayout
      <4>. QED  BY <2>2, <3>1, <4>1
    <3>. QED  BY <2>1, <2>5, <3>3, <3>4
  <2>6. TableTypes' /\ TaskInv'
    BY <1>1, <2>0, <2>3, <2>4, <2>5, TaskLeaves
  <2>7. /\ m_running' = m_running /\ m_register_list' = m_register_list /\ agent' = agent
        /\ m_type' = m_type /\ up' = up /\ extra' = extra /\ repeated' = repeated
        /\ \/ m_finish' = m_finish /\ answered' = answered
           \/ after_init_system(ty)
    BY <1>2 DEF after_init_db_rule, history
  <2>8. /\ m_finish' \in [Types -> BOOLEAN] /\ answered' \in [Conns -> SUBSET Types]
        /\ \A u \in Types : ~m_finish'[u] => ~m_finish[u]
    <3>1. m_finish \in [Types -> BOOLEAN] /\ answered \in [Conns -> SUBSET Types]
      BY <1>1 DEF ControlTypes
    <3>2. ASSUME after_init_system(ty)
          PROVE  /\ m_finish' = [m_finish EXCEPT ![ty] = TRUE]
                 /\ answered' \in [Conns -> SUBSET Types]
      BY <2>1, <3>1, <3>2 DEF after_init_system
    <3>. QED  BY <2>1, <2>7, <3>1, <3>2
  <2>9. ControlTypes'
    BY <1>1, <2>7, <2>8 DEF ControlTypes
  <2>10. AtRest' /\ EnoughAreDeployed'
    BY <1>1, <2>7, <2>8 DEF AtRest, EnoughAreDeployed
  <2>. QED  BY <2>6, <2>9, <2>10 DEF IInv, TypeOK
<1>3. CASE AfterFailure(t) /\ t.id # 0
  <2>0. /\ t.step = "failed" /\ task' = task \ {t}
        /\ UNCHANGED <<control, connections, memory, database, up, extra, history>>
    BY <1>3 DEF AfterFailure
  <2>1. t.type \in disturbed /\ t.type \in Types
    BY <1>1, <2>0, TaskFacts DEF TaskOK, Failing
  <2>2. /\ m_hash_table' = [m_hash_table EXCEPT ![t.type] = m_hash_table[t.type]]
        /\ m_current_bucket_number' =
             [m_current_bucket_number EXCEPT ![t.type] = m_current_bucket_number[t.type]]
        /\ m_hash_table[t.type] \in Partial(t.type) /\ m_current_bucket_number[t.type] \in Nat
    BY <1>1, <2>0, <2>1 DEF TableTypes, memory
  <2>3. UNCHANGED <<database, up, doubled, disturbed>> /\ UNCHANGED <<control, connections, up, extra, repeated>>
    BY <2>0 DEF history
  <2>4. TableTypes' /\ TaskInv'
    BY <1>1, <2>0, <2>1, <2>2, <2>3, TaskLeaves
  <2>5. ControlTypes' /\ AtRest' /\ EnoughAreDeployed'
    BY <1>1, <2>3, ControlKept
  <2>. QED  BY <2>4, <2>5 DEF IInv, TypeOK
<1>4. CASE AfterFailure(t) /\ t.id = 0
  BY <1>4, EndsIInv DEF AfterFailure
<1>. QED  BY <1>2, <1>3, <1>4 DEF Callback

-----------------------------------------------------------------------------
(* Nodes that register and leave, and operators.                           *)

\* The first of some places in a list.
LEMMA FirstPlace ==
  ASSUME NEW T \in SUBSET Nat, T # {}
  PROVE  Min(T) \in T
<1>1. PICK n \in T : \A m \in T : ~(<<m, n>> \in OpToRel(<, Nat))
  BY NatLessThanWellFounded, WFMin
<1>2. \A m \in T : ~(m < n)
  BY <1>1 DEF OpToRel
<1>3. \A m \in T : n <= m
  BY <1>2
<1>. QED  BY <1>3 DEF Min

\* A list without one of its entries.
LEMMA RemoveEntry ==
  ASSUME NEW S, NEW list \in Seq(S), NEW i \in DOMAIN list
  PROVE  RemoveAt(list, i) \in Seq(S) /\ Len(RemoveAt(list, i)) = Len(list) - 1
<1>1. /\ Len(list) \in Nat /\ i \in 1..Len(list) /\ i - 1 \in Nat /\ i + 1 \in Nat
  OBVIOUS
<1>2. /\ SubSeq(list, 1, i - 1) \in Seq(S) /\ Len(SubSeq(list, 1, i - 1)) = i - 1
      /\ SubSeq(list, i + 1, Len(list)) \in Seq(S)
      /\ Len(SubSeq(list, i + 1, Len(list))) = Len(list) - i
  BY <1>1
<1>. DEFINE a == SubSeq(list, 1, i - 1)
            b == SubSeq(list, i + 1, Len(list))
<1>3. RemoveAt(list, i) = a \o b
  BY DEF RemoveAt
<1>. HIDE DEF a, b
<1>4. a \in Seq(S) /\ b \in Seq(S) /\ Len(a) = i - 1 /\ Len(b) = Len(list) - i
  BY <1>2 DEF a, b
<1>5. a \o b \in Seq(S) /\ Len(a \o b) = Len(a) + Len(b)
  BY <1>4, ConcatProperties
<1>. QED  BY <1>1, <1>3, <1>4, <1>5

LEMMA CloseIInv ==
  ASSUME IInv, up, NEW c \in Conns, Close(c)
  PROVE  IInv'
<1>. DEFINE ty == m_type[c]
            found == Registered(c, ty)
<1>1. ControlTypes /\ TableTypes /\ TaskInv /\ EnoughAreDeployed
  BY DEF IInv, TypeOK
<1>2. /\ m_running' = m_running /\ m_finish' = m_finish /\ m_type' = m_type
      /\ answered' = answered /\ up' = up /\ extra' = extra /\ repeated' = repeated
      /\ agent' = [agent EXCEPT ![c] = "closed"]
      /\ m_register_list' = IF m_finish[ty] \/ found = {} THEN m_register_list
                            ELSE [m_register_list EXCEPT ![ty] = RemoveAt(@, Min(found))]
      /\ UNCHANGED TaskVars
  BY DEF Close, register_node_recycler, history, TaskVars
<1>3. TableTypes' /\ TaskInv'
  BY <1>1, <1>2, TasksKept
<1>4. ty \in Types /\ m_register_list \in [Types -> Seq(Entries)]
  BY <1>1 DEF ControlTypes
<1>. HIDE DEF ty
<1>5. /\ m_register_list' \in [Types -> Seq(Entries)]
      /\ \A other \in Types : Len(m_register_list'[other]) <= Len(m_register_list[other])
  <2>1. CASE m_finish[ty] \/ found = {}
    <3>1. \A other \in Types : Len(m_register_list[other]) \in Nat
      BY <1>4
    <3>. QED  BY <1>2, <1>4, <2>1, <3>1
  <2>2. CASE ~(m_finish[ty] \/ found = {})
    <3>. DEFINE list == m_register_list[ty]
    <3>1. list \in Seq(Entries) /\ found \subseteq DOMAIN list /\ found \in SUBSET Nat /\ found # {}
      BY <1>4, <2>2 DEF Registered
    <3>2. Min(found) \in DOMAIN list
      BY <3>1, FirstPlace
    <3>. DEFINE rest == RemoveAt(list, Min(found))
    <3>3. rest \in Seq(Entries) /\ Len(rest) = Len(list) - 1
      BY <3>1, <3>2, RemoveEntry
    <3>4. m_register_list' = [m_register_list EXCEPT ![ty] = rest]
      BY <1>2, <2>2
    <3>. HIDE DEF rest
    <3>5. \A other \in Types : Len(m_register_list[other]) \in Nat
      BY <1>4
    <3>. QED  BY <1>4, <3>3, <3>4, <3>5
  <2>. QED  BY <2>1, <2>2
<1>6. ControlTypes'
  BY <1>1, <1>2, <1>5 DEF ControlTypes
<1>7. AtRest' /\ EnoughAreDeployed'
  <2>1. \A other \in Types : /\ Len(m_register_list[other]) \in Nat
                             /\ Len(m_register_list'[other]) \in Nat
                             /\ number[other] \in Nat
    BY <1>4, <1>5, RegistrationAssumption
  <2>. QED  BY <1>1, <1>2, <1>5, <2>1 DEF AtRest, EnoughAreDeployed
<1>. QED  BY <1>3, <1>6, <1>7 DEF IInv, TypeOK

\* The list a node is appended to.
LEMMA NodeAppended ==
  ASSUME ControlTypes, NEW c \in Conns, NEW ty \in Types,
         NEW list, list = Append(Purge(m_register_list[ty]), [index |-> c, ip |-> Owner[c]])
  PROVE  /\ list \in Seq(Entries)
         /\ Len(list) = Len(Purge(m_register_list[ty])) + 1
         /\ Addresses(list) \in Seq(Nodes) /\ Len(Addresses(list)) = Len(list)
<1>1. m_register_list[ty] \in Seq(Entries) /\ [index |-> c, ip |-> Owner[c]] \in Entries
  BY RegistrationAssumption DEF ControlTypes, Entries
<1>2. Purge(m_register_list[ty]) \in Seq(Entries)
  BY <1>1, PurgedEntries
<1>3. list \in Seq(Entries) /\ Len(list) = Len(Purge(m_register_list[ty])) + 1
  BY <1>1, <1>2
<1>4. Addresses(list) \in Seq(Nodes) /\ Len(Addresses(list)) = Len(list)
  <2>1. Len(list) \in Nat /\ DOMAIN list = 1..Len(list) /\ \A i \in DOMAIN list : list[i].ip \in Nodes
    <3>1. Len(list) \in Nat /\ DOMAIN list = 1..Len(list) /\ \A i \in DOMAIN list : list[i] \in Entries
      BY <1>3
    <3>. QED  BY <3>1 DEF Entries
  <2>2. Addresses(list) \in [1..Len(list) -> Nodes]
    BY <2>1 DEF Addresses
  <2>. QED  BY <2>1, <2>2
<1>. QED  BY <1>3, <1>4

LEMMA ReadBackIInv ==
  ASSUME IInv, up, NEW c \in Conns, NEW ty \in Asks[c], readBack(c, ty)
  PROVE  IInv'
<1>1. ControlTypes /\ TableTypes /\ TaskInv /\ EnoughAreDeployed
  BY DEF IInv, TypeOK
<1>2. ty \in Types
  BY RegistrationAssumption
<1>3. /\ agent' = [agent EXCEPT ![c] = "open"] /\ m_type' = [m_type EXCEPT ![c] = ty]
      /\ repeated' = IF Registrations(c) = {} THEN repeated ELSE repeated \cup {c}
      /\ UNCHANGED <<memory, database, up>> /\ up' = up /\ extra' = extra
  BY DEF readBack
<1>4. /\ agent' \in [Conns -> {"none", "open", "closed"}] /\ m_type' \in [Conns -> Types]
      /\ repeated' \subseteq Conns /\ extra' \in Nat /\ up' \in BOOLEAN
  BY <1>1, <1>2, <1>3 DEF ControlTypes
<1>5. CASE ~m_finish[ty]
  <2>. DEFINE list == Append(Purge(m_register_list[ty]), [index |-> c, ip |-> Owner[c]])
  <2>1. node_register(c, ty) /\ answered' = answered
    BY <1>5 DEF readBack
  <2>2. list \in Seq(Entries) /\ Addresses(list) \in Seq(Nodes) /\ Len(Addresses(list)) = Len(list)
    BY <1>1, <1>2, NodeAppended
  <2>3. /\ m_register_list' = [m_register_list EXCEPT ![ty] = list]
        /\ IF Len(list) >= number[ty] /\ ~m_running
           THEN /\ m_running' = TRUE
                /\ NewTask(ty, Addresses(list), 0)
                /\ m_finish' = [m_finish EXCEPT ![ty] = TRUE]
           ELSE UNCHANGED <<m_running, m_finish, task, doubled, disturbed>>
    BY <2>1 DEF node_register
  <2>. HIDE DEF list
  <2>4. m_register_list' \in [Types -> Seq(Entries)] /\ m_register_list'[ty] = list
    BY <1>1, <1>2, <2>2, <2>3 DEF ControlTypes
  <2>5. CASE Len(list) >= number[ty] /\ ~m_running
    <3>1. Len(Addresses(list)) >= dup[ty]
      <4>1. dup[ty] \in Nat /\ number[ty] \in Nat /\ dup[ty] <= number[ty] /\ Len(list) \in Nat
        BY <1>2, <2>2, RegistrationAssumption
      <4>. QED  BY <2>2, <2>5, <4>1
    <3>2. NewTask(ty, Addresses(list), 0) /\ m_running' = TRUE
          /\ m_finish' = [m_finish EXCEPT ![ty] = TRUE]
      BY <2>3, <2>5
    <3>3. TableTypes' /\ TaskInv'
      BY <1>1, <1>2, <1>3, <2>2, <3>1, <3>2, TaskBegins
    <3>4. ControlTypes'
      BY <1>1, <1>2, <1>4, <2>1, <2>4, <3>2 DEF ControlTypes
    <3>5. AtRest' /\ EnoughAreDeployed'
      BY <1>3, <3>2 DEF AtRest, EnoughAreDeployed
    <3>. QED  BY <3>3, <3>4, <3>5 DEF IInv, TypeOK
  <2>6. CASE ~(Len(list) >= number[ty] /\ ~m_running)
    <3>1. /\ m_running' = m_running /\ m_finish' = m_finish /\ UNCHANGED TaskVars
      BY <1>3, <2>3, <2>6 DEF TaskVars
    <3>2. TableTypes' /\ TaskInv'
      BY <1>1, <3>1, TasksKept
    <3>3. ControlTypes'
      BY <1>1, <1>4, <2>1, <2>4, <3>1 DEF ControlTypes
    <3>4. ~m_running => Len(list) < number[ty]
      <4>1. number[ty] \in Nat /\ Len(list) \in Nat
        BY <1>2, <2>2, RegistrationAssumption
      <4>. QED  BY <2>6, <4>1
    <3>5. \A other \in Types : other # ty => m_register_list'[other] = m_register_list[other]
      BY <1>1, <2>3 DEF ControlTypes
    <3>6. EnoughAreDeployed'
      BY <1>1, <1>3, <2>4, <3>1, <3>4, <3>5 DEF EnoughAreDeployed
    <3>. QED  BY <1>3, <3>2, <3>3, <3>6 DEF IInv, TypeOK, AtRest
  <2>. QED  BY <2>5, <2>6
<1>6. CASE m_finish[ty]
  <2>1. /\ answered' = [answered EXCEPT ![c] = @ \cup {ty}]
        /\ m_running' = m_running /\ m_finish' = m_finish /\ m_register_list' = m_register_list
        /\ UNCHANGED TaskVars
    BY <1>3, <1>6 DEF readBack, control, TaskVars
  <2>2. TableTypes' /\ TaskInv'
    BY <1>1, <2>1, TasksKept
  <2>3. ControlTypes'
    <3>1. answered' \in [Conns -> SUBSET Types]
      BY <1>1, <1>2, <2>1 DEF ControlTypes
    <3>. QED  BY <1>1, <1>4, <2>1, <3>1 DEF ControlTypes
  <2>4. EnoughAreDeployed' /\ AtRest'
    BY <1>1, <1>3, <2>1 DEF EnoughAreDeployed, AtRest
  <2>. QED  BY <2>2, <2>3, <2>4 DEF IInv, TypeOK
<1>. QED  BY <1>5, <1>6

LEMMA DeployIInv ==
  ASSUME IInv, up, NEW d \in Deployments, do_init_hash_rule(d[1], d[2])
  PROVE  IInv'
<1>1. ControlTypes /\ TableTypes /\ TaskInv /\ EnoughAreDeployed
  BY DEF IInv, TypeOK
<1>2. d[1] \in Types /\ d[2] \in Seq(Nodes)
  BY RegistrationAssumption
<1>3. /\ dup[d[1]] <= Len(d[2]) /\ extra' = extra + 1 /\ NewTask(d[1], d[2], extra')
      /\ UNCHANGED <<memory, database, up>> /\ up' = up
      /\ m_running' = m_running /\ m_finish' = m_finish /\ m_register_list' = m_register_list
      /\ agent' = agent /\ m_type' = m_type /\ answered' = answered /\ repeated' = repeated
  BY DEF do_init_hash_rule, control, connections
<1>4. extra' \in Nat /\ Len(d[2]) >= dup[d[1]]
  <2>1. dup[d[1]] \in Nat /\ Len(d[2]) \in Nat
    BY <1>2, RegistrationAssumption
  <2>. QED  BY <1>1, <1>3, <2>1 DEF ControlTypes
<1>5. TableTypes' /\ TaskInv'
  BY <1>1, <1>2, <1>3, <1>4, TaskBegins
<1>6. ControlTypes'
  BY <1>1, <1>3, <1>4 DEF ControlTypes
<1>7. AtRest' /\ EnoughAreDeployed'
  BY <1>1, <1>3 DEF AtRest, EnoughAreDeployed
<1>. QED  BY <1>5, <1>6, <1>7 DEF IInv, TypeOK

-----------------------------------------------------------------------------
(* The theorems.                                                           *)

LEMMA InitIInv == Init => IInv
<1>. SUFFICES ASSUME Init PROVE IInv
  OBVIOUS
<1>1. ControlTypes
  <2>1. AnyType \in Types /\ <<>> \in Seq(Entries)
    BY RegistrationAssumption DEF AnyType
  <2>. QED  BY <2>1 DEF Init, ControlTypes
<1>2. TableTypes
  <2>1. \A ty \in Types : NoTable \in [exists : BOOLEAN, rows : UNION {Partial(u) : u \in Types}]
    BY EmptyLayout DEF NoTable
  <2>2. rule_table \in [Types -> [exists : BOOLEAN, rows : UNION {Partial(u) : u \in Types}]]
    BY <2>1 DEF Init
  <2>3. \A ty \in Types : m_hash_table[ty] \in Partial(ty) /\ rule_table[ty].rows \in Partial(ty)
    BY EmptyLayout, EmptyTables DEF Init
  <2>. QED  BY <2>2, <2>3 DEF Init, TableTypes
<1>3. ASSUME NEW ty \in Types PROVE TypeQuiet(ty)
  <2>1. /\ rule_table[ty].exists = FALSE /\ rule_table[ty].rows = <<>>
        /\ m_hash_table[ty] = <<>> /\ m_current_bucket_number[ty] = 0
    BY EmptyTables DEF Init
  <2>2. DOMAIN <<>> = {} /\ Cardinality({}) = 0
    BY EmptyLayout, FS_EmptySet
  <2>. QED  BY <2>1, <2>2 DEF TypeQuiet
<1>4. TaskInv
  BY <1>3, TaskInvParts DEF Init, TaskParts
<1>5. AtRest /\ EnoughAreDeployed
  BY RegistrationAssumption DEF Init, AtRest, EnoughAreDeployed
<1>. QED  BY <1>1, <1>2, <1>4, <1>5 DEF IInv, TypeOK

\* Every step preserves the inductive invariant.
LEMMA NextIInv ==
  ASSUME IInv, [Next]_vars
  PROVE  IInv'
<1>1. CASE prepare_run
  BY <1>1, RestartIInv
<1>2. ASSUME up, NEW c \in Conns, Close(c) PROVE IInv'
  BY <1>2, CloseIInv
<1>3. ASSUME up, NEW c \in Conns, NEW ty \in Asks[c], readBack(c, ty) PROVE IInv'
  BY <1>3, ReadBackIInv
<1>4. ASSUME up, NEW d \in Deployments, do_init_hash_rule(d[1], d[2]) PROVE IInv'
  BY <1>4, DeployIInv
<1>5. ASSUME up, NEW t \in task, Worker(t) \/ Callback(t) PROVE IInv'
  BY <1>5, WorkerIInv, CallbackIInv
<1>6. CASE Ends
  BY <1>6, EndsIInv
<1>7. CASE UNCHANGED vars
  <2>1. /\ m_running' = m_running /\ m_finish' = m_finish /\ m_register_list' = m_register_list
        /\ agent' = agent /\ m_type' = m_type /\ answered' = answered
        /\ up' = up /\ extra' = extra /\ repeated' = repeated /\ task' = task
        /\ UNCHANGED TaskVars
    BY <1>7 DEF vars, control, connections, history, TaskVars
  <2>2. ControlTypes' /\ AtRest' /\ EnoughAreDeployed'
    BY <2>1 DEF IInv, TypeOK, ControlTypes, AtRest, EnoughAreDeployed
  <2>3. TableTypes' /\ TaskInv'
    BY <2>1, TasksKept DEF IInv, TypeOK
  <2>. QED  BY <2>2, <2>3 DEF IInv, TypeOK
<1>. QED  BY <1>1, <1>2, <1>3, <1>4, <1>5, <1>6, <1>7 DEF Next

\* The inductive invariant holds in every state.
THEOREM RegistrationInvariant == Spec => []IInv
BY InitIInv, NextIInv, PTL DEF Spec

\* The variables keep their types.
THEOREM RegistrationTypes == Spec => []TypeOK
<1>1. IInv => TypeOK
  BY DEF IInv
<1>. QED  BY <1>1, RegistrationInvariant, PTL

\* Between initialisations memory and database agree, and a restart finds what it needs.
THEOREM RegistrationDeployedMatchesDatabase == Spec => []DeployedMatchesDatabase
<1>1. IInv => DeployedMatchesDatabase
  BY DEF IInv, TaskInv
<1>. QED  BY <1>1, RegistrationInvariant, PTL

\* The copies of a bucket are on different nodes.
THEOREM RegistrationEachCopyElsewhere == Spec => []EachCopyElsewhere
<1>1. IInv => EachCopyElsewhere
  BY DEF IInv, TaskInv
<1>. QED  BY <1>1, RegistrationInvariant, PTL

\* No complete list of nodes waits while the server does not run.
THEOREM RegistrationEnoughAreDeployed == Spec => []EnoughAreDeployed
<1>1. IInv => EnoughAreDeployed
  BY DEF IInv
<1>. QED  BY <1>1, RegistrationInvariant, PTL

\* Only readBack starts a server that is up.
LEMMA OnlyReadBack ==
  ASSUME Next, up, m_running', ~m_running
  PROVE  \E c \in Conns : \E ty \in Asks[c] : readBack(c, ty)
<1>1. ASSUME NEW t, Worker(t) \/ Callback(t) PROVE ~m_running'
  BY <1>1 DEF Worker, drop_rule, create_rule, drop_order, create_order, init_operation_table,
              generate_every_bucket_rule, StatementFails, Undo, OnlyTask, control,
              Callback, after_init_db_rule, AfterFailure, Ends
<1>2. ASSUME NEW c, Close(c) PROVE ~m_running'
  BY <1>2 DEF Close
<1>3. ASSUME NEW d, do_init_hash_rule(d[1], d[2]) PROVE ~m_running'
  BY <1>3 DEF do_init_hash_rule, control
<1>4. ~Ends
  BY DEF Ends
<1>5. ~prepare_run
  BY DEF prepare_run
<1>. QED  BY <1>1, <1>2, <1>3, <1>4, <1>5 DEF Next

\* The nodes the rules are laid out over are still connected: while a list is one entry
\* short of complete, erasing an entry keeps it from getting complete.
THEOREM RegistrationCountedAreOpen == Spec => CountedAreOpen
<1>. DEFINE A == m_running' /\ ~m_running /\ up =>
                   \A ty \in Types : m_finish'[ty] /\ ~m_finish[ty] =>
                     \A i \in DOMAIN m_register_list'[ty] :
                       agent'[m_register_list'[ty][i].index] = "open"
<1>1. ASSUME IInv, [Next]_vars PROVE [A]_vars
  <2>. SUFFICES ASSUME Next, m_running', ~m_running, up, NEW ty \in Types,
                       m_finish'[ty], ~m_finish[ty],
                       NEW i \in DOMAIN m_register_list'[ty]
                PROVE  agent'[m_register_list'[ty][i].index] = "open"
    BY <1>1
  <2>0. PICK c \in Conns : \E u \in Asks[c] : readBack(c, u)
    BY OnlyReadBack
  <2>1. PICK u \in Asks[c] : readBack(c, u)
    BY <2>0
  <2>2. u \in Types /\ ControlTypes /\ EnoughAreDeployed
    BY <1>1, RegistrationAssumption DEF IInv, TypeOK
  <2>3. node_register(c, u) /\ ~m_finish[u] /\ agent' = [agent EXCEPT ![c] = "open"]
    BY <2>1 DEF readBack, control
  <2>. DEFINE old == m_register_list[u]
              entry == [index |-> c, ip |-> Owner[c]]
              list == Append(Purge(old), entry)
  <2>4. /\ m_register_list' = [m_register_list EXCEPT ![u] = list]
        /\ Len(list) >= number[u]
        /\ m_finish' = [m_finish EXCEPT ![u] = TRUE]
    BY <2>3 DEF node_register
  <2>5. ty = u
    BY <2>2, <2>4 DEF ControlTypes
  <2>6. Len(old) < number[u] /\ number[u] \in Nat /\ old \in Seq(Entries)
    BY <2>2, <2>3, RegistrationAssumption DEF EnoughAreDeployed, ControlTypes
  <2>7. /\ Purge(old) \in Seq(Entries)
        /\ \/ Len(Purge(old)) < Len(old)
           \/ Purge(old) = old /\ \A j \in DOMAIN old : ~Gone(old[j])
    BY <2>6, PurgedEntries
  <2>8. Len(list) = Len(Purge(old)) + 1
    BY <2>2, NodeAppended
  <2>9. Purge(old) = old /\ \A j \in DOMAIN old : ~Gone(old[j])
    <3>. HIDE DEF list, old
    <3>1. Len(old) \in Nat /\ Len(Purge(old)) \in Nat
      BY <2>6, <2>7
    <3>. QED  BY <2>4, <2>6, <2>7, <2>8, <3>1
  <2>10. /\ m_register_list'[u] = list
         /\ entry \in Entries
    BY <2>2, <2>4, RegistrationAssumption DEF ControlTypes, Entries
  <2>. HIDE DEF old, entry
  <2>11. /\ list = Append(old, entry) /\ DOMAIN list = 1..Len(old) + 1 /\ list[Len(old) + 1] = entry
         /\ DOMAIN old = 1..Len(old) /\ Len(old) \in Nat
         /\ \A j \in DOMAIN old : list[j] = old[j] /\ old[j] \in Entries
    BY <2>6, <2>9, <2>10
  <2>. HIDE DEF list
  <2>12. CASE i = Len(old) + 1
    <3>1. m_register_list'[ty][i].index = c
      BY <2>5, <2>10, <2>11, <2>12 DEF entry
    <3>. QED  BY <2>2, <2>3, <3>1 DEF ControlTypes
  <2>13. CASE i # Len(old) + 1
    <3>1. i \in DOMAIN old /\ m_register_list'[ty][i] = old[i] /\ old[i].index \in Conns
      BY <2>5, <2>10, <2>11, <2>13 DEF Entries
    <3>2. agent[old[i].index] = "open"
      BY <2>9, <3>1 DEF Gone
    <3>. QED  BY <2>2, <2>3, <3>1, <3>2 DEF ControlTypes
  <2>. QED  BY <2>12, <2>13
<1>2. Spec => [][A]_vars
  BY <1>1, RegistrationInvariant, PTL DEF Spec
<1>. QED  BY <1>2 DEF CountedAreOpen
=============================================================================
