----------------------------- MODULE RulesProofs -----------------------------
(***************************************************************************)
(* Proofs about Rules for every set of types and nodes, every capacity the *)
(* vectors begin with and any number of tasks and crashes: that the server *)
(* can always be started again, which queries it survives, that memory and *)
(* database agree, and that a restart forgets nothing.                     *)
(***************************************************************************)
EXTENDS Rules, FiniteSetTheorems, WellFoundedInduction, TLAPS

-----------------------------------------------------------------------------
(* Induction and recursion.                                                *)

\* A set of naturals that has 0 and the successor of whatever it has is all of them.
LEMMA NaturalsSet ==
  ASSUME NEW T \in SUBSET Nat, 0 \in T, \A n \in T : n + 1 \in T
  PROVE  T = Nat
<1>. SUFFICES ASSUME Nat \ T # {} PROVE FALSE
  OBVIOUS
<1>1. PICK n \in Nat \ T : \A m \in Nat \ T : ~(<<m, n>> \in OpToRel(<, Nat))
  BY NatLessThanWellFounded, WFMin
<1>2. \A m \in Nat \ T : ~(m < n)
  BY <1>1 DEF OpToRel
<1>3. n # 0 /\ n - 1 \in Nat /\ n - 1 < n
  OBVIOUS
<1>4. n - 1 \in T /\ (n - 1) + 1 = n
  BY <1>2, <1>3
<1>. QED  BY <1>4

\* The functions on 0..K that are base at 0, and at every other number n what step
\* makes of n and the value before.
Iterations(V) == [Nat -> [V -> V]]
Iterated(K, V, base, step) ==
  {f \in [0..K -> V] : /\ f[0] = base
                       /\ \A n \in 1..K : f[n] = step[n][f[n - 1]]}

\* There is such a function.
LEMMA NaturalsRecursion ==
  ASSUME NEW K \in Nat, NEW V, NEW base \in V, NEW step \in Iterations(V)
  PROVE  Iterated(K, V, base, step) # {}
<1>. DEFINE T == {k \in Nat : Iterated(k, V, base, step) # {}}
<1>1. 0 \in T
  <2>. DEFINE f == [n \in 0..0 |-> base]
  <2>1. f \in Iterated(0, V, base, step)
    BY DEF Iterated
  <2>. QED  BY <2>1
<1>2. ASSUME NEW k \in T PROVE k + 1 \in T
  <2>1. k \in Nat /\ \E f : f \in Iterated(k, V, base, step)
    OBVIOUS
  <2>. HIDE DEF T
  <2>2. PICK f \in [0..k -> V] : f[0] = base /\ \A n \in 1..k : f[n] = step[n][f[n - 1]]
    BY <2>1 DEF Iterated
  <2>3. k \in 0..k /\ f[k] \in V /\ k + 1 \in Nat
    BY <2>1, <2>2
  <2>. DEFINE x == step[k + 1][f[k]]
              g == [n \in 0..(k + 1) |-> IF n = k + 1 THEN x ELSE f[n]]
  <2>4. x \in V
    <3>1. step[k + 1] \in [V -> V]
      BY <2>3 DEF Iterations
    <3>. QED  BY <2>3, <3>1
  <2>5. /\ \A n \in 0..k : n \in 0..(k + 1) /\ n # k + 1
        /\ \A n \in 0..(k + 1) : n = k + 1 \/ n \in 0..k
    BY <2>1
  <2>6. g \in [0..(k + 1) -> V]
    <3>. HIDE DEF x
    <3>. QED  BY <2>2, <2>4, <2>5
  <2>7. \A n \in 0..k : g[n] = f[n]
    <3>. HIDE DEF x
    <3>. QED  BY <2>5
  <2>8. g[k + 1] = x
    <3>. HIDE DEF x
    <3>. QED  BY <2>1
  <2>. HIDE DEF g
  <2>9. ASSUME NEW n \in 1..(k + 1) PROVE g[n] = step[n][g[n - 1]]
    <3>1. CASE n = k + 1
      <4>1. n - 1 = k
        BY <2>1, <3>1
      <4>. QED  BY <2>3, <2>7, <2>8, <3>1, <4>1
    <3>2. CASE n # k + 1
      <4>1. n \in 1..k /\ n \in 0..k /\ n - 1 \in 0..k
        BY <2>1, <3>2
      <4>. QED  BY <2>2, <2>7, <4>1
    <3>. QED  BY <3>1, <3>2
  <2>10. g[0] = base
    BY <2>1, <2>2, <2>7
  <2>11. g \in Iterated(k + 1, V, base, step)
    BY <2>6, <2>9, <2>10 DEF Iterated
  <2>. QED  BY <2>3, <2>11 DEF T
<1>. HIDE DEF T
<1>3. T \in SUBSET Nat
  BY DEF T
<1>4. T = Nat
  BY <1>1, <1>2, <1>3, NaturalsSet
<1>. QED  BY <1>4 DEF T

-----------------------------------------------------------------------------
(* Powers of two.                                                          *)

\* The powers of two, which are the numbers of subsets.
LEMMA PowersOfTwo ==
  /\ 2 ^ 0 = 1
  /\ \A n \in Nat : 2 ^ n \in Nat \ {0} /\ 2 ^ (n + 1) = 2 * 2 ^ n
<1>. DEFINE S(n) == SUBSET (1..n)
            Larger(n) == {T \cup {n + 1} : T \in S(n)}
<1>1. \A n \in Nat : IsFiniteSet(1..n) /\ Cardinality(1..n) = n
  BY FS_Interval
<1>2. \A n \in Nat : IsFiniteSet(S(n)) /\ Cardinality(S(n)) = 2 ^ n
  <2>. SUFFICES ASSUME NEW n \in Nat PROVE IsFiniteSet(S(n)) /\ Cardinality(S(n)) = 2 ^ n
    OBVIOUS
  <2>1. /\ IsFiniteSet(SUBSET (1..n))
        /\ Cardinality(SUBSET (1..n)) = 2 ^ Cardinality(1..n)
    BY <1>1, FS_SUBSET
  <2>. QED  BY <1>1, <2>1
<1>3. 2 ^ 0 = 1
  <2>1. S(0) = {{}}
    OBVIOUS
  <2>2. Cardinality({{}}) = 1
    BY FS_Singleton
  <2>. QED  BY <1>2, <2>1, <2>2
<1>4. ASSUME NEW n \in Nat
      PROVE  2 ^ n \in Nat \ {0} /\ 2 ^ (n + 1) = 2 * 2 ^ n
  <2>1. 2 ^ n \in Nat \ {0}
    <3>1. {} \in S(n)
      OBVIOUS
    <3>2. Cardinality(S(n)) \in Nat /\ Cardinality(S(n)) # 0
      BY <1>2, <3>1, FS_CardinalityType, FS_EmptySet
    <3>. QED  BY <1>2, <3>2
  <2>2. S(n + 1) = S(n) \cup Larger(n)
    <3>1. ASSUME NEW T \in S(n + 1) PROVE T \in S(n) \cup Larger(n)
      <4>1. CASE n + 1 \notin T
        BY <4>1
      <4>2. CASE n + 1 \in T
        <5>1. T \ {n + 1} \in S(n) /\ T = (T \ {n + 1}) \cup {n + 1}
          BY <4>2
        <5>. QED  BY <5>1
      <4>. QED  BY <4>1, <4>2
    <3>2. 1..n \subseteq 1..(n + 1) /\ n + 1 \in 1..(n + 1)
      OBVIOUS
    <3>. QED  BY <3>1, <3>2
  <2>3. S(n) \cap Larger(n) = {}
    OBVIOUS
  <2>4. IsFiniteSet(Larger(n)) /\ Cardinality(Larger(n)) = 2 ^ n
    <3>. DEFINE f == [T \in S(n) |-> T \cup {n + 1}]
    <3>1. f \in Bijection(S(n), Larger(n))
      <4>1. f \in [S(n) -> Larger(n)]
        OBVIOUS
      <4>2. ASSUME NEW T \in S(n), NEW U \in S(n), f[T] = f[U] PROVE T = U
        <5>1. T = f[T] \ {n + 1} /\ U = f[U] \ {n + 1}
          OBVIOUS
        <5>. QED  BY <4>2, <5>1
      <4>3. \A U \in Larger(n) : \E T \in S(n) : f[T] = U
        OBVIOUS
      <4>. QED  BY <4>1, <4>2, <4>3 DEF Bijection, Injection, Surjection, IsInjective
    <3>2. ExistsBijection(S(n), Larger(n))
      BY <3>1 DEF ExistsBijection
    <3>. HIDE DEF S, Larger
    <3>3. IsFiniteSet(Larger(n)) /\ Cardinality(Larger(n)) = Cardinality(S(n))
      BY <1>2, <3>2, FS_Bijection
    <3>. QED  BY <1>2, <3>3
  <2>. HIDE DEF S, Larger
  <2>5. Cardinality(S(n) \cup Larger(n)) = Cardinality(S(n)) + Cardinality(Larger(n))
    <3>1. /\ Cardinality(S(n) \cup Larger(n)) =
               Cardinality(S(n)) + Cardinality(Larger(n)) - Cardinality(S(n) \cap Larger(n))
      BY <1>2, <2>4, FS_Union
    <3>2. Cardinality(S(n) \cap Larger(n)) = 0
      BY <2>3, FS_EmptySet
    <3>. QED  BY <1>2, <2>1, <2>4, <3>1, <3>2
  <2>. QED  BY <1>2, <2>1, <2>2, <2>4, <2>5
<1>. QED  BY <1>3, <1>4

-----------------------------------------------------------------------------
(* The inductive invariant.                                                *)

\* A vector of elements of I.
Stored(I) == UNION {[D -> I] : D \in SUBSET Nat}
Vectors(I) == [size : Nat, capacity : Nat, items : Stored(I), overrun : BOOLEAN]

HashItems == [bucket_nr : Nat, ip : Nodes \cup {Garbage}]

Orders ==
  [cmd : {"MIGRATION"}, bucket : Nat, src : Nodes \cup {Garbage}, dest : Nodes]
    \cup [cmd : {"EXTENT"}, new_mod : Nat \ {0}]

OrderItems == [version : Nat, order : Orders \cup {[cmd |-> "UNDEFINED"]}]

Tasks ==
  [type : Types, order : Orders, copied : Nat,
   phase : {"rule", "order", "memory", "nodes", "failed"}]

Migrating(t) == t.order.cmd = "MIGRATION"
Extending(t) == t.order.cmd = "EXTENT"

TypeOK ==
  /\ m_hash_table \in [Types -> Vectors(HashItems)]
  /\ m_order_table \in [{"MU", "SU"} -> Vectors(OrderItems)]
  /\ m_current_version \in [Types -> Nat]
  /\ m_current_mod \in [Types -> Nat]
  /\ m_current_bucket_number \in [Types -> Nat]
  /\ db_order \in [Types -> Seq(Orders)]
  /\ task \subseteq Tasks /\ IsFiniteSet(task)
  /\ started \in Nat /\ crashes \in Nat /\ dead \in BOOLEAN
  /\ overlapped \subseteq Types /\ broken \subseteq Types
  /\ applied \subseteq Types \X {"MIGRATION", "EXTENT"}

\* The rows are numbered from 0 on without a gap, and there is one at least.
Numbered ==
  /\ db_rule = [ty \in Types |-> db_rule[ty]]
  /\ \A ty \in Types : /\ Rows(ty) \in Nat \ {0}
                       /\ db_rule[ty] \in [0..Rows(ty) - 1 -> Nodes]

\* There is a row for every bucket the server knows.
KnownAreRows ==
  \A ty \in Types :
    /\ m_current_bucket_number[ty] = 2 ^ m_current_mod[ty]
    /\ m_current_bucket_number[ty] <= Rows(ty)

\* A type is extended once at a time and a bucket moved once at a time.
OneAtATime ==
  \A t, u \in task : t.type = u.type =>
    /\ Extending(t) /\ Extending(u) => t = u
    /\ Migrating(t) /\ Migrating(u) /\ t.order.bucket = u.order.bucket => t = u

\* An extension that changes the rules is one of the modulus there is, and what it
\* copied are the last rows.
ExtendsByRows ==
  \A t \in task :
    Extending(t) /\ t.phase \in {"rule", "order", "memory"} =>
      /\ t.order.new_mod = m_current_mod[t.type] + 1
      /\ t.copied + m_current_bucket_number[t.type] <= Rows(t.type)
      /\ IF t.phase = "rule" THEN t.copied < m_current_bucket_number[t.type]
                             ELSE t.copied = m_current_bucket_number[t.type]

\* As long as the rules fit, the vector is the first one and has them all.
HashKept ==
  \A ty \in Types : Fits(ty) /\ ty \notin ExtendedMUs =>
    /\ m_hash_table[ty].capacity = INIT_VEC_SIZE
    /\ \A b \in 0..m_current_bucket_number[ty] - 1 :
         /\ b \in DOMAIN m_hash_table[ty].items
         /\ m_hash_table[ty].items[b].bucket_nr = b

\* The same of the orders.
OrdersKept ==
  \A ty \in Types : OrdersFit(ty) /\ ~(ty = "SU" /\ <<ty, "MIGRATION">> \in applied) =>
    /\ m_order_table[ty].capacity = INIT_VEC_SIZE
    /\ \A v \in 1..m_current_version[ty] :
         /\ v \in DOMAIN m_order_table[ty].items
         /\ m_order_table[ty].items[v].version = v

\* Every version is in the database, and so is that of every task about to take one.
InMemory(ty) == {t \in task : t.type = ty /\ t.phase = "memory"}
VersionsAreStored ==
  \A ty \in Types : m_current_version[ty] + Cardinality(InMemory(ty)) <= Len(db_order[ty])

\* Buckets that no migration moves.
Settled ==
  \A ty \in Sound : \A b \in 0..m_current_bucket_number[ty] - 1 :
    ~Moving(ty, b) => m_hash_table[ty].items[b].ip = db_rule[ty][b]

\* A migration under way: the row names the source, later the destination, and the
\* rule in memory the source until the end.
InTransit ==
  \A t \in task : Migrating(t) /\ t.type \in Sound =>
    /\ t.phase \in {"rule", "order", "memory"}
    /\ t.order.bucket < m_current_bucket_number[t.type]
    /\ m_hash_table[t.type].items[t.order.bucket].ip = t.order.src
    /\ db_rule[t.type][t.order.bucket] = IF t.phase = "rule" THEN t.order.src ELSE t.order.dest

\* An extension under way: no migration is, and what it copied are copies still.
CopiesHold ==
  \A t \in task :
    Extending(t) /\ t.type \in Sound /\ t.phase \in {"rule", "order", "memory"} =>
      /\ Active(t.type, "MIGRATION") = {}
      /\ \A i \in 0..t.copied - 1 :
           db_rule[t.type][i + m_current_bucket_number[t.type]] = db_rule[t.type][i]

IInv ==
  /\ TypeOK
  /\ Numbered
  /\ KnownAreRows
  /\ OneAtATime
  /\ ExtendsByRows
  /\ HashKept
  /\ OrdersKept
  /\ VersionsAreStored
  /\ Settled
  /\ InTransit
  /\ CopiesHold

-----------------------------------------------------------------------------
(* Vectors.                                                                *)

LEMMA StoredMember ==
  ASSUME NEW I, NEW t
  PROVE  t \in Stored(I) <=> /\ t = [i \in DOMAIN t |-> t[i]]
                             /\ DOMAIN t \subseteq Nat
                             /\ \A i \in DOMAIN t : t[i] \in I
<1>1. ASSUME t \in Stored(I)
      PROVE  /\ t = [i \in DOMAIN t |-> t[i]] /\ DOMAIN t \subseteq Nat
             /\ \A i \in DOMAIN t : t[i] \in I
  <2>1. PICK D \in SUBSET Nat : t \in [D -> I]
    BY <1>1 DEF Stored
  <2>. QED  BY <2>1
<1>2. ASSUME t = [i \in DOMAIN t |-> t[i]], DOMAIN t \subseteq Nat, \A i \in DOMAIN t : t[i] \in I
      PROVE  t \in Stored(I)
  <2>1. t \in [DOMAIN t -> I] /\ DOMAIN t \in SUBSET Nat
    BY <1>2
  <2>. QED  BY <2>1 DEF Stored
<1>. QED  BY <1>1, <1>2

\* A vector after v[i] = x, where i is below the capacity.
Written(v, w, i, x) ==
  /\ w.capacity = v.capacity
  /\ DOMAIN w.items = DOMAIN v.items \cup {i}
  /\ w.items[i] = x
  /\ \A j \in DOMAIN v.items \ {i} : w.items[j] = v.items[j]

LEMMA WriteItem ==
  ASSUME NEW I, NEW v \in Vectors(I), NEW i \in Nat, NEW x \in I
  PROVE  /\ Write(v, i, x) \in Vectors(I)
         /\ Write(v, i, x).size = v.size
         /\ i < v.capacity => Written(v, Write(v, i, x), i, x)
<1>. DEFINE t == [j \in DOMAIN v.items \cup {i} |-> IF j = i THEN x ELSE v.items[j]]
            w == Write(v, i, x)
<1>0. v.items \in Stored(I) /\ v.capacity \in Nat
  BY DEF Vectors
<1>1. /\ DOMAIN t = DOMAIN v.items \cup {i} /\ t[i] = x
      /\ \A j \in DOMAIN v.items \ {i} : t[j] = v.items[j]
      /\ t = [j \in DOMAIN t |-> t[j]]
  OBVIOUS
<1>2. w = IF i < v.capacity THEN [v EXCEPT !.items = t] ELSE [v EXCEPT !.overrun = TRUE]
  BY DEF Write
<1>. HIDE DEF t, w
<1>3. t \in Stored(I)
  <2>1. /\ v.items = [j \in DOMAIN v.items |-> v.items[j]] /\ DOMAIN v.items \subseteq Nat
        /\ \A j \in DOMAIN v.items : v.items[j] \in I
    BY <1>0, StoredMember
  <2>2. DOMAIN t \subseteq Nat /\ \A j \in DOMAIN t : t[j] \in I
    BY <1>1, <2>1
  <2>. QED  BY <1>1, <2>2, StoredMember
<1>4. w \in Vectors(I) /\ w.size = v.size
  BY <1>2, <1>3 DEF Vectors
<1>5. ASSUME i < v.capacity PROVE Written(v, w, i, x)
  <2>1. w.items = t /\ w.capacity = v.capacity
    BY <1>2, <1>5 DEF Vectors
  <2>. QED  BY <1>1, <2>1 DEF Written
<1>. QED  BY <1>4, <1>5 DEF w

LEMMA ReserveVector ==
  ASSUME NEW I, NEW v \in Vectors(I), NEW n \in Nat
  PROVE  reserve(v, n) \in Vectors(I)
<1>. DEFINE t == [i \in DOMAIN v.items \cap 0..v.size - 1 |-> v.items[i]]
<1>0. v.items \in Stored(I)
  BY DEF Vectors
<1>1. /\ DOMAIN t \subseteq DOMAIN v.items /\ \A i \in DOMAIN t : t[i] = v.items[i]
      /\ t = [j \in DOMAIN t |-> t[j]]
  OBVIOUS
<1>2. reserve(v, n) = IF n <= v.capacity THEN v ELSE [v EXCEPT !.capacity = n, !.items = t]
  BY DEF reserve
<1>. HIDE DEF t
<1>3. t \in Stored(I)
  <2>1. DOMAIN v.items \subseteq Nat /\ \A i \in DOMAIN v.items : v.items[i] \in I
    BY <1>0, StoredMember
  <2>2. DOMAIN t \subseteq Nat /\ \A i \in DOMAIN t : t[i] \in I
    BY <1>1, <2>1
  <2>. QED  BY <1>1, <2>2, StoredMember
<1>. QED  BY <1>2, <1>3 DEF Vectors

LEMMA PushBack ==
  ASSUME NEW I, NEW v \in Vectors(I), NEW x \in I
  PROVE  push_back(v, x) \in Vectors(I)
<1>. DEFINE w == IF v.size < v.capacity THEN v ELSE reserve(v, 2 * v.size + 1)
            u == Write(w, v.size, x)
<1>1. v.size \in Nat /\ 2 * v.size + 1 \in Nat
  BY DEF Vectors
<1>2. w \in Vectors(I)
  BY <1>1, ReserveVector
<1>3. push_back(v, x) = [u EXCEPT !.size = v.size + 1]
  BY DEF push_back
<1>. HIDE DEF w
<1>4. u \in Vectors(I)
  BY <1>1, <1>2, WriteItem
<1>. HIDE DEF u
<1>. QED  BY <1>1, <1>3, <1>4 DEF Vectors

LEMMA AddHashItem ==
  ASSUME NEW v \in Vectors(HashItems), NEW rule \in HashItems, NEW ty
  PROVE  /\ add_new_hash_item(v, rule, ty) \in Vectors(HashItems)
         /\ rule.bucket_nr < v.capacity =>
              Written(v, add_new_hash_item(v, rule, ty), rule.bucket_nr, rule)
<1>. DEFINE index == rule.bucket_nr
            full == IF ty = "MU" THEN v.capacity <= index ELSE v.capacity < index
            w == IF full THEN reserve(v, 2 * index + 1) ELSE v
<1>1. index \in Nat /\ 2 * index + 1 \in Nat /\ v.capacity \in Nat
  BY DEF Vectors, HashItems
<1>2. add_new_hash_item(v, rule, ty) = Write(w, index, rule)
  BY DEF add_new_hash_item
<1>3. w \in Vectors(HashItems)
  BY <1>1, ReserveVector
<1>4. index < v.capacity => w = v
  BY <1>1
<1>. HIDE DEF w, index
<1>5. /\ Write(w, index, rule) \in Vectors(HashItems)
      /\ index < w.capacity => Written(w, Write(w, index, rule), index, rule)
  BY <1>1, <1>3, WriteItem
<1>. QED  BY <1>2, <1>4, <1>5 DEF index

LEMMA AddOrderItem ==
  ASSUME NEW v \in Vectors(OrderItems), NEW order \in OrderItems
  PROVE  /\ add_new_order_item(v, order) \in Vectors(OrderItems)
         /\ order.version < v.capacity =>
              Written(v, add_new_order_item(v, order), order.version, order)
<1>. DEFINE index == order.version
            w == IF v.capacity <= index THEN reserve(v, 2 * index + 1) ELSE v
<1>1. index \in Nat /\ 2 * index + 1 \in Nat /\ v.capacity \in Nat
  BY DEF Vectors, OrderItems
<1>2. add_new_order_item(v, order) = Write(w, index, order)
  BY DEF add_new_order_item
<1>3. w \in Vectors(OrderItems)
  BY <1>1, ReserveVector
<1>4. index < v.capacity => w = v
  BY <1>1
<1>. HIDE DEF w, index
<1>5. /\ Write(w, index, order) \in Vectors(OrderItems)
      /\ index < w.capacity => Written(w, Write(w, index, order), index, order)
  BY <1>1, <1>3, WriteItem
<1>. QED  BY <1>2, <1>4, <1>5 DEF index

LEMMA ReservedVector ==
  ASSUME NEW I, NEW n \in Nat
  PROVE  /\ Reserved(n) \in Vectors(I) /\ Reserved(n).capacity = n
         /\ DOMAIN Reserved(n).items = {}
<1>1. DOMAIN <<>> = {} /\ <<>> = [i \in {} |-> 0]
  OBVIOUS
<1>2. <<>> \in Stored(I)
  BY <1>1, StoredMember
<1>. QED  BY <1>1, <1>2 DEF Reserved, Vectors

LEMMA ReadItem ==
  ASSUME NEW v \in Vectors(HashItems), NEW i
  PROVE  /\ Read(v, i).ip \in Nodes \cup {Garbage}
         /\ i \in DOMAIN v.items => Read(v, i) = v.items[i]
<1>1. ASSUME i \in DOMAIN v.items PROVE Read(v, i) = v.items[i] /\ v.items[i] \in HashItems
  <2>1. v.items \in Stored(HashItems)
    BY DEF Vectors
  <2>. QED  BY <1>1, <2>1, StoredMember DEF Read
<1>2. ASSUME i \notin DOMAIN v.items PROVE Read(v, i).ip = Garbage
  BY <1>2 DEF Read
<1>. QED  BY <1>1, <1>2 DEF HashItems

-----------------------------------------------------------------------------
(* Loading and extending the tables: what the recursions compute, by       *)
(* induction on the number of rows, orders and rules.                      *)

\* The rules read at the start: all the rows, when they fit.
LEMMA GenerateRules ==
  ASSUME Numbered, NEW ty \in Types, INIT_VEC_SIZE \in Nat
  PROVE  /\ generate_all_rule(ty) \in Vectors(HashItems)
         /\ Fits(ty) =>
              /\ generate_all_rule(ty).capacity = INIT_VEC_SIZE
              /\ \A b \in 0..Rows(ty) - 1 :
                   /\ b \in DOMAIN generate_all_rule(ty).items
                   /\ generate_all_rule(ty).items[b] =
                        [bucket_nr |-> b, ip |-> db_rule[ty][b]]
<1>. DEFINE K == Rows(ty)
            V == Vectors(HashItems)
            rule(n) == [bucket_nr |-> n - 1, ip |-> db_rule[ty][n - 1]]
            after(v, n) == add_new_hash_item(v, rule(n), ty)
            body(f, n) == IF n = 0 THEN Reserved(INIT_VEC_SIZE) ELSE after(f[n - 1], n)
            IsLoad(f) == f = [n \in 0..K |-> body(f, n)]
            load == CHOOSE f : IsLoad(f)
            step == [n \in Nat |-> [v \in V |-> IF n \in 1..K THEN after(v, n) ELSE v]]
<1>1. generate_all_rule(ty) = load[K]
  BY DEF generate_all_rule, Rows
<1>2. K \in Nat /\ \A n \in 1..K : rule(n) \in HashItems /\ n - 1 \in Nat
  BY DEF Numbered, HashItems
<1>3. \A v \in V : \A n \in 1..K : after(v, n) \in V
  BY <1>2, AddHashItem
<1>4. /\ Reserved(INIT_VEC_SIZE) \in V /\ Reserved(INIT_VEC_SIZE).capacity = INIT_VEC_SIZE
  BY ReservedVector
<1>. HIDE DEF K
<1>5. IsLoad(load)
  <2>1. step \in Iterations(V)
    BY <1>3 DEF Iterations
  <2>. HIDE DEF step, after, IsLoad, load, V
  <2>2. Iterated(K, V, Reserved(INIT_VEC_SIZE), step) # {}
    BY <1>2, <1>4, <2>1, NaturalsRecursion
  <2>3. PICK f \in [0..K -> V] :
          /\ f[0] = Reserved(INIT_VEC_SIZE)
          /\ \A n \in 1..K : f[n] = step[n][f[n - 1]]
    BY <2>2 DEF Iterated
  <2>4. ASSUME NEW n \in 0..K PROVE f[n] = body(f, n)
    <3>1. CASE n = 0
      BY <2>3, <3>1
    <3>2. CASE n # 0
      <4>1. n \in 1..K /\ n \in Nat /\ n - 1 \in 0..K
        BY <1>2, <3>2
      <4>2. f[n - 1] \in V
        BY <2>3, <4>1
      <4>3. step[n][f[n - 1]] = after(f[n - 1], n)
        BY <4>1, <4>2 DEF step
      <4>. QED  BY <2>3, <3>2, <4>1, <4>3
    <3>. QED  BY <3>1, <3>2
  <2>. HIDE DEF body
  <2>5. IsLoad(f)
    <3>1. f = [n \in 0..K |-> f[n]]
      BY <2>3
    <3>. QED  BY <2>4, <3>1 DEF IsLoad
  <2>. QED  BY <2>5 DEF load
<1>. HIDE DEF load, after, V
<1>6. /\ K \in 0..K /\ 0 \in 0..K
      /\ load[0] = Reserved(INIT_VEC_SIZE)
      /\ \A n \in 1..K : load[n] = after(load[n - 1], n)
  <2>1. \A n \in 0..K : load[n] = body(load, n)
    <3>. HIDE DEF body
    <3>. QED  BY <1>5
  <2>2. K \in 0..K /\ 0 \in 0..K /\ \A n \in 1..K : n \in 0..K /\ n # 0
    BY <1>2
  <2>. QED  BY <2>1, <2>2
<1>. DEFINE Good(n) ==
              /\ load[n] \in V
              /\ Fits(ty) =>
                   /\ load[n].capacity = INIT_VEC_SIZE
                   /\ \A b \in 0..n - 1 :
                        /\ b \in DOMAIN load[n].items
                        /\ load[n].items[b] = [bucket_nr |-> b, ip |-> db_rule[ty][b]]
            T == {n \in Nat : n <= K => Good(n)}
<1>7. 0 \in T
  BY <1>4, <1>6
<1>8. ASSUME NEW n \in T PROVE n + 1 \in T
  <2>. SUFFICES ASSUME n + 1 <= K PROVE Good(n + 1)
    OBVIOUS
  <2>1. n \in Nat /\ n \in 0..K /\ n + 1 \in 1..K /\ n + 1 - 1 = n
    BY <1>2
  <2>2. Good(n)
    BY <2>1
  <2>. HIDE DEF T
  <2>3. load[n + 1] = after(load[n], n + 1)
    BY <1>6, <2>1
  <2>4. load[n + 1] \in V
    BY <1>3, <2>1, <2>2, <2>3
  <2>5. ASSUME Fits(ty)
        PROVE  Written(load[n], load[n + 1], n, [bucket_nr |-> n, ip |-> db_rule[ty][n]])
    <3>1. n < load[n].capacity
      <4>1. K <= INIT_VEC_SIZE
        BY <2>5 DEF Fits, K
      <4>. QED  BY <1>2, <2>1, <2>2, <2>5, <4>1
    <3>2. rule(n + 1) = [bucket_nr |-> n, ip |-> db_rule[ty][n]] /\ rule(n + 1) \in HashItems
      BY <1>2, <2>1
    <3>3. rule(n + 1).bucket_nr = n
      BY <3>2
    <3>. HIDE DEF rule
    <3>. QED  BY <2>2, <2>3, <3>1, <3>2, <3>3, AddHashItem DEF after, V
  <2>6. ASSUME Fits(ty), NEW b \in 0..n
        PROVE  /\ b \in DOMAIN load[n + 1].items
               /\ load[n + 1].items[b] = [bucket_nr |-> b, ip |-> db_rule[ty][b]]
    <3>1. CASE b = n
      BY <2>5, <2>6, <3>1 DEF Written
    <3>2. CASE b # n
      <4>1. b \in 0..n - 1
        BY <2>1, <3>2
      <4>. QED  BY <2>2, <2>5, <2>6, <3>2, <4>1 DEF Written
    <3>. QED  BY <3>1, <3>2
  <2>7. Fits(ty) => load[n + 1].capacity = INIT_VEC_SIZE
    BY <2>2, <2>5 DEF Written
  <2>. QED  BY <2>1, <2>4, <2>6, <2>7
<1>9. T \in SUBSET Nat
  OBVIOUS
<1>. HIDE DEF T
<1>10. T = Nat
  BY <1>7, <1>8, <1>9, NaturalsSet
<1>11. K \in T
  BY <1>2, <1>10
<1>12. Good(K)
  BY <1>2, <1>11 DEF T
<1>. QED  BY <1>1, <1>12 DEF K, V

LEMMA FirstOrdersVector ==
  /\ FirstOrders \in Vectors(OrderItems)
  /\ FirstOrders.capacity = INIT_VEC_SIZE
<1>. DEFINE first == [version |-> 0, order |-> [cmd |-> "UNDEFINED"]]
<1>1. first \in OrderItems
  BY DEF OrderItems
<1>2. INIT_VEC_SIZE \in Nat /\ 0 \in Nat /\ 0 < INIT_VEC_SIZE
  BY RulesAssumption
<1>3. /\ Reserved(INIT_VEC_SIZE) \in Vectors(OrderItems)
      /\ Reserved(INIT_VEC_SIZE).capacity = INIT_VEC_SIZE
  BY <1>2, ReservedVector
<1>. HIDE DEF first
<1>4. /\ Write(Reserved(INIT_VEC_SIZE), 0, first) \in Vectors(OrderItems)
      /\ Written(Reserved(INIT_VEC_SIZE), Write(Reserved(INIT_VEC_SIZE), 0, first), 0, first)
  BY <1>1, <1>2, <1>3, WriteItem
<1>. QED  BY <1>3, <1>4 DEF FirstOrders, first, Written

\* The orders read at the start: all there are, when they fit.
LEMMA GenerateOrders ==
  ASSUME NEW ty \in Types, db_order[ty] \in Seq(Orders)
  PROVE  /\ generate_all_order(ty) \in Vectors(OrderItems)
         /\ Len(db_order[ty]) < INIT_VEC_SIZE =>
              /\ generate_all_order(ty).capacity = INIT_VEC_SIZE
              /\ \A v \in 1..Len(db_order[ty]) :
                   /\ v \in DOMAIN generate_all_order(ty).items
                   /\ generate_all_order(ty).items[v].version = v
<1>. DEFINE K == Len(db_order[ty])
            V == Vectors(OrderItems)
            item(n) == [version |-> n, order |-> db_order[ty][n]]
            after(v, n) == add_new_order_item(v, item(n))
            body(f, n) == IF n = 0 THEN FirstOrders ELSE after(f[n - 1], n)
            IsLoad(f) == f = [n \in 0..K |-> body(f, n)]
            load == CHOOSE f : IsLoad(f)
            step == [n \in Nat |-> [v \in V |-> IF n \in 1..K THEN after(v, n) ELSE v]]
<1>1. generate_all_order(ty) = load[K]
  BY DEF generate_all_order
<1>2. K \in Nat /\ \A n \in 1..K : item(n) \in OrderItems
  <2>1. \A n \in 1..K : db_order[ty][n] \in Orders
    OBVIOUS
  <2>. QED  BY <2>1 DEF OrderItems
<1>3. \A v \in V : \A n \in 1..K : after(v, n) \in V
  BY <1>2, AddOrderItem
<1>4. FirstOrders \in V /\ FirstOrders.capacity = INIT_VEC_SIZE
  BY FirstOrdersVector
<1>. HIDE DEF K
<1>5. IsLoad(load)
  <2>1. step \in Iterations(V)
    BY <1>3 DEF Iterations
  <2>. HIDE DEF step, after, IsLoad, load, V
  <2>2. Iterated(K, V, FirstOrders, step) # {}
    BY <1>2, <1>4, <2>1, NaturalsRecursion
  <2>3. PICK f \in [0..K -> V] :
          /\ f[0] = FirstOrders
          /\ \A n \in 1..K : f[n] = step[n][f[n - 1]]
    BY <2>2 DEF Iterated
  <2>4. ASSUME NEW n \in 0..K PROVE f[n] = body(f, n)
    <3>1. CASE n = 0
      BY <2>3, <3>1
    <3>2. CASE n # 0
      <4>1. n \in 1..K /\ n \in Nat /\ n - 1 \in 0..K
        BY <1>2, <3>2
      <4>2. f[n - 1] \in V
        BY <2>3, <4>1
      <4>3. step[n][f[n - 1]] = after(f[n - 1], n)
        BY <4>1, <4>2 DEF step
      <4>. QED  BY <2>3, <3>2, <4>1, <4>3
    <3>. QED  BY <3>1, <3>2
  <2>. HIDE DEF body
  <2>5. IsLoad(f)
    <3>1. f = [n \in 0..K |-> f[n]]
      BY <2>3
    <3>. QED  BY <2>4, <3>1 DEF IsLoad
  <2>. QED  BY <2>5 DEF load
<1>. HIDE DEF load, after, V
<1>6. /\ K \in 0..K /\ 0 \in 0..K
      /\ load[0] = FirstOrders
      /\ \A n \in 1..K : load[n] = after(load[n - 1], n)
  <2>1. \A n \in 0..K : load[n] = body(load, n)
    <3>. HIDE DEF body
    <3>. QED  BY <1>5
  <2>2. K \in 0..K /\ 0 \in 0..K /\ \A n \in 1..K : n \in 0..K /\ n # 0
    BY <1>2
  <2>. QED  BY <2>1, <2>2
<1>. DEFINE Good(n) ==
              /\ load[n] \in V
              /\ K < INIT_VEC_SIZE =>
                   /\ load[n].capacity = INIT_VEC_SIZE
                   /\ \A v \in 1..n : v \in DOMAIN load[n].items /\ load[n].items[v].version = v
            T == {n \in Nat : n <= K => Good(n)}
<1>7. 0 \in T
  BY <1>4, <1>6
<1>8. ASSUME NEW n \in T PROVE n + 1 \in T
  <2>. SUFFICES ASSUME n + 1 <= K PROVE Good(n + 1)
    OBVIOUS
  <2>1. n \in Nat /\ n \in 0..K /\ n + 1 \in 1..K /\ n + 1 - 1 = n
    BY <1>2
  <2>2. Good(n)
    BY <2>1
  <2>. HIDE DEF T
  <2>3. load[n + 1] = after(load[n], n + 1)
    BY <1>6, <2>1
  <2>4. load[n + 1] \in V
    BY <1>3, <2>1, <2>2, <2>3
  <2>5. ASSUME K < INIT_VEC_SIZE
        PROVE  Written(load[n], load[n + 1], n + 1, item(n + 1)) /\ item(n + 1).version = n + 1
    <3>1. n + 1 < load[n].capacity
      BY <1>2, <2>1, <2>2, <2>5, RulesAssumption
    <3>2. item(n + 1) \in OrderItems /\ item(n + 1).version = n + 1
      BY <1>2, <2>1
    <3>. HIDE DEF item
    <3>. QED  BY <2>2, <2>3, <3>1, <3>2, AddOrderItem DEF after, V
  <2>. HIDE DEF item
  <2>6. ASSUME K < INIT_VEC_SIZE, NEW v \in 1..(n + 1)
        PROVE  v \in DOMAIN load[n + 1].items /\ load[n + 1].items[v].version = v
    <3>1. CASE v = n + 1
      BY <2>5, <2>6, <3>1 DEF Written
    <3>2. CASE v # n + 1
      <4>1. v \in 1..n
        BY <2>1, <3>2
      <4>. QED  BY <2>2, <2>5, <2>6, <3>2, <4>1 DEF Written
    <3>. QED  BY <3>1, <3>2
  <2>7. K < INIT_VEC_SIZE => load[n + 1].capacity = INIT_VEC_SIZE
    BY <2>2, <2>5 DEF Written
  <2>. QED  BY <2>4, <2>6, <2>7
<1>9. T \in SUBSET Nat
  OBVIOUS
<1>. HIDE DEF T
<1>10. T = Nat
  BY <1>7, <1>8, <1>9, NaturalsSet
<1>11. K \in T
  BY <1>2, <1>10
<1>12. Good(K)
  BY <1>2, <1>11 DEF T
<1>. QED  BY <1>1, <1>12 DEF K, V

\* The rules an extension leaves in memory: for an SU whose rules are all there and
\* fit, each of them and its copy.
LEMMA ModifyRule ==
  ASSUME NEW ty \in Types, m_hash_table[ty] \in Vectors(HashItems),
         m_current_bucket_number[ty] \in Nat
  PROVE  LET v == m_hash_table[ty]
             w == modify_rule_by_extent(ty)
             number == m_current_bucket_number[ty]
         IN
         /\ w \in Vectors(HashItems)
         /\ /\ ty # "MU" /\ 2 * number <= v.capacity
            /\ \A b \in 0..number - 1 : b \in DOMAIN v.items
            => /\ w.capacity = v.capacity
               /\ \A b \in 0..number - 1 :
                    /\ b \in DOMAIN w.items /\ w.items[b] = v.items[b]
                    /\ b + number \in DOMAIN w.items
                    /\ w.items[b + number] = [bucket_nr |-> b + number, ip |-> v.items[b].ip]
<1>. DEFINE v == m_hash_table[ty]
            K == m_current_bucket_number[ty]
            V == Vectors(HashItems)
            rule(u, n) == [bucket_nr |-> n - 1 + K, ip |-> Read(u, n - 1).ip]
            after(u, n) == add_new_hash_item(IF ty = "MU" THEN push_back(u, rule(u, n)) ELSE u,
                                             rule(u, n), ty)
            body(f, n) == IF n = 0 THEN v ELSE after(f[n - 1], n)
            IsAdd(f) == f = [n \in 0..K |-> body(f, n)]
            add == CHOOSE f : IsAdd(f)
            step == [n \in Nat |-> [u \in V |-> IF n \in 1..K THEN after(u, n) ELSE u]]
<1>1. modify_rule_by_extent(ty) = add[K]
  BY DEF modify_rule_by_extent
<1>2. v \in V /\ K \in Nat
  OBVIOUS
<1>. HIDE DEF K, v, V
<1>3. ASSUME NEW u \in V, NEW n \in 1..K PROVE rule(u, n) \in HashItems /\ after(u, n) \in V
  <2>1. rule(u, n) \in HashItems
    <3>1. Read(u, n - 1).ip \in Nodes \cup {Garbage}
      BY ReadItem DEF V
    <3>2. n - 1 + K \in Nat
      BY <1>2
    <3>. QED  BY <3>1, <3>2 DEF HashItems
  <2>. HIDE DEF rule
  <2>2. push_back(u, rule(u, n)) \in V
    BY <2>1, PushBack DEF V
  <2>. QED  BY <2>1, <2>2, AddHashItem DEF V
<1>5. IsAdd(add)
  <2>1. step \in Iterations(V)
    BY <1>3 DEF Iterations
  <2>. HIDE DEF step, after, IsAdd, add
  <2>2. Iterated(K, V, v, step) # {}
    BY <1>2, <2>1, NaturalsRecursion
  <2>3. PICK f \in [0..K -> V] : f[0] = v /\ \A n \in 1..K : f[n] = step[n][f[n - 1]]
    BY <2>2 DEF Iterated
  <2>4. ASSUME NEW n \in 0..K PROVE f[n] = body(f, n)
    <3>1. CASE n = 0
      BY <2>3, <3>1
    <3>2. CASE n # 0
      <4>1. n \in 1..K /\ n \in Nat /\ n - 1 \in 0..K
        BY <1>2, <3>2
      <4>2. f[n - 1] \in V
        BY <2>3, <4>1
      <4>3. step[n][f[n - 1]] = after(f[n - 1], n)
        BY <4>1, <4>2 DEF step
      <4>. QED  BY <2>3, <3>2, <4>1, <4>3
    <3>. QED  BY <3>1, <3>2
  <2>. HIDE DEF body
  <2>5. IsAdd(f)
    <3>1. f = [n \in 0..K |-> f[n]]
      BY <2>3
    <3>. QED  BY <2>4, <3>1 DEF IsAdd
  <2>. QED  BY <2>5 DEF add
<1>. HIDE DEF add, after
<1>6. add[0] = v /\ \A n \in 1..K : add[n] = after(add[n - 1], n)
  <2>1. \A n \in 0..K : add[n] = body(add, n)
    <3>. HIDE DEF body
    <3>. QED  BY <1>5
  <2>2. 0 \in 0..K /\ \A n \in 1..K : n \in 0..K /\ n # 0
    BY <1>2
  <2>. QED  BY <2>1, <2>2
<1>. DEFINE Room == /\ ty # "MU" /\ 2 * K <= v.capacity
                    /\ \A b \in 0..K - 1 : b \in DOMAIN v.items
            copy(b) == [bucket_nr |-> b + K, ip |-> v.items[b].ip]
            Good(n) ==
              /\ add[n] \in V
              /\ Room =>
                   /\ add[n].capacity = v.capacity
                   /\ \A b \in 0..K - 1 : b \in DOMAIN add[n].items /\ add[n].items[b] = v.items[b]
                   /\ \A b \in 0..n - 1 :
                        b + K \in DOMAIN add[n].items /\ add[n].items[b + K] = copy(b)
            T == {n \in Nat : n <= K => Good(n)}
<1>7. 0 \in T
  BY <1>2, <1>6
<1>8. ASSUME NEW n \in T PROVE n + 1 \in T
  <2>. SUFFICES ASSUME n + 1 <= K PROVE Good(n + 1)
    OBVIOUS
  <2>1. n \in Nat /\ n \in 0..K - 1 /\ n + 1 \in 1..K /\ n + 1 - 1 = n /\ n <= K
    BY <1>2
  <2>2. Good(n)
    BY <2>1
  <2>. HIDE DEF T
  <2>3. add[n + 1] = after(add[n], n + 1)
    BY <1>6, <2>1
  <2>4. add[n + 1] \in V
    BY <1>3, <2>1, <2>2, <2>3
  <2>5. ASSUME Room PROVE Written(add[n], add[n + 1], n + K, copy(n))
    <3>1. n + K < add[n].capacity
      <4>1. v.capacity \in Nat /\ n + K < 2 * K
        BY <1>2, <2>1 DEF V, Vectors
      <4>. QED  BY <1>2, <2>1, <2>2, <2>5, <4>1
    <3>2. rule(add[n], n + 1) = copy(n)
      <4>1. Read(add[n], n) = v.items[n]
        BY <2>1, <2>2, <2>5, ReadItem DEF V
      <4>. QED  BY <2>1, <4>1
    <3>3. copy(n) \in HashItems /\ copy(n).bucket_nr = n + K
      BY <1>3, <2>1, <2>2, <3>2
    <3>4. add[n + 1] = add_new_hash_item(add[n], copy(n), ty)
      BY <2>3, <2>5, <3>2 DEF after
    <3>. HIDE DEF rule, copy
    <3>. QED  BY <2>2, <3>1, <3>3, <3>4, AddHashItem DEF V
  <2>6. ASSUME Room, NEW b \in 0..K - 1
        PROVE  b \in DOMAIN add[n + 1].items /\ add[n + 1].items[b] = v.items[b]
    <3>1. b # n + K
      BY <1>2, <2>1
    <3>. QED  BY <2>2, <2>5, <2>6, <3>1 DEF Written
  <2>7. ASSUME Room, NEW b \in 0..n
        PROVE  b + K \in DOMAIN add[n + 1].items /\ add[n + 1].items[b + K] = copy(b)
    <3>1. CASE b = n
      <4>. HIDE DEF copy
      <4>. QED  BY <2>5, <2>7, <3>1 DEF Written
    <3>2. CASE b # n
      <4>1. b \in 0..n - 1 /\ b + K # n + K
        BY <1>2, <2>1, <3>2
      <4>. HIDE DEF copy
      <4>. QED  BY <2>2, <2>5, <2>7, <4>1 DEF Written
    <3>. QED  BY <3>1, <3>2
  <2>8. Room => add[n + 1].capacity = v.capacity
    BY <2>2, <2>5 DEF Written
  <2>. HIDE DEF Room, copy
  <2>. QED  BY <2>1, <2>4, <2>6, <2>7, <2>8
<1>9. T \in SUBSET Nat
  OBVIOUS
<1>. HIDE DEF T
<1>10. T = Nat
  BY <1>7, <1>8, <1>9, NaturalsSet
<1>11. Good(K)
  BY <1>2, <1>10 DEF T
<1>. QED  BY <1>1, <1>11 DEF K, V, v

-----------------------------------------------------------------------------
(* Rows, tasks and what is sound, before and after a step.                 *)

LEMMA IntervalCounted ==
  ASSUME NEW k \in Nat
  PROVE  Cardinality(0..k) = k + 1
<1>1. 0 \in Int /\ k \in Int
  OBVIOUS
<1>2. Cardinality(0..k) = IF 0 > k THEN 0 ELSE k - 0 + 1
  BY <1>1, FS_Interval
<1>. QED  BY <1>2

LEMMA RowsUnchanged ==
  ASSUME db_rule' = db_rule
  PROVE  \A ty : Rows(ty)' = Rows(ty)
BY DEF Rows

LEMMA Sizes ==
  ASSUME Numbered, KnownAreRows, m_current_mod \in [Types -> Nat],
         m_current_bucket_number \in [Types -> Nat], NEW ty \in Types
  PROVE  /\ Rows(ty) \in Nat /\ m_current_bucket_number[ty] \in Nat
         /\ m_current_bucket_number[ty] > 0 /\ m_current_bucket_number[ty] <= Rows(ty)
         /\ DOMAIN db_rule[ty] = 0..Rows(ty) - 1
         /\ \A b \in DOMAIN db_rule[ty] : db_rule[ty][b] \in Nodes
<1>1. m_current_mod[ty] \in Nat /\ m_current_bucket_number[ty] \in Nat
  OBVIOUS
<1>2. 2 ^ m_current_mod[ty] \in Nat \ {0}
  BY <1>1, PowersOfTwo
<1>. HIDE DEF Rows
<1>. QED  BY <1>1, <1>2 DEF KnownAreRows, Numbered

\* As the server runs, sound types get fewer.
LEMMA SoundShrinks ==
  ASSUME \A ty \in Types : Rows(ty) \in Nat /\ Rows(ty)' \in Nat /\ Rows(ty) <= Rows(ty)',
         overlapped \subseteq overlapped', broken \subseteq broken',
         applied \subseteq applied'
  PROVE  /\ \A ty \in Types : Fits(ty)' => Fits(ty)
         /\ ExtendedMUs \subseteq ExtendedMUs'
         /\ Sound' \subseteq Sound
<1>1. ASSUME NEW ty \in Types, Fits(ty)' PROVE Fits(ty)
  <2>1. Rows(ty)' <= INIT_VEC_SIZE
    BY <1>1 DEF Fits
  <2>2. INIT_VEC_SIZE \in Nat
    BY RulesAssumption
  <2>. QED  BY <2>1, <2>2 DEF Fits
<1>2. ExtendedMUs \subseteq ExtendedMUs'
  BY DEF ExtendedMUs
<1>. QED  BY <1>1, <1>2 DEF Sound

LEMMA SoundFacts ==
  ASSUME NEW ty \in Sound
  PROVE  ty \in Types /\ Fits(ty) /\ ty \notin ExtendedMUs
BY DEF Sound

\* A task enters its next phase.
LEMMA TaskEnters ==
  ASSUME task \subseteq Tasks, IsFiniteSet(task), OneAtATime,
         NEW t \in task, NEW new \in Tasks, new.type = t.type, new.order = t.order,
         Becomes(t, new)
  PROVE  /\ task' \subseteq Tasks /\ IsFiniteSet(task')
         /\ new \in task' /\ \A u \in task' : u = new \/ (u \in task /\ u # t)
         /\ OneAtATime'
         /\ \A ty, b : Moving(ty, b)' <=> Moving(ty, b)
         /\ \A ty : Active(ty, "MIGRATION") = {} => Active(ty, "MIGRATION")' = {}
         /\ started' = started
<1>1. task' = (task \ {t}) \cup {new} /\ started' = started
  BY DEF Becomes
<1>2. \A u \in task' : u = new \/ (u \in task /\ u # t)
  BY <1>1
<1>3. IsFiniteSet(task')
  <2>1. IsFiniteSet(task \ {t})
    BY FS_RemoveElement
  <2>2. IsFiniteSet((task \ {t}) \cup {new})
    BY <2>1, FS_AddElement
  <2>. QED  BY <1>1, <2>2
<1>4. OneAtATime'
  <2>. SUFFICES ASSUME NEW u \in task', NEW w \in task', u.type = w.type
                PROVE  /\ Extending(u) /\ Extending(w) => u = w
                       /\ Migrating(u) /\ Migrating(w) /\ u.order.bucket = w.order.bucket => u = w
    BY DEF OneAtATime, Extending, Migrating
  <2>1. CASE u # new /\ w # new
    BY <1>2, <2>1 DEF OneAtATime
  <2>2. CASE u = new /\ w # new
    <3>1. t # w /\ w \in task /\ t.type = w.type
      BY <1>2, <2>2
    <3>. QED  BY <2>2, <3>1 DEF OneAtATime, Extending, Migrating
  <2>3. CASE w = new /\ u # new
    <3>1. t # u /\ u \in task /\ t.type = u.type
      BY <1>2, <2>3
    <3>. QED  BY <2>3, <3>1 DEF OneAtATime, Extending, Migrating
  <2>. QED  BY <2>1, <2>2, <2>3
<1>5. ASSUME NEW ty, NEW b PROVE Moving(ty, b)' <=> Moving(ty, b)
  <2>1. ASSUME Moving(ty, b) PROVE Moving(ty, b)'
    BY <1>1, <2>1 DEF Moving, Active
  <2>2. ASSUME Moving(ty, b)' PROVE Moving(ty, b)
    BY <1>1, <2>2 DEF Moving, Active
  <2>. QED  BY <2>1, <2>2
<1>6. ASSUME NEW ty, Active(ty, "MIGRATION") = {} PROVE Active(ty, "MIGRATION")' = {}
  BY <1>1, <1>6 DEF Active
<1>. QED  BY <1>1, <1>2, <1>3, <1>4, <1>5, <1>6

LEMMA TaskEnds ==
  ASSUME task \subseteq Tasks, IsFiniteSet(task), OneAtATime, NEW t \in task, Ends(t)
  PROVE  /\ task' \subseteq task \ {t} /\ IsFiniteSet(task')
         /\ OneAtATime'
         /\ \A ty : Active(ty, "MIGRATION") = {} => Active(ty, "MIGRATION")' = {}
         /\ started' = started
<1>1. task' = task \ {t} /\ started' = started
  BY DEF Ends
<1>2. IsFiniteSet(task')
  BY <1>1, FS_RemoveElement
<1>3. OneAtATime'
  BY <1>1 DEF OneAtATime, Extending, Migrating
<1>4. ASSUME NEW ty, Active(ty, "MIGRATION") = {} PROVE Active(ty, "MIGRATION")' = {}
  BY <1>1, <1>4 DEF Active
<1>. QED  BY <1>1, <1>2, <1>3, <1>4

\* How many versions are in the database and not in memory yet.
LEMMA InMemoryNumber ==
  ASSUME IsFiniteSet(task), NEW ty
  PROVE  IsFiniteSet(InMemory(ty)) /\ Cardinality(InMemory(ty)) \in Nat
<1>1. InMemory(ty) \in SUBSET task
  BY DEF InMemory
<1>2. IsFiniteSet(InMemory(ty))
  BY <1>1, FS_Subset
<1>. QED  BY <1>2, FS_CardinalityType

\* Fewer tasks about to take a version.
LEMMA VersionsStayStored ==
  ASSUME VersionsAreStored, IsFiniteSet(task), m_current_version \in [Types -> Nat],
         db_order \in [Types -> Seq(Orders)],
         \A ty \in Types : InMemory(ty)' \subseteq InMemory(ty),
         UNCHANGED <<m_current_version, db_order>>
  PROVE  VersionsAreStored'
<1>. SUFFICES ASSUME NEW ty \in Types
              PROVE  m_current_version[ty] + Cardinality(InMemory(ty)') <= Len(db_order[ty])
  BY DEF VersionsAreStored
<1>1. IsFiniteSet(InMemory(ty)) /\ Cardinality(InMemory(ty)) \in Nat
  BY InMemoryNumber
<1>2. InMemory(ty)' \in SUBSET InMemory(ty)
  OBVIOUS
<1>3. /\ IsFiniteSet(InMemory(ty)')
      /\ Cardinality(InMemory(ty)') <= Cardinality(InMemory(ty))
  BY <1>1, <1>2, FS_Subset
<1>4. Cardinality(InMemory(ty)') \in Nat
  BY <1>3, FS_CardinalityType
<1>5. m_current_version[ty] + Cardinality(InMemory(ty)) <= Len(db_order[ty])
  BY DEF VersionsAreStored
<1>6. m_current_version[ty] \in Nat /\ Len(db_order[ty]) \in Nat
  OBVIOUS
<1>. QED  BY <1>1, <1>3, <1>4, <1>5, <1>6

\* A task takes the version it stored.
LEMMA VersionTaken ==
  ASSUME VersionsAreStored, IsFiniteSet(task), m_current_version \in [Types -> Nat],
         db_order \in [Types -> Seq(Orders)],
         NEW t \in task, t.type \in Types, t.phase = "memory",
         \A ty \in Types : InMemory(ty)' \subseteq InMemory(ty) \ {t},
         m_current_version' = [m_current_version EXCEPT ![t.type] = @ + 1],
         UNCHANGED db_order
  PROVE  VersionsAreStored'
<1>. SUFFICES ASSUME NEW ty \in Types
              PROVE  m_current_version'[ty] + Cardinality(InMemory(ty)') <= Len(db_order[ty])
  BY DEF VersionsAreStored
<1>1. IsFiniteSet(InMemory(ty)) /\ Cardinality(InMemory(ty)) \in Nat
  BY InMemoryNumber
<1>2. /\ IsFiniteSet(InMemory(ty) \ {t})
      /\ Cardinality(InMemory(ty) \ {t}) =
           IF t \in InMemory(ty) THEN Cardinality(InMemory(ty)) - 1 ELSE Cardinality(InMemory(ty))
  BY <1>1, FS_RemoveElement
<1>3. InMemory(ty)' \in SUBSET (InMemory(ty) \ {t})
  OBVIOUS
<1>4. /\ IsFiniteSet(InMemory(ty)')
      /\ Cardinality(InMemory(ty)') <= Cardinality(InMemory(ty) \ {t})
  BY <1>2, <1>3, FS_Subset
<1>5. Cardinality(InMemory(ty)') \in Nat /\ Cardinality(InMemory(ty) \ {t}) \in Nat
  BY <1>2, <1>4, FS_CardinalityType
<1>6. m_current_version[ty] + Cardinality(InMemory(ty)) <= Len(db_order[ty])
  BY DEF VersionsAreStored
<1>7. m_current_version[ty] \in Nat /\ Len(db_order[ty]) \in Nat
  OBVIOUS
<1>8. m_current_version'[ty] = IF ty = t.type THEN m_current_version[ty] + 1
                                              ELSE m_current_version[ty]
  OBVIOUS
<1>9. ty = t.type => t \in InMemory(ty)
  BY DEF InMemory
<1>. HIDE DEF InMemory
<1>. QED  BY <1>1, <1>2, <1>4, <1>5, <1>6, <1>7, <1>8, <1>9

-----------------------------------------------------------------------------
(* Every step preserves the invariant.                                     *)

LEMMA StutterIInv ==
  ASSUME IInv,
         UNCHANGED <<memory, database, task, started, crashes, history>>, dead' \in BOOLEAN
  PROVE  IInv'
<1>. USE DEF IInv, memory, tables, counters, database, history
<1>1. Sound' = Sound /\ ExtendedMUs' = ExtendedMUs /\ \A ty : Fits(ty)' = Fits(ty)
  BY DEF Sound, ExtendedMUs, Fits, Rows
<1>2. TypeOK'
  BY DEF TypeOK
<1>3. Numbered' /\ KnownAreRows' /\ ExtendsByRows'
  BY DEF Numbered, KnownAreRows, ExtendsByRows, Rows
<1>4. OneAtATime' /\ VersionsAreStored'
  BY DEF OneAtATime, VersionsAreStored, InMemory
<1>5. HashKept' /\ OrdersKept'
  BY <1>1 DEF HashKept, OrdersKept, OrdersFit
<1>6. Settled' /\ InTransit' /\ CopiesHold'
  BY <1>1 DEF Settled, InTransit, CopiesHold, Moving, Active
<1>. QED  BY <1>2, <1>3, <1>4, <1>5, <1>6

\* The memory stays, and rows are only added.
LEMMA MemoryKept ==
  ASSUME KnownAreRows, HashKept, OrdersKept,
         m_current_bucket_number \in [Types -> Nat],
         UNCHANGED memory, applied \subseteq applied', ExtendedMUs \subseteq ExtendedMUs',
         \A ty \in Types : Rows(ty) \in Nat /\ Rows(ty)' \in Nat /\ Rows(ty) <= Rows(ty)',
         \A ty \in Types : Fits(ty)' => Fits(ty)
  PROVE  KnownAreRows' /\ HashKept' /\ OrdersKept'
<1>. USE DEF memory, tables, counters
<1>1. KnownAreRows'
  <2>. SUFFICES ASSUME NEW ty \in Types
                PROVE  /\ m_current_bucket_number[ty] = 2 ^ m_current_mod[ty]
                       /\ m_current_bucket_number[ty] <= Rows(ty)'
    BY DEF KnownAreRows
  <2>1. m_current_bucket_number[ty] = 2 ^ m_current_mod[ty] /\ m_current_bucket_number[ty] <= Rows(ty)
    BY DEF KnownAreRows
  <2>2. Rows(ty) \in Nat /\ Rows(ty)' \in Nat /\ Rows(ty) <= Rows(ty)'
    OBVIOUS
  <2>3. m_current_bucket_number[ty] \in Nat
    OBVIOUS
  <2>. HIDE DEF Rows
  <2>. QED  BY <2>1, <2>2, <2>3
<1>2. HashKept'
  BY DEF HashKept
<1>3. OrdersKept'
  BY DEF OrdersKept, OrdersFit
<1>. QED  BY <1>1, <1>2, <1>3

\* A task is added that has done nothing yet.
LEMMA TaskAdded ==
  ASSUME task \subseteq Tasks, IsFiniteSet(task), started \in Nat, VersionsAreStored,
         m_current_version \in [Types -> Nat], db_order \in [Types -> Seq(Orders)],
         NEW ty \in Types, NEW order \in Orders, Starts(ty, order),
         UNCHANGED <<m_current_version, db_order>>
  PROVE  LET new == [type |-> ty, order |-> order, phase |-> "rule", copied |-> 0] IN
         /\ task' = task \cup {new} /\ new \in Tasks
         /\ task' \subseteq Tasks /\ IsFiniteSet(task') /\ started' \in Nat
         /\ VersionsAreStored'
<1>. DEFINE new == [type |-> ty, order |-> order, phase |-> "rule", copied |-> 0]
<1>1. task' = task \cup {new} /\ started' = started + 1
  BY DEF Starts
<1>2. new \in Tasks
  BY DEF Tasks
<1>3. IsFiniteSet(task')
  BY <1>1, FS_AddElement
<1>4. new.phase # "memory"
  OBVIOUS
<1>. HIDE DEF new
<1>5. VersionsAreStored'
  <2>1. \A u \in Types : InMemory(u)' \subseteq InMemory(u)
    BY <1>1, <1>4 DEF InMemory
  <2>. QED  BY <2>1, VersionsStayStored
<1>6. task' \subseteq Tasks
  BY <1>1, <1>2
<1>7. started' \in Nat
  BY <1>1
<1>. QED  BY <1>1, <1>2, <1>3, <1>5, <1>6, <1>7 DEF new

\* A migration begins with the rule, the row and the order of the bucket alike.
LEMMA StartMigrationIInv ==
  ASSUME IInv, NEW ty \in Types, NEW b \in Nat, NEW dest \in Nodes, StartMigration(ty, b, dest)
  PROVE  IInv'
<1>. USE DEF IInv, StartMigration, memory, tables, counters, database, history
<1>. DEFINE src == Read(m_hash_table[ty], b).ip
            order == [cmd |-> "MIGRATION", bucket |-> b, src |-> src, dest |-> dest]
            new == [type |-> ty, order |-> order, phase |-> "rule", copied |-> 0]
<1>0. b < m_current_bucket_number[ty] /\ ~HashMismatch(ty, b)
  OBVIOUS
<1>1. Sound' = Sound /\ ExtendedMUs' = ExtendedMUs /\ \A u : Fits(u)' = Fits(u)
  BY DEF Sound, ExtendedMUs, Fits, Rows
<1>2. order \in Orders
  <2>1. m_hash_table[ty] \in Vectors(HashItems)
    BY DEF TypeOK
  <2>2. src \in Nodes \cup {Garbage}
    BY <2>1, ReadItem
  <2>. HIDE DEF src
  <2>. QED  BY <2>2 DEF Orders
<1>3. /\ task' = task \cup {new} /\ new \in Tasks
      /\ task' \subseteq Tasks /\ IsFiniteSet(task') /\ started' \in Nat
      /\ VersionsAreStored'
  <2>1. Starts(ty, order)
    OBVIOUS
  <2>2. task \subseteq Tasks /\ IsFiniteSet(task) /\ started \in Nat /\ VersionsAreStored
        /\ m_current_version \in [Types -> Nat] /\ db_order \in [Types -> Seq(Orders)]
    BY DEF TypeOK
  <2>. HIDE DEF order
  <2>. QED  BY <1>2, <2>1, <2>2, TaskAdded
<1>4. /\ new.type = ty /\ Migrating(new) /\ ~Extending(new) /\ new.phase = "rule"
      /\ new.order.bucket = b /\ new.order.src = src
  BY DEF Migrating, Extending
<1>5. \A t \in task : t.type = ty => ~Extending(t) /\ ~(Migrating(t) /\ t.order.bucket = b)
  BY DEF can_exec_migration, Active, Extending, Migrating
<1>. HIDE DEF new, src, order
<1>6. TypeOK'
  BY <1>3 DEF TypeOK
<1>7. Numbered' /\ KnownAreRows' /\ ExtendsByRows'
  <2>1. Numbered' /\ KnownAreRows'
    BY DEF Numbered, KnownAreRows, Rows
  <2>2. ExtendsByRows'
    BY <1>3, <1>4 DEF ExtendsByRows, Rows, Extending
  <2>. QED  BY <2>1, <2>2
<1>8. OneAtATime'
  <2>. SUFFICES ASSUME NEW t \in task', NEW u \in task', t.type = u.type
                PROVE  /\ Extending(t) /\ Extending(u) => t = u
                       /\ Migrating(t) /\ Migrating(u) /\ t.order.bucket = u.order.bucket => t = u
    BY DEF OneAtATime, Extending, Migrating
  <2>. QED  BY <1>3, <1>4, <1>5 DEF OneAtATime
<1>9. HashKept' /\ OrdersKept'
  BY <1>1 DEF HashKept, OrdersKept, OrdersFit
<1>10. \A u, c : Moving(u, c) => Moving(u, c)'
  BY <1>3 DEF Moving, Active
<1>11. Settled'
  BY <1>1, <1>10 DEF Settled
<1>12. InTransit'
  <2>1. ASSUME ty \in Sound
        PROVE  m_hash_table[ty].items[b].ip = src /\ db_rule[ty][b] = src
    <3>1. b \in 0..m_current_bucket_number[ty] - 1
      BY <1>0 DEF TypeOK
    <3>2. b \in DOMAIN m_hash_table[ty].items
      BY <2>1, <3>1, SoundFacts DEF HashKept
    <3>3. Read(m_hash_table[ty], b) = m_hash_table[ty].items[b]
      BY <3>2 DEF Read
    <3>4. ~Moving(ty, b)
      BY <1>5 DEF Moving, Active, Migrating
    <3>5. m_hash_table[ty].items[b].ip = db_rule[ty][b]
      BY <2>1, <3>1, <3>4 DEF Settled
    <3>. QED  BY <3>3, <3>5 DEF src
  <2>. SUFFICES ASSUME NEW t \in task', Migrating(t), t.type \in Sound
                PROVE  /\ t.phase \in {"rule", "order", "memory"}
                       /\ t.order.bucket < m_current_bucket_number[t.type]
                       /\ m_hash_table[t.type].items[t.order.bucket].ip = t.order.src
                       /\ db_rule[t.type][t.order.bucket] =
                            IF t.phase = "rule" THEN t.order.src ELSE t.order.dest
    BY <1>1 DEF InTransit, Migrating
  <2>2. CASE t = new
    BY <1>0, <1>4, <2>1, <2>2
  <2>3. CASE t # new
    <3>1. t \in task
      BY <1>3, <2>3
    <3>. QED  BY <3>1 DEF InTransit
  <2>. QED  BY <2>2, <2>3
<1>13. CopiesHold'
  <2>. SUFFICES ASSUME NEW t \in task', Extending(t), t.type \in Sound,
                       t.phase \in {"rule", "order", "memory"}
                PROVE  /\ Active(t.type, "MIGRATION")' = {}
                       /\ \A i \in 0..t.copied - 1 :
                            db_rule[t.type][i + m_current_bucket_number[t.type]] = db_rule[t.type][i]
    BY <1>1 DEF CopiesHold, Extending
  <2>1. t \in task /\ t.type # ty
    BY <1>3, <1>4, <1>5
  <2>2. Active(t.type, "MIGRATION") = {}
        /\ \A i \in 0..t.copied - 1 :
             db_rule[t.type][i + m_current_bucket_number[t.type]] = db_rule[t.type][i]
    BY <2>1 DEF CopiesHold
  <2>3. Active(t.type, "MIGRATION")' = {}
    BY <1>3, <1>4, <2>1, <2>2 DEF Active
  <2>. QED  BY <2>2, <2>3
<1>. QED  BY <1>3, <1>6, <1>7, <1>8, <1>9, <1>11, <1>12, <1>13

\* An extension begins with nothing copied; a type with migrations is no more sound.
LEMMA StartExtensionIInv ==
  ASSUME IInv, NEW ty \in Types, StartExtension(ty)
  PROVE  IInv'
<1>. USE DEF IInv, StartExtension, memory, tables, counters, database
<1>. DEFINE order == [cmd |-> "EXTENT", new_mod |-> m_current_mod[ty] + 1]
            new == [type |-> ty, order |-> order, phase |-> "rule", copied |-> 0]
<1>0. overlapped \subseteq overlapped' /\ (ty \notin overlapped' => Active(ty, "MIGRATION") = {})
  OBVIOUS
<1>1. Sound' \subseteq Sound /\ ExtendedMUs' = ExtendedMUs /\ \A u : Fits(u)' = Fits(u)
  BY <1>0 DEF Sound, ExtendedMUs, Fits, Rows
<1>2. order \in Orders
  <2>1. m_current_mod[ty] \in Nat
    BY DEF TypeOK
  <2>2. m_current_mod[ty] + 1 \in Nat \ {0}
    BY <2>1
  <2>. QED  BY <2>2 DEF Orders
<1>3. /\ task' = task \cup {new} /\ new \in Tasks
      /\ task' \subseteq Tasks /\ IsFiniteSet(task') /\ started' \in Nat
      /\ VersionsAreStored'
  <2>1. Starts(ty, order)
    OBVIOUS
  <2>2. task \subseteq Tasks /\ IsFiniteSet(task) /\ started \in Nat /\ VersionsAreStored
        /\ m_current_version \in [Types -> Nat] /\ db_order \in [Types -> Seq(Orders)]
    BY DEF TypeOK
  <2>. HIDE DEF order
  <2>. QED  BY <1>2, <2>1, <2>2, TaskAdded
<1>4. /\ new.type = ty /\ Extending(new) /\ ~Migrating(new) /\ new.phase = "rule"
      /\ new.order.new_mod = m_current_mod[ty] + 1 /\ new.copied = 0
  BY DEF Migrating, Extending
<1>5. \A t \in task : t.type = ty => ~Extending(t)
  BY DEF can_exec_extent, Active, Extending
<1>. HIDE DEF new, order
<1>6. TypeOK'
  <2>1. overlapped' \subseteq Types
    BY DEF TypeOK
  <2>. QED  BY <1>3, <2>1 DEF TypeOK, history
<1>7. Numbered' /\ KnownAreRows'
  BY DEF Numbered, KnownAreRows, Rows
<1>8. ExtendsByRows'
  <2>. SUFFICES ASSUME NEW t \in task', Extending(t), t.phase \in {"rule", "order", "memory"}
                PROVE  /\ t.order.new_mod = m_current_mod[t.type] + 1
                       /\ t.copied + m_current_bucket_number[t.type] <= Rows(t.type)
                       /\ IF t.phase = "rule" THEN t.copied < m_current_bucket_number[t.type]
                                              ELSE t.copied = m_current_bucket_number[t.type]
    BY RowsUnchanged DEF ExtendsByRows, Extending
  <2>1. CASE t = new
    <3>1. /\ Rows(ty) \in Nat /\ m_current_bucket_number[ty] \in Nat
          /\ m_current_bucket_number[ty] > 0 /\ m_current_bucket_number[ty] <= Rows(ty)
      BY Sizes DEF TypeOK
    <3>. HIDE DEF Rows
    <3>. QED  BY <1>4, <2>1, <3>1
  <2>2. CASE t # new
    BY <1>3, <2>2 DEF ExtendsByRows
  <2>. QED  BY <2>1, <2>2
<1>9. OneAtATime'
  <2>. SUFFICES ASSUME NEW t \in task', NEW u \in task', t.type = u.type
                PROVE  /\ Extending(t) /\ Extending(u) => t = u
                       /\ Migrating(t) /\ Migrating(u) /\ t.order.bucket = u.order.bucket => t = u
    BY DEF OneAtATime, Extending, Migrating
  <2>. QED  BY <1>3, <1>4, <1>5 DEF OneAtATime
<1>10. HashKept' /\ OrdersKept'
  BY <1>1 DEF HashKept, OrdersKept, OrdersFit
<1>11. Settled'
  <2>1. \A u, c : Moving(u, c) => Moving(u, c)'
    BY <1>3 DEF Moving, Active
  <2>. QED  BY <1>1, <2>1 DEF Settled
<1>12. InTransit'
  <2>1. \A t \in task' : Migrating(t) => t \in task
    BY <1>3, <1>4
  <2>. QED  BY <1>1, <2>1 DEF InTransit, Migrating
<1>13. CopiesHold'
  <2>. SUFFICES ASSUME NEW t \in task', Extending(t), t.type \in Sound',
                       t.phase \in {"rule", "order", "memory"}
                PROVE  /\ Active(t.type, "MIGRATION")' = {}
                       /\ \A i \in 0..t.copied - 1 :
                            db_rule[t.type][i + m_current_bucket_number[t.type]] = db_rule[t.type][i]
    BY DEF CopiesHold, Extending
  <2>1. \A u : Active(u, "MIGRATION") = {} => Active(u, "MIGRATION")' = {}
    BY <1>3, <1>4 DEF Active, Migrating
  <2>2. CASE t = new
    <3>1. Active(ty, "MIGRATION") = {}
      BY <1>0, <1>4, <2>2 DEF Sound
    <3>. QED  BY <1>4, <2>1, <2>2, <3>1
  <2>3. CASE t # new
    BY <1>1, <1>3, <2>1, <2>3 DEF CopiesHold
  <2>. QED  BY <2>2, <2>3
<1>. QED  BY <1>3, <1>6, <1>7, <1>8, <1>9, <1>10, <1>11, <1>12, <1>13

\* What a task that enters its next phase leaves alone.
LEMMA PhaseFacts ==
  ASSUME TypeOK, OneAtATime, NEW t \in task, NEW new, new \in Tasks,
         new.type = t.type, new.order = t.order, Becomes(t, new)
  PROVE  /\ task' \subseteq Tasks /\ IsFiniteSet(task') /\ started' = started
         /\ new \in task' /\ \A u \in task' : u = new \/ (u \in task /\ u # t)
         /\ OneAtATime'
         /\ \A ty, b : Moving(ty, b)' <=> Moving(ty, b)
         /\ \A ty : Active(ty, "MIGRATION") = {} => Active(ty, "MIGRATION")' = {}
<1>1. task \subseteq Tasks /\ IsFiniteSet(task)
  BY DEF TypeOK
<1>. QED  BY <1>1, TaskEnters

LEMMA NewPhase ==
  ASSUME NEW t \in Tasks, NEW phase \in {"rule", "order", "memory", "nodes", "failed"}
  PROVE  LET new == [t EXCEPT !.phase = phase] IN
         /\ new \in Tasks /\ new.type = t.type /\ new.order = t.order
         /\ new.phase = phase /\ new.copied = t.copied
BY DEF Tasks

\* A work item that failed: of a migration only when its type is no more sound.
LEMMA FailedIInv ==
  ASSUME IInv, NEW t \in task, t.phase \in {"rule", "order"}, Enters(t, "failed"),
         UNCHANGED <<memory, database, dead, crashes, overlapped, applied>>,
         broken \subseteq broken', broken' \subseteq Types,
         Migrating(t) => t.type \notin Sound'
  PROVE  IInv'
<1>. USE DEF IInv, memory, tables, counters, database
<1>. DEFINE new == [t EXCEPT !.phase = "failed"]
<1>0. t \in Tasks
  BY DEF TypeOK
<1>1. /\ new \in Tasks /\ new.type = t.type /\ new.order = t.order /\ new.phase = "failed"
  BY <1>0, NewPhase
<1>2. Becomes(t, new)
  BY DEF Enters
<1>. HIDE DEF new
<1>3. /\ task' \subseteq Tasks /\ IsFiniteSet(task') /\ started' = started
      /\ new \in task' /\ \A u \in task' : u = new \/ (u \in task /\ u # t)
      /\ OneAtATime'
      /\ \A ty, b : Moving(ty, b)' <=> Moving(ty, b)
      /\ \A ty : Active(ty, "MIGRATION") = {} => Active(ty, "MIGRATION")' = {}
  BY <1>1, <1>2, PhaseFacts
<1>4. Sound' \subseteq Sound /\ ExtendedMUs' = ExtendedMUs /\ \A u : Fits(u)' = Fits(u)
  BY DEF Sound, ExtendedMUs, Fits, Rows
<1>5. TypeOK'
  BY <1>3 DEF TypeOK
<1>6. Numbered' /\ KnownAreRows'
  BY DEF Numbered, KnownAreRows, Rows
<1>7. ExtendsByRows'
  BY <1>1, <1>3, RowsUnchanged DEF ExtendsByRows
<1>8. HashKept' /\ OrdersKept'
  BY <1>4 DEF HashKept, OrdersKept, OrdersFit
<1>9. VersionsAreStored'
  <2>1. \A ty \in Types : InMemory(ty)' \subseteq InMemory(ty)
    BY <1>1, <1>3 DEF InMemory
  <2>2. IsFiniteSet(task) /\ m_current_version \in [Types -> Nat]
        /\ db_order \in [Types -> Seq(Orders)]
    BY DEF TypeOK
  <2>. QED  BY <2>1, <2>2, VersionsStayStored
<1>10. Settled'
  BY <1>3, <1>4 DEF Settled
<1>11. InTransit'
  <2>1. \A u \in task' : Migrating(u) /\ u.type \in Sound' => u \in task
    BY <1>1, <1>3 DEF Migrating
  <2>. QED  BY <1>4, <2>1 DEF InTransit, Migrating
<1>12. CopiesHold'
  <2>1. \A u \in task' : u.phase \in {"rule", "order", "memory"} => u \in task
    BY <1>1, <1>3
  <2>. QED  BY <1>3, <1>4, <2>1 DEF CopiesHold, Extending
<1>. QED  BY <1>3, <1>5, <1>6, <1>7, <1>8, <1>9, <1>10, <1>11, <1>12

LEMMA StatementFailsIInv ==
  ASSUME IInv, NEW t \in task, StatementFails(t)
  PROVE  IInv'
<1>. USE DEF StatementFails
<1>1. t.type \in Types /\ broken \subseteq Types
  BY DEF IInv, TypeOK, Tasks
<1>2. broken' = broken \cup {t.type}
  OBVIOUS
<1>3. t.type \notin Sound' /\ broken \subseteq broken' /\ broken' \subseteq Types
  BY <1>1, <1>2 DEF Sound
<1>4. /\ t.phase \in {"rule", "order"} /\ Enters(t, "failed")
      /\ UNCHANGED <<memory, database, dead, crashes, overlapped, applied>>
  OBVIOUS
<1>. HIDE DEF StatementFails
<1>. QED  BY <1>3, <1>4, FailedIInv

\* The row of the bucket names the destination; of a sound type it did name the source.
LEMMA UpdateRuleIInv ==
  ASSUME IInv, NEW t \in task, UpdateRule(t)
  PROVE  IInv'
<1>. USE DEF memory, tables, counters, database, history
<1>. DEFINE ty == t.type
            b == t.order.bucket
            new == [t EXCEPT !.phase = "order"]
            found == b \in DOMAIN db_rule[ty] /\ db_rule[ty][b] = t.order.src
<1>0. /\ t.phase = "rule" /\ Migrating(t)
      /\ UNCHANGED <<memory, db_order, dead, crashes, history>>
  BY DEF UpdateRule, Migrating
<1>1. t \in Tasks /\ ty \in Types /\ t.order.dest \in Nodes /\ b \in Nat
  <2>1. t \in Tasks
    BY DEF IInv, TypeOK
  <2>2. ty \in Types /\ t.order \in Orders
    BY <2>1 DEF Tasks
  <2>. QED  BY <1>0, <2>1, <2>2 DEF Migrating, Orders
<1>2. \A u \in Types : /\ Rows(u) \in Nat /\ m_current_bucket_number[u] \in Nat
                       /\ m_current_bucket_number[u] <= Rows(u)
                       /\ DOMAIN db_rule[u] = 0..Rows(u) - 1
  BY Sizes DEF IInv, TypeOK
<1>3. CASE ~found
  <2>1. Enters(t, "failed") /\ db_rule' = db_rule
    BY <1>3 DEF UpdateRule
  <2>2. ty \notin Sound
    <3>1. ASSUME ty \in Sound PROVE FALSE
      <4>1. b < m_current_bucket_number[ty] /\ db_rule[ty][b] = t.order.src
        BY <1>0, <3>1 DEF IInv, InTransit
      <4>2. b \in DOMAIN db_rule[ty]
        BY <1>1, <1>2, <4>1
      <4>. QED  BY <1>3, <4>1, <4>2
    <3>. QED  BY <3>1
  <2>3. Sound' = Sound
    BY <1>0, <2>1 DEF Sound, ExtendedMUs, Fits, Rows
  <2>4. broken' = broken /\ broken \subseteq Types
    BY <1>0 DEF IInv, TypeOK
  <2>. QED  BY <1>0, <2>1, <2>2, <2>3, <2>4, FailedIInv
<1>4. CASE found
  <2>. USE DEF IInv
  <2>1. db_rule' = [db_rule EXCEPT ![ty][b] = t.order.dest] /\ Becomes(t, new)
    BY <1>4 DEF UpdateRule, Enters
  <2>2. new \in Tasks /\ new.type = ty /\ new.order = t.order /\ new.phase = "order"
    BY <1>1, NewPhase
  <2>. HIDE DEF new
  <2>3. /\ task' \subseteq Tasks /\ IsFiniteSet(task') /\ started' = started
        /\ new \in task' /\ \A u \in task' : u = new \/ (u \in task /\ u # t)
        /\ OneAtATime'
        /\ \A x, c : Moving(x, c)' <=> Moving(x, c)
        /\ \A x : Active(x, "MIGRATION") = {} => Active(x, "MIGRATION")' = {}
    BY <2>1, <2>2, PhaseFacts
  <2>4. /\ db_rule' = [u \in Types |-> db_rule'[u]]
        /\ \A u \in Types : u # ty => db_rule'[u] = db_rule[u]
        /\ DOMAIN db_rule'[ty] = DOMAIN db_rule[ty]
        /\ db_rule'[ty][b] = t.order.dest
        /\ \A c \in DOMAIN db_rule[ty] : c # b => db_rule'[ty][c] = db_rule[ty][c]
        /\ db_rule'[ty] = [c \in DOMAIN db_rule[ty] |-> db_rule'[ty][c]]
    <3>1. db_rule = [u \in Types |-> db_rule[u]]
      BY DEF Numbered
    <3>2. db_rule[ty] = [c \in DOMAIN db_rule[ty] |-> db_rule[ty][c]]
      BY <1>1 DEF Numbered
    <3>3. db_rule'[ty] = [db_rule[ty] EXCEPT ![b] = t.order.dest]
      BY <1>1, <2>1, <3>1
    <3>. HIDE DEF ty, b
    <3>4. db_rule' = [u \in Types |-> db_rule'[u]] /\ \A u \in Types : u # ty => db_rule'[u] = db_rule[u]
      BY <2>1, <3>1
    <3>. QED  BY <1>4, <3>2, <3>3, <3>4
  <2>5. \A u \in Types : Rows(u)' = Rows(u)
    BY <1>1, <2>4 DEF Rows
  <2>6. Sound' = Sound /\ ExtendedMUs' = ExtendedMUs /\ \A u \in Types : Fits(u)' = Fits(u)
    BY <1>0, <2>5 DEF Sound, ExtendedMUs, Fits
  <2>7. TypeOK'
    BY <1>0, <2>3 DEF TypeOK
  <2>8. Numbered'
    <3>1. \A c \in DOMAIN db_rule[ty] : db_rule'[ty][c] \in Nodes
      <4>1. \A c \in DOMAIN db_rule[ty] : db_rule[ty][c] \in Nodes
        BY <1>1 DEF Numbered
      <4>. HIDE DEF ty, b
      <4>. QED  BY <1>1, <2>4, <4>1
    <3>2. DOMAIN db_rule[ty] = 0..Rows(ty) - 1
      BY <1>1, <1>2
    <3>. HIDE DEF ty
    <3>3. db_rule'[ty] \in [0..Rows(ty) - 1 -> Nodes]
      BY <2>4, <3>1, <3>2
    <3>4. \A u \in Types : /\ Rows(u)' \in Nat \ {0}
                           /\ db_rule'[u] \in [0..Rows(u)' - 1 -> Nodes]
      <4>1. \A u \in Types : Rows(u) \in Nat \ {0} /\ db_rule[u] \in [0..Rows(u) - 1 -> Nodes]
        BY DEF Numbered
      <4>. QED  BY <2>4, <2>5, <3>3, <4>1
    <3>. QED  BY <2>4, <3>4 DEF Numbered
  <2>9. KnownAreRows'
    BY <1>0, <2>5 DEF KnownAreRows
  <2>10. ExtendsByRows'
    <3>1. \A u \in task' : Extending(u) => u \in task /\ u.type \in Types
      BY <1>0, <2>2, <2>3 DEF Migrating, Extending, Tasks
    <3>. QED  BY <1>0, <2>5, <3>1 DEF ExtendsByRows, Extending
  <2>11. HashKept' /\ OrdersKept'
    BY <1>0, <2>6 DEF HashKept, OrdersKept, OrdersFit
  <2>12. VersionsAreStored'
    <3>1. \A u \in Types : InMemory(u)' \subseteq InMemory(u)
      BY <2>2, <2>3 DEF InMemory
    <3>2. IsFiniteSet(task) /\ m_current_version \in [Types -> Nat]
          /\ db_order \in [Types -> Seq(Orders)]
      BY DEF TypeOK
    <3>. QED  BY <1>0, <3>1, <3>2, VersionsStayStored
  <2>13. Settled'
    <3>. SUFFICES ASSUME NEW u \in Sound, NEW c \in 0..m_current_bucket_number[u] - 1,
                         ~Moving(u, c)
                  PROVE  m_hash_table[u].items[c].ip = db_rule'[u][c]
      BY <1>0, <2>3, <2>6 DEF Settled
    <3>1. u \in Types /\ m_hash_table[u].items[c].ip = db_rule[u][c]
      BY SoundFacts DEF Settled
    <3>2. u = ty => c # b
      BY <1>0 DEF Moving, Active, Migrating
    <3>3. c \in DOMAIN db_rule[u]
      BY <1>2, <3>1
    <3>. HIDE DEF ty, b
    <3>. QED  BY <2>4, <3>1, <3>2, <3>3
  <2>14. InTransit'
    <3>. SUFFICES ASSUME NEW u \in task', Migrating(u), u.type \in Sound
                  PROVE  /\ u.phase \in {"rule", "order", "memory"}
                         /\ u.order.bucket < m_current_bucket_number[u.type]
                         /\ m_hash_table[u.type].items[u.order.bucket].ip = u.order.src
                         /\ db_rule'[u.type][u.order.bucket] =
                              IF u.phase = "rule" THEN u.order.src ELSE u.order.dest
      BY <1>0, <2>6 DEF InTransit, Migrating
    <3>1. CASE u = new
      BY <1>0, <2>2, <2>4, <3>1 DEF InTransit
    <3>2. CASE u # new
      <4>1. u \in task /\ u # t
        BY <2>3, <3>2
      <4>2. /\ u.phase \in {"rule", "order", "memory"}
            /\ u.order.bucket < m_current_bucket_number[u.type]
            /\ m_hash_table[u.type].items[u.order.bucket].ip = u.order.src
            /\ db_rule[u.type][u.order.bucket] =
                 IF u.phase = "rule" THEN u.order.src ELSE u.order.dest
        BY <4>1 DEF InTransit
      <4>3. u.type = ty => u.order.bucket # b
        BY <1>0, <4>1 DEF OneAtATime
      <4>4. u.order.bucket \in DOMAIN db_rule[u.type] /\ u.type \in Types
        <5>1. u.type \in Types /\ u.order \in Orders
          BY <4>1 DEF TypeOK, Tasks
        <5>2. u.order.bucket \in Nat
          BY <5>1 DEF Orders, Migrating
        <5>. QED  BY <1>2, <4>2, <5>1, <5>2
      <4>5. db_rule'[u.type][u.order.bucket] = db_rule[u.type][u.order.bucket]
        <5>. HIDE DEF ty, b
        <5>. QED  BY <2>4, <4>3, <4>4
      <4>. QED  BY <4>2, <4>5
    <3>. QED  BY <3>1, <3>2
  <2>15. CopiesHold'
    <3>. SUFFICES ASSUME NEW u \in task', Extending(u), u.type \in Sound,
                         u.phase \in {"rule", "order", "memory"}
                  PROVE  /\ Active(u.type, "MIGRATION")' = {}
                         /\ \A i \in 0..u.copied - 1 :
                              db_rule'[u.type][i + m_current_bucket_number[u.type]]
                                = db_rule'[u.type][i]
      BY <1>0, <2>6 DEF CopiesHold, Extending
    <3>1. u \in task
      BY <1>0, <2>2, <2>3 DEF Extending, Migrating
    <3>2. /\ Active(u.type, "MIGRATION") = {}
          /\ \A i \in 0..u.copied - 1 :
               db_rule[u.type][i + m_current_bucket_number[u.type]] = db_rule[u.type][i]
      BY <3>1 DEF CopiesHold
    <3>3. u.type # ty /\ u.type \in Types
      BY <1>0, <3>2, SoundFacts DEF Active, Migrating
    <3>4. db_rule'[u.type] = db_rule[u.type]
      BY <2>4, <3>3
    <3>. QED  BY <2>3, <3>2, <3>4
  <2>. QED  BY <2>3, <2>7, <2>8, <2>9, <2>10, <2>11, <2>12, <2>13, <2>14, <2>15
<1>. QED  BY <1>3, <1>4

\* The next row becomes the copy of one of the first half, or is there already.
LEMMA CopyRowIInv ==
  ASSUME IInv, NEW t \in task, CopyRow(t)
  PROVE  IInv'
<1>. USE DEF memory, tables, counters, database, history
<1>. DEFINE ty == t.type
            number == m_current_bucket_number[ty]
            from == t.copied
            rows == Rows(ty)
            phase == IF from + 1 = number THEN "order" ELSE "rule"
            new == [t EXCEPT !.copied = from + 1, !.phase = phase]
<1>0. /\ t.phase = "rule" /\ Extending(t)
      /\ UNCHANGED <<memory, db_order, dead, crashes, history>>
  BY DEF CopyRow, Extending
<1>1. t \in Tasks /\ ty \in Types /\ from \in Nat
  <2>1. t \in Tasks
    BY DEF IInv, TypeOK
  <2>. QED  BY <2>1 DEF Tasks
<1>2. \A u \in Types : /\ Rows(u) \in Nat /\ m_current_bucket_number[u] \in Nat
                       /\ m_current_bucket_number[u] <= Rows(u)
                       /\ DOMAIN db_rule[u] = 0..Rows(u) - 1
                       /\ \A b \in DOMAIN db_rule[u] : db_rule[u][b] \in Nodes
  BY Sizes DEF IInv, TypeOK
<1>3. from + number <= rows /\ from < number /\ 2 ^ (t.order.new_mod - 1) = number
  <2>1. /\ t.order.new_mod = m_current_mod[ty] + 1
        /\ from + number <= rows /\ from < number
    BY <1>0 DEF IInv, ExtendsByRows
  <2>2. m_current_mod[ty] \in Nat /\ number = 2 ^ m_current_mod[ty]
    BY <1>1 DEF IInv, TypeOK, KnownAreRows
  <2>3. t.order.new_mod - 1 = m_current_mod[ty]
    BY <2>1, <2>2
  <2>. QED  BY <2>1, <2>2, <2>3
<1>4. CASE from + number \in DOMAIN db_rule[ty]
  <2>1. Enters(t, "failed") /\ db_rule' = db_rule
    BY <1>3, <1>4 DEF CopyRow
  <2>2. broken' = broken /\ broken \subseteq Types
    BY <1>0 DEF IInv, TypeOK
  <2>3. ~Migrating(t)
    BY <1>0 DEF Migrating, Extending
  <2>. QED  BY <1>0, <2>1, <2>2, <2>3, FailedIInv
<1>5. CASE from + number \notin DOMAIN db_rule[ty]
  <2>. USE DEF IInv
  <2>1. Copies(ty, from, from + number) /\ Becomes(t, new)
    BY <1>3, <1>5 DEF CopyRow, Copied
  <2>2. /\ new \in Tasks /\ new.type = ty /\ new.order = t.order
        /\ new.phase = phase /\ new.copied = from + 1
    <3>1. from + 1 \in Nat /\ phase \in {"rule", "order", "memory", "nodes", "failed"}
      BY <1>1
    <3>. HIDE DEF phase, from
    <3>. QED  BY <1>1, <3>1 DEF Tasks
  <2>. HIDE DEF new
  <2>3. /\ task' \subseteq Tasks /\ IsFiniteSet(task') /\ started' = started
        /\ new \in task' /\ \A u \in task' : u = new \/ (u \in task /\ u # t)
        /\ OneAtATime'
        /\ \A x, c : Moving(x, c)' <=> Moving(x, c)
        /\ \A x : Active(x, "MIGRATION") = {} => Active(x, "MIGRATION")' = {}
    BY <2>1, <2>2, PhaseFacts
  <2>4. from + number = rows /\ rows \notin DOMAIN db_rule[ty] /\ from \in DOMAIN db_rule[ty]
    <3>1. rows \in Nat /\ number \in Nat /\ number <= rows /\ DOMAIN db_rule[ty] = 0..rows - 1
      BY <1>1, <1>2
    <3>. HIDE DEF rows, number, ty, from
    <3>. QED  BY <1>1, <1>3, <1>5, <3>1
  <2>5. /\ db_rule' = [u \in Types |-> db_rule'[u]]
        /\ \A u \in Types : u # ty => db_rule'[u] = db_rule[u]
        /\ DOMAIN db_rule'[ty] = DOMAIN db_rule[ty] \cup {rows}
        /\ db_rule'[ty][rows] = db_rule[ty][from]
        /\ \A c \in DOMAIN db_rule[ty] : db_rule'[ty][c] = db_rule[ty][c]
        /\ db_rule'[ty] = [c \in DOMAIN db_rule[ty] \cup {rows} |-> db_rule'[ty][c]]
    <3>. DEFINE f == [c \in DOMAIN db_rule[ty] \cup {rows} |->
                        IF c = rows THEN db_rule[ty][from] ELSE db_rule[ty][c]]
    <3>1. db_rule' = [db_rule EXCEPT ![ty] = f]
      <4>1. Copies(ty, from, rows)
        BY <2>1, <2>4
      <4>. HIDE DEF rows
      <4>. QED  BY <4>1 DEF Copies
    <3>2. /\ DOMAIN f = DOMAIN db_rule[ty] \cup {rows} /\ f[rows] = db_rule[ty][from]
          /\ \A c \in DOMAIN db_rule[ty] : f[c] = db_rule[ty][c]
          /\ f = [c \in DOMAIN db_rule[ty] \cup {rows} |-> f[c]]
      BY <2>4
    <3>. HIDE DEF f
    <3>3. db_rule = [u \in Types |-> db_rule[u]]
      BY DEF Numbered
    <3>4. db_rule'[ty] = f
      BY <1>1, <3>1, <3>3
    <3>5. db_rule' = [u \in Types |-> db_rule'[u]] /\ \A u \in Types : u # ty => db_rule'[u] = db_rule[u]
      <4>. HIDE DEF ty
      <4>. QED  BY <3>1, <3>3
    <3>. HIDE DEF rows
    <3>. QED  BY <3>2, <3>4, <3>5
  <2>6. DOMAIN db_rule'[ty] = 0..rows /\ Rows(ty)' = rows + 1
    <3>1. rows \in Nat /\ DOMAIN db_rule[ty] = 0..rows - 1
      BY <1>1, <1>2
    <3>. HIDE DEF rows, ty
    <3>2. DOMAIN db_rule'[ty] = 0..rows
      BY <2>5, <3>1
    <3>3. Cardinality(0..rows) = rows + 1
      BY <3>1, IntervalCounted
    <3>4. Rows(ty)' = Cardinality(DOMAIN db_rule'[ty])
      BY DEF Rows, ty
    <3>. QED  BY <3>2, <3>3, <3>4
  <2>7. \A u \in Types : u # ty => Rows(u)' = Rows(u)
    BY <2>5 DEF Rows
  <2>8. \A u \in Types : Rows(u) \in Nat /\ Rows(u)' \in Nat /\ Rows(u) <= Rows(u)'
    <3>1. \A u \in Types : Rows(u) \in Nat
      BY <1>2
    <3>. HIDE DEF ty
    <3>2. rows \in Nat /\ Rows(ty)' \in Nat /\ rows <= Rows(ty)'
      BY <1>1, <2>6, <3>1 DEF ty
    <3>. QED  BY <2>7, <3>1, <3>2
  <2>9. /\ \A u \in Types : Fits(u)' => Fits(u)
        /\ ExtendedMUs \subseteq ExtendedMUs' /\ Sound' \subseteq Sound
    BY <1>0, <2>8, SoundShrinks
  <2>10. TypeOK'
    BY <1>0, <2>3 DEF TypeOK
  <2>11. Numbered'
    <3>1. \A u \in Types : Rows(u) \in Nat \ {0} /\ db_rule[u] \in [0..Rows(u) - 1 -> Nodes]
      BY DEF Numbered
    <3>2. rows \in Nat /\ rows + 1 \in Nat \ {0} /\ rows + 1 - 1 = rows
      BY <1>1, <3>1
    <3>3. db_rule'[ty] \in [0..rows -> Nodes]
      <4>1. \A c \in DOMAIN db_rule'[ty] : db_rule'[ty][c] \in Nodes
        BY <1>1, <1>2, <2>4, <2>5
      <4>. HIDE DEF ty, rows
      <4>2. db_rule'[ty] = [c \in 0..rows |-> db_rule'[ty][c]]
        BY <2>5, <2>6
      <4>. QED  BY <2>6, <4>1, <4>2
    <3>. HIDE DEF rows
    <3>4. ASSUME NEW u \in Types
          PROVE  Rows(u)' \in Nat \ {0} /\ db_rule'[u] \in [0..Rows(u)' - 1 -> Nodes]
      <4>1. CASE u = ty
        <5>. HIDE DEF ty
        <5>. QED  BY <2>6, <3>2, <3>3, <4>1
      <4>2. CASE u # ty
        <5>1. Rows(u)' = Rows(u) /\ db_rule'[u] = db_rule[u]
          BY <2>5, <2>7, <4>2
        <5>. QED  BY <3>1, <5>1
      <4>. QED  BY <4>1, <4>2
    <3>. QED  BY <2>5, <3>4 DEF Numbered
  <2>12. KnownAreRows' /\ HashKept' /\ OrdersKept'
    <3>1. m_current_bucket_number \in [Types -> Nat]
      BY DEF TypeOK
    <3>2. applied \subseteq applied' /\ UNCHANGED memory
      BY <1>0
    <3>. QED  BY <2>8, <2>9, <3>1, <3>2, MemoryKept
  <2>13. ExtendsByRows'
    <3>. SUFFICES ASSUME NEW u \in task', Extending(u), u.phase \in {"rule", "order", "memory"}
                  PROVE  /\ u.order.new_mod = m_current_mod[u.type] + 1
                         /\ u.copied + m_current_bucket_number[u.type] <= Rows(u.type)'
                         /\ IF u.phase = "rule" THEN u.copied < m_current_bucket_number[u.type]
                                                ELSE u.copied = m_current_bucket_number[u.type]
      BY <1>0 DEF ExtendsByRows, Extending
    <3>1. CASE u = new
      <4>1. u.order.new_mod = m_current_mod[ty] + 1
        BY <1>0, <2>2, <3>1 DEF ExtendsByRows
      <4>2. number \in Nat /\ rows \in Nat
        BY <1>1, <1>2
      <4>3. u.type = ty /\ u.copied = from + 1 /\ u.phase = phase
        BY <2>2, <3>1
      <4>4. from + 1 + number <= Rows(ty)'
        <5>. HIDE DEF ty, number, rows, from
        <5>. QED  BY <1>1, <2>4, <2>6, <4>2
      <4>5. IF phase = "rule" THEN from + 1 < number ELSE from + 1 = number
        <5>. HIDE DEF ty, number, rows, from
        <5>. QED  BY <1>1, <1>3, <4>2
      <4>. QED  BY <4>1, <4>3, <4>4, <4>5
    <3>2. CASE u # new
      <4>1. u \in task /\ u.type \in Types /\ u.copied \in Nat
        BY <2>3, <3>2 DEF TypeOK, Tasks
      <4>2. /\ u.order.new_mod = m_current_mod[u.type] + 1
            /\ u.copied + m_current_bucket_number[u.type] <= Rows(u.type)
            /\ IF u.phase = "rule" THEN u.copied < m_current_bucket_number[u.type]
                                   ELSE u.copied = m_current_bucket_number[u.type]
        BY <4>1 DEF ExtendsByRows
      <4>3. /\ m_current_bucket_number[u.type] \in Nat
            /\ Rows(u.type) \in Nat /\ Rows(u.type)' \in Nat /\ Rows(u.type) <= Rows(u.type)'
        BY <1>2, <2>8, <4>1
      <4>. HIDE DEF Rows
      <4>4. u.copied + m_current_bucket_number[u.type] <= Rows(u.type)'
        BY <4>1, <4>2, <4>3
      <4>. QED  BY <4>2, <4>4
    <3>. QED  BY <3>1, <3>2
  <2>14. VersionsAreStored'
    <3>1. \A u \in Types : InMemory(u)' \subseteq InMemory(u)
      BY <2>2, <2>3 DEF InMemory
    <3>2. IsFiniteSet(task) /\ m_current_version \in [Types -> Nat]
          /\ db_order \in [Types -> Seq(Orders)]
      BY DEF TypeOK
    <3>. QED  BY <1>0, <3>1, <3>2, VersionsStayStored
  <2>15. \A u \in Types : \A c \in DOMAIN db_rule[u] : db_rule'[u][c] = db_rule[u][c]
    BY <2>5
  <2>16. Settled'
    <3>. SUFFICES ASSUME NEW u \in Sound, NEW c \in 0..m_current_bucket_number[u] - 1,
                         ~Moving(u, c)
                  PROVE  m_hash_table[u].items[c].ip = db_rule'[u][c]
      BY <1>0, <2>3, <2>9 DEF Settled
    <3>1. u \in Types /\ m_hash_table[u].items[c].ip = db_rule[u][c]
      BY SoundFacts DEF Settled
    <3>2. c \in DOMAIN db_rule[u]
      BY <1>2, <3>1
    <3>. QED  BY <2>15, <3>1, <3>2
  <2>17. InTransit'
    <3>. SUFFICES ASSUME NEW u \in task', Migrating(u), u.type \in Sound
                  PROVE  /\ u.phase \in {"rule", "order", "memory"}
                         /\ u.order.bucket < m_current_bucket_number[u.type]
                         /\ m_hash_table[u.type].items[u.order.bucket].ip = u.order.src
                         /\ db_rule'[u.type][u.order.bucket] =
                              IF u.phase = "rule" THEN u.order.src ELSE u.order.dest
      BY <1>0, <2>9 DEF InTransit, Migrating
    <3>1. u \in task
      BY <1>0, <2>2, <2>3 DEF Extending, Migrating
    <3>2. /\ u.phase \in {"rule", "order", "memory"}
          /\ u.order.bucket < m_current_bucket_number[u.type]
          /\ m_hash_table[u.type].items[u.order.bucket].ip = u.order.src
          /\ db_rule[u.type][u.order.bucket] =
               IF u.phase = "rule" THEN u.order.src ELSE u.order.dest
      BY <3>1 DEF InTransit
    <3>3. u.order.bucket \in DOMAIN db_rule[u.type] /\ u.type \in Types
      <4>1. u.type \in Types /\ u.order \in Orders
        BY <3>1 DEF TypeOK, Tasks
      <4>2. u.order.bucket \in Nat
        BY <4>1 DEF Orders, Migrating
      <4>. QED  BY <1>2, <3>2, <4>1, <4>2
    <3>. QED  BY <2>15, <3>2, <3>3
  <2>18. CopiesHold'
    <3>. SUFFICES ASSUME NEW u \in task', Extending(u), u.type \in Sound',
                         u.phase \in {"rule", "order", "memory"}
                  PROVE  /\ Active(u.type, "MIGRATION")' = {}
                         /\ \A i \in 0..u.copied - 1 :
                              db_rule'[u.type][i + m_current_bucket_number[u.type]]
                                = db_rule'[u.type][i]
      BY <1>0 DEF CopiesHold, Extending
    <3>0. u.type \in Sound
      BY <2>9
    <3>1. CASE u = new
      <4>1. /\ Active(ty, "MIGRATION") = {}
            /\ \A i \in 0..from - 1 : db_rule[ty][i + number] = db_rule[ty][i]
        BY <1>0, <2>2, <3>0, <3>1 DEF CopiesHold
      <4>2. number \in Nat /\ rows \in Nat /\ number <= rows /\ DOMAIN db_rule[ty] = 0..rows - 1
        BY <1>1, <1>2
      <4>3. ASSUME NEW i \in 0..from PROVE db_rule'[ty][i + number] = db_rule'[ty][i]
        <5>1. i \in DOMAIN db_rule[ty]
          <6>. HIDE DEF ty, number, rows, from
          <6>. QED  BY <1>1, <1>3, <4>2
        <5>2. CASE i = from
          BY <2>4, <2>5, <5>1, <5>2
        <5>3. CASE i # from
          <6>1. i \in 0..from - 1 /\ i + number \in DOMAIN db_rule[ty]
            <7>. HIDE DEF ty, number, rows, from
            <7>. QED  BY <1>1, <2>4, <4>2, <5>3
          <6>. QED  BY <1>1, <2>15, <4>1, <5>1, <6>1
        <5>. QED  BY <5>2, <5>3
      <4>4. u.type = ty /\ u.copied - 1 = from
        BY <1>1, <2>2, <3>1
      <4>. QED  BY <2>3, <4>1, <4>3, <4>4
    <3>2. CASE u # new
      <4>1. u \in task /\ u # t
        BY <2>3, <3>2
      <4>2. /\ Active(u.type, "MIGRATION") = {}
            /\ \A i \in 0..u.copied - 1 :
                 db_rule[u.type][i + m_current_bucket_number[u.type]] = db_rule[u.type][i]
        BY <3>0, <4>1 DEF CopiesHold
      <4>3. u.type # ty /\ u.type \in Types
        BY <1>0, <3>0, <4>1, SoundFacts DEF OneAtATime
      <4>4. db_rule'[u.type] = db_rule[u.type]
        BY <2>5, <4>3
      <4>. QED  BY <2>3, <4>2, <4>4
    <3>. QED  BY <3>1, <3>2
  <2>. QED  BY <2>3, <2>10, <2>11, <2>12, <2>13, <2>14, <2>16, <2>17, <2>18
<1>. QED  BY <1>4, <1>5

\* The order of a task is stored, for a version it takes later.
LEMMA InsertOrderIInv ==
  ASSUME IInv, NEW t \in task, InsertOrder(t)
  PROVE  IInv'
<1>. USE DEF IInv, memory, tables, counters, database, history
<1>. DEFINE ty == t.type
            new == [t EXCEPT !.phase = "memory"]
<1>0. /\ t.phase = "order" /\ Becomes(t, new)
      /\ db_order' = [db_order EXCEPT ![ty] = Append(@, t.order)]
      /\ UNCHANGED <<memory, db_rule, dead, crashes, history>>
  BY DEF InsertOrder, Enters
<1>1. t \in Tasks /\ ty \in Types /\ t.order \in Orders
  BY DEF TypeOK, Tasks
<1>2. /\ new \in Tasks /\ new.type = ty /\ new.order = t.order
      /\ new.phase = "memory" /\ new.copied = t.copied
  BY <1>1, NewPhase
<1>. HIDE DEF new
<1>3. /\ task' \subseteq Tasks /\ IsFiniteSet(task') /\ started' = started
      /\ new \in task' /\ \A u \in task' : u = new \/ (u \in task /\ u # t)
      /\ OneAtATime'
      /\ \A x, c : Moving(x, c)' <=> Moving(x, c)
      /\ \A x : Active(x, "MIGRATION") = {} => Active(x, "MIGRATION")' = {}
  BY <1>0, <1>2, PhaseFacts
<1>4. Sound' = Sound /\ ExtendedMUs' = ExtendedMUs /\ \A u : Fits(u)' = Fits(u)
  BY <1>0 DEF Sound, ExtendedMUs, Fits, Rows
<1>5. /\ db_order' \in [Types -> Seq(Orders)]
      /\ \A u \in Types : Len(db_order'[u]) = IF u = ty THEN Len(db_order[u]) + 1
                                                       ELSE Len(db_order[u])
  <2>1. db_order \in [Types -> Seq(Orders)]
    BY DEF TypeOK
  <2>2. Append(db_order[ty], t.order) \in Seq(Orders)
        /\ Len(Append(db_order[ty], t.order)) = Len(db_order[ty]) + 1
    BY <1>1, <2>1
  <2>. HIDE DEF ty
  <2>. QED  BY <1>0, <2>1, <2>2
<1>6. TypeOK'
  BY <1>0, <1>3, <1>5 DEF TypeOK
<1>7. Numbered' /\ KnownAreRows'
  BY <1>0 DEF Numbered, KnownAreRows, Rows
<1>8. ExtendsByRows'
  <2>. SUFFICES ASSUME NEW u \in task', Extending(u), u.phase \in {"rule", "order", "memory"}
                PROVE  /\ u.order.new_mod = m_current_mod[u.type] + 1
                       /\ u.copied + m_current_bucket_number[u.type] <= Rows(u.type)
                       /\ IF u.phase = "rule" THEN u.copied < m_current_bucket_number[u.type]
                                              ELSE u.copied = m_current_bucket_number[u.type]
    BY <1>0, RowsUnchanged DEF ExtendsByRows, Extending
  <2>1. CASE u = new
    BY <1>0, <1>2, <2>1 DEF ExtendsByRows, Extending
  <2>2. CASE u # new
    BY <1>3, <2>2 DEF ExtendsByRows
  <2>. QED  BY <2>1, <2>2
<1>9. HashKept' /\ OrdersKept'
  BY <1>0, <1>4 DEF HashKept, OrdersKept, OrdersFit
<1>10. VersionsAreStored'
  <2>. SUFFICES ASSUME NEW u \in Types
                PROVE  m_current_version[u] + Cardinality(InMemory(u)') <= Len(db_order'[u])
    BY <1>0 DEF VersionsAreStored
  <2>1. IsFiniteSet(InMemory(u)) /\ Cardinality(InMemory(u)) \in Nat
    BY InMemoryNumber DEF TypeOK
  <2>2. /\ m_current_version[u] + Cardinality(InMemory(u)) <= Len(db_order[u])
        /\ m_current_version[u] \in Nat /\ Len(db_order[u]) \in Nat
    BY DEF TypeOK, VersionsAreStored
  <2>. DEFINE S == IF u = ty THEN InMemory(u) \cup {new} ELSE InMemory(u)
  <2>3. InMemory(u)' \in SUBSET S
    BY <1>2, <1>3 DEF InMemory
  <2>4. IsFiniteSet(S) /\ Cardinality(S) \in Nat
        /\ Cardinality(S) <= IF u = ty THEN Cardinality(InMemory(u)) + 1
                                       ELSE Cardinality(InMemory(u))
    <3>1. CASE u = ty
      <4>1. /\ IsFiniteSet(InMemory(u) \cup {new})
            /\ Cardinality(InMemory(u) \cup {new}) =
                 IF new \in InMemory(u) THEN Cardinality(InMemory(u))
                                        ELSE Cardinality(InMemory(u)) + 1
        BY <2>1, FS_AddElement
      <4>. HIDE DEF InMemory, ty
      <4>. QED  BY <2>1, <3>1, <4>1
    <3>2. CASE u # ty
      BY <2>1, <3>2
    <3>. QED  BY <3>1, <3>2
  <2>. HIDE DEF S
  <2>5. IsFiniteSet(InMemory(u)') /\ Cardinality(InMemory(u)') <= Cardinality(S)
    BY <2>3, <2>4, FS_Subset
  <2>6. Cardinality(InMemory(u)') \in Nat
    BY <2>5, FS_CardinalityType
  <2>7. Len(db_order'[u]) = IF u = ty THEN Len(db_order[u]) + 1 ELSE Len(db_order[u])
    BY <1>5
  <2>. HIDE DEF InMemory, ty
  <2>. QED  BY <2>1, <2>2, <2>4, <2>5, <2>6, <2>7
<1>11. Settled'
  BY <1>0, <1>3, <1>4 DEF Settled
<1>12. InTransit'
  <2>. SUFFICES ASSUME NEW u \in task', Migrating(u), u.type \in Sound
                PROVE  /\ u.phase \in {"rule", "order", "memory"}
                       /\ u.order.bucket < m_current_bucket_number[u.type]
                       /\ m_hash_table[u.type].items[u.order.bucket].ip = u.order.src
                       /\ db_rule[u.type][u.order.bucket] =
                            IF u.phase = "rule" THEN u.order.src ELSE u.order.dest
    BY <1>0, <1>4 DEF InTransit, Migrating
  <2>1. CASE u = new
    BY <1>0, <1>2, <2>1 DEF InTransit, Migrating
  <2>2. CASE u # new
    BY <1>3, <2>2 DEF InTransit
  <2>. QED  BY <2>1, <2>2
<1>13. CopiesHold'
  <2>. SUFFICES ASSUME NEW u \in task', Extending(u), u.type \in Sound,
                       u.phase \in {"rule", "order", "memory"}
                PROVE  /\ Active(u.type, "MIGRATION") = {}
                       /\ \A i \in 0..u.copied - 1 :
                            db_rule[u.type][i + m_current_bucket_number[u.type]] = db_rule[u.type][i]
    BY <1>0, <1>3, <1>4 DEF CopiesHold, Extending
  <2>1. CASE u = new
    BY <1>0, <1>2, <2>1 DEF CopiesHold, Extending
  <2>2. CASE u # new
    BY <1>3, <2>2 DEF CopiesHold
  <2>. QED  BY <2>1, <2>2
<1>. QED  BY <1>3, <1>6, <1>7, <1>8, <1>9, <1>10, <1>11, <1>12, <1>13

\* A task that is over moves no bucket of a sound type.
LEMMA OverIInv ==
  ASSUME IInv, NEW t \in task, Over(t)
  PROVE  IInv'
<1>. USE DEF IInv, memory, tables, counters, database, history
<1>0. /\ t.phase \in {"nodes", "failed"} /\ Ends(t)
      /\ UNCHANGED <<memory, database, dead, crashes, history>>
  BY DEF Over
<1>1. Sound' = Sound /\ ExtendedMUs' = ExtendedMUs /\ \A u : Fits(u)' = Fits(u)
  BY <1>0 DEF Sound, ExtendedMUs, Fits, Rows
<1>2. /\ task' \subseteq task \ {t} /\ IsFiniteSet(task') /\ OneAtATime'
      /\ \A x : Active(x, "MIGRATION") = {} => Active(x, "MIGRATION")' = {}
      /\ started' = started
  <2>1. task \subseteq Tasks /\ IsFiniteSet(task)
    BY DEF TypeOK
  <2>. QED  BY <1>0, <2>1, TaskEnds
<1>3. TypeOK'
  BY <1>0, <1>2 DEF TypeOK
<1>4. Numbered' /\ KnownAreRows'
  BY <1>0 DEF Numbered, KnownAreRows, Rows
<1>5. ExtendsByRows'
  BY <1>0, <1>2, RowsUnchanged DEF ExtendsByRows
<1>6. HashKept' /\ OrdersKept'
  BY <1>0, <1>1 DEF HashKept, OrdersKept, OrdersFit
<1>7. VersionsAreStored'
  <2>1. \A u \in Types : InMemory(u)' \subseteq InMemory(u)
    BY <1>2 DEF InMemory
  <2>2. IsFiniteSet(task) /\ m_current_version \in [Types -> Nat]
        /\ db_order \in [Types -> Seq(Orders)]
    BY DEF TypeOK
  <2>. QED  BY <1>0, <2>1, <2>2, VersionsStayStored
<1>8. Settled'
  <2>. SUFFICES ASSUME NEW u \in Sound, NEW c \in 0..m_current_bucket_number[u] - 1,
                       ~Moving(u, c)'
                PROVE  m_hash_table[u].items[c].ip = db_rule[u][c]
    BY <1>0, <1>1 DEF Settled
  <2>1. ~Moving(u, c)
    <3>. SUFFICES ASSUME NEW w \in task, w.type = u, Migrating(w), w.order.bucket = c
                  PROVE  FALSE
      BY DEF Moving, Active, Migrating
    <3>1. w.phase \in {"rule", "order", "memory"}
      BY DEF InTransit
    <3>2. w # t
      BY <1>0, <3>1
    <3>3. w \in task'
      BY <1>0, <3>2 DEF Ends
    <3>. QED  BY <3>3 DEF Moving, Active, Migrating
  <2>. QED  BY <2>1 DEF Settled
<1>9. InTransit' /\ CopiesHold'
  BY <1>0, <1>1, <1>2 DEF InTransit, CopiesHold
<1>. QED  BY <1>2, <1>3, <1>4, <1>5, <1>6, <1>7, <1>8, <1>9

\* A task takes the next version and writes its order, a migration to the MU table.
LEMMA OrderTaken ==
  ASSUME TypeOK, OrdersKept, NEW ty \in Types, NEW table \in {"MU", "SU"}, NEW order \in Orders,
         m_order_table' = [m_order_table EXCEPT ![table] =
                             add_new_order_item(@, [version |-> m_current_version[ty] + 1,
                                                    order |-> order])],
         m_current_version' = [m_current_version EXCEPT ![ty] = @ + 1],
         applied \subseteq applied',
         table = ty \/ (table = "MU" /\ <<ty, "MIGRATION">> \in applied')
  PROVE  /\ m_order_table' \in [{"MU", "SU"} -> Vectors(OrderItems)]
         /\ m_current_version' \in [Types -> Nat]
         /\ OrdersKept'
<1>. DEFINE n == m_current_version[ty] + 1
            item == [version |-> n, order |-> order]
            v == m_order_table[table]
            w == add_new_order_item(v, item)
<1>1. m_current_version[ty] \in Nat /\ n \in Nat /\ v \in Vectors(OrderItems)
  BY DEF TypeOK
<1>2. item \in OrderItems /\ item.version = n
  BY <1>1 DEF OrderItems
<1>3. w \in Vectors(OrderItems) /\ (n < v.capacity => Written(v, w, n, item))
  <2>. HIDE DEF v, item, n
  <2>. QED  BY <1>1, <1>2, AddOrderItem
<1>4. m_order_table' = [m_order_table EXCEPT ![table] = w]
  OBVIOUS
<1>. HIDE DEF w, item
<1>5. /\ m_order_table' \in [{"MU", "SU"} -> Vectors(OrderItems)]
      /\ m_order_table'[table] = w
      /\ \A u \in {"MU", "SU"} : u # table => m_order_table'[u] = m_order_table[u]
  BY <1>3, <1>4 DEF TypeOK
<1>6. /\ m_current_version' \in [Types -> Nat]
      /\ m_current_version'[ty] = n
      /\ \A u \in Types : u # ty => m_current_version'[u] = m_current_version[u]
  BY <1>1 DEF TypeOK
<1>7. \A u \in Types : m_current_version[u] \in Nat /\ m_current_version[u] <= m_current_version'[u]
  BY <1>1, <1>6 DEF TypeOK
<1>8. INIT_VEC_SIZE \in Nat /\ Types \subseteq {"MU", "SU"}
  BY RulesAssumption
<1>9. OrdersKept'
  <2>. SUFFICES ASSUME NEW u \in Types, OrdersFit(u)', ~(u = "SU" /\ <<u, "MIGRATION">> \in applied')
                PROVE  /\ m_order_table'[u].capacity = INIT_VEC_SIZE
                       /\ \A i \in 1..m_current_version'[u] :
                            /\ i \in DOMAIN m_order_table'[u].items
                            /\ m_order_table'[u].items[i].version = i
    BY DEF OrdersKept
  <2>1. OrdersFit(u)
    <3>. SUFFICES ASSUME NEW o \in Types, o = u \/ u = "MU" PROVE m_current_version[o] < INIT_VEC_SIZE
      BY DEF OrdersFit
    <3>1. m_current_version'[o] < INIT_VEC_SIZE /\ m_current_version'[o] \in Nat
      BY <1>6 DEF OrdersFit
    <3>. QED  BY <1>7, <1>8, <3>1
  <2>2. /\ m_order_table[u].capacity = INIT_VEC_SIZE
        /\ \A i \in 1..m_current_version[u] :
             i \in DOMAIN m_order_table[u].items /\ m_order_table[u].items[i].version = i
    BY <2>1 DEF OrdersKept
  <2>3. CASE u # table
    <3>1. u # ty
      BY <1>8, <2>3
    <3>2. m_order_table'[u] = m_order_table[u] /\ m_current_version'[u] = m_current_version[u]
      BY <1>5, <1>6, <1>8, <2>3, <3>1
    <3>. QED  BY <2>2, <3>2
  <2>4. CASE u = table
    <3>1. n < INIT_VEC_SIZE
      BY <1>6, <2>4 DEF OrdersFit
    <3>2. Written(v, w, n, item)
      BY <1>3, <2>2, <2>4, <3>1
    <3>3. w.capacity = INIT_VEC_SIZE
      BY <2>2, <2>4, <3>2 DEF Written
    <3>4. ASSUME NEW i \in 1..m_current_version'[u] PROVE i \in DOMAIN w.items /\ w.items[i].version = i
      <4>1. CASE i = n
        BY <1>2, <3>2, <4>1 DEF Written
      <4>2. CASE i # n
        <5>1. i \in 1..m_current_version[u]
          <6>1. CASE u = ty
            BY <1>1, <1>6, <4>2, <6>1
          <6>2. CASE u # ty
            BY <1>6, <6>2
          <6>. QED  BY <6>1, <6>2
        <5>2. i \in DOMAIN v.items /\ v.items[i].version = i
          BY <2>2, <2>4, <5>1
        <5>. HIDE DEF v, n
        <5>. QED  BY <3>2, <4>2, <5>2 DEF Written
      <4>. QED  BY <4>1, <4>2
    <3>. QED  BY <1>5, <2>4, <3>3, <3>4
  <2>. QED  BY <2>3, <2>4
<1>. QED  BY <1>5, <1>6, <1>9

\* A migration ends: the rule in memory follows the row. Of a sound type it named the
\* source, so that it does change.
LEMMA AfterUpdateDbIInv ==
  ASSUME IInv, NEW t \in task, after_update_db(t)
  PROVE  IInv'
<1>. USE DEF IInv, database
<1>. DEFINE ty == t.type
            b == t.order.bucket
            rule == Read(m_hash_table[ty], b)
            item == [bucket_nr |-> b, ip |-> t.order.dest]
            v == m_hash_table[ty]
            w == Write(v, b, item)
<1>0. /\ t.phase = "memory" /\ Migrating(t) /\ new_migration_order(t) /\ Ends(t)
      /\ applied' = applied \cup {<<ty, "MIGRATION">>}
      /\ UNCHANGED <<database, crashes, overlapped, broken>>
  BY DEF after_update_db, Migrating
<1>1. t \in Tasks /\ ty \in Types /\ t.order \in Orders /\ t.order.dest \in Nodes /\ b \in Nat
  <2>1. t \in Tasks
    BY DEF TypeOK
  <2>2. ty \in Types /\ t.order \in Orders
    BY <2>1 DEF Tasks
  <2>. QED  BY <1>0, <2>1, <2>2 DEF Migrating, Orders
<1>2. /\ task' \subseteq task \ {t} /\ IsFiniteSet(task') /\ OneAtATime'
      /\ \A x : Active(x, "MIGRATION") = {} => Active(x, "MIGRATION")' = {}
      /\ started' = started
  <2>1. task \subseteq Tasks /\ IsFiniteSet(task)
    BY DEF TypeOK
  <2>. QED  BY <1>0, <2>1, TaskEnds
<1>3. Sound' = Sound /\ ExtendedMUs' = ExtendedMUs /\ \A u : Fits(u)' = Fits(u)
  <2>1. ExtendedMUs' = ExtendedMUs
    BY <1>0 DEF ExtendedMUs
  <2>. QED  BY <1>0, <2>1 DEF Sound, Fits, Rows
<1>4. /\ applied \subseteq applied' /\ applied' \subseteq Types \X {"MIGRATION", "EXTENT"}
      /\ dead' \in BOOLEAN
  <2>1. dead' \in BOOLEAN
    BY <1>0 DEF new_migration_order, Overrun
  <2>2. applied \subseteq Types \X {"MIGRATION", "EXTENT"}
    BY DEF TypeOK
  <2>. QED  BY <1>0, <1>1, <2>1, <2>2
<1>5. \A u, c : u # ty \/ c # b => (Moving(u, c) => Moving(u, c)')
  BY <1>0 DEF Moving, Active, Ends, Migrating
<1>6. Numbered' /\ \A u : Rows(u)' = Rows(u)
  BY <1>0 DEF Numbered, Rows
<1>7. \A u \in Types : InMemory(u)' \subseteq InMemory(u) \ {t}
  BY <1>2 DEF InMemory
<1>8. IsFiniteSet(task) /\ m_current_version \in [Types -> Nat]
      /\ db_order \in [Types -> Seq(Orders)]
  BY DEF TypeOK
<1>9. ASSUME ty \in Sound
      PROVE  /\ b \in 0..m_current_bucket_number[ty] - 1 /\ rule.bucket_nr = b
             /\ rule.ip = t.order.src /\ db_rule[ty][b] = t.order.dest
  <2>1. /\ b < m_current_bucket_number[ty]
        /\ v.items[b].ip = t.order.src /\ db_rule[ty][b] = t.order.dest
    BY <1>0, <1>9 DEF InTransit
  <2>2. b \in 0..m_current_bucket_number[ty] - 1
    BY <1>1, <2>1 DEF TypeOK
  <2>3. b \in DOMAIN v.items /\ v.items[b].bucket_nr = b
    BY <1>9, <2>2, SoundFacts DEF HashKept
  <2>. QED  BY <2>1, <2>2, <2>3 DEF Read
<1>10. CASE rule.bucket_nr # b \/ rule.ip # t.order.src
  <2>. USE DEF memory, tables, counters
  <2>1. UNCHANGED memory
    BY <1>0, <1>10 DEF new_migration_order
  <2>2. ty \notin Sound
    BY <1>9, <1>10
  <2>3. TypeOK'
    BY <1>0, <1>2, <1>4, <2>1 DEF TypeOK
  <2>4. KnownAreRows' /\ ExtendsByRows'
    BY <1>2, <1>6, <2>1 DEF KnownAreRows, ExtendsByRows
  <2>5. HashKept' /\ OrdersKept'
    BY <1>3, <1>4, <2>1 DEF HashKept, OrdersKept, OrdersFit
  <2>6. VersionsAreStored'
    BY <1>0, <1>7, <1>8, <2>1, VersionsStayStored
  <2>7. Settled'
    BY <1>0, <1>3, <1>5, <2>1, <2>2 DEF Settled
  <2>8. InTransit' /\ CopiesHold'
    BY <1>0, <1>2, <1>3, <2>1 DEF InTransit, CopiesHold
  <2>. QED  BY <1>2, <1>6, <2>3, <2>4, <2>5, <2>6, <2>7, <2>8
<1>11. CASE ~(rule.bucket_nr # b \/ rule.ip # t.order.src)
  <2>1. /\ m_hash_table' = [m_hash_table EXCEPT ![ty] = w]
        /\ m_order_table' = [m_order_table EXCEPT !["MU"] =
             add_new_order_item(@, [version |-> m_current_version[ty] + 1, order |-> t.order])]
        /\ m_current_version' = [m_current_version EXCEPT ![ty] = @ + 1]
        /\ UNCHANGED <<m_current_mod, m_current_bucket_number>>
    BY <1>0, <1>11 DEF new_migration_order
  <2>2. /\ v \in Vectors(HashItems) /\ item \in HashItems
        /\ m_hash_table \in [Types -> Vectors(HashItems)]
    BY <1>1 DEF TypeOK, HashItems
  <2>3. /\ w \in Vectors(HashItems)
        /\ b < v.capacity => Written(v, w, b, item)
        /\ ~(b < v.capacity) => w.items = v.items /\ w.capacity = v.capacity
    <3>. HIDE DEF v, item, b
    <3>1. /\ Write(v, b, item) \in Vectors(HashItems)
          /\ b < v.capacity => Written(v, Write(v, b, item), b, item)
      BY <1>1, <2>2, WriteItem
    <3>2. ~(b < v.capacity) => w = [v EXCEPT !.overrun = TRUE]
      BY DEF Write
    <3>. QED  BY <2>2, <3>1, <3>2 DEF Vectors
  <2>. HIDE DEF w
  <2>4. /\ m_hash_table' \in [Types -> Vectors(HashItems)] /\ m_hash_table'[ty] = w
        /\ \A u \in Types : u # ty => m_hash_table'[u] = m_hash_table[u]
    <3>. HIDE DEF ty
    <3>. QED  BY <1>1, <2>1, <2>2, <2>3
  <2>5. /\ m_order_table' \in [{"MU", "SU"} -> Vectors(OrderItems)]
        /\ m_current_version' \in [Types -> Nat]
        /\ OrdersKept'
    <3>1. <<ty, "MIGRATION">> \in applied' /\ "MU" \in {"MU", "SU"}
      BY <1>0
    <3>. HIDE DEF ty
    <3>. QED  BY <1>1, <1>4, <2>1, <3>1, OrderTaken
  <2>6. TypeOK'
    <3>. HIDE DEF ty
    <3>. QED  BY <1>0, <1>2, <1>4, <2>1, <2>4, <2>5 DEF TypeOK
  <2>7. KnownAreRows' /\ ExtendsByRows'
    BY <1>2, <1>6, <2>1 DEF KnownAreRows, ExtendsByRows
  <2>8. VersionsAreStored'
    <3>. HIDE DEF InMemory
    <3>. QED  BY <1>0, <1>1, <1>7, <1>8, <2>1, VersionTaken
  <2>9. HashKept'
    <3>. SUFFICES ASSUME NEW u \in Types, Fits(u), u \notin ExtendedMUs
                  PROVE  /\ m_hash_table'[u].capacity = INIT_VEC_SIZE
                         /\ \A c \in 0..m_current_bucket_number[u] - 1 :
                              /\ c \in DOMAIN m_hash_table'[u].items
                              /\ m_hash_table'[u].items[c].bucket_nr = c
      BY <1>3, <2>1 DEF HashKept
    <3>1. /\ m_hash_table[u].capacity = INIT_VEC_SIZE
          /\ \A c \in 0..m_current_bucket_number[u] - 1 :
               c \in DOMAIN m_hash_table[u].items /\ m_hash_table[u].items[c].bucket_nr = c
      BY DEF HashKept
    <3>2. CASE u # ty
      BY <2>4, <3>1, <3>2
    <3>3. CASE u = ty
      <4>1. CASE ~(b < v.capacity)
        BY <2>3, <2>4, <3>1, <3>3, <4>1
      <4>2. CASE b < v.capacity
        <5>1. Written(v, w, b, item) /\ item.bucket_nr = b
          BY <2>3, <4>2
        <5>2. v.capacity = INIT_VEC_SIZE
              /\ \A c \in 0..m_current_bucket_number[u] - 1 :
                   c \in DOMAIN v.items /\ v.items[c].bucket_nr = c
          BY <3>1, <3>3
        <5>. HIDE DEF v, item, b
        <5>3. /\ w.capacity = INIT_VEC_SIZE
              /\ \A c \in 0..m_current_bucket_number[u] - 1 :
                   c \in DOMAIN w.items /\ w.items[c].bucket_nr = c
          BY <5>1, <5>2 DEF Written
        <5>. QED  BY <2>4, <3>3, <5>3
      <4>. QED  BY <4>1, <4>2
    <3>. QED  BY <3>2, <3>3
  <2>10. ty \in Sound => Written(v, w, b, item)
    <3>. SUFFICES ASSUME ty \in Sound PROVE b < v.capacity
      BY <2>3
    <3>1. v.capacity = INIT_VEC_SIZE /\ Rows(ty) <= INIT_VEC_SIZE
      BY SoundFacts DEF HashKept, Fits
    <3>2. /\ Rows(ty) \in Nat /\ m_current_bucket_number[ty] \in Nat
          /\ m_current_bucket_number[ty] <= Rows(ty) /\ INIT_VEC_SIZE \in Nat
      BY <1>1, Sizes, RulesAssumption DEF TypeOK
    <3>3. b \in 0..m_current_bucket_number[ty] - 1
      BY <1>9
    <3>. HIDE DEF Rows, ty, v, b
    <3>. QED  BY <3>1, <3>2, <3>3
  <2>11. Settled'
    <3>. SUFFICES ASSUME NEW u \in Sound, NEW c \in 0..m_current_bucket_number[u] - 1,
                         ~Moving(u, c)'
                  PROVE  m_hash_table'[u].items[c].ip = db_rule[u][c]
      BY <1>0, <1>3, <2>1 DEF Settled
    <3>1. CASE u = ty /\ c = b
      <4>1. w.items[b].ip = t.order.dest
        BY <2>10, <3>1 DEF Written
      <4>. QED  BY <1>9, <2>4, <3>1, <4>1
    <3>2. CASE u # ty \/ c # b
      <4>1. m_hash_table[u].items[c].ip = db_rule[u][c] /\ u \in Types
        BY <1>5, <3>2, SoundFacts DEF Settled
      <4>2. CASE u # ty
        BY <2>4, <4>1, <4>2
      <4>3. CASE u = ty
        <5>1. c \in DOMAIN v.items /\ c # b
          BY <3>2, <4>3, SoundFacts DEF HashKept
        <5>2. w.items[c] = v.items[c]
          BY <2>10, <4>3, <5>1 DEF Written
        <5>. QED  BY <2>4, <4>1, <4>3, <5>2
      <4>. QED  BY <4>2, <4>3
    <3>. QED  BY <3>1, <3>2
  <2>12. InTransit'
    <3>. SUFFICES ASSUME NEW u \in task', Migrating(u), u.type \in Sound
                  PROVE  /\ u.phase \in {"rule", "order", "memory"}
                         /\ u.order.bucket < m_current_bucket_number[u.type]
                         /\ m_hash_table'[u.type].items[u.order.bucket].ip = u.order.src
                         /\ db_rule[u.type][u.order.bucket] =
                              IF u.phase = "rule" THEN u.order.src ELSE u.order.dest
      BY <1>0, <1>3, <2>1 DEF InTransit, Migrating
    <3>1. /\ u \in task /\ u # t
          /\ u.phase \in {"rule", "order", "memory"}
          /\ u.order.bucket < m_current_bucket_number[u.type]
          /\ m_hash_table[u.type].items[u.order.bucket].ip = u.order.src
          /\ db_rule[u.type][u.order.bucket] =
               IF u.phase = "rule" THEN u.order.src ELSE u.order.dest
      BY <1>2 DEF InTransit
    <3>2. u.type \in Types /\ (u.type = ty => u.order.bucket # b)
      BY <1>0, <3>1, SoundFacts DEF OneAtATime
    <3>3. u.order.bucket \in 0..m_current_bucket_number[u.type] - 1
      <4>1. u.order \in Orders
        BY <3>1 DEF TypeOK, Tasks
      <4>2. u.order.bucket \in Nat
        BY <4>1 DEF Orders, Migrating
      <4>3. m_current_bucket_number[u.type] \in Nat
        BY <3>2 DEF TypeOK
      <4>. QED  BY <3>1, <4>2, <4>3
    <3>4. m_hash_table'[u.type].items[u.order.bucket] = m_hash_table[u.type].items[u.order.bucket]
      <4>1. CASE u.type # ty
        BY <2>4, <3>2, <4>1
      <4>2. CASE u.type = ty
        <5>1. u.order.bucket \in DOMAIN v.items
          BY <3>3, <4>2, SoundFacts DEF HashKept
        <5>2. w.items[u.order.bucket] = v.items[u.order.bucket]
          BY <2>10, <3>2, <4>2, <5>1 DEF Written
        <5>. QED  BY <2>4, <4>2, <5>2
      <4>. QED  BY <4>1, <4>2
    <3>. QED  BY <3>1, <3>4
  <2>13. CopiesHold'
    BY <1>0, <1>2, <1>3, <2>1 DEF CopiesHold
  <2>. QED  BY <1>2, <1>6, <2>5, <2>6, <2>7, <2>8, <2>9, <2>11, <2>12, <2>13
<1>. QED  BY <1>10, <1>11

\* An extension takes its version: the buckets it adds are the rows it copied.
LEMMA DoneModifyRuleIInv ==
  ASSUME IInv, NEW t \in task, done_modify_rule(t)
  PROVE  IInv'
<1>. USE DEF IInv, database
<1>. DEFINE ty == t.type
            number == m_current_bucket_number[ty]
            order == [cmd |-> "EXTENT", new_mod |-> m_current_mod[ty] + 1]
            v == m_hash_table[ty]
            w == modify_rule_by_extent(ty)
            new == [t EXCEPT !.phase = "nodes"]
<1>0. /\ t.phase = "memory" /\ Extending(t) /\ Becomes(t, new)
      /\ m_hash_table' = [m_hash_table EXCEPT ![ty] = w]
      /\ m_order_table' = [m_order_table EXCEPT ![ty] =
           add_new_order_item(@, [version |-> m_current_version[ty] + 1, order |-> order])]
      /\ m_current_version' = [m_current_version EXCEPT ![ty] = @ + 1]
      /\ m_current_mod' = [m_current_mod EXCEPT ![ty] = @ + 1]
      /\ m_current_bucket_number' = [m_current_bucket_number EXCEPT ![ty] = 2 * @]
      /\ dead' = Overrun
      /\ applied' = applied \cup {<<ty, "EXTENT">>}
      /\ UNCHANGED <<database, crashes, overlapped, broken>>
  BY DEF done_modify_rule, new_extent_order, Enters, Extending
<1>1. t \in Tasks /\ ty \in Types /\ number \in Nat /\ m_current_mod[ty] \in Nat
  BY DEF TypeOK, Tasks
<1>2. new \in Tasks /\ new.type = ty /\ new.order = t.order /\ new.phase = "nodes"
  BY <1>1, NewPhase
<1>. HIDE DEF new
<1>3. /\ task' \subseteq Tasks /\ IsFiniteSet(task') /\ started' = started
      /\ new \in task' /\ \A u \in task' : u = new \/ (u \in task /\ u # t)
      /\ OneAtATime'
      /\ \A x, c : Moving(x, c)' <=> Moving(x, c)
      /\ \A x : Active(x, "MIGRATION") = {} => Active(x, "MIGRATION")' = {}
  BY <1>0, <1>2, PhaseFacts
<1>4. /\ applied \subseteq applied' /\ applied' \subseteq Types \X {"MIGRATION", "EXTENT"}
      /\ dead' \in BOOLEAN
  <2>1. dead' \in BOOLEAN
    BY <1>0 DEF Overrun
  <2>2. applied \subseteq Types \X {"MIGRATION", "EXTENT"}
    BY DEF TypeOK
  <2>. QED  BY <1>0, <1>1, <2>1, <2>2
<1>5. Numbered' /\ \A u : Rows(u)' = Rows(u)
  BY <1>0 DEF Numbered, Rows
<1>6. /\ \A u \in Types : Fits(u)' = Fits(u)
      /\ ExtendedMUs \subseteq ExtendedMUs' /\ Sound' \subseteq Sound
      /\ (ty \notin ExtendedMUs' => ty # "MU")
  <2>1. ExtendedMUs \subseteq ExtendedMUs'
    BY <1>4 DEF ExtendedMUs
  <2>2. ty \notin ExtendedMUs' => ty # "MU"
    BY <1>0, <1>1 DEF ExtendedMUs
  <2>3. \A u \in Types : Fits(u)' = Fits(u)
    BY <1>5 DEF Fits
  <2>. QED  BY <1>0, <2>1, <2>2, <2>3 DEF Sound
<1>7. number + number <= Rows(ty)
  BY <1>0, <1>1 DEF ExtendsByRows
<1>8. /\ m_current_mod' \in [Types -> Nat] /\ m_current_bucket_number' \in [Types -> Nat]
      /\ m_current_mod'[ty] = m_current_mod[ty] + 1
      /\ m_current_bucket_number'[ty] = 2 * number
      /\ \A u \in Types : u # ty => /\ m_current_mod'[u] = m_current_mod[u]
                                    /\ m_current_bucket_number'[u] = m_current_bucket_number[u]
  <2>1. m_current_mod \in [Types -> Nat] /\ m_current_bucket_number \in [Types -> Nat]
    BY DEF TypeOK
  <2>2. m_current_mod[ty] + 1 \in Nat /\ 2 * number \in Nat
    BY <1>1
  <2>. HIDE DEF ty
  <2>. QED  BY <1>0, <1>1, <2>1, <2>2
<1>9. /\ m_hash_table \in [Types -> Vectors(HashItems)] /\ v \in Vectors(HashItems)
  BY <1>1 DEF TypeOK
<1>10. /\ w \in Vectors(HashItems)
       /\ /\ ty # "MU" /\ 2 * number <= v.capacity
          /\ \A b \in 0..number - 1 : b \in DOMAIN v.items
          => /\ w.capacity = v.capacity
             /\ \A b \in 0..number - 1 :
                  /\ b \in DOMAIN w.items /\ w.items[b] = v.items[b]
                  /\ b + number \in DOMAIN w.items
                  /\ w.items[b + number] = [bucket_nr |-> b + number, ip |-> v.items[b].ip]
  <2>. HIDE DEF ty
  <2>. QED  BY <1>1, <1>9, ModifyRule
<1>. HIDE DEF w
<1>11. /\ m_hash_table' \in [Types -> Vectors(HashItems)] /\ m_hash_table'[ty] = w
       /\ \A u \in Types : u # ty => m_hash_table'[u] = m_hash_table[u]
  <2>. HIDE DEF ty
  <2>. QED  BY <1>0, <1>1, <1>9, <1>10
<1>12. /\ m_order_table' \in [{"MU", "SU"} -> Vectors(OrderItems)]
       /\ m_current_version' \in [Types -> Nat]
       /\ OrdersKept'
  <2>1. order \in Orders
    <3>1. m_current_mod[ty] + 1 \in Nat \ {0}
      BY <1>1
    <3>. QED  BY <3>1 DEF Orders
  <2>2. ty \in {"MU", "SU"}
    BY <1>1, RulesAssumption
  <2>. HIDE DEF ty, order
  <2>. QED  BY <1>0, <1>1, <1>4, <2>1, <2>2, OrderTaken
<1>13. TypeOK'
  <2>. HIDE DEF ty
  <2>. QED  BY <1>0, <1>3, <1>4, <1>8, <1>11, <1>12 DEF TypeOK
<1>14. KnownAreRows'
  <2>. SUFFICES ASSUME NEW u \in Types
                PROVE  /\ m_current_bucket_number'[u] = 2 ^ m_current_mod'[u]
                       /\ m_current_bucket_number'[u] <= Rows(u)
    BY <1>5 DEF KnownAreRows
  <2>1. m_current_bucket_number[u] = 2 ^ m_current_mod[u] /\ m_current_bucket_number[u] <= Rows(u)
    BY DEF KnownAreRows
  <2>2. CASE u = ty
    <3>1. 2 ^ (m_current_mod[ty] + 1) = 2 * 2 ^ m_current_mod[ty]
      BY <1>1, PowersOfTwo
    <3>2. 2 * number = number + number
      BY <1>1
    <3>. QED  BY <1>7, <1>8, <2>1, <2>2, <3>1, <3>2
  <2>3. CASE u # ty
    BY <1>8, <2>1, <2>3
  <2>. QED  BY <2>2, <2>3
<1>15. \A u \in task' : Extending(u) /\ u.phase \in {"rule", "order", "memory"}
                          => u \in task /\ u.type # ty /\ u.type \in Types
  <2>. SUFFICES ASSUME NEW u \in task', Extending(u), u.phase \in {"rule", "order", "memory"}
                PROVE  u \in task /\ u.type # ty /\ u.type \in Types
    OBVIOUS
  <2>1. u \in task /\ u # t
    BY <1>2, <1>3
  <2>2. u.type # ty
    BY <1>0, <2>1 DEF OneAtATime
  <2>. QED  BY <2>1, <2>2 DEF TypeOK, Tasks
<1>16. ExtendsByRows'
  BY <1>5, <1>8, <1>15 DEF ExtendsByRows, Extending
<1>17. HashKept'
  <2>. SUFFICES ASSUME NEW u \in Types, Fits(u), u \notin ExtendedMUs'
                PROVE  /\ m_hash_table'[u].capacity = INIT_VEC_SIZE
                       /\ \A c \in 0..m_current_bucket_number'[u] - 1 :
                            /\ c \in DOMAIN m_hash_table'[u].items
                            /\ m_hash_table'[u].items[c].bucket_nr = c
    BY <1>6 DEF HashKept
  <2>1. /\ m_hash_table[u].capacity = INIT_VEC_SIZE
        /\ \A c \in 0..m_current_bucket_number[u] - 1 :
             c \in DOMAIN m_hash_table[u].items /\ m_hash_table[u].items[c].bucket_nr = c
    BY <1>6 DEF HashKept
  <2>2. CASE u # ty
    BY <1>8, <1>11, <2>1, <2>2
  <2>3. CASE u = ty
    <3>1. 2 * number <= v.capacity
      <4>1. Rows(ty) <= INIT_VEC_SIZE /\ v.capacity = INIT_VEC_SIZE
        BY <2>1, <2>3 DEF Fits
      <4>2. Rows(ty) \in Nat /\ INIT_VEC_SIZE \in Nat
        BY <1>1, RulesAssumption DEF Numbered
      <4>. HIDE DEF Rows, ty, v, number
      <4>. QED  BY <1>1, <1>7, <4>1, <4>2
    <3>2. ty # "MU" /\ \A b \in 0..number - 1 : b \in DOMAIN v.items /\ v.items[b].bucket_nr = b
      BY <1>6, <2>1, <2>3
    <3>3. /\ w.capacity = v.capacity
          /\ \A b \in 0..number - 1 :
               /\ b \in DOMAIN w.items /\ w.items[b] = v.items[b]
               /\ b + number \in DOMAIN w.items
               /\ w.items[b + number] = [bucket_nr |-> b + number, ip |-> v.items[b].ip]
      BY <1>10, <3>1, <3>2
    <3>4. ASSUME NEW c \in 0..2 * number - 1 PROVE c \in DOMAIN w.items /\ w.items[c].bucket_nr = c
      <4>1. CASE c < number
        <5>1. c \in 0..number - 1
          BY <1>1, <4>1
        <5>. QED  BY <3>2, <3>3, <5>1
      <4>2. CASE ~(c < number)
        <5>1. c - number \in 0..number - 1 /\ c = c - number + number
          BY <1>1, <4>2
        <5>2. PICK d \in 0..number - 1 : c = d + number
          BY <5>1
        <5>3. c \in DOMAIN w.items /\ w.items[c] = [bucket_nr |-> c, ip |-> v.items[d].ip]
          BY <3>3, <5>2
        <5>. QED  BY <5>3
      <4>. QED  BY <4>1, <4>2
    <3>. QED  BY <1>8, <1>11, <2>1, <2>3, <3>3, <3>4
  <2>. QED  BY <2>2, <2>3
<1>18. VersionsAreStored'
  <2>1. \A u \in Types : InMemory(u)' \subseteq InMemory(u) \ {t}
    BY <1>2, <1>3 DEF InMemory
  <2>2. IsFiniteSet(task) /\ m_current_version \in [Types -> Nat]
        /\ db_order \in [Types -> Seq(Orders)]
    BY DEF TypeOK
  <2>. HIDE DEF InMemory
  <2>. QED  BY <1>0, <1>1, <2>1, <2>2, VersionTaken
<1>19. ASSUME ty \in Sound
       PROVE  /\ Active(ty, "MIGRATION") = {}
              /\ \A i \in 0..number - 1 : /\ db_rule[ty][i + number] = db_rule[ty][i]
                                          /\ v.items[i].ip = db_rule[ty][i]
  <2>1. t.copied = number
    BY <1>0 DEF ExtendsByRows
  <2>2. /\ Active(ty, "MIGRATION") = {}
        /\ \A i \in 0..number - 1 : db_rule[ty][i + number] = db_rule[ty][i]
    BY <1>0, <1>19, <2>1 DEF CopiesHold
  <2>3. \A i : ~Moving(ty, i)
    BY <2>2 DEF Moving
  <2>. QED  BY <1>19, <2>2, <2>3 DEF Settled
<1>20. Settled'
  <2>. SUFFICES ASSUME NEW u \in Sound', NEW c \in 0..m_current_bucket_number'[u] - 1,
                       ~Moving(u, c)
                PROVE  m_hash_table'[u].items[c].ip = db_rule[u][c]
    BY <1>0, <1>3 DEF Settled
  <2>1. u \in Sound /\ u \in Types
    BY <1>6, SoundFacts
  <2>2. CASE u # ty
    BY <1>8, <1>11, <2>1, <2>2 DEF Settled
  <2>3. CASE u = ty
    <3>1. ty # "MU" /\ Fits(ty) /\ ty \notin ExtendedMUs
      <4>1. ty \notin ExtendedMUs'
        BY <2>3 DEF Sound
      <4>. QED  BY <1>6, <2>1, <2>3, <4>1, SoundFacts
    <3>2. v.capacity = INIT_VEC_SIZE /\ \A b \in 0..number - 1 : b \in DOMAIN v.items
      BY <1>1, <3>1 DEF HashKept
    <3>3. 2 * number <= v.capacity
      <4>1. Rows(ty) <= INIT_VEC_SIZE
        BY <3>1 DEF Fits
      <4>2. Rows(ty) \in Nat /\ INIT_VEC_SIZE \in Nat
        BY <1>1, RulesAssumption DEF Numbered
      <4>. HIDE DEF Rows, ty, v, number
      <4>. QED  BY <1>1, <1>7, <3>2, <4>1, <4>2
    <3>4. \A b \in 0..number - 1 :
            /\ b \in DOMAIN w.items /\ w.items[b] = v.items[b]
            /\ b + number \in DOMAIN w.items
            /\ w.items[b + number] = [bucket_nr |-> b + number, ip |-> v.items[b].ip]
      BY <1>10, <3>1, <3>2, <3>3
    <3>5. \A i \in 0..number - 1 : /\ db_rule[ty][i + number] = db_rule[ty][i]
                                   /\ v.items[i].ip = db_rule[ty][i]
      BY <1>19, <2>1, <2>3
    <3>6. c \in 0..2 * number - 1
      BY <1>8, <2>3
    <3>7. CASE c < number
      <4>1. c \in 0..number - 1
        BY <1>1, <3>6, <3>7
      <4>. QED  BY <1>11, <2>3, <3>4, <3>5, <4>1
    <3>8. CASE ~(c < number)
      <4>1. c - number \in 0..number - 1 /\ c = c - number + number
        BY <1>1, <3>6, <3>8
      <4>2. PICK d \in 0..number - 1 : c = d + number
        BY <4>1
      <4>3. w.items[c] = [bucket_nr |-> c, ip |-> v.items[d].ip]
        BY <3>4, <4>2
      <4>4. db_rule[ty][c] = db_rule[ty][d] /\ v.items[d].ip = db_rule[ty][d]
        BY <3>5, <4>2
      <4>. QED  BY <1>11, <2>3, <4>3, <4>4
    <3>. QED  BY <3>7, <3>8
  <2>. QED  BY <2>2, <2>3
<1>21. InTransit'
  <2>. SUFFICES ASSUME NEW u \in task', Migrating(u), u.type \in Sound'
                PROVE  /\ u.phase \in {"rule", "order", "memory"}
                       /\ u.order.bucket < m_current_bucket_number'[u.type]
                       /\ m_hash_table'[u.type].items[u.order.bucket].ip = u.order.src
                       /\ db_rule[u.type][u.order.bucket] =
                            IF u.phase = "rule" THEN u.order.src ELSE u.order.dest
    BY <1>0 DEF InTransit, Migrating
  <2>1. u \in task /\ u.type \in Sound
    BY <1>0, <1>2, <1>3, <1>6 DEF Extending, Migrating
  <2>2. u.type # ty /\ u.type \in Types
    BY <1>19, <2>1, SoundFacts DEF Active, Migrating
  <2>. QED  BY <1>8, <1>11, <2>1, <2>2 DEF InTransit
<1>22. CopiesHold'
  <2>. SUFFICES ASSUME NEW u \in task', Extending(u), u.type \in Sound',
                       u.phase \in {"rule", "order", "memory"}
                PROVE  /\ Active(u.type, "MIGRATION")' = {}
                       /\ \A i \in 0..u.copied - 1 :
                            db_rule[u.type][i + m_current_bucket_number'[u.type]] = db_rule[u.type][i]
    BY <1>0 DEF CopiesHold, Extending
  <2>1. u \in task /\ u.type # ty /\ u.type \in Types /\ u.type \in Sound
    BY <1>6, <1>15
  <2>2. /\ Active(u.type, "MIGRATION") = {}
        /\ \A i \in 0..u.copied - 1 :
             db_rule[u.type][i + m_current_bucket_number[u.type]] = db_rule[u.type][i]
    BY <2>1 DEF CopiesHold
  <2>. QED  BY <1>3, <1>8, <2>1, <2>2
<1>. QED  BY <1>3, <1>5, <1>12, <1>13, <1>14, <1>16, <1>17, <1>18, <1>20, <1>21, <1>22

\* The modulus a restart makes of the number of rows.
LEMMA Logarithm ==
  ASSUME NEW n \in Nat \ {0}
  PROVE  cs_log(n) \in Nat /\ 2 ^ cs_log(n) \in Nat /\ 2 ^ cs_log(n) <= n
<1>1. CASE \E k \in 0..n : 2 ^ k = n
  <2>1. cs_log(n) = CHOOSE k \in 0..n : 2 ^ k = n
    BY <1>1 DEF cs_log
  <2>2. cs_log(n) \in 0..n /\ 2 ^ cs_log(n) = n
    BY <1>1, <2>1
  <2>. QED  BY <2>2
<1>2. CASE ~ \E k \in 0..n : 2 ^ k = n
  <2>1. cs_log(n) = 0
    BY <1>2 DEF cs_log
  <2>. QED  BY <2>1, PowersOfTwo
<1>. QED  BY <1>1, <1>2

\* What a restart loads: the rows there are, and every order.
LEMMA RestartLoads ==
  ASSUME IInv, Restart, NEW ty \in Types
  PROVE  /\ m_current_mod'[ty] = cs_log(Rows(ty)) /\ m_current_mod'[ty] \in Nat
         /\ m_current_bucket_number'[ty] = 2 ^ cs_log(Rows(ty))
         /\ m_current_bucket_number'[ty] \in Nat /\ m_current_bucket_number'[ty] <= Rows(ty)
         /\ m_current_version'[ty] = Len(db_order[ty])
         /\ m_hash_table'[ty] \in Vectors(HashItems)
         /\ Fits(ty) => /\ m_hash_table'[ty].capacity = INIT_VEC_SIZE
                        /\ \A b \in 0..Rows(ty) - 1 :
                             /\ b \in DOMAIN m_hash_table'[ty].items
                             /\ m_hash_table'[ty].items[b] = [bucket_nr |-> b, ip |-> db_rule[ty][b]]
<1>1. /\ m_hash_table' = [u \in Types |-> generate_all_rule(u)]
      /\ m_current_version' = [u \in Types |-> Len(db_order[u])]
      /\ m_current_mod' = [u \in Types |-> cs_log(Rows(u))]
      /\ m_current_bucket_number' = [u \in Types |-> 2 ^ cs_log(Rows(u))]
  BY DEF Restart, init_rule, Rows
<1>2. Rows(ty) \in Nat \ {0} /\ Numbered
  BY DEF IInv, Numbered
<1>3. cs_log(Rows(ty)) \in Nat /\ 2 ^ cs_log(Rows(ty)) \in Nat /\ 2 ^ cs_log(Rows(ty)) <= Rows(ty)
  <2>. HIDE DEF Rows
  <2>. QED  BY <1>2, Logarithm
<1>4. INIT_VEC_SIZE \in Nat
  BY RulesAssumption
<1>5. /\ generate_all_rule(ty) \in Vectors(HashItems)
      /\ Fits(ty) => /\ generate_all_rule(ty).capacity = INIT_VEC_SIZE
                     /\ \A b \in 0..Rows(ty) - 1 :
                          /\ b \in DOMAIN generate_all_rule(ty).items
                          /\ generate_all_rule(ty).items[b] = [bucket_nr |-> b, ip |-> db_rule[ty][b]]
  <2>. HIDE DEF Rows
  <2>. QED  BY <1>2, <1>4, GenerateRules
<1>6. m_hash_table'[ty] = generate_all_rule(ty)
  BY <1>1
<1>. QED  BY <1>1, <1>3, <1>5, <1>6

\* After a restart there are the rules of the database and no task.
LEMMA RestartIInv ==
  ASSUME IInv, Restart
  PROVE  IInv'
<1>. USE DEF IInv, database
<1>0. /\ task' = {} /\ overlapped' = {} /\ broken' = {} /\ applied' = {}
      /\ crashes' = crashes + 1 /\ dead' = Overrun
      /\ UNCHANGED <<database, started>>
      /\ m_hash_table' = [ty \in Types |-> generate_all_rule(ty)]
      /\ m_order_table' = [ty \in {"MU", "SU"} |->
                             IF ty \in Types THEN generate_all_order(ty) ELSE FirstOrders]
      /\ m_current_version' = [ty \in Types |-> Len(db_order[ty])]
      /\ m_current_mod' = [ty \in Types |-> m_current_mod'[ty]]
      /\ m_current_bucket_number' = [ty \in Types |-> m_current_bucket_number'[ty]]
  BY DEF Restart, init_rule
<1>1. \A ty \in Types :
        /\ m_current_mod'[ty] = cs_log(Rows(ty)) /\ m_current_mod'[ty] \in Nat
        /\ m_current_bucket_number'[ty] = 2 ^ cs_log(Rows(ty))
        /\ m_current_bucket_number'[ty] \in Nat /\ m_current_bucket_number'[ty] <= Rows(ty)
        /\ m_hash_table'[ty] \in Vectors(HashItems)
        /\ Fits(ty) => /\ m_hash_table'[ty].capacity = INIT_VEC_SIZE
                       /\ \A b \in 0..Rows(ty) - 1 :
                            /\ b \in DOMAIN m_hash_table'[ty].items
                            /\ m_hash_table'[ty].items[b] = [bucket_nr |-> b, ip |-> db_rule[ty][b]]
  BY RestartLoads
<1>2. \A ty \in Types : db_order[ty] \in Seq(Orders) /\ Len(db_order[ty]) \in Nat
  BY DEF TypeOK
<1>3. \A ty \in Types :
        /\ generate_all_order(ty) \in Vectors(OrderItems)
        /\ Len(db_order[ty]) < INIT_VEC_SIZE =>
             /\ generate_all_order(ty).capacity = INIT_VEC_SIZE
             /\ \A v \in 1..Len(db_order[ty]) :
                  /\ v \in DOMAIN generate_all_order(ty).items
                  /\ generate_all_order(ty).items[v].version = v
  BY <1>2, GenerateOrders
<1>4. /\ Numbered' /\ \A u : Rows(u)' = Rows(u) /\ Fits(u)' = Fits(u)
  BY <1>0 DEF Numbered, Rows, Fits
<1>5. \A ty \in Types : Rows(ty) \in Nat
  BY DEF Numbered
<1>. HIDE DEF Rows
<1>6. TypeOK'
  <2>1. m_hash_table' \in [Types -> Vectors(HashItems)]
    BY <1>0, <1>1
  <2>2. m_order_table' \in [{"MU", "SU"} -> Vectors(OrderItems)]
    <3>1. \A ty \in {"MU", "SU"} : m_order_table'[ty] \in Vectors(OrderItems)
      BY <1>0, <1>3, FirstOrdersVector
    <3>. QED  BY <1>0, <3>1
  <2>3. m_current_version' \in [Types -> Nat] /\ m_current_mod' \in [Types -> Nat]
        /\ m_current_bucket_number' \in [Types -> Nat]
    BY <1>0, <1>1, <1>2
  <2>4. /\ task' \subseteq Tasks /\ IsFiniteSet(task')
        /\ overlapped' \subseteq Types /\ broken' \subseteq Types
        /\ applied' \subseteq Types \X {"MIGRATION", "EXTENT"}
    BY <1>0, FS_EmptySet
  <2>5. started' \in Nat /\ crashes' \in Nat /\ dead' \in BOOLEAN
    <3>1. started \in Nat /\ crashes \in Nat
      BY DEF TypeOK
    <3>2. dead' \in BOOLEAN
      BY <1>0 DEF Overrun
    <3>. QED  BY <1>0, <3>1, <3>2
  <2>6. db_order' \in [Types -> Seq(Orders)]
    BY <1>0 DEF TypeOK
  <2>. QED  BY <2>1, <2>2, <2>3, <2>4, <2>5, <2>6 DEF TypeOK
<1>7. KnownAreRows'
  BY <1>1, <1>4 DEF KnownAreRows
<1>8. OneAtATime' /\ ExtendsByRows' /\ InTransit' /\ CopiesHold'
  BY <1>0 DEF OneAtATime, ExtendsByRows, InTransit, CopiesHold
<1>9. \A ty \in Types : \A b \in 0..m_current_bucket_number'[ty] - 1 : b \in 0..Rows(ty) - 1
  BY <1>1, <1>5
<1>10. HashKept'
  <2>. SUFFICES ASSUME NEW ty \in Types, Fits(ty)
                PROVE  /\ m_hash_table'[ty].capacity = INIT_VEC_SIZE
                       /\ \A b \in 0..m_current_bucket_number'[ty] - 1 :
                            /\ b \in DOMAIN m_hash_table'[ty].items
                            /\ m_hash_table'[ty].items[b].bucket_nr = b
    BY <1>4 DEF HashKept
  <2>1. /\ m_hash_table'[ty].capacity = INIT_VEC_SIZE
        /\ \A b \in 0..Rows(ty) - 1 :
             /\ b \in DOMAIN m_hash_table'[ty].items
             /\ m_hash_table'[ty].items[b] = [bucket_nr |-> b, ip |-> db_rule[ty][b]]
    BY <1>1
  <2>2. ASSUME NEW b \in 0..m_current_bucket_number'[ty] - 1
        PROVE  b \in DOMAIN m_hash_table'[ty].items /\ m_hash_table'[ty].items[b].bucket_nr = b
    <3>1. b \in 0..Rows(ty) - 1
      BY <1>9
    <3>2. /\ b \in DOMAIN m_hash_table'[ty].items
          /\ m_hash_table'[ty].items[b] = [bucket_nr |-> b, ip |-> db_rule[ty][b]]
      BY <2>1, <3>1
    <3>. QED  BY <3>2
  <2>. QED  BY <2>1, <2>2
<1>11. OrdersKept'
  <2>. SUFFICES ASSUME NEW ty \in Types, OrdersFit(ty)'
                PROVE  /\ m_order_table'[ty].capacity = INIT_VEC_SIZE
                       /\ \A v \in 1..m_current_version'[ty] :
                            /\ v \in DOMAIN m_order_table'[ty].items
                            /\ m_order_table'[ty].items[v].version = v
    BY DEF OrdersKept
  <2>1. m_current_version'[ty] = Len(db_order[ty]) /\ m_current_version'[ty] < INIT_VEC_SIZE
    BY <1>0 DEF OrdersFit
  <2>2. m_order_table'[ty] = generate_all_order(ty)
    BY <1>0, RulesAssumption
  <2>. QED  BY <1>3, <2>1, <2>2
<1>12. VersionsAreStored'
  <2>. SUFFICES ASSUME NEW ty \in Types
                PROVE  m_current_version'[ty] + Cardinality(InMemory(ty)') <= Len(db_order[ty])
    BY <1>0 DEF VersionsAreStored
  <2>1. InMemory(ty)' = {}
    BY <1>0 DEF InMemory
  <2>2. Cardinality({}) = 0
    BY FS_EmptySet
  <2>3. m_current_version'[ty] = Len(db_order[ty])
    BY <1>0
  <2>. QED  BY <1>2, <2>1, <2>2, <2>3
<1>13. Settled'
  <2>. SUFFICES ASSUME NEW ty \in Sound', NEW b \in 0..m_current_bucket_number'[ty] - 1
                PROVE  m_hash_table'[ty].items[b].ip = db_rule[ty][b]
    BY <1>0 DEF Settled
  <2>1. ty \in Types /\ Fits(ty)
    BY <1>4 DEF Sound
  <2>2. b \in 0..Rows(ty) - 1
    BY <1>9, <2>1
  <2>3. m_hash_table'[ty].items[b] = [bucket_nr |-> b, ip |-> db_rule[ty][b]]
    BY <1>1, <2>1, <2>2
  <2>. QED  BY <2>3
<1>. QED  BY <1>4, <1>6, <1>7, <1>8, <1>10, <1>11, <1>12, <1>13

\* One bucket of each type, in the database and in memory.
LEMMA InitIInv == Init => IInv
<1>. SUFFICES ASSUME Init PROVE IInv
  OBVIOUS
<1>. USE DEF IInv
<1>0. /\ db_rule = [ty \in Types |-> [b \in {0} |-> FirstNode]]
      /\ db_order = [ty \in Types |-> <<>>]
      /\ m_hash_table = [ty \in Types |-> generate_all_rule(ty)]
      /\ m_order_table = [ty \in {"MU", "SU"} |-> FirstOrders]
      /\ m_current_version = [ty \in Types |-> 0]
      /\ m_current_mod = [ty \in Types |-> 0]
      /\ m_current_bucket_number = [ty \in Types |-> 1]
      /\ task = {} /\ started = 0 /\ dead = FALSE /\ crashes = 0
      /\ overlapped = {} /\ broken = {} /\ applied = {}
  BY DEF Init
<1>1. \A ty \in Types : /\ Rows(ty) = 1 /\ DOMAIN db_rule[ty] = 0..0
                        /\ db_rule[ty] \in [0..0 -> Nodes] /\ db_rule[ty][0] = FirstNode
  <2>. SUFFICES ASSUME NEW ty \in Types
                PROVE  /\ Rows(ty) = 1 /\ DOMAIN db_rule[ty] = 0..0
                       /\ db_rule[ty] \in [0..0 -> Nodes] /\ db_rule[ty][0] = FirstNode
    OBVIOUS
  <2>1. db_rule[ty] = [b \in {0} |-> FirstNode] /\ 0..0 = {0}
    BY <1>0
  <2>2. Cardinality(0..0) = 0 + 1
    BY IntervalCounted
  <2>3. FirstNode \in Nodes
    BY RulesAssumption
  <2>4. DOMAIN db_rule[ty] = 0..0 /\ db_rule[ty] \in [0..0 -> Nodes] /\ db_rule[ty][0] = FirstNode
    BY <2>1, <2>3
  <2>. QED  BY <2>2, <2>4 DEF Rows
<1>2. Numbered
  <2>1. db_rule = [ty \in Types |-> db_rule[ty]]
    BY <1>0
  <2>2. ASSUME NEW ty \in Types
        PROVE  Rows(ty) \in Nat \ {0} /\ db_rule[ty] \in [0..Rows(ty) - 1 -> Nodes]
    <3>1. Rows(ty) = 1 /\ db_rule[ty] \in [0..0 -> Nodes]
      BY <1>1
    <3>. HIDE DEF Rows
    <3>2. Rows(ty) \in Nat \ {0} /\ 0..Rows(ty) - 1 = 0..0
      BY <3>1
    <3>. QED  BY <3>1, <3>2
  <2>. QED  BY <2>1, <2>2 DEF Numbered
<1>3. \A ty \in Types :
        /\ m_hash_table[ty] = generate_all_rule(ty) /\ m_hash_table[ty] \in Vectors(HashItems)
        /\ Fits(ty) =>
              /\ m_hash_table[ty].capacity = INIT_VEC_SIZE
              /\ 0 \in DOMAIN m_hash_table[ty].items
              /\ m_hash_table[ty].items[0] = [bucket_nr |-> 0, ip |-> db_rule[ty][0]]
  <2>. SUFFICES ASSUME NEW ty \in Types
                PROVE  /\ m_hash_table[ty] = generate_all_rule(ty)
                       /\ m_hash_table[ty] \in Vectors(HashItems)
                       /\ Fits(ty) =>
                            /\ m_hash_table[ty].capacity = INIT_VEC_SIZE
                            /\ 0 \in DOMAIN m_hash_table[ty].items
                            /\ m_hash_table[ty].items[0] = [bucket_nr |-> 0, ip |-> db_rule[ty][0]]
    OBVIOUS
  <2>1. INIT_VEC_SIZE \in Nat
    BY RulesAssumption
  <2>2. m_hash_table[ty] = generate_all_rule(ty)
    BY <1>0
  <2>3. 0 \in 0..Rows(ty) - 1
    BY <1>1
  <2>. HIDE DEF Rows
  <2>4. /\ generate_all_rule(ty) \in Vectors(HashItems)
        /\ Fits(ty) => /\ generate_all_rule(ty).capacity = INIT_VEC_SIZE
                       /\ \A b \in 0..Rows(ty) - 1 :
                            /\ b \in DOMAIN generate_all_rule(ty).items
                            /\ generate_all_rule(ty).items[b] = [bucket_nr |-> b, ip |-> db_rule[ty][b]]
    BY <1>2, <2>1, GenerateRules
  <2>. QED  BY <2>2, <2>3, <2>4
<1>. HIDE DEF Rows
<1>4. TypeOK
  <2>1. m_hash_table \in [Types -> Vectors(HashItems)]
    BY <1>0, <1>3
  <2>2. m_order_table \in [{"MU", "SU"} -> Vectors(OrderItems)]
    BY <1>0, FirstOrdersVector
  <2>3. db_order \in [Types -> Seq(Orders)]
    BY <1>0
  <2>4. IsFiniteSet({})
    BY FS_EmptySet
  <2>5. /\ m_current_version \in [Types -> Nat] /\ m_current_mod \in [Types -> Nat]
        /\ m_current_bucket_number \in [Types -> Nat]
    BY <1>0
  <2>. QED  BY <1>0, <2>1, <2>2, <2>3, <2>4, <2>5 DEF TypeOK
<1>5. KnownAreRows
  BY <1>0, <1>1, PowersOfTwo DEF KnownAreRows
<1>6. OneAtATime /\ ExtendsByRows /\ InTransit /\ CopiesHold
  BY <1>0 DEF OneAtATime, ExtendsByRows, InTransit, CopiesHold
<1>7. \A ty \in Types : \A b \in 0..m_current_bucket_number[ty] - 1 : b = 0
  BY <1>0
<1>8. HashKept
  <2>. SUFFICES ASSUME NEW ty \in Types, Fits(ty)
                PROVE  /\ m_hash_table[ty].capacity = INIT_VEC_SIZE
                       /\ \A b \in 0..m_current_bucket_number[ty] - 1 :
                            /\ b \in DOMAIN m_hash_table[ty].items
                            /\ m_hash_table[ty].items[b].bucket_nr = b
    BY DEF HashKept
  <2>1. /\ m_hash_table[ty].capacity = INIT_VEC_SIZE
        /\ 0 \in DOMAIN m_hash_table[ty].items
        /\ m_hash_table[ty].items[0] = [bucket_nr |-> 0, ip |-> db_rule[ty][0]]
    BY <1>3
  <2>2. m_hash_table[ty].items[0].bucket_nr = 0
    BY <2>1
  <2>. QED  BY <1>7, <2>1, <2>2
<1>9. OrdersKept
  <2>1. \A ty \in Types : m_order_table[ty].capacity = INIT_VEC_SIZE
    BY <1>0, FirstOrdersVector, RulesAssumption
  <2>2. \A ty \in Types : \A v \in 1..m_current_version[ty] : FALSE
    BY <1>0
  <2>. QED  BY <2>1, <2>2 DEF OrdersKept
<1>10. VersionsAreStored
  <2>. SUFFICES ASSUME NEW ty \in Types
                PROVE  m_current_version[ty] + Cardinality(InMemory(ty)) <= Len(db_order[ty])
    BY DEF VersionsAreStored
  <2>1. InMemory(ty) = {} /\ m_current_version[ty] = 0 /\ Len(db_order[ty]) = 0
    BY <1>0 DEF InMemory
  <2>2. Cardinality({}) = 0
    BY FS_EmptySet
  <2>. QED  BY <2>1, <2>2
<1>11. Settled
  <2>. SUFFICES ASSUME NEW ty \in Sound, NEW b \in 0..m_current_bucket_number[ty] - 1
                PROVE  m_hash_table[ty].items[b].ip = db_rule[ty][b]
    BY DEF Settled
  <2>1. ty \in Types /\ Fits(ty) /\ b = 0
    BY <1>7, SoundFacts
  <2>2. m_hash_table[ty].items[0] = [bucket_nr |-> 0, ip |-> db_rule[ty][0]]
    BY <1>3, <2>1
  <2>. QED  BY <2>1, <2>2
<1>. QED  BY <1>2, <1>4, <1>5, <1>6, <1>8, <1>9, <1>10, <1>11

-----------------------------------------------------------------------------
(* The theorems.                                                           *)

\* Every step preserves the inductive invariant.
LEMMA NextIInv ==
  ASSUME IInv, [Next]_vars
  PROVE  IInv'
<1>1. CASE Restart
  BY <1>1, RestartIInv
<1>2. ASSUME NEW ty \in Types, StartExtension(ty) PROVE IInv'
  BY <1>2, StartExtensionIInv
<1>3. ASSUME NEW ty \in Types, NEW b \in 0..m_current_bucket_number[ty] - 1, get_hash_rule(ty, b)
      PROVE  IInv'
  BY <1>3, StutterIInv DEF get_hash_rule, HashMismatch
<1>4. ASSUME NEW ty \in Types, NEW b \in 0..m_current_bucket_number[ty] - 1, NEW dest \in Nodes,
             StartMigration(ty, b, dest)
      PROVE  IInv'
  <2>1. b \in Nat
    BY DEF IInv, TypeOK
  <2>. QED  BY <1>4, <2>1, StartMigrationIInv
<1>5. ASSUME NEW ty \in Types, NEW v, get_order_rule(ty, v) PROVE IInv'
  BY <1>5, StutterIInv DEF get_order_rule, OrderMismatch
<1>6. ASSUME NEW t \in task, Worker(t) PROVE IInv'
  BY <1>6, StatementFailsIInv, UpdateRuleIInv, CopyRowIInv, InsertOrderIInv DEF Worker
<1>7. ASSUME NEW t \in task, Callback(t) PROVE IInv'
  BY <1>7, AfterUpdateDbIInv, DoneModifyRuleIInv, OverIInv DEF Callback
<1>8. CASE UNCHANGED vars
  <2>1. dead' \in BOOLEAN
    BY <1>8 DEF vars, IInv, TypeOK
  <2>. QED  BY <1>8, <2>1, StutterIInv DEF vars
<1>. QED  BY <1>1, <1>2, <1>3, <1>4, <1>5, <1>6, <1>7, <1>8 DEF Next

\* The inductive invariant holds in every state.
THEOREM RulesInvariant == Spec => []IInv
BY InitIInv, NextIInv, PTL DEF Spec

\* The variables keep their types.
THEOREM RulesTypes == Spec => []TypeOK
<1>1. IInv => TypeOK
  BY DEF IInv
<1>. QED  BY <1>1, RulesInvariant, PTL

\* Whatever was cut short, the server can be started again.
THEOREM RulesRestartable == Spec => []Restartable
<1>1. IInv => Restartable
  <2>. SUFFICES ASSUME IInv, NEW ty \in Types PROVE LoadableRows(ty)
    BY DEF Restartable
  <2>1. DOMAIN db_rule[ty] = 0..Rows(ty) - 1
    BY DEF IInv, Numbered
  <2>. QED  BY <2>1 DEF LoadableRows, Rows
<1>. QED  BY <1>1, RulesInvariant, PTL

\* No query ends the server while the rules and the orders fit, but of the MU rules
\* after an extension and of the SU orders after a migration.
THEOREM RulesAnswerQueries == Spec => []RulesReadable
<1>1. IInv => RulesReadable
  <2>. SUFFICES ASSUME IInv, NEW ty \in Types
                PROVE  /\ m_current_bucket_number[ty] = 2 ^ m_current_mod[ty]
                       /\ Fits(ty) /\ ~(ty = "MU" /\ <<ty, "EXTENT">> \in applied) =>
                            \A b \in 0..m_current_bucket_number[ty] - 1 : ~HashMismatch(ty, b)
                       /\ OrdersFit(ty) /\ ~(ty = "SU" /\ <<ty, "MIGRATION">> \in applied) =>
                            \A v \in 1..m_current_version[ty] : ~OrderMismatch(ty, v)
    BY DEF RulesReadable
  <2>1. m_current_bucket_number[ty] = 2 ^ m_current_mod[ty]
    BY DEF IInv, KnownAreRows
  <2>2. ASSUME Fits(ty), ~(ty = "MU" /\ <<ty, "EXTENT">> \in applied),
               NEW b \in 0..m_current_bucket_number[ty] - 1
        PROVE  ~HashMismatch(ty, b)
    <3>1. ty \notin ExtendedMUs
      BY <2>2 DEF ExtendedMUs
    <3>2. b \in DOMAIN m_hash_table[ty].items /\ m_hash_table[ty].items[b].bucket_nr = b
      BY <2>2, <3>1 DEF IInv, HashKept
    <3>. QED  BY <3>2 DEF HashMismatch, Read
  <2>3. ASSUME OrdersFit(ty), ~(ty = "SU" /\ <<ty, "MIGRATION">> \in applied),
               NEW v \in 1..m_current_version[ty]
        PROVE  ~OrderMismatch(ty, v)
    BY <2>3 DEF IInv, OrdersKept, OrderMismatch
  <2>. QED  BY <2>1, <2>2, <2>3
<1>. QED  BY <1>1, RulesInvariant, PTL

\* Memory and database differ only where a migration is about to change them.
THEOREM RulesMemoryMatchesDatabase == Spec => []MemoryMatchesDatabase
<1>1. IInv => MemoryMatchesDatabase
  <2>. SUFFICES ASSUME IInv, NEW ty \in Sound, NEW b \in 0..m_current_bucket_number[ty] - 1,
                       ~Moving(ty, b)
                PROVE  b \in DOMAIN db_rule[ty] /\ db_rule[ty][b] = Read(m_hash_table[ty], b).ip
    BY DEF MemoryMatchesDatabase
  <2>1. ty \in Types /\ Fits(ty) /\ ty \notin ExtendedMUs
    BY SoundFacts
  <2>2. b \in DOMAIN db_rule[ty]
    <3>1. /\ Rows(ty) \in Nat /\ m_current_bucket_number[ty] \in Nat
          /\ m_current_bucket_number[ty] <= Rows(ty) /\ DOMAIN db_rule[ty] = 0..Rows(ty) - 1
      BY <2>1, Sizes DEF IInv, TypeOK
    <3>. HIDE DEF Rows
    <3>. QED  BY <3>1
  <2>3. b \in DOMAIN m_hash_table[ty].items
    BY <2>1 DEF IInv, HashKept
  <2>4. m_hash_table[ty].items[b].ip = db_rule[ty][b]
    BY DEF IInv, Settled
  <2>. QED  BY <2>2, <2>3, <2>4 DEF Read
<1>. QED  BY <1>1, RulesInvariant, PTL

\* Only a restart is counted as a crash.
LEMMA OnlyRestart ==
  ASSUME [Next]_vars, crashes' # crashes
  PROVE  Restart
BY DEF Next, vars, Worker, Callback, StartExtension, get_hash_rule, StartMigration,
       get_order_rule, StatementFails, UpdateRule, CopyRow, InsertOrder, after_update_db,
       done_modify_rule, Over

\* A restart forgets no bucket, no version and no rule the server acted on.
THEOREM RulesRestartKeepsRules == Spec => RestartKeepsRules
<1>1. ASSUME IInv, [Next]_vars, crashes' # crashes, NEW ty \in Sound,
             2 ^ cs_log(Rows(ty)) = Rows(ty)
      PROVE  /\ m_current_bucket_number'[ty] >= m_current_bucket_number[ty]
             /\ m_current_version'[ty] >= m_current_version[ty]
             /\ \A b \in 0..m_current_bucket_number[ty] - 1 :
                  ~HashMismatch(ty, b) /\ ~Moving(ty, b)
                    => Read(m_hash_table'[ty], b) = Read(m_hash_table[ty], b)
  <2>1. Restart
    BY <1>1, OnlyRestart
  <2>2. ty \in Types /\ Fits(ty) /\ ty \notin ExtendedMUs
    BY SoundFacts
  <2>3. /\ Rows(ty) \in Nat /\ m_current_bucket_number[ty] \in Nat
        /\ m_current_bucket_number[ty] <= Rows(ty)
    BY <1>1, <2>2, Sizes DEF IInv, TypeOK
  <2>4. /\ m_current_bucket_number'[ty] = Rows(ty)
        /\ m_current_version'[ty] = Len(db_order[ty])
        /\ \A b \in 0..Rows(ty) - 1 :
             /\ b \in DOMAIN m_hash_table'[ty].items
             /\ m_hash_table'[ty].items[b] = [bucket_nr |-> b, ip |-> db_rule[ty][b]]
    BY <1>1, <2>1, <2>2, RestartLoads
  <2>5. m_current_version'[ty] >= m_current_version[ty]
    <3>1. m_current_version[ty] + Cardinality(InMemory(ty)) <= Len(db_order[ty])
      BY <1>1, <2>2 DEF IInv, VersionsAreStored
    <3>2. Cardinality(InMemory(ty)) \in Nat
      BY <1>1, InMemoryNumber DEF IInv, TypeOK
    <3>3. m_current_version[ty] \in Nat /\ Len(db_order[ty]) \in Nat
      BY <1>1, <2>2 DEF IInv, TypeOK
    <3>. QED  BY <2>4, <3>1, <3>2, <3>3
  <2>6. ASSUME NEW b \in 0..m_current_bucket_number[ty] - 1, ~Moving(ty, b)
        PROVE  Read(m_hash_table'[ty], b) = Read(m_hash_table[ty], b)
    <3>1. b \in 0..Rows(ty) - 1
      <4>. HIDE DEF Rows
      <4>. QED  BY <2>3
    <3>2. Read(m_hash_table'[ty], b) = [bucket_nr |-> b, ip |-> db_rule[ty][b]]
      BY <2>4, <3>1 DEF Read
    <3>3. b \in DOMAIN m_hash_table[ty].items /\ m_hash_table[ty].items[b].bucket_nr = b
      BY <1>1, <2>2 DEF IInv, HashKept
    <3>4. m_hash_table[ty].items[b].ip = db_rule[ty][b]
      BY <1>1, <2>6 DEF IInv, Settled
    <3>5. m_hash_table[ty].items[b] \in HashItems
      <4>1. m_hash_table[ty].items \in Stored(HashItems)
        BY <1>1, <2>2 DEF IInv, TypeOK, Vectors
      <4>. QED  BY <3>3, <4>1, StoredMember
    <3>6. m_hash_table[ty].items[b] = [bucket_nr |-> b, ip |-> db_rule[ty][b]]
      BY <3>3, <3>4, <3>5 DEF HashItems
    <3>. QED  BY <3>2, <3>3, <3>6 DEF Read
  <2>. HIDE DEF Rows
  <2>. QED  BY <2>3, <2>4, <2>5, <2>6
<1>2. IInv /\ [Next]_vars =>
        [crashes' # crashes =>
           \A ty \in Sound :
             2 ^ cs_log(Rows(ty)) = Rows(ty) =>
               /\ m_current_bucket_number'[ty] >= m_current_bucket_number[ty]
               /\ m_current_version'[ty] >= m_current_version[ty]
               /\ \A b \in 0..m_current_bucket_number[ty] - 1 :
                    ~HashMismatch(ty, b) /\ ~Moving(ty, b)
                      => Read(m_hash_table'[ty], b) = Read(m_hash_table[ty], b)]_vars
  BY <1>1
<1>. QED  BY <1>2, RulesInvariant, PTL DEF Spec, RestartKeepsRules
==============================================================================
