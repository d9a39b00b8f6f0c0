--------------------------- MODULE MigrationProofs --------------------------
(***************************************************************************)
(* Proofs about Migration for any number of nodes, buckets, operators and  *)
(* tasks: what a task may rely on at its stage, that the nodes the rules   *)
(* name have their copies, that the rule tables in memory and in the       *)
(* database agree, and that a success told to an operator is real.         *)
(***************************************************************************)
EXTENDS Migration, FiniteSetTheorems, TLAPS

-----------------------------------------------------------------------------
(* Queues.                                                                 *)

\* Appending an element adds it to the set of elements.
LEMMA AppendElements ==
  ASSUME NEW S, NEW s \in Seq(S), NEW e \in S
  PROVE  /\ Append(s, e) \in Seq(S)
         /\ ToSet(Append(s, e)) = ToSet(s) \cup {e}
<1>1. /\ Append(s, e) \in Seq(S)
      /\ DOMAIN Append(s, e) = 1 .. Len(s) + 1
      /\ \A j \in 1 .. Len(s) : Append(s, e)[j] = s[j]
      /\ Append(s, e)[Len(s) + 1] = e
      /\ DOMAIN s = 1 .. Len(s)
      /\ Len(s) \in Nat
  OBVIOUS
<1>2. ToSet(Append(s, e)) \subseteq ToSet(s) \cup {e}
  BY <1>1 DEF ToSet
<1>3. ToSet(s) \subseteq ToSet(Append(s, e))
  <2>. SUFFICES ASSUME NEW j \in 1 .. Len(s)
                PROVE  s[j] \in ToSet(Append(s, e))
    BY <1>1 DEF ToSet
  <2>. QED  BY <1>1 DEF ToSet
<1>4. e \in ToSet(Append(s, e))
  BY <1>1 DEF ToSet
<1>. QED  BY <1>1, <1>2, <1>3, <1>4

\* Appending a new element keeps the elements distinct.
LEMMA AppendDistinct ==
  ASSUME NEW S, NEW s \in Seq(S), NEW e \in S,
         IsInjective(s), e \notin ToSet(s)
  PROVE  IsInjective(Append(s, e))
<1>1. /\ DOMAIN Append(s, e) = 1 .. Len(s) + 1
      /\ \A j \in 1 .. Len(s) : Append(s, e)[j] = s[j]
      /\ Append(s, e)[Len(s) + 1] = e
      /\ DOMAIN s = 1 .. Len(s)
      /\ Len(s) \in Nat
  OBVIOUS
<1>2. \A j \in 1 .. Len(s) : s[j] # e
  BY <1>1 DEF ToSet
<1>. QED  BY <1>1, <1>2 DEF IsInjective

\* Taking the head of a queue of distinct elements removes just that element.
LEMMA TailDistinct ==
  ASSUME NEW S, NEW s \in Seq(S), s # <<>>, IsInjective(s)
  PROVE  /\ Head(s) \in ToSet(s)
         /\ Head(s) \in S
         /\ Tail(s) \in Seq(S)
         /\ IsInjective(Tail(s))
         /\ ToSet(Tail(s)) = ToSet(s) \ {Head(s)}
<1>1. /\ Len(s) \in Nat \ {0}
      /\ DOMAIN s = 1 .. Len(s)
      /\ Head(s) = s[1]
      /\ Head(s) \in S
      /\ Tail(s) \in Seq(S)
      /\ DOMAIN Tail(s) = 1 .. Len(s) - 1
      /\ \A j \in 1 .. Len(s) - 1 : Tail(s)[j] = s[j + 1]
  OBVIOUS
<1>2. Head(s) \in ToSet(s)
  BY <1>1 DEF ToSet
<1>3. IsInjective(Tail(s))
  BY <1>1 DEF IsInjective
<1>4. ToSet(Tail(s)) \subseteq ToSet(s) \ {Head(s)}
  <2>. SUFFICES ASSUME NEW j \in 1 .. Len(s) - 1
                PROVE  s[j + 1] \in ToSet(s) \ {Head(s)}
    BY <1>1 DEF ToSet
  <2>. QED  BY <1>1 DEF ToSet, IsInjective
<1>5. ToSet(s) \ {Head(s)} \subseteq ToSet(Tail(s))
  <2>. SUFFICES ASSUME NEW j \in 1 .. Len(s), s[j] # s[1]
                PROVE  s[j] \in ToSet(Tail(s))
    BY <1>1 DEF ToSet
  <2>1. /\ j - 1 \in 1 .. Len(s) - 1
        /\ Tail(s)[j - 1] = s[j]
    BY <1>1
  <2>. QED  BY <1>1, <2>1 DEF ToSet
<1>. QED  BY <1>1, <1>2, <1>3, <1>4, <1>5

-----------------------------------------------------------------------------
(* The record of a task after each kind of step.                           *)

\* What was asked for.
SameRequest(r, q) ==
  /\ r.type = q.type /\ r.bucket = q.bucket /\ r.src = q.src /\ r.dest = q.dest
  /\ r.father = q.father

\* Where the main thread and the nodes got with it.
SameStage(r, q) ==
  /\ SameRequest(r, q)
  /\ r.phase = q.phase /\ r.served = q.served /\ r.dest_ret = q.dest_ret /\ r.moved = q.moved

LEMMA ServedRecord ==
  ASSUME NEW q \in TaskRecord, NEW r, r = [q EXCEPT !.served = TRUE]
  PROVE  /\ r \in TaskRecord /\ SameRequest(r, q)
         /\ r.phase = q.phase /\ r.served = TRUE /\ r.dest_ret = q.dest_ret /\ r.moved = q.moved
         /\ r.step = q.step /\ r.slot = q.slot /\ r.m_exec_result = q.m_exec_result
         /\ r.m_times = q.m_times
  BY DEF TaskRecord, SameRequest

LEMMA BeginRecord ==
  ASSUME NEW q \in TaskRecord, NEW r, r = [q EXCEPT !.step = "begin"]
  PROVE  /\ r \in TaskRecord /\ SameStage(r, q) /\ r.step = "begin"
  BY DEF TaskRecord, SameRequest, SameStage

LEMMA PostRecord ==
  ASSUME NEW q \in TaskRecord, NEW b \in BOOLEAN, NEW r,
         r = [q EXCEPT !.step = "post", !.m_exec_result = b]
  PROVE  /\ r \in TaskRecord /\ SameStage(r, q) /\ r.step = "post" /\ r.m_exec_result = b
         /\ r.m_times = q.m_times
  BY DEF TaskRecord, SameRequest, SameStage

LEMMA SlotRecord ==
  ASSUME NEW q \in TaskRecord, NEW s \in Nat, NEW p \in {"update", "insert"}, NEW r,
         r = [q EXCEPT !.step = p, !.slot = s]
  PROVE  /\ r \in TaskRecord /\ SameStage(r, q) /\ r.step = p /\ r.slot = s
         /\ r.m_times = q.m_times
  BY DEF TaskRecord, SameRequest, SameStage

LEMMA AskRecord ==
  ASSUME NEW q \in TaskRecord, NEW p \in {"dest", "recover"}, NEW r,
         r = [q EXCEPT !.phase = p, !.served = FALSE]
  PROVE  /\ r \in TaskRecord /\ SameRequest(r, q)
         /\ r.phase = p /\ r.served = FALSE /\ r.dest_ret = q.dest_ret /\ r.moved = q.moved
  BY DEF TaskRecord, SameRequest, Waiting

LEMMA AgainRecord ==
  ASSUME NEW q \in TaskRecord, NEW k \in 0..RetryTime + 1, NEW r,
         r = [q EXCEPT !.served = FALSE, !.retry = k]
  PROVE  /\ r \in TaskRecord /\ SameRequest(r, q)
         /\ r.phase = q.phase /\ r.served = FALSE /\ r.dest_ret = q.dest_ret /\ r.moved = q.moved
  BY DEF TaskRecord, SameRequest

LEMMA ConnectRecord ==
  ASSUME NEW q \in TaskRecord, NEW r,
         r = [q EXCEPT !.step = "post", !.m_exec_result = TRUE, !.m_times = 1]
  PROVE  /\ r \in TaskRecord /\ SameStage(r, q) /\ r.step = "post" /\ r.m_exec_result = TRUE
<1>. DEFINE s == [q EXCEPT !.step = "post", !.m_exec_result = TRUE]
<1>1. s \in TaskRecord /\ SameStage(s, q) /\ s.step = "post" /\ s.m_exec_result = TRUE
  BY PostRecord
<1>2. r = [s EXCEPT !.m_times = 1]
  OBVIOUS
<1>. HIDE DEF s
<1>. QED  BY <1>1, <1>2 DEF TaskRecord, SameRequest, SameStage

LEMMA DatabaseRecord ==
  ASSUME NEW q \in TaskRecord, NEW b \in BOOLEAN, NEW r,
         r = [q EXCEPT !.phase = "db", !.served = FALSE, !.dest_ret = b]
  PROVE  /\ r \in TaskRecord /\ SameRequest(r, q)
         /\ r.phase = "db" /\ r.dest_ret = b /\ r.moved = q.moved
<1>. DEFINE s == [q EXCEPT !.phase = "db", !.served = FALSE]
<1>1. s \in TaskRecord /\ SameRequest(s, q) /\ s.phase = "db" /\ s.moved = q.moved
  BY DEF TaskRecord, SameRequest
<1>2. r = [s EXCEPT !.dest_ret = b]
  OBVIOUS
<1>. HIDE DEF s
<1>. QED  BY <1>1, <1>2 DEF TaskRecord, SameRequest

LEMMA DeleteRecord ==
  ASSUME NEW q \in TaskRecord, NEW b \in BOOLEAN, NEW r,
         r = [q EXCEPT !.phase = "del", !.moved = b, !.served = FALSE]
  PROVE  /\ r \in TaskRecord /\ SameRequest(r, q)
         /\ r.phase = "del" /\ r.dest_ret = q.dest_ret /\ r.moved = b
<1>. DEFINE s == [q EXCEPT !.phase = "del", !.moved = b]
<1>1. /\ s \in TaskRecord /\ SameRequest(s, q) /\ s.phase = "del" /\ s.dest_ret = q.dest_ret
      /\ s.moved = b
  BY DEF TaskRecord, SameRequest, Waiting
<1>2. r = [s EXCEPT !.served = FALSE]
  OBVIOUS
<1>. HIDE DEF s
<1>. QED  BY <1>1, <1>2 DEF TaskRecord, SameRequest

-----------------------------------------------------------------------------
(* The invariant of the tasks.                                             *)

\* The types, and that there is an order table for either type.
Typed == /\ TypeOK
         /\ m_order_table = [ty \in {"MU", "SU"} |-> m_order_table[ty]]
         /\ \A ty \in Types : m_order_table[ty] = [v \in DOMAIN m_order_table[ty] |->
                                                      m_order_table[ty][v]]

\* An item is in one place of the pool; its task is logging or at the database.
Places ==
  /\ IsInjective(queue) /\ IsInjective(finished)
  /\ ToSet(queue) \cap running = {} /\ ToSet(queue) \cap ToSet(finished) = {}
  /\ running \cap ToSet(finished) = {}
  /\ deleted \cap (ToSet(queue) \cup running \cup ToSet(finished)) = {}
  /\ \A u \in ToSet(queue) \cup running \cup ToSet(finished) :
       task[u].phase \in {"log", "db"}

\* An operator that waits for its answers remembers the one task it waits for.
Remembered ==
  OneAtATime => \A u \in Active : task[u].father \in open => m_migrate_task[task[u].father] = u

\* A bucket of which no migration was misjudged has one migration at most.
Alone == \A u, v \in Active : Key(u) = Key(v) /\ Key(u) \notin misjudged => u = v

\* What a task of such a bucket may rely on at its stage: the rules in memory
\* name the source until they name the destination in its place, an SU that
\* copied the bucket has it, and a copy that was deleted is gone.
StageOK(q) ==
  /\ q.phase \in {"log", "dest", "db"} =>
       /\ q.src \in Named(q.type, q.bucket, m_hash_table)
       /\ q.dest \notin Named(q.type, q.bucket, m_hash_table)
  /\ q.phase \in {"del", "recover"} => q.type = "SU"
  /\ q.phase \in {"del", "recover"} /\ q.moved =>
       /\ q.src \notin Named(q.type, q.bucket, m_hash_table)
       /\ q.dest \in Named(q.type, q.bucket, m_hash_table)
  /\ q.phase = "del" /\ ~q.moved => q.dest \notin Named(q.type, q.bucket, m_hash_table)
  /\ q.phase = "recover" => q.moved
  /\ q.type = "SU" /\ ((q.phase = "dest" /\ q.served) \/ (q.phase = "db" /\ q.dest_ret)) =>
       <<q.dest, q.bucket>> \in held["SU"]
  /\ q.phase = "recover" \/ (q.phase = "del" /\ q.moved /\ q.served) =>
       <<q.src, q.bucket>> \notin held["SU"]
  /\ q.phase = "recover" /\ q.served => <<q.dest, q.bucket>> \in serving["SU"]

Stages == \A u \in Active : Key(u) \notin misjudged => StageOK(task[u])

\* The inductive invariant of the tasks.
TaskInv == /\ Typed /\ Places /\ Alone /\ Stages /\ NamedNodesHold
           /\ Remembered /\ (OneAtATime => FreedWhenDone)

-----------------------------------------------------------------------------
(* Lemmas about rules and records.                                         *)

LEMMA ActiveRecord ==
  ASSUME TypeOK, NEW u \in Active
  PROVE  /\ u \in DOMAIN task /\ task[u] \in TaskRecord
         /\ task[u].type \in Types /\ task[u].bucket \in Buckets
         /\ task[u].src \in Nodes /\ task[u].dest \in Nodes /\ task[u].father \in Agents
         /\ task[u].phase \in {"log", "dest", "db", "del", "recover"}
<1>1. u \in DOMAIN task /\ task[u] \in TaskRecord \cup TaskResult /\ task[u].phase \notin Done
  BY DEF TypeOK, Active
<1>2. task[u] \in TaskRecord
  BY <1>1 DEF TaskResult, Done
<1>. QED  BY <1>1, <1>2 DEF TaskRecord, Waiting

LEMMA ModifiedRule ==
  ASSUME NEW rule \in Seq(Nodes), NEW src \in Nodes, NEW dest \in Nodes
  PROVE  /\ modify_rule_by_migration(rule, src, dest) \in Seq(Nodes)
         /\ src \in ToSet(rule) /\ dest \notin ToSet(rule) =>
              /\ ToSet(modify_rule_by_migration(rule, src, dest))
                   = (ToSet(rule) \ {src}) \cup {dest}
              /\ IsInjective(rule) => IsInjective(modify_rule_by_migration(rule, src, dest))
<1>. DEFINE new == modify_rule_by_migration(rule, src, dest)
<1>1. /\ DOMAIN rule = 1..Len(rule) /\ Len(rule) \in Nat
      /\ \A i \in DOMAIN rule : rule[i] \in Nodes
  OBVIOUS
<1>2. /\ DOMAIN new = DOMAIN rule
      /\ \A i \in DOMAIN rule : new[i] = IF rule[i] = src THEN dest ELSE rule[i]
  BY DEF modify_rule_by_migration
<1>3. new \in [1..Len(rule) -> Nodes]
  BY <1>1 DEF modify_rule_by_migration
<1>4. new \in Seq(Nodes)
  BY <1>1, <1>3
<1>. HIDE DEF new
<1>5. ASSUME src \in ToSet(rule), dest \notin ToSet(rule)
      PROVE  /\ ToSet(new) = (ToSet(rule) \ {src}) \cup {dest}
             /\ IsInjective(rule) => IsInjective(new)
  <2>1. PICK k \in DOMAIN rule : rule[k] = src
    BY <1>5 DEF ToSet
  <2>2. \A i \in DOMAIN rule : rule[i] # dest
    BY <1>5 DEF ToSet
  <2>3. ToSet(new) = (ToSet(rule) \ {src}) \cup {dest}
    BY <1>2, <2>1, <2>2 DEF ToSet
  <2>4. IsInjective(rule) => IsInjective(new)
    BY <1>2, <2>2 DEF IsInjective
  <2>. QED  BY <2>3, <2>4
<1>. QED  BY <1>4, <1>5 DEF new

LEMMA OneTask ==
  ASSUME TypeOK, NEW t \in DOMAIN task, NEW r \in TaskRecord \cup TaskResult,
         task' = [task EXCEPT ![t] = r]
  PROVE  /\ task' \in Seq(TaskRecord \cup TaskResult)
         /\ Len(task') = Len(task) /\ DOMAIN task' = DOMAIN task
         /\ task'[t] = r /\ \A u \in DOMAIN task \ {t} : task'[u] = task[u]
  BY DEF TypeOK

\* A task stays where it is when nothing of its bucket changes.
LEMMA StageKept ==
  ASSUME NEW q, NEW r, SameStage(r, q), StageOK(q),
         m_hash_table'[q.type][q.bucket] = m_hash_table[q.type][q.bucket],
         q.type = "SU" => \A n \in {q.src, q.dest} :
           /\ <<n, q.bucket>> \in held'["SU"] <=> <<n, q.bucket>> \in held["SU"]
           /\ <<n, q.bucket>> \in serving'["SU"] <=> <<n, q.bucket>> \in serving["SU"]
  PROVE  StageOK(r)'
  BY DEF SameStage, SameRequest, StageOK, Named

\* A step changes the rule of the bucket of q only, and its copies only.
OtherRulesKept(q) ==
  \A ty \in Types, b \in Buckets :
    <<ty, b>> # <<q.type, q.bucket>> => m_hash_table'[ty][b] = m_hash_table[ty][b]

OtherCopiesKept(q) ==
  \A n \in Nodes, b \in Buckets : "SU" \in Types /\ <<"SU", b>> # <<q.type, q.bucket>> =>
    /\ <<n, b>> \in held'["SU"] <=> <<n, b>> \in held["SU"]
    /\ <<n, b>> \in serving'["SU"] <=> <<n, b>> \in serving["SU"]

\* When one task moves on, and rules and copies change for its bucket only, the
\* others stay where they are.
LEMMA ChangeOne ==
  ASSUME TaskInv, NEW t \in Active, NEW q, q = task[t],
         NEW r \in TaskRecord \cup TaskResult, task' = [task EXCEPT ![t] = r],
         misjudged' = misjudged,
         OtherRulesKept(q),
         OtherCopiesKept(q),
         r.phase \notin Done => r \in TaskRecord /\ SameRequest(r, q),
         r.phase \notin Done /\ <<q.type, q.bucket>> \notin misjudged => StageOK(r)',
         <<q.type, q.bucket>> \notin misjudged /\ q.type = "SU" =>
           \A n \in Named("SU", q.bucket, m_hash_table)' : <<n, q.bucket>> \in held'["SU"]
  PROVE  /\ Alone' /\ Stages' /\ NamedNodesHold'
         /\ Active' \subseteq Active /\ (r.phase \in Done => Active' = Active \ {t})
         /\ (r.phase \notin Done => Active' = Active)
<1>. USE DEF TaskInv, Typed, OtherRulesKept, OtherCopiesKept
<1>0. /\ t \in DOMAIN task /\ q \in TaskRecord /\ q.type \in Types /\ q.bucket \in Buckets
      /\ q.phase \notin Done
  BY ActiveRecord DEF Active
<1>1. /\ DOMAIN task' = DOMAIN task /\ task'[t] = r
      /\ \A u \in DOMAIN task \ {t} : task'[u] = task[u]
  BY <1>0, OneTask
<1>2. Active' = IF r.phase \in Done THEN Active \ {t} ELSE Active
  BY <1>0, <1>1 DEF Active
<1>3. \A u \in Active' : Key(u)' = Key(u)
  BY <1>0, <1>1, <1>2 DEF Key, SameRequest, Active
<1>4. Alone'
  BY <1>2, <1>3 DEF Alone
<1>5. Stages'
  <2>. SUFFICES ASSUME NEW u \in Active', Key(u)' \notin misjudged PROVE StageOK(task[u])'
    BY DEF Stages
  <2>0. u \in Active /\ Key(u) \notin misjudged
    BY <1>2, <1>3
  <2>1. CASE u = t
    <3>1. r.phase \notin Done /\ <<q.type, q.bucket>> \notin misjudged
      BY <1>2, <2>0, <2>1 DEF Key
    <3>. QED  BY <1>1, <2>1, <3>1
  <2>2. CASE u # t
    <3>. DEFINE x == task[u]
    <3>1. /\ task'[u] = x /\ StageOK(x) /\ <<x.type, x.bucket>> # <<q.type, q.bucket>>
      BY <1>1, <2>0, <2>2 DEF Alone, Stages, Active, Key
    <3>2. /\ x.type \in Types /\ x.bucket \in Buckets /\ x.src \in Nodes /\ x.dest \in Nodes
      BY <2>0, ActiveRecord
    <3>3. PICK y : y = x
      OBVIOUS
    <3>4. StageOK(y)'
      BY <3>1, <3>2, <3>3, StageKept DEF SameStage, SameRequest
    <3>5. task'[u] = y
      BY <3>1, <3>3
    <3>. QED  BY <3>4, <3>5
  <2>. QED  BY <2>1, <2>2
<1>6. NamedNodesHold'
  <2>. SUFFICES ASSUME "SU" \in Types, NEW b \in Buckets, <<"SU", b>> \notin misjudged,
                       NEW n \in Named("SU", b, m_hash_table)'
                PROVE  <<n, b>> \in held'["SU"]
    BY DEF NamedNodesHold
  <2>1. CASE <<"SU", b>> = <<q.type, q.bucket>>
    BY <2>1
  <2>2. CASE <<"SU", b>> # <<q.type, q.bucket>>
    <3>1. n \in Named("SU", b, m_hash_table)
      BY <2>2 DEF Named
    <3>2. m_hash_table["SU"][b] \in Seq(Nodes)
      BY DEF TypeOK
    <3>3. n \in Nodes
      BY <3>1, <3>2 DEF Named, ToSet
    <3>. QED  BY <2>2, <3>1, <3>3 DEF NamedNodesHold
  <2>. QED  BY <2>1, <2>2
<1>. QED  BY <1>2, <1>4, <1>5, <1>6


-----------------------------------------------------------------------------
(* The pool and the database threads.                                      *)

LEMMA InFlightActive ==
  ASSUME TaskInv, NEW u \in ToSet(queue) \cup running \cup ToSet(finished)
  PROVE  u \in Active /\ u \in DOMAIN task
<1>1. u \in DOMAIN task
  BY DEF TaskInv, Typed, TypeOK, ToSet
<1>. QED  BY <1>1 DEF TaskInv, Places, Active, Done

\* A step of a thread changes nothing that the stages of the tasks are about.
LEMMA ThreadTaskInv ==
  ASSUME TaskInv, NEW t \in Active, NEW q, q = task[t],
         NEW r \in TaskRecord, SameStage(r, q), task' = [task EXCEPT ![t] = r],
         UNCHANGED <<memory, nodes, last_load, operator, misjudged>>,
         db_rule' \in [Types -> [Buckets -> Seq(Nodes)]],
         db_order' \in [Types -> Seq(OrderRecord)],
         broken' \subseteq Types \X Buckets,
         queue' \in Seq(DOMAIN task), finished' \in Seq(DOMAIN task),
         running' \subseteq DOMAIN task,
         Places => /\ IsInjective(queue') /\ IsInjective(finished')
                   /\ ToSet(queue') \cap running' = {} /\ ToSet(queue') \cap ToSet(finished') = {}
                   /\ running' \cap ToSet(finished') = {}
                   /\ deleted' \cap (ToSet(queue') \cup running' \cup ToSet(finished')) = {}
                   /\ ToSet(queue') \cup running' \cup ToSet(finished')
                        = ToSet(queue) \cup running \cup ToSet(finished)
  PROVE  TaskInv'
<1>. USE DEF Typed
<1>0. /\ t \in DOMAIN task /\ q \in TaskRecord /\ q.phase \notin Done /\ r.phase = q.phase
      /\ SameRequest(r, q)
  BY ActiveRecord DEF TaskInv, Active, SameStage
<1>1. /\ task' \in Seq(TaskRecord \cup TaskResult) /\ Len(task') = Len(task)
      /\ DOMAIN task' = DOMAIN task /\ task'[t] = r
      /\ \A u \in DOMAIN task \ {t} : task'[u] = task[u]
  BY <1>0, OneTask DEF TaskInv
<1>2. Typed'
  <2>1. /\ UNCHANGED <<m_hash_table, m_order_table, m_current_version, held, serving, last_load,
                       open, m_migrate_task, freed, misjudged>>
    BY DEF memory, nodes, operator
  <2>2. TypeOK'
    BY <1>1, <2>1 DEF TaskInv, TypeOK
  <2>. QED  BY <2>1, <2>2 DEF TaskInv
<1>3. Alone' /\ Stages' /\ NamedNodesHold' /\ Active' = Active
  <2>1. misjudged' = misjudged /\ UNCHANGED <<m_hash_table, held, serving>>
    BY DEF memory, nodes
  <2>2. <<q.type, q.bucket>> \notin misjudged => StageOK(r)'
    <3>1. <<q.type, q.bucket>> \notin misjudged => StageOK(q)
      BY DEF TaskInv, Stages, Key
    <3>. QED  BY <2>1, <3>1, StageKept
  <2>3. OtherRulesKept(q) /\ OtherCopiesKept(q)
    BY <2>1 DEF OtherRulesKept, OtherCopiesKept
  <2>5. <<q.type, q.bucket>> \notin misjudged /\ q.type = "SU" =>
           \A n \in Named("SU", q.bucket, m_hash_table)' : <<n, q.bucket>> \in held'["SU"]
    <3>1. q.type \in Types /\ q.bucket \in Buckets
      BY ActiveRecord DEF TaskInv
    <3>. QED  BY <2>1, <3>1 DEF TaskInv, NamedNodesHold, Named
  <2>. QED  BY <1>0, <2>1, <2>2, <2>3, <2>5, ChangeOne
<1>4. Places'
  <2>1. \A u \in DOMAIN task : task'[u].phase = task[u].phase
    BY <1>0, <1>1
  <2>2. \A u \in ToSet(queue) \cup running \cup ToSet(finished) : u \in DOMAIN task
    BY InFlightActive
  <2>. QED  BY <2>1, <2>2 DEF TaskInv, Places
<1>5. Remembered' /\ (OneAtATime => FreedWhenDone)'
  <2>1. \A u \in Active : task'[u].father = task[u].father
    BY <1>0, <1>1 DEF SameRequest, Active
  <2>. QED  BY <1>1, <1>3, <2>1 DEF TaskInv, Remembered, FreedWhenDone, operator
<1>. QED  BY <1>2, <1>3, <1>4, <1>5 DEF TaskInv


\* The steps of an item while it runs.
LEMMA RunningTaskInv ==
  ASSUME TaskInv, NEW t \in running, NEW q, q = task[t],
         NEW r \in TaskRecord, SameStage(r, q), task' = [task EXCEPT ![t] = r],
         UNCHANGED <<memory, nodes, last_load, operator, pool, misjudged>>,
         db_rule' \in [Types -> [Buckets -> Seq(Nodes)]],
         db_order' \in [Types -> Seq(OrderRecord)],
         broken' \in {broken, broken \cup {Key(t)}}
  PROVE  TaskInv'
<1>1. t \in Active
  BY InFlightActive
<1>2. /\ queue' = queue /\ running' = running /\ finished' = finished /\ deleted' = deleted
      /\ queue \in Seq(DOMAIN task) /\ finished \in Seq(DOMAIN task) /\ running \subseteq DOMAIN task
      /\ misjudged' = misjudged
  BY DEF pool, TaskInv, Typed, TypeOK
<1>3. broken' \subseteq Types \X Buckets
  <2>1. broken \subseteq Types \X Buckets
    BY DEF TaskInv, Typed, TypeOK
  <2>2. Key(t) \in Types \X Buckets
    BY <1>1, ActiveRecord DEF TaskInv, Typed, Key
  <2>. QED  BY <2>1, <2>2
<1>4. Places => /\ IsInjective(queue') /\ IsInjective(finished')
                /\ ToSet(queue') \cap running' = {} /\ ToSet(queue') \cap ToSet(finished') = {}
                /\ running' \cap ToSet(finished') = {}
                /\ deleted' \cap (ToSet(queue') \cup running' \cup ToSet(finished')) = {}
                /\ ToSet(queue') \cup running' \cup ToSet(finished')
                     = ToSet(queue) \cup running \cup ToSet(finished)
  BY <1>2 DEF Places
<1>. QED  BY <1>1, <1>2, <1>3, <1>4, ThreadTaskInv

LEMMA EndsTask ==
  ASSUME TypeOK, NEW t \in Active, NEW b \in BOOLEAN, Ends(t, b)
  PROVE  \E r \in TaskRecord :
           /\ task' = [task EXCEPT ![t] = r] /\ SameStage(r, task[t])
           /\ r.step = "post" /\ r.m_exec_result = b
<1>. DEFINE r == [task[t] EXCEPT !.step = "post", !.m_exec_result = b]
<1>1. task[t] \in TaskRecord /\ t \in DOMAIN task
  BY ActiveRecord
<1>2. /\ r \in TaskRecord /\ SameStage(r, task[t]) /\ r.step = "post" /\ r.m_exec_result = b
  <2>. DEFINE q == task[t]
  <2>. HIDE DEF q
  <2>1. q = task[t] /\ q \in TaskRecord
    BY <1>1 DEF q
  <2>2. r = [q EXCEPT !.step = "post", !.m_exec_result = b]
    BY <2>1
  <2>. HIDE DEF r
  <2>3. /\ r \in TaskRecord /\ SameStage(r, q) /\ r.step = "post" /\ r.m_exec_result = b
    BY <2>1, <2>2 DEF TaskRecord, SameStage, SameRequest
  <2>. QED  BY <2>1, <2>3
<1>3. task' = [task EXCEPT ![t] = r]
  BY <1>1 DEF Ends, TypeOK
<1>. HIDE DEF r
<1>. QED  BY <1>2, <1>3

LEMMA DatabaseTypes ==
  ASSUME TypeOK
  PROVE  /\ db_rule \in [Types -> [Buckets -> Seq(Nodes)]]
         /\ db_order \in [Types -> Seq(OrderRecord)]
  BY DEF TypeOK

\* The passes that touch no row: the record of the task after each.
LEMMA PassTask ==
  ASSUME TypeOK, NEW t \in Active, Connect(t) \/ RecordFailure(t) \/ SelectRule(t)
  PROVE  /\ UNCHANGED <<memory, database, nodes, last_load, operator, pool, misjudged>>
         /\ broken' \in {broken, broken \cup {Key(t)}}
         /\ \E r \in TaskRecord : task' = [task EXCEPT ![t] = r] /\ SameStage(r, task[t])
<1>0. task[t] \in TaskRecord /\ t \in DOMAIN task
  BY ActiveRecord
<1>1. CASE Connect(t)
  <2>1. /\ UNCHANGED <<memory, database, nodes, last_load, operator, pool, misjudged>>
        /\ broken' \in {broken, broken \cup {Key(t)}}
    BY <1>1 DEF Connect, Breaks
  <2>. DEFINE r == [task[t] EXCEPT !.step = "post", !.m_exec_result = TRUE, !.m_times = 1]
  <2>2. task' = [task EXCEPT ![t] = r] \/ Ends(t, FALSE)
    BY <1>0, <1>1 DEF Connect, TypeOK
  <2>3. r \in TaskRecord /\ SameStage(r, task[t])
    BY <1>0, ConnectRecord
  <2>. HIDE DEF r
  <2>. QED  BY <2>1, <2>2, <2>3, EndsTask
<1>2. CASE RecordFailure(t)
  BY <1>2, EndsTask DEF RecordFailure
<1>3. CASE SelectRule(t)
  <2>1. /\ UNCHANGED <<memory, database, nodes, last_load, operator, pool, misjudged>>
        /\ broken' \in {broken, broken \cup {Key(t)}}
    BY <1>3 DEF SelectRule, Breaks
  <2>2. CASE Ends(t, FALSE)
    BY <2>1, <2>2, EndsTask
  <2>3. CASE ~Ends(t, FALSE)
    <3>1. PICK i \in DOMAIN db_rule[task[t].type][task[t].bucket] :
                 task' = [task EXCEPT ![t].step = "update", ![t].slot = i]
      BY <1>3, <2>3 DEF SelectRule
    <3>2. i \in Nat
      <4>0. task[t].type \in Types /\ task[t].bucket \in Buckets
        BY ActiveRecord
      <4>1. db_rule[task[t].type][task[t].bucket] \in Seq(Nodes)
        BY <4>0, DatabaseTypes
      <4>. QED  BY <4>1
    <3>. DEFINE r == [task[t] EXCEPT !.step = "update", !.slot = i]
    <3>3. r \in TaskRecord /\ SameStage(r, task[t])
      BY <1>0, <3>2 DEF TaskRecord, SameRequest, SameStage
    <3>4. task' = [task EXCEPT ![t] = r]
      BY <1>0, <3>1 DEF TypeOK
    <3>. HIDE DEF r
    <3>. QED  BY <2>1, <3>3, <3>4
  <2>. QED  BY <2>2, <2>3
<1>. QED  BY <1>1, <1>2, <1>3

LEMMA WrittenRow ==
  ASSUME NEW T, NEW B, NEW rows \in [T -> [B -> Seq(Nodes)]],
         NEW ty \in T, NEW b \in B, NEW s \in Nat, NEW n \in Nodes
  PROVE  [rows EXCEPT ![ty][b][s] = n] \in [T -> [B -> Seq(Nodes)]]
<1>1. PICK row \in Seq(Nodes) : row = rows[ty][b]
  OBVIOUS
<1>2. PICK new : new = [row EXCEPT ![s] = n]
  OBVIOUS
<1>3. new \in Seq(Nodes)
  <2>1. row \in [1..Len(row) -> Nodes] /\ Len(row) \in Nat
    OBVIOUS
  <2>2. new \in [1..Len(row) -> Nodes]
    BY <1>2, <2>1
  <2>3. DOMAIN new = 1..Len(row) /\ \A i \in 1..Len(row) : new[i] \in Nodes
    BY <2>2
  <2>4. new = [i \in 1..Len(row) |-> new[i]]
    BY <2>2
  <2>. QED  BY <2>1, <2>2, <2>3, <2>4
<1>4. [rows EXCEPT ![ty][b][s] = n] = [rows EXCEPT ![ty] = [rows[ty] EXCEPT ![b] = new]]
  BY <1>1, <1>2
<1>5. [rows[ty] EXCEPT ![b] = new] \in [B -> Seq(Nodes)]
  BY <1>3
<1>. QED  BY <1>4, <1>5

\* The passes that write a row.
LEMMA WriteTask ==
  ASSUME TypeOK, NEW t \in Active, UpdateRule(t) \/ InsertOrder(t)
  PROVE  /\ UNCHANGED <<memory, nodes, last_load, operator, pool, misjudged>>
         /\ db_rule' \in [Types -> [Buckets -> Seq(Nodes)]]
         /\ db_order' \in [Types -> Seq(OrderRecord)]
         /\ broken' \in {broken, broken \cup {Key(t)}}
         /\ \E r \in TaskRecord : task' = [task EXCEPT ![t] = r] /\ SameStage(r, task[t])
<1>0. /\ task[t] \in TaskRecord /\ t \in DOMAIN task
      /\ task[t].type \in Types /\ task[t].bucket \in Buckets
      /\ task[t].src \in Nodes /\ task[t].dest \in Nodes
  BY ActiveRecord
<1>1. CASE UpdateRule(t)
  <2>1. /\ UNCHANGED <<memory, db_order, nodes, last_load, operator, pool, misjudged>>
        /\ broken' \in {broken, broken \cup {Key(t)}}
    BY <1>1 DEF UpdateRule, Breaks
  <2>2. db_order' \in [Types -> Seq(OrderRecord)]
    BY <2>1, DatabaseTypes
  <2>3. CASE Ends(t, FALSE) /\ UNCHANGED db_rule
    BY <2>1, <2>2, <2>3, DatabaseTypes, EndsTask
  <2>4. CASE ~(Ends(t, FALSE) /\ UNCHANGED db_rule)
    <3>1. /\ db_rule' = [db_rule EXCEPT ![task[t].type][task[t].bucket][task[t].slot]
                                          = task[t].dest]
          /\ task' = [task EXCEPT ![t].step = "insert", ![t].slot = 0]
      BY <1>1, <2>4 DEF UpdateRule
    <3>2. task[t].slot \in Nat
      BY <1>0 DEF TaskRecord
    <3>3. db_rule' \in [Types -> [Buckets -> Seq(Nodes)]]
      <4>1. db_rule \in [Types -> [Buckets -> Seq(Nodes)]]
        BY DatabaseTypes
      <4>2. PICK n \in Nodes : n = task[t].dest
        BY <1>0
      <4>3. PICK k \in Nat : k = task[t].slot
        BY <3>2
      <4>4. PICK ty \in Types : ty = task[t].type
        BY <1>0
      <4>5. PICK b \in Buckets : b = task[t].bucket
        BY <1>0
      <4>6. db_rule' = [db_rule EXCEPT ![ty][b][k] = n]
        BY <3>1, <4>2, <4>3, <4>4, <4>5
      <4>7. [db_rule EXCEPT ![ty][b][k] = n] \in [Types -> [Buckets -> Seq(Nodes)]]
        BY <4>1, WrittenRow
      <4>. QED  BY <4>6, <4>7
    <3>. DEFINE r == [task[t] EXCEPT !.step = "insert", !.slot = 0]
    <3>4. r \in TaskRecord /\ SameStage(r, task[t])
      BY <1>0 DEF TaskRecord, SameRequest, SameStage
    <3>5. task' = [task EXCEPT ![t] = r]
      BY <1>0, <3>1 DEF TypeOK
    <3>. HIDE DEF r
    <3>. QED  BY <2>1, <2>2, <3>3, <3>4, <3>5
  <2>. QED  BY <2>3, <2>4
<1>2. CASE InsertOrder(t)
  <2>1. /\ UNCHANGED <<memory, db_rule, nodes, last_load, operator, pool, misjudged>>
        /\ broken' \in {broken, broken \cup {Key(t)}}
    BY <1>2 DEF InsertOrder, Breaks
  <2>2. /\ Ends(t, TRUE) \/ Ends(t, FALSE)
        /\ \/ db_order' = db_order
           \/ db_order' = [db_order EXCEPT ![task[t].type] = Append(@, Order(t))]
    BY <1>2 DEF InsertOrder
  <2>3. Order(t) \in OrderRecord
    BY <1>0 DEF Order, OrderRecord
  <2>4. db_order' \in [Types -> Seq(OrderRecord)]
    <3>1. db_order \in [Types -> Seq(OrderRecord)]
      BY DatabaseTypes
    <3>2. Append(db_order[task[t].type], Order(t)) \in Seq(OrderRecord)
      BY <1>0, <2>3, <3>1
    <3>. QED  BY <1>0, <2>2, <3>1, <3>2
  <2>5. db_rule' \in [Types -> [Buckets -> Seq(Nodes)]]
    BY <2>1, DatabaseTypes
  <2>6. \E r \in TaskRecord : task' = [task EXCEPT ![t] = r] /\ SameStage(r, task[t])
    BY <2>2, EndsTask
  <2>. QED  BY <2>1, <2>4, <2>5, <2>6
<1>. QED  BY <1>1, <1>2

LEMMA WorkerTaskInv ==
  ASSUME TaskInv, NEW t \in running,
         \/ Connect(t) \/ RecordFailure(t) \/ SelectRule(t)
         \/ UpdateRule(t) \/ InsertOrder(t)
  PROVE  TaskInv'
<1>1. t \in Active /\ TypeOK
  BY InFlightActive DEF TaskInv, Typed
<1>2. /\ UNCHANGED <<memory, nodes, last_load, operator, pool, misjudged>>
      /\ db_rule' \in [Types -> [Buckets -> Seq(Nodes)]]
      /\ db_order' \in [Types -> Seq(OrderRecord)]
      /\ broken' \in {broken, broken \cup {Key(t)}}
      /\ \E r \in TaskRecord : task' = [task EXCEPT ![t] = r] /\ SameStage(r, task[t])
  <2>1. CASE Connect(t) \/ RecordFailure(t) \/ SelectRule(t)
    <3>1. /\ UNCHANGED <<memory, database, nodes, last_load, operator, pool, misjudged>>
          /\ broken' \in {broken, broken \cup {Key(t)}}
          /\ \E r \in TaskRecord : task' = [task EXCEPT ![t] = r] /\ SameStage(r, task[t])
      BY <1>1, <2>1, PassTask
    <3>2. db_rule' = db_rule /\ db_order' = db_order
      BY <3>1 DEF database
    <3>. QED  BY <1>1, <3>1, <3>2, DatabaseTypes
  <2>2. CASE UpdateRule(t) \/ InsertOrder(t)
    BY <1>1, <2>2, WriteTask
  <2>. QED  BY <2>1, <2>2
<1>3. PICK r \in TaskRecord : task' = [task EXCEPT ![t] = r] /\ SameStage(r, task[t])
  BY <1>2
<1>4. PICK q : q = task[t]
  OBVIOUS
<1>5. SameStage(r, q)
  BY <1>3, <1>4
<1>. QED  BY <1>2, <1>3, <1>4, <1>5, RunningTaskInv

LEMMA StartTaskInv ==
  ASSUME TaskInv, StartItem
  PROVE  TaskInv'
<1>1. /\ queue # <<>> /\ running' = running \cup {Head(queue)} /\ queue' = Tail(queue)
      /\ UNCHANGED <<finished, deleted, sent>>
      /\ task' = [task EXCEPT ![Head(queue)].step = "begin"]
      /\ UNCHANGED <<memory, database, nodes, last_load, operator, misjudged, broken>>
  BY DEF StartItem, Pool!Start
<1>2. PICK t : t = Head(queue)
  OBVIOUS
<1>3. TypeOK /\ Places /\ queue \in Seq(DOMAIN task)
  BY DEF TaskInv, Typed, TypeOK
<1>4. /\ t \in ToSet(queue) /\ queue' \in Seq(DOMAIN task) /\ IsInjective(queue')
      /\ ToSet(queue') = ToSet(queue) \ {t}
  BY <1>1, <1>2, <1>3, TailDistinct DEF Places
<1>5. t \in Active /\ t \in DOMAIN task
  BY <1>4, InFlightActive
<1>6. PICK q : q = task[t]
  OBVIOUS
<1>7. q \in TaskRecord
  BY <1>3, <1>5, <1>6, ActiveRecord
<1>. DEFINE r == [q EXCEPT !.step = "begin"]
<1>8. r \in TaskRecord /\ SameStage(r, q)
  BY <1>7, BeginRecord
<1>9. task' = [task EXCEPT ![t] = r]
  BY <1>1, <1>2, <1>5, <1>6, <1>3 DEF TypeOK
<1>. HIDE DEF r
<1>10. /\ db_rule' \in [Types -> [Buckets -> Seq(Nodes)]] /\ db_order' \in [Types -> Seq(OrderRecord)]
       /\ broken' \subseteq Types \X Buckets /\ finished' \in Seq(DOMAIN task)
       /\ running' \subseteq DOMAIN task
  BY <1>1, <1>2, <1>3, <1>5 DEF TypeOK, database
<1>11. UNCHANGED <<memory, nodes, last_load, operator, misjudged>>
  BY <1>1
<1>12. /\ IsInjective(queue') /\ IsInjective(finished')
       /\ ToSet(queue') \cap running' = {} /\ ToSet(queue') \cap ToSet(finished') = {}
       /\ running' \cap ToSet(finished') = {}
       /\ deleted' \cap (ToSet(queue') \cup running' \cup ToSet(finished')) = {}
       /\ ToSet(queue') \cup running' \cup ToSet(finished')
            = ToSet(queue) \cup running \cup ToSet(finished)
  <2>1. running' = running \cup {t} /\ finished' = finished /\ deleted' = deleted
    BY <1>1, <1>2
  <2>. QED  BY <1>3, <1>4, <2>1 DEF Places
<1>. QED  BY <1>4, <1>5, <1>6, <1>8, <1>9, <1>10, <1>11, <1>12, ThreadTaskInv

LEMMA PostTaskInv ==
  ASSUME TaskInv, NEW t \in running, PostItem(t)
  PROVE  TaskInv'
<1>1. /\ running' = running \ {t} /\ finished' = Append(finished, t)
      /\ UNCHANGED <<queue, deleted, sent>>
      /\ UNCHANGED <<memory, database, nodes, last_load, task, operator, misjudged, broken>>
  BY DEF PostItem, Pool!Finish
<1>2. TypeOK /\ Places /\ finished \in Seq(DOMAIN task)
  BY DEF TaskInv, Typed, TypeOK
<1>3. t \in Active /\ t \in DOMAIN task
  BY InFlightActive
<1>4. /\ finished' \in Seq(DOMAIN task) /\ ToSet(finished') = ToSet(finished) \cup {t}
  BY <1>1, <1>2, <1>3, AppendElements
<1>5. IsInjective(finished')
  <2>1. t \notin ToSet(finished) /\ IsInjective(finished)
    BY <1>2 DEF Places
  <2>. QED  BY <1>1, <1>2, <1>3, <2>1, AppendDistinct
<1>6. PICK q : q = task[t]
  OBVIOUS
<1>7. q \in TaskRecord /\ SameStage(q, q)
  BY <1>2, <1>3, <1>6, ActiveRecord DEF SameStage, SameRequest
<1>8. task' = [task EXCEPT ![t] = q]
  BY <1>1, <1>2, <1>6 DEF TypeOK
<1>10. /\ db_rule' \in [Types -> [Buckets -> Seq(Nodes)]] /\ db_order' \in [Types -> Seq(OrderRecord)]
       /\ broken' \subseteq Types \X Buckets /\ queue' \in Seq(DOMAIN task)
       /\ running' \subseteq DOMAIN task
  BY <1>1, <1>2 DEF TypeOK, database
<1>11. UNCHANGED <<memory, nodes, last_load, operator, misjudged>>
  BY <1>1
<1>12. /\ IsInjective(queue') /\ IsInjective(finished')
       /\ ToSet(queue') \cap running' = {} /\ ToSet(queue') \cap ToSet(finished') = {}
       /\ running' \cap ToSet(finished') = {}
       /\ deleted' \cap (ToSet(queue') \cup running' \cup ToSet(finished')) = {}
       /\ ToSet(queue') \cup running' \cup ToSet(finished')
            = ToSet(queue) \cup running \cup ToSet(finished)
  <2>1. running' = running \ {t} /\ queue' = queue /\ deleted' = deleted
    BY <1>1
  <2>. QED  BY <1>2, <1>4, <1>5, <2>1 DEF Places
<1>. QED  BY <1>3, <1>4, <1>6, <1>7, <1>8, <1>10, <1>11, <1>12, ThreadTaskInv

-----------------------------------------------------------------------------
(* The nodes and the operators.                                            *)

LEMMA LoadTaskInv ==
  ASSUME TaskInv, NEW ty \in Types, NEW n \in Nodes, update_last_bucket_load(ty, n)
  PROVE  TaskInv'
<1>1. UNCHANGED <<memory, database, nodes, task, operator, pool, misjudged, broken>>
  BY DEF update_last_bucket_load
<1>2. last_load' \in [Types -> SUBSET (Nodes \X Buckets)]
  <2>1. held[ty] \subseteq Nodes \X Buckets /\ last_load \in [Types -> SUBSET (Nodes \X Buckets)]
    BY DEF TaskInv, Typed, TypeOK
  <2>. QED  BY <2>1 DEF update_last_bucket_load
<1>3. /\ UNCHANGED <<m_hash_table, m_order_table, m_current_version, db_rule, db_order,
                     held, serving, task, open, m_migrate_task, freed,
                     queue, running, finished, deleted, misjudged, broken>>
  BY <1>1 DEF memory, database, nodes, operator, pool
<1>4. Typed'
  BY <1>2, <1>3 DEF TaskInv, Typed, TypeOK
<1>5. Places' /\ Alone' /\ NamedNodesHold' /\ Remembered' /\ (OneAtATime => FreedWhenDone)'
  BY <1>3 DEF TaskInv, Places, Alone, Active, Key, NamedNodesHold, Named, Remembered, FreedWhenDone
<1>6. Stages'
  BY <1>3 DEF TaskInv, Stages, Active, Key, StageOK, Named
<1>. QED  BY <1>4, <1>5, <1>6 DEF TaskInv

LEMMA CloseTaskInv ==
  ASSUME TaskInv, NEW a \in Agents, CloseAgent(a)
  PROVE  TaskInv'
<1>1. open' = open \ {a}
  BY DEF CloseAgent
<1>2. /\ UNCHANGED <<m_hash_table, m_order_table, m_current_version, db_rule, db_order,
                     held, serving, last_load, task, m_migrate_task, freed,
                     queue, running, finished, deleted, misjudged, broken>>
  BY DEF CloseAgent, memory, database, nodes, pool
<1>3. Typed'
  BY <1>1, <1>2 DEF TaskInv, Typed, TypeOK
<1>4. Places' /\ Alone' /\ NamedNodesHold' /\ Remembered' /\ (OneAtATime => FreedWhenDone)'
  BY <1>1, <1>2 DEF TaskInv, Places, Alone, Active, Key, NamedNodesHold, Named, Remembered,
                    FreedWhenDone
<1>5. Stages'
  BY <1>2 DEF TaskInv, Stages, Active, Key, StageOK, Named
<1>. QED  BY <1>3, <1>4, <1>5 DEF TaskInv

-----------------------------------------------------------------------------
(* A new task.                                                             *)

LEMMA LongerDomain ==
  ASSUME NEW S, NEW T, S \subseteq T, NEW s \in Seq(S)
  PROVE  s \in Seq(T)
<1>1. s \in [1..Len(s) -> S] /\ Len(s) \in Nat
  OBVIOUS
<1>2. s \in [1..Len(s) -> T]
  BY <1>1
<1>. QED  BY <1>1, <1>2

LEMMA NewTaskInv ==
  ASSUME TaskInv, NEW a \in Agents, NEW ty \in Types, NEW b \in Buckets,
         NEW src \in Nodes, NEW dest \in Nodes, do_migrate_bucket(a, ty, b, src, dest)
  PROVE  TaskInv'
<1>. DEFINE new == Len(task) + 1
            q == [type |-> ty, bucket |-> b, src |-> src, dest |-> dest, father |-> a,
                  phase |-> "log", served |-> FALSE, dest_ret |-> FALSE, moved |-> FALSE,
                  retry |-> 0, m_times |-> 0, step |-> "begin", slot |-> 0,
                  m_exec_result |-> FALSE]
<1>1. PICK r : r = q
  OBVIOUS
<1>2. PICK t : t = new
  OBVIOUS
<1>3. /\ t \in Tasks /\ a \in open /\ (OneAtATime => \A u \in Active : task[u].father # a)
      /\ task' = Append(task, r)
      /\ m_migrate_task' = [m_migrate_task EXCEPT ![a] = t]
      /\ misjudged' = IF RulesAllow(ty, b, src, dest) THEN misjudged
                                                     ELSE misjudged \cup {<<ty, b>>}
      /\ queue' = Append(queue, t)
      /\ t \notin ToSet(queue) \cup running \cup ToSet(finished) \cup deleted
      /\ UNCHANGED <<running, finished, deleted>>
      /\ UNCHANGED <<memory, database, nodes, last_load, open, freed, broken>>
  <2>1. /\ t \in Tasks /\ a \in open /\ (OneAtATime => \A u \in Active : task[u].father # a)
        /\ m_migrate_task' = [m_migrate_task EXCEPT ![a] = t]
        /\ misjudged' = IF RulesAllow(ty, b, src, dest) THEN misjudged
                                                       ELSE misjudged \cup {<<ty, b>>}
        /\ Pool!Submit(t)
        /\ UNCHANGED <<memory, database, nodes, last_load, open, freed, broken>>
    BY <1>2 DEF do_migrate_bucket
  <2>2. task' = Append(task, q)
    BY DEF do_migrate_bucket
  <2>3. /\ queue' = Append(queue, t)
        /\ t \notin ToSet(queue) \cup running \cup ToSet(finished) \cup deleted
        /\ UNCHANGED <<running, finished, deleted>>
    BY <2>1 DEF Pool!Submit, Pool!InFlight, Pool!ToSet, ToSet
  <2>. HIDE DEF q
  <2>. QED  BY <1>1, <2>1, <2>2, <2>3
<1>4. /\ r \in TaskRecord /\ r.type = ty /\ r.bucket = b /\ r.src = src /\ r.dest = dest
      /\ r.father = a /\ r.phase = "log" /\ r.served = FALSE
  BY <1>1, MigrationAssumption DEF TaskRecord
<1>5. /\ task \in Seq(TaskRecord \cup TaskResult) /\ Len(task) \in Nat /\ DOMAIN task = 1..Len(task)
      /\ t = Len(task) + 1
  BY <1>2 DEF TaskInv, Typed, TypeOK
<1>. HIDE DEF q, new
<1>6. /\ task' \in Seq(TaskRecord \cup TaskResult) /\ Len(task') = Len(task) + 1
      /\ task'[t] = r /\ \A u \in DOMAIN task : task'[u] = task[u]
  BY <1>3, <1>4, <1>5
<1>7. DOMAIN task' = DOMAIN task \cup {t} /\ t \notin DOMAIN task /\ t \in Nat
  BY <1>5, <1>6
<1>8. Active' = Active \cup {t} /\ t \notin Active
  BY <1>4, <1>6, <1>7 DEF Active, Done
<1>9. /\ UNCHANGED <<m_hash_table, m_order_table, m_current_version, db_rule, db_order,
                     held, serving, last_load, open, freed, running, finished, deleted, broken>>
  BY <1>3 DEF memory, database, nodes
<1>10. \A u \in Active : Key(u)' = Key(u) /\ u \in DOMAIN task
  BY <1>6 DEF Active, Key
<1>11. /\ Key(t)' = <<ty, b>> /\ misjudged \subseteq misjudged'
       /\ misjudged' \subseteq misjudged \cup {<<ty, b>>}
       /\ <<ty, b>> \notin misjudged' => RulesAllow(ty, b, src, dest)
  BY <1>3, <1>4, <1>6 DEF Key
<1>12. Typed'
  <2>1. /\ queue \in Seq(DOMAIN task') /\ finished' \in Seq(DOMAIN task')
    BY <1>7, <1>9, LongerDomain DEF TaskInv, Typed, TypeOK
  <2>2. queue' \in Seq(DOMAIN task')
    BY <1>3, <1>7, <2>1
  <2>3. m_migrate_task' \in [Agents -> DOMAIN task' \cup {NoTask}]
    BY <1>3, <1>7 DEF TaskInv, Typed, TypeOK
  <2>4. Len(task') <= MaxTasks
    BY <1>3, <1>5, <1>6, MigrationAssumption DEF Tasks
  <2>5. misjudged' \subseteq Types \X Buckets
    BY <1>11 DEF TaskInv, Typed, TypeOK
  <2>6. TypeOK'
    BY <1>6, <1>7, <1>9, <2>1, <2>2, <2>3, <2>4, <2>5 DEF TaskInv, Typed, TypeOK
  <2>. QED  BY <1>9, <2>6 DEF TaskInv, Typed
<1>13. Places'
  <2>1. queue \in Seq(DOMAIN task) /\ Places
    BY DEF TaskInv, Typed, TypeOK
  <2>2. ToSet(queue') = ToSet(queue) \cup {t}
    <3>1. queue \in Seq(DOMAIN task \cup {t})
      BY <2>1, LongerDomain
    <3>. QED  BY <1>3, <3>1, AppendElements
  <2>3. IsInjective(queue')
    <3>1. queue \in Seq(DOMAIN task \cup {t}) /\ IsInjective(queue) /\ t \notin ToSet(queue)
      BY <1>3, <2>1, LongerDomain DEF Places
    <3>. QED  BY <1>3, <3>1, AppendDistinct
  <2>4. \A u \in ToSet(queue) \cup running \cup ToSet(finished) : task'[u] = task[u]
    BY <1>6, InFlightActive
  <2>5. t \notin ToSet(queue) \cup running \cup ToSet(finished) \cup deleted
    BY <1>3
  <2>6. /\ IsInjective(queue') /\ IsInjective(finished')
        /\ ToSet(queue') \cap running' = {} /\ ToSet(queue') \cap ToSet(finished') = {}
        /\ running' \cap ToSet(finished') = {}
        /\ deleted' \cap (ToSet(queue') \cup running' \cup ToSet(finished')) = {}
    BY <1>3, <2>1, <2>2, <2>3, <2>5 DEF Places
  <2>7. \A u \in ToSet(queue') \cup running' \cup ToSet(finished') :
          task'[u].phase \in {"log", "db"}
    BY <1>3, <1>4, <1>6, <2>1, <2>2, <2>4 DEF Places
  <2>. QED  BY <2>6, <2>7 DEF Places
<1>14. Alone'
  BY <1>8, <1>10, <1>11 DEF TaskInv, Alone, RulesAllow
<1>15. Stages'
  <2>. SUFFICES ASSUME NEW u \in Active', Key(u)' \notin misjudged' PROVE StageOK(task[u])'
    BY DEF Stages
  <2>1. CASE u = t
    <3>1. RulesAllow(ty, b, src, dest)
      BY <1>11, <2>1
    <3>2. StageOK(r)'
      BY <1>4, <1>9, <3>1 DEF StageOK, RulesAllow, Named
    <3>. QED  BY <1>6, <2>1, <3>2
  <2>2. CASE u # t
    <3>1. PICK x : x = task[u]
      OBVIOUS
    <3>2. u \in Active /\ Key(u) \notin misjudged /\ task'[u] = x
      BY <1>6, <1>8, <1>10, <1>11, <2>2, <3>1
    <3>3. StageOK(x)
      BY <3>1, <3>2 DEF TaskInv, Stages
    <3>4. StageOK(x)'
      BY <1>9, <3>3, StageKept DEF SameStage, SameRequest
    <3>. QED  BY <3>2, <3>4
  <2>. QED  BY <2>1, <2>2
<1>16. NamedNodesHold'
  BY <1>9, <1>11 DEF TaskInv, NamedNodesHold, Named
<1>17. Remembered'
  <2>1. m_migrate_task'[a] = t /\ \A c \in Agents \ {a} : m_migrate_task'[c] = m_migrate_task[c]
    BY <1>3 DEF TaskInv, Typed, TypeOK
  <2>2. \A u \in Active : task'[u].father = task[u].father /\ task[u].father \in Agents
    BY <1>6, <1>10, ActiveRecord DEF TaskInv, Typed
  <2>. SUFFICES ASSUME OneAtATime, NEW u \in Active', task'[u].father \in open'
                PROVE  m_migrate_task'[task'[u].father] = u
    BY DEF Remembered
  <2>3. CASE u = t
    BY <1>4, <1>6, <2>1, <2>3
  <2>4. CASE u # t
    <3>1. u \in Active /\ task[u].father # a /\ task[u].father \in open
      BY <1>3, <1>8, <1>9, <2>2, <2>4
    <3>2. m_migrate_task[task[u].father] = u
      BY <3>1 DEF TaskInv, Remembered
    <3>. QED  BY <2>1, <2>2, <3>1, <3>2
  <2>. QED  BY <2>3, <2>4
<1>18. (OneAtATime => FreedWhenDone)'
  BY <1>7, <1>8, <1>9 DEF TaskInv, FreedWhenDone
<1>. QED  BY <1>12, <1>13, <1>14, <1>15, <1>16, <1>17, <1>18 DEF TaskInv

-----------------------------------------------------------------------------
(* The steps of a task on the main thread and on the nodes.                *)

\* A task moves on and keeps its operator.
LEMMA MovesTaskInv ==
  ASSUME TaskInv, NEW t \in Active, NEW q, q = task[t],
         NEW r \in TaskRecord, SameRequest(r, q), task' = [task EXCEPT ![t] = r],
         UNCHANGED <<last_load, database, operator, misjudged, broken>>,
         Typed', Places',
         OtherRulesKept(q),
         OtherCopiesKept(q),
         <<q.type, q.bucket>> \notin misjudged => StageOK(r)',
         <<q.type, q.bucket>> \notin misjudged /\ q.type = "SU" =>
           \A n \in Named("SU", q.bucket, m_hash_table)' : <<n, q.bucket>> \in held'["SU"]
  PROVE  TaskInv'
<1>0. t \in DOMAIN task /\ r.phase \notin Done
  BY DEF Active, TaskRecord, Waiting, Done
<1>1. /\ DOMAIN task' = DOMAIN task /\ task'[t] = r
      /\ \A u \in DOMAIN task \ {t} : task'[u] = task[u]
  BY <1>0, OneTask DEF TaskInv, Typed
<1>2. Alone' /\ Stages' /\ NamedNodesHold' /\ Active' = Active
  <2>1. misjudged' = misjudged /\ r \in TaskRecord \cup TaskResult
    OBVIOUS
  <2>2. /\ r.phase \notin Done => r \in TaskRecord /\ SameRequest(r, q)
        /\ r.phase \notin Done /\ <<q.type, q.bucket>> \notin misjudged => StageOK(r)'
    OBVIOUS
  <2>4. /\ OtherRulesKept(q)
        /\ OtherCopiesKept(q)
        /\ <<q.type, q.bucket>> \notin misjudged /\ q.type = "SU" =>
            \A n \in Named("SU", q.bucket, m_hash_table)' : <<n, q.bucket>> \in held'["SU"]
    OBVIOUS
  <2>3. /\ Alone' /\ Stages' /\ NamedNodesHold'
        /\ Active' \subseteq Active /\ (r.phase \in Done => Active' = Active \ {t})
        /\ (r.phase \notin Done => Active' = Active)
    BY <2>1, <2>2, <2>4, ChangeOne
  <2>. QED  BY <1>0, <2>3
<1>3. Remembered' /\ (OneAtATime => FreedWhenDone)'
  <2>1. \A u \in Active : task'[u].father = task[u].father
    BY <1>0, <1>1 DEF SameRequest, Active
  <2>2. open' = open /\ m_migrate_task' = m_migrate_task /\ freed' = freed
    BY DEF operator
  <2>3. Remembered'
    BY <1>2, <2>1, <2>2 DEF TaskInv, Remembered
  <2>4. (OneAtATime => FreedWhenDone)'
    BY <1>1, <1>2, <2>2 DEF TaskInv, FreedWhenDone
  <2>. QED  BY <2>3, <2>4
<1>. QED  BY <1>2, <1>3 DEF TaskInv

\* What the callback does to the operator, and what it leaves of the task.
LEMMA CallbackResult ==
  ASSUME TaskInv, NEW t \in Active, NEW ret \in BOOLEAN, do_callback(t, ret)
  PROVE  /\ \E r \in TaskResult : task' = [task EXCEPT ![t] = r] /\ r.phase \in Done
         /\ open' = open /\ freed' \subseteq DOMAIN task
         /\ m_migrate_task' \in [Agents -> DOMAIN task \cup {NoTask}]
         /\ OneAtATime => freed' = freed \cup {t}
         /\ OneAtATime => \A u \in Active \ {t} : task[u].father \in open =>
                            m_migrate_task'[task[u].father] = m_migrate_task[task[u].father]
<1>1. /\ t \in DOMAIN task /\ task[t].father \in Agents /\ freed \subseteq DOMAIN task
      /\ m_migrate_task \in [Agents -> DOMAIN task \cup {NoTask}]
      /\ DOMAIN task \subseteq Nat
  <2>1. TypeOK
    BY DEF TaskInv, Typed
  <2>2. t \in DOMAIN task /\ task[t].father \in Agents
    BY <2>1, ActiveRecord
  <2>3. DOMAIN task = 1..Len(task) /\ Len(task) \in Nat
    BY <2>1 DEF TypeOK
  <2>. QED  BY <2>1, <2>2, <2>3 DEF TypeOK
<1>2. CASE task[t].father \in open
  <2>. DEFINE a == task[t].father
              r == [phase |-> "answered", ret |-> ret]
  <2>1. /\ task' = [task EXCEPT ![t] = r]
        /\ freed' = freed \cup ({m_migrate_task[a]} \ {NoTask})
        /\ m_migrate_task' = [m_migrate_task EXCEPT ![a] = NoTask]
        /\ open' = open
    BY <1>2 DEF do_callback, do_migrate_callback
  <2>2. r \in TaskResult /\ r.phase \in Done
    BY DEF TaskResult, Done
  <2>3. OneAtATime => m_migrate_task[a] = t /\ t # NoTask
    BY <1>1, <1>2, MigrationAssumption DEF TaskInv, Remembered
  <2>4. /\ OneAtATime => \A u \in Active \ {t} : task[u].father \in open =>
                            m_migrate_task'[task[u].father] = m_migrate_task[task[u].father]
    <3>. SUFFICES ASSUME OneAtATime, NEW u \in Active \ {t}, task[u].father \in open
                  PROVE  m_migrate_task'[task[u].father] = m_migrate_task[task[u].father]
      OBVIOUS
    <3>1. m_migrate_task[task[u].father] = u
      BY DEF TaskInv, Remembered
    <3>2. task[u].father # a
      BY <2>3, <3>1
    <3>3. task[u].father \in Agents
      BY ActiveRecord DEF TaskInv, Typed
    <3>. QED  BY <1>1, <2>1, <3>2, <3>3
  <2>5. freed' \subseteq DOMAIN task /\ (OneAtATime => freed' = freed \cup {t})
    BY <1>1, <2>1, <2>3
  <2>6. m_migrate_task' \in [Agents -> DOMAIN task \cup {NoTask}]
    BY <1>1, <2>1
  <2>. HIDE DEF r
  <2>. QED  BY <2>1, <2>2, <2>4, <2>5, <2>6
<1>3. CASE task[t].father \notin open
  <2>. DEFINE r == [phase |-> "dropped"]
  <2>1. /\ task' = [task EXCEPT ![t] = r] /\ freed' = freed \cup {t}
        /\ open' = open /\ m_migrate_task' = m_migrate_task
    BY <1>3 DEF do_callback
  <2>2. r \in TaskResult /\ r.phase \in Done
    BY DEF TaskResult, Done
  <2>. HIDE DEF r
  <2>. QED  BY <1>1, <2>1, <2>2
<1>. QED  BY <1>2, <1>3

\* A task is done and its operator is told, when there is one.
LEMMA EndsTaskInv ==
  ASSUME TaskInv, NEW t \in Active, NEW q, q = task[t],
         NEW ret \in BOOLEAN, do_callback(t, ret),
         UNCHANGED <<last_load, database, nodes, misjudged, broken>>,
         TypeOK => /\ m_hash_table' \in [Types -> [Buckets -> Seq(Nodes)]]
                   /\ m_current_version' \in [Types -> Nat],
         m_order_table' = [ty \in {"MU", "SU"} |-> m_order_table'[ty]],
         \A ty \in Types : /\ m_order_table'[ty] = [v \in DOMAIN m_order_table'[ty] |->
                                                       m_order_table'[ty][v]]
                           /\ \A v \in DOMAIN m_order_table'[ty] :
                                v \in Nat \ {0} /\ m_order_table'[ty][v] \in OrderRecord,
         queue' \in Seq(DOMAIN task), finished' \in Seq(DOMAIN task),
         running' \subseteq DOMAIN task,
         IsInjective(queue'), IsInjective(finished'),
         ToSet(queue') \cap running' = {}, ToSet(queue') \cap ToSet(finished') = {},
         running' \cap ToSet(finished') = {},
         deleted' \cap (ToSet(queue') \cup running' \cup ToSet(finished')) = {},
         ToSet(queue') \cup running' \cup ToSet(finished')
           \subseteq (ToSet(queue) \cup running \cup ToSet(finished)) \ {t},
         OtherRulesKept(q),
         <<q.type, q.bucket>> \notin misjudged /\ q.type = "SU" =>
           m_hash_table'["SU"][q.bucket] = m_hash_table["SU"][q.bucket]
  PROVE  TaskInv'
<1>1. PICK r \in TaskResult : task' = [task EXCEPT ![t] = r] /\ r.phase \in Done
  BY CallbackResult
<1>2. /\ open' = open /\ freed' \subseteq DOMAIN task
      /\ m_migrate_task' \in [Agents -> DOMAIN task \cup {NoTask}]
      /\ OneAtATime => freed' = freed \cup {t}
      /\ OneAtATime => \A u \in Active \ {t} : task[u].father \in open =>
                         m_migrate_task'[task[u].father] = m_migrate_task[task[u].father]
  BY CallbackResult
<1>3. TypeOK /\ t \in DOMAIN task /\ q.type \in Types /\ q.bucket \in Buckets
  BY ActiveRecord DEF TaskInv, Typed
<1>4. /\ task' \in Seq(TaskRecord \cup TaskResult) /\ Len(task') = Len(task)
      /\ DOMAIN task' = DOMAIN task /\ task'[t] = r
      /\ \A u \in DOMAIN task \ {t} : task'[u] = task[u]
  BY <1>1, <1>3, OneTask
<1>5. /\ UNCHANGED <<db_rule, db_order, held, serving, last_load, misjudged, broken>>
  BY DEF database, nodes
<1>6. TypeOK'
  BY <1>2, <1>3, <1>4, <1>5 DEF TypeOK
<1>7. Typed'
  BY <1>6 DEF Typed
<1>8. Places'
  <2>1. \A u \in ToSet(queue') \cup running' \cup ToSet(finished') : task'[u] = task[u]
    BY <1>4, InFlightActive
  <2>. QED  BY <2>1 DEF TaskInv, Places
<1>9. /\ Alone' /\ Stages' /\ NamedNodesHold' /\ Active' = Active \ {t}
  <2>1. OtherCopiesKept(q)
    BY <1>5 DEF OtherCopiesKept
  <2>2. <<q.type, q.bucket>> \notin misjudged /\ q.type = "SU" =>
           \A n \in Named("SU", q.bucket, m_hash_table)' : <<n, q.bucket>> \in held'["SU"]
    BY <1>3, <1>5 DEF TaskInv, NamedNodesHold, Named
  <2>3. /\ r \in TaskRecord \cup TaskResult /\ misjudged' = misjudged
        /\ r.phase \notin Done => r \in TaskRecord /\ SameRequest(r, q)
        /\ r.phase \notin Done /\ <<q.type, q.bucket>> \notin misjudged => StageOK(r)'
        /\ task' = [task EXCEPT ![t] = r]
    BY <1>1, <1>5
  <2>5. /\ OtherRulesKept(q)
        /\ OtherCopiesKept(q)
        /\ <<q.type, q.bucket>> \notin misjudged /\ q.type = "SU" =>
            \A n \in Named("SU", q.bucket, m_hash_table)' : <<n, q.bucket>> \in held'["SU"]
    BY <2>1, <2>2
  <2>4. /\ Alone' /\ Stages' /\ NamedNodesHold'
        /\ Active' \subseteq Active /\ (r.phase \in Done => Active' = Active \ {t})
        /\ (r.phase \notin Done => Active' = Active)
    BY <2>3, <2>5, ChangeOne
  <2>. QED  BY <1>1, <2>4
<1>10. Remembered'
  <2>. SUFFICES ASSUME OneAtATime, NEW u \in Active', task'[u].father \in open'
                PROVE  m_migrate_task'[task'[u].father] = u
    BY DEF Remembered
  <2>1. u \in Active \ {t} /\ task'[u].father = task[u].father /\ task[u].father \in open
    BY <1>2, <1>4, <1>9 DEF Active
  <2>2. m_migrate_task[task[u].father] = u
    BY <2>1 DEF TaskInv, Remembered
  <2>. QED  BY <1>2, <2>1, <2>2
<1>11. (OneAtATime => FreedWhenDone)'
  <2>1. OneAtATime => freed' = freed \cup {t}
    BY <1>2
  <2>. QED  BY <1>3, <1>4, <1>9, <2>1 DEF TaskInv, FreedWhenDone
<1>. QED  BY <1>7, <1>8, <1>9, <1>10, <1>11 DEF TaskInv

\* A step of a task that leaves the pool alone and keeps the task's phase in or
\* out of the pool's reach.
LEMMA PlacesKept ==
  ASSUME TaskInv, NEW t \in Active, NEW r \in TaskRecord, task' = [task EXCEPT ![t] = r],
         UNCHANGED pool, t \notin ToSet(queue) \cup running \cup ToSet(finished)
  PROVE  Places'
<1>1. \A u \in ToSet(queue) \cup running \cup ToSet(finished) : task'[u] = task[u]
  <2>1. \A u \in ToSet(queue) \cup running \cup ToSet(finished) : u \in DOMAIN task
    BY InFlightActive
  <2>2. t \in DOMAIN task /\ TypeOK
    BY DEF TaskInv, Typed, Active
  <2>. QED  BY <2>1, <2>2, OneTask
<1>. QED  BY <1>1 DEF TaskInv, Places, pool

LEMMA TypedKept ==
  ASSUME TaskInv, NEW t \in Active, NEW r \in TaskRecord, task' = [task EXCEPT ![t] = r],
         UNCHANGED <<memory, database, last_load, operator, pool, misjudged, broken>>,
         held' \in [Types -> SUBSET (Nodes \X Buckets)],
         serving' \in [Types -> SUBSET (Nodes \X Buckets)]
  PROVE  Typed'
<1>1. /\ task' \in Seq(TaskRecord \cup TaskResult) /\ Len(task') = Len(task)
      /\ DOMAIN task' = DOMAIN task
  <2>1. t \in DOMAIN task /\ TypeOK
    BY DEF TaskInv, Typed, Active
  <2>. QED  BY <2>1, OneTask
<1>2. /\ UNCHANGED <<m_hash_table, m_order_table, m_current_version, db_rule, db_order,
                     last_load, open, m_migrate_task, freed,
                     queue, running, finished, deleted, misjudged, broken>>
  BY DEF memory, database, operator, pool
<1>. QED  BY <1>1, <1>2 DEF TaskInv, Typed, TypeOK

LEMMA ServeTaskInv ==
  ASSUME TaskInv, NEW t \in DOMAIN task, Serve(t)
  PROVE  TaskInv'
<1>1. /\ task[t].phase \in Waiting /\ ~task[t].served
      /\ task' = [task EXCEPT ![t].served = TRUE]
      /\ UNCHANGED <<memory, database, last_load, operator, pool, misjudged, broken>>
  BY DEF Serve
<1>2. t \in Active /\ TypeOK
  BY <1>1 DEF Active, Waiting, Done, TaskInv, Typed
<1>3. PICK q : q = task[t]
  OBVIOUS
<1>4. /\ q \in TaskRecord /\ q.type \in Types /\ q.bucket \in Buckets /\ q.src \in Nodes
      /\ q.dest \in Nodes
  BY <1>2, <1>3, ActiveRecord
<1>5. PICK r : r = [q EXCEPT !.served = TRUE]
  OBVIOUS
<1>6. /\ r \in TaskRecord /\ SameRequest(r, q)
      /\ r.phase = q.phase /\ r.served = TRUE /\ r.dest_ret = q.dest_ret /\ r.moved = q.moved
  BY <1>4, <1>5, ServedRecord
<1>7. task' = [task EXCEPT ![t] = r]
  BY <1>1, <1>2, <1>3, <1>5 DEF TypeOK
<1>8. /\ held \in [Types -> SUBSET (Nodes \X Buckets)]
      /\ serving \in [Types -> SUBSET (Nodes \X Buckets)]
  BY <1>2 DEF TypeOK
<1>9. PICK src, dest \in Nodes \X Buckets :
        src = <<q.src, q.bucket>> /\ dest = <<q.dest, q.bucket>>
  BY <1>4
<1>10. \/ /\ q.phase = "dest"
          /\ held' = [held EXCEPT ![q.type] =
                        (IF q.type = "MU" THEN @ \ {src} ELSE @) \cup {dest}]
          /\ serving' = [serving EXCEPT ![q.type] =
                        IF q.type = "MU" THEN (@ \ {src}) \cup {dest} ELSE @]
       \/ /\ q.phase = "del" /\ q.moved
          /\ held' = [held EXCEPT ![q.type] = @ \ {src}]
          /\ serving' = [serving EXCEPT ![q.type] = @ \ {src}]
       \/ /\ q.phase = "del" /\ ~q.moved
          /\ held' = [held EXCEPT ![q.type] = @ \ {dest}]
          /\ serving' = [serving EXCEPT ![q.type] = @ \ {dest}]
       \/ /\ q.phase = "recover" /\ held' = held
          /\ serving' = [serving EXCEPT ![q.type] = @ \cup {dest}]
  BY <1>3, <1>9 DEF Serve
<1>11. /\ held' \in [Types -> SUBSET (Nodes \X Buckets)]
       /\ serving' \in [Types -> SUBSET (Nodes \X Buckets)]
  BY <1>4, <1>8, <1>9, <1>10
<1>12. m_hash_table' = m_hash_table /\ UNCHANGED <<last_load, database, operator, misjudged, broken>>
  BY <1>1 DEF memory
<1>13. OtherRulesKept(q)
  BY <1>12 DEF OtherRulesKept
<1>14. OtherCopiesKept(q)
  <2>. SUFFICES ASSUME NEW n \in Nodes, NEW b \in Buckets, "SU" \in Types,
                       <<"SU", b>> # <<q.type, q.bucket>>
                PROVE  /\ <<n, b>> \in held'["SU"] <=> <<n, b>> \in held["SU"]
                       /\ <<n, b>> \in serving'["SU"] <=> <<n, b>> \in serving["SU"]
    BY DEF OtherCopiesKept
  <2>1. CASE q.type # "SU"
    BY <1>8, <1>10, <2>1
  <2>2. CASE q.type = "SU"
    <3>1. <<n, b>> # src /\ <<n, b>> # dest
      BY <1>9, <2>2
    <3>. QED  BY <1>8, <1>10, <2>2, <3>1
  <2>. QED  BY <2>1, <2>2
<1>15. ASSUME <<q.type, q.bucket>> \notin misjudged
       PROVE  /\ StageOK(r)'
              /\ q.type = "SU" =>
                   \A n \in Named("SU", q.bucket, m_hash_table)' : <<n, q.bucket>> \in held'["SU"]
  <2>1. StageOK(q)
    BY <1>2, <1>3, <1>15 DEF TaskInv, Stages, Key
  <2>2. q.type = "SU" => \A n \in Named("SU", q.bucket, m_hash_table) : <<n, q.bucket>> \in held["SU"]
    BY <1>4, <1>15 DEF TaskInv, NamedNodesHold
  <2>3. \A ty : \A b : Named(ty, b, m_hash_table)' = Named(ty, b, m_hash_table)
    BY <1>12 DEF Named
  <2>4. /\ r.type = q.type /\ r.bucket = q.bucket /\ r.src = q.src /\ r.dest = q.dest
    BY <1>6 DEF SameRequest
  <2>5. CASE q.type # "SU"
    BY <1>6, <2>1, <2>3, <2>4, <2>5 DEF StageOK
  <2>6. CASE q.type = "SU" /\ q.phase = "dest"
    <3>1. held'["SU"] = held["SU"] \cup {dest}
      BY <1>4, <1>8, <1>10, <2>6
    <3>. QED  BY <1>6, <1>9, <2>1, <2>2, <2>3, <2>4, <2>6, <3>1 DEF StageOK
  <2>7. CASE q.type = "SU" /\ q.phase = "del" /\ q.moved
    <3>1. held'["SU"] = held["SU"] \ {src}
      BY <1>4, <1>8, <1>10, <2>7
    <3>. QED  BY <1>6, <1>9, <2>1, <2>2, <2>3, <2>4, <2>7, <3>1 DEF StageOK
  <2>8. CASE q.type = "SU" /\ q.phase = "del" /\ ~q.moved
    <3>1. held'["SU"] = held["SU"] \ {dest}
      BY <1>4, <1>8, <1>10, <2>8
    <3>. QED  BY <1>6, <1>9, <2>1, <2>2, <2>3, <2>4, <2>8, <3>1 DEF StageOK
  <2>9. CASE q.type = "SU" /\ q.phase = "recover"
    <3>1. held'["SU"] = held["SU"] /\ serving'["SU"] = serving["SU"] \cup {dest}
      BY <1>4, <1>8, <1>10, <2>9
    <3>. QED  BY <1>6, <1>9, <2>1, <2>2, <2>3, <2>4, <2>9, <3>1 DEF StageOK
  <2>. QED  BY <1>10, <2>5, <2>6, <2>7, <2>8, <2>9
<1>16. Typed'
  BY <1>1, <1>2, <1>6, <1>7, <1>11, TypedKept
<1>17. Places'
  <2>1. t \notin ToSet(queue) \cup running \cup ToSet(finished)
    BY <1>1 DEF TaskInv, Places, Waiting
  <2>2. UNCHANGED pool
    BY <1>1
  <2>. QED  BY <1>2, <1>6, <1>7, <2>1, <2>2, PlacesKept
<1>. QED  BY <1>2, <1>3, <1>6, <1>7, <1>12, <1>13, <1>14, <1>15, <1>16, <1>17, MovesTaskInv

\* What stays when a step touches no rule and no copy.
LEMMA NothingMoved ==
  ASSUME TaskInv, NEW t \in Active, NEW q, q = task[t], UNCHANGED <<memory, nodes>>
  PROVE  /\ OtherRulesKept(q) /\ OtherCopiesKept(q)
         /\ \A ty, b : Named(ty, b, m_hash_table)' = Named(ty, b, m_hash_table)
         /\ <<q.type, q.bucket>> \notin misjudged => StageOK(q)
         /\ <<q.type, q.bucket>> \notin misjudged /\ q.type = "SU" =>
              \A n \in Named("SU", q.bucket, m_hash_table)' : <<n, q.bucket>> \in held'["SU"]
<1>1. m_hash_table' = m_hash_table /\ held' = held /\ serving' = serving
  BY DEF memory, nodes
<1>2. q.type \in Types /\ q.bucket \in Buckets
  BY ActiveRecord DEF TaskInv, Typed
<1>3. <<q.type, q.bucket>> \notin misjudged => StageOK(q)
  BY DEF TaskInv, Stages, Key
<1>4. <<q.type, q.bucket>> \notin misjudged /\ q.type = "SU" =>
        \A n \in Named("SU", q.bucket, m_hash_table)' : <<n, q.bucket>> \in held'["SU"]
  BY <1>1, <1>2 DEF TaskInv, NamedNodesHold, Named
<1>. QED  BY <1>1, <1>3, <1>4 DEF OtherRulesKept, OtherCopiesKept, Named

\* The pool takes the oldest result away.
LEMMA Answered ==
  ASSUME TaskInv, finished # <<>>, NEW t, t = Head(finished), Pool!Answer
  PROVE  /\ t \in Active /\ t \in DOMAIN task /\ t \in ToSet(finished)
         /\ t \notin ToSet(queue) \cup running \cup deleted
         /\ running' = running
         /\ finished' \in Seq(DOMAIN task) /\ IsInjective(finished')
         /\ ToSet(finished') = ToSet(finished) \ {t}
         /\ queue' = queue \/ deleted' = deleted
<1>1. finished \in Seq(DOMAIN task) /\ Places
  BY DEF TaskInv, Typed, TypeOK
<1>2. /\ t \in ToSet(finished) /\ Tail(finished) \in Seq(DOMAIN task)
      /\ IsInjective(Tail(finished)) /\ ToSet(Tail(finished)) = ToSet(finished) \ {t}
  BY <1>1, TailDistinct DEF Places
<1>3. t \in Active /\ t \in DOMAIN task
  BY <1>2, InFlightActive
<1>4. /\ finished' = Tail(finished) /\ running' = running
      /\ queue' = queue \/ deleted' = deleted
  BY DEF Pool!Answer
<1>. QED  BY <1>1, <1>2, <1>3, <1>4 DEF Places

LEMMA LoggedTaskInv ==
  ASSUME TaskInv, NEW t, after_log_operation(t)
  PROVE  TaskInv'
<1>1. /\ finished # <<>> /\ t = Head(finished) /\ Pool!Answer /\ UNCHANGED <<queue, deleted>>
      /\ task[t].phase = "log"
      /\ task' = [task EXCEPT ![t].phase = "dest", ![t].served = FALSE]
      /\ UNCHANGED <<memory, database, nodes, last_load, operator, misjudged, broken>>
  BY DEF after_log_operation
<1>2. /\ t \in Active /\ t \in DOMAIN task /\ t \in ToSet(finished)
      /\ t \notin ToSet(queue) \cup running \cup deleted
      /\ running' = running
      /\ finished' \in Seq(DOMAIN task) /\ IsInjective(finished')
      /\ ToSet(finished') = ToSet(finished) \ {t}
  BY <1>1, Answered
<1>3. PICK q : q = task[t]
  OBVIOUS
<1>4. q \in TaskRecord /\ TypeOK
  BY <1>2, <1>3, ActiveRecord DEF TaskInv, Typed
<1>5. PICK r : r = [q EXCEPT !.phase = "dest", !.served = FALSE]
  OBVIOUS
<1>6. /\ r \in TaskRecord /\ SameRequest(r, q)
      /\ r.phase = "dest" /\ r.served = FALSE /\ r.dest_ret = q.dest_ret /\ r.moved = q.moved
  BY <1>4, <1>5, AskRecord
<1>7. task' = [task EXCEPT ![t] = r]
  BY <1>1, <1>2, <1>3, <1>4, <1>5 DEF TypeOK
<1>8. /\ OtherRulesKept(q) /\ OtherCopiesKept(q)
      /\ \A ty, b : Named(ty, b, m_hash_table)' = Named(ty, b, m_hash_table)
      /\ <<q.type, q.bucket>> \notin misjudged => StageOK(q)
      /\ <<q.type, q.bucket>> \notin misjudged /\ q.type = "SU" =>
           \A n \in Named("SU", q.bucket, m_hash_table)' : <<n, q.bucket>> \in held'["SU"]
  BY <1>1, <1>2, <1>3, NothingMoved
<1>9. <<q.type, q.bucket>> \notin misjudged => StageOK(r)'
  BY <1>1, <1>3, <1>6, <1>8 DEF StageOK, SameRequest
<1>10. /\ task' \in Seq(TaskRecord \cup TaskResult) /\ Len(task') = Len(task)
       /\ DOMAIN task' = DOMAIN task /\ task'[t] = r
       /\ \A u \in DOMAIN task \ {t} : task'[u] = task[u]
  BY <1>2, <1>4, <1>6, <1>7, OneTask
<1>11. Typed'
  <2>1. UNCHANGED <<m_hash_table, m_order_table, m_current_version, db_rule, db_order,
                    held, serving, last_load, open, m_migrate_task, freed,
                    queue, deleted, misjudged, broken>>
    BY <1>1 DEF memory, database, nodes, operator
  <2>. QED  BY <1>2, <1>10, <2>1 DEF TaskInv, Typed, TypeOK
<1>12. Places'
  <2>1. \A u \in ToSet(queue') \cup running' \cup ToSet(finished') : task'[u] = task[u]
    BY <1>1, <1>2, <1>10, InFlightActive
  <2>. QED  BY <1>1, <1>2, <2>1 DEF TaskInv, Places
<1>13. UNCHANGED <<last_load, database, operator, misjudged, broken>>
  BY <1>1
<1>. QED  BY <1>2, <1>3, <1>6, <1>7, <1>8, <1>9, <1>11, <1>12, <1>13, MovesTaskInv

LEMMA CopiedTaskInv ==
  ASSUME TaskInv, NEW t \in DOMAIN task, NEW ok \in BOOLEAN, done_dest_migration(t, ok)
  PROVE  TaskInv'
<1>1. /\ task[t].phase = "dest" /\ (ok => task[t].served)
      /\ task' = [task EXCEPT ![t].phase = "db", ![t].served = FALSE, ![t].dest_ret = ok]
      /\ UNCHANGED <<memory, database, nodes, last_load, operator, misjudged, broken>>
  BY DEF done_dest_migration
<1>2. /\ queue' = Append(queue, t)
      /\ t \notin ToSet(queue) \cup running \cup ToSet(finished) \cup deleted
      /\ UNCHANGED <<running, finished, deleted>>
  BY DEF done_dest_migration, Pool!Submit, Pool!InFlight, Pool!ToSet, ToSet
<1>3. t \in Active /\ TypeOK
  BY <1>1 DEF Active, Done, TaskInv, Typed
<1>4. PICK q : q = task[t]
  OBVIOUS
<1>5. q \in TaskRecord
  BY <1>3, <1>4, ActiveRecord
<1>. DEFINE r == [q EXCEPT !.phase = "db", !.served = FALSE, !.dest_ret = ok]
<1>6. /\ r \in TaskRecord /\ SameRequest(r, q)
      /\ r.phase = "db" /\ r.dest_ret = ok /\ r.moved = q.moved
  <2>. DEFINE s == [q EXCEPT !.phase = "db", !.served = FALSE]
  <2>1. /\ s \in TaskRecord /\ SameRequest(s, q) /\ s.phase = "db" /\ s.moved = q.moved
    BY <1>5 DEF TaskRecord, SameRequest
  <2>2. r = [s EXCEPT !.dest_ret = ok]
    OBVIOUS
  <2>. HIDE DEF s, r
  <2>. QED  BY <2>1, <2>2 DEF TaskRecord, SameRequest
<1>7. task' = [task EXCEPT ![t] = r]
  BY <1>1, <1>3, <1>4 DEF TypeOK
<1>. HIDE DEF r
<1>8. /\ OtherRulesKept(q) /\ OtherCopiesKept(q)
      /\ \A ty, b : Named(ty, b, m_hash_table)' = Named(ty, b, m_hash_table)
      /\ <<q.type, q.bucket>> \notin misjudged => StageOK(q)
      /\ <<q.type, q.bucket>> \notin misjudged /\ q.type = "SU" =>
           \A n \in Named("SU", q.bucket, m_hash_table)' : <<n, q.bucket>> \in held'["SU"]
  BY <1>1, <1>3, <1>4, NothingMoved
<1>9. <<q.type, q.bucket>> \notin misjudged => StageOK(r)'
  <2>1. held' = held
    BY <1>1 DEF nodes
  <2>2. r.dest_ret => q.served
    <3>1. r.dest_ret => ok
      BY <1>6
    <3>. QED  BY <1>1, <1>4, <3>1
  <2>3. r.type = "SU" /\ r.dest_ret /\ StageOK(q) => <<r.dest, r.bucket>> \in held["SU"]
    <3>. SUFFICES ASSUME r.type = "SU", r.dest_ret, StageOK(q)
                  PROVE  <<r.dest, r.bucket>> \in held["SU"]
      OBVIOUS
    <3>1. q.phase = "dest" /\ q.type = "SU" /\ r.dest = q.dest /\ r.bucket = q.bucket
      BY <1>1, <1>4, <1>6 DEF SameRequest
    <3>2. q.served = TRUE
      BY <1>5, <2>2 DEF TaskRecord
    <3>3. <<q.dest, q.bucket>> \in held["SU"]
      BY <3>1, <3>2 DEF StageOK
    <3>. QED  BY <3>1, <3>3
  <2>. QED  BY <1>1, <1>4, <1>6, <1>8, <2>1, <2>3 DEF StageOK, SameRequest
<1>10. /\ task' \in Seq(TaskRecord \cup TaskResult) /\ Len(task') = Len(task)
       /\ DOMAIN task' = DOMAIN task /\ task'[t] = r
       /\ \A u \in DOMAIN task \ {t} : task'[u] = task[u]
  BY <1>3, <1>6, <1>7, OneTask
<1>11. queue \in Seq(DOMAIN task) /\ Places
  BY DEF TaskInv, Typed, TypeOK
<1>12. queue' \in Seq(DOMAIN task) /\ ToSet(queue') = ToSet(queue) \cup {t}
  BY <1>2, <1>11, AppendElements
<1>13. IsInjective(queue')
  <2>1. IsInjective(queue) /\ t \notin ToSet(queue)
    BY <1>2, <1>11 DEF Places
  <2>. QED  BY <1>2, <1>11, <2>1, AppendDistinct
<1>14. Typed'
  <2>1. UNCHANGED <<m_hash_table, m_order_table, m_current_version, db_rule, db_order,
                    held, serving, last_load, open, m_migrate_task, freed,
                    running, finished, deleted, misjudged, broken>>
    BY <1>1, <1>2 DEF memory, database, nodes, operator
  <2>. QED  BY <1>12, <1>10, <2>1 DEF TaskInv, Typed, TypeOK
<1>15. Places'
  <2>1. \A u \in ToSet(queue) \cup running \cup ToSet(finished) : task'[u] = task[u]
    BY <1>2, <1>10, InFlightActive
  <2>. QED  BY <1>2, <1>6, <1>10, <1>11, <1>12, <1>13, <2>1 DEF Places
<1>16. UNCHANGED <<last_load, database, operator, misjudged, broken>>
  BY <1>1
<1>. QED  BY <1>3, <1>4, <1>6, <1>7, <1>8, <1>9, <1>14, <1>15, <1>16, MovesTaskInv

\* A task ends with an answer of a node.
LEMMA QuietEnd ==
  ASSUME TaskInv, NEW t \in Active, task[t].phase \in Waiting, NEW ret \in BOOLEAN,
         do_callback(t, ret),
         UNCHANGED <<memory, database, nodes, last_load, pool, misjudged, broken>>
  PROVE  TaskInv'
<1>1. PICK q : q = task[t]
  OBVIOUS
<1>2. UNCHANGED <<m_hash_table, m_order_table, m_current_version,
                  queue, running, finished, deleted>>
  BY DEF memory, pool
<1>3. UNCHANGED <<last_load, database, nodes, misjudged, broken>>
  OBVIOUS
<1>4. /\ TypeOK => /\ m_hash_table' \in [Types -> [Buckets -> Seq(Nodes)]]
                   /\ m_current_version' \in [Types -> Nat]
      /\ m_order_table' = [ty \in {"MU", "SU"} |-> m_order_table'[ty]]
      /\ \A ty \in Types : /\ m_order_table'[ty] = [v \in DOMAIN m_order_table'[ty] |->
                                                      m_order_table'[ty][v]]
                           /\ \A v \in DOMAIN m_order_table'[ty] :
                                v \in Nat \ {0} /\ m_order_table'[ty][v] \in OrderRecord
  BY <1>2 DEF TaskInv, Typed, TypeOK
<1>5. /\ queue' \in Seq(DOMAIN task) /\ finished' \in Seq(DOMAIN task)
      /\ running' \subseteq DOMAIN task
  BY <1>2 DEF TaskInv, Typed, TypeOK
<1>6. /\ IsInjective(queue') /\ IsInjective(finished')
      /\ ToSet(queue') \cap running' = {} /\ ToSet(queue') \cap ToSet(finished') = {}
      /\ running' \cap ToSet(finished') = {}
      /\ deleted' \cap (ToSet(queue') \cup running' \cup ToSet(finished')) = {}
  BY <1>2 DEF TaskInv, Places
<1>7. ToSet(queue') \cup running' \cup ToSet(finished')
        \subseteq (ToSet(queue) \cup running \cup ToSet(finished)) \ {t}
  BY <1>2 DEF TaskInv, Places, Waiting
<1>8. OtherRulesKept(q)
  BY <1>2 DEF OtherRulesKept
<1>9. <<q.type, q.bucket>> \notin misjudged /\ q.type = "SU" =>
        m_hash_table'["SU"][q.bucket] = m_hash_table["SU"][q.bucket]
  BY <1>2
<1>. QED  BY <1>1, <1>3, <1>4, <1>5, <1>6, <1>7, <1>8, <1>9, EndsTaskInv

\* A task goes on with another request to a node.
LEMMA QuietMove ==
  ASSUME TaskInv, NEW t \in Active, NEW q, q = task[t], q.phase \in Waiting,
         NEW r \in TaskRecord, SameRequest(r, q), task' = [task EXCEPT ![t] = r],
         UNCHANGED <<memory, database, nodes, last_load, operator, pool, misjudged, broken>>,
         <<q.type, q.bucket>> \notin misjudged => StageOK(r)'
  PROVE  TaskInv'
<1>1. /\ OtherRulesKept(q) /\ OtherCopiesKept(q)
      /\ <<q.type, q.bucket>> \notin misjudged /\ q.type = "SU" =>
           \A n \in Named("SU", q.bucket, m_hash_table)' : <<n, q.bucket>> \in held'["SU"]
  <2>1. UNCHANGED <<memory, nodes>>
    OBVIOUS
  <2>. QED  BY <2>1, NothingMoved
<1>2. Typed'
  <2>1. /\ held' \in [Types -> SUBSET (Nodes \X Buckets)]
        /\ serving' \in [Types -> SUBSET (Nodes \X Buckets)]
    BY DEF TaskInv, Typed, TypeOK, nodes
  <2>2. UNCHANGED <<memory, database, last_load, operator, pool, misjudged, broken>>
    OBVIOUS
  <2>. QED  BY <2>1, <2>2, TypedKept
<1>3. Places'
  <2>1. t \notin ToSet(queue) \cup running \cup ToSet(finished)
    BY DEF TaskInv, Places, Waiting
  <2>2. UNCHANGED pool
    OBVIOUS
  <2>. QED  BY <2>1, <2>2, PlacesKept
<1>4. UNCHANGED <<last_load, database, operator, misjudged, broken>>
  OBVIOUS
<1>. QED  BY <1>1, <1>2, <1>3, <1>4, MovesTaskInv

LEMMA DeletedTaskInv ==
  ASSUME TaskInv, NEW t \in DOMAIN task, NEW ok \in BOOLEAN, done_del_bucket(t, ok)
  PROVE  TaskInv'
<1>1. /\ task[t].phase = "del" /\ (ok => task[t].served)
      /\ UNCHANGED <<memory, database, nodes, last_load, pool, misjudged, broken>>
      /\ \/ /\ task[t].moved /\ ok /\ UNCHANGED operator
            /\ task' = [task EXCEPT ![t].phase = "recover", ![t].served = FALSE]
         \/ do_callback(t, FALSE)
  BY DEF done_del_bucket
<1>2. t \in Active /\ TypeOK /\ task[t].phase \in Waiting
  BY <1>1 DEF Active, Done, TaskInv, Typed, Waiting
<1>3. CASE do_callback(t, FALSE)
  BY <1>1, <1>2, <1>3, QuietEnd
<1>4. CASE ~do_callback(t, FALSE)
  <2>1. PICK q : q = task[t]
    OBVIOUS
  <2>2. q \in TaskRecord /\ q.phase = "del"
    BY <1>1, <1>2, <2>1, ActiveRecord
  <2>3. q.moved /\ q.served
    <3>1. task[t].moved /\ ok
      BY <1>1, <1>4
    <3>. QED  BY <1>1, <2>1, <3>1
  <2>4. PICK r : r = [q EXCEPT !.phase = "recover", !.served = FALSE]
    OBVIOUS
  <2>5. /\ r \in TaskRecord /\ SameRequest(r, q)
        /\ r.phase = "recover" /\ r.served = FALSE /\ r.moved = q.moved
    BY <2>2, <2>4, AskRecord
  <2>6. task' = [task EXCEPT ![t] = r] /\ UNCHANGED operator
    BY <1>1, <1>2, <1>4, <2>1, <2>4 DEF TypeOK
  <2>7. <<q.type, q.bucket>> \notin misjudged => StageOK(r)'
    <3>. SUFFICES ASSUME <<q.type, q.bucket>> \notin misjudged PROVE StageOK(r)'
      OBVIOUS
    <3>1. StageOK(q) /\ \A ty, b : Named(ty, b, m_hash_table)' = Named(ty, b, m_hash_table)
      <4>1. UNCHANGED <<memory, nodes>>
        BY <1>1
      <4>. QED  BY <1>2, <2>1, <4>1, NothingMoved
    <3>2. /\ r.type = q.type /\ r.bucket = q.bucket /\ r.src = q.src /\ r.dest = q.dest
      BY <2>5 DEF SameRequest
    <3>3. /\ q.type = "SU" /\ q.src \notin Named(q.type, q.bucket, m_hash_table)
          /\ q.dest \in Named(q.type, q.bucket, m_hash_table)
          /\ <<q.src, q.bucket>> \notin held["SU"]
      BY <2>2, <2>3, <3>1 DEF StageOK
    <3>4. held' = held
      BY <1>1 DEF nodes
    <3>5. r.moved
      BY <2>3, <2>5
    <3>. QED  BY <2>5, <3>1, <3>2, <3>3, <3>4, <3>5 DEF StageOK
  <2>8. UNCHANGED <<memory, database, nodes, last_load, operator, pool, misjudged, broken>>
    BY <1>1, <2>6
  <2>. QED  BY <1>1, <1>2, <2>1, <2>5, <2>6, <2>7, <2>8, QuietMove
<1>. QED  BY <1>3, <1>4

LEMMA RecoveredTaskInv ==
  ASSUME TaskInv, NEW t \in DOMAIN task, NEW ok \in BOOLEAN, after_set_recovery(t, ok)
  PROVE  TaskInv'
<1>1. /\ task[t].phase = "recover"
      /\ UNCHANGED <<memory, database, nodes, last_load, pool, misjudged, broken>>
      /\ \/ do_callback(t, TRUE)
         \/ do_callback(t, FALSE)
         \/ /\ task[t].retry + 1 < RetryTime /\ UNCHANGED operator
            /\ task' = [task EXCEPT ![t].served = FALSE, ![t].retry = task[t].retry + 1]
  BY DEF after_set_recovery
<1>2. t \in Active /\ TypeOK /\ task[t].phase \in Waiting
  BY <1>1 DEF Active, Done, TaskInv, Typed, Waiting
<1>3. CASE do_callback(t, TRUE) \/ do_callback(t, FALSE)
  BY <1>1, <1>2, <1>3, QuietEnd
<1>4. CASE ~(do_callback(t, TRUE) \/ do_callback(t, FALSE))
  <2>1. PICK q : q = task[t]
    OBVIOUS
  <2>2. q \in TaskRecord /\ q.phase = "recover"
    BY <1>1, <1>2, <2>1, ActiveRecord
  <2>3. PICK k : k = q.retry + 1
    OBVIOUS
  <2>4. k \in 0..RetryTime + 1
    <3>1. q.retry \in 0..RetryTime + 1
      BY <2>2 DEF TaskRecord
    <3>2. q.retry + 1 < RetryTime
      BY <1>1, <1>4, <2>1
    <3>3. RetryTime \in Nat
      BY MigrationAssumption
    <3>. QED  BY <2>3, <3>1, <3>2, <3>3
  <2>5. PICK r : r = [q EXCEPT !.served = FALSE, !.retry = k]
    OBVIOUS
  <2>6. /\ r \in TaskRecord /\ SameRequest(r, q)
        /\ r.phase = "recover" /\ r.served = FALSE /\ r.moved = q.moved
    BY <2>2, <2>4, <2>5, AgainRecord
  <2>7. task' = [task EXCEPT ![t] = r] /\ UNCHANGED operator
    BY <1>1, <1>2, <1>4, <2>1, <2>3, <2>5 DEF TypeOK
  <2>8. <<q.type, q.bucket>> \notin misjudged => StageOK(r)'
    <3>. SUFFICES ASSUME <<q.type, q.bucket>> \notin misjudged PROVE StageOK(r)'
      OBVIOUS
    <3>1. StageOK(q) /\ \A ty, b : Named(ty, b, m_hash_table)' = Named(ty, b, m_hash_table)
      <4>1. UNCHANGED <<memory, nodes>>
        BY <1>1
      <4>. QED  BY <1>2, <2>1, <4>1, NothingMoved
    <3>2. /\ r.type = q.type /\ r.bucket = q.bucket /\ r.src = q.src /\ r.dest = q.dest
      BY <2>6 DEF SameRequest
    <3>3. q.moved
      BY <2>2, <3>1 DEF StageOK
    <3>4. /\ q.type = "SU" /\ q.src \notin Named(q.type, q.bucket, m_hash_table)
          /\ q.dest \in Named(q.type, q.bucket, m_hash_table)
          /\ <<q.src, q.bucket>> \notin held["SU"]
      BY <2>2, <3>1, <3>3 DEF StageOK
    <3>5. held' = held
      BY <1>1 DEF nodes
    <3>6. r.moved
      BY <2>6, <3>3
    <3>. QED  BY <2>6, <3>1, <3>2, <3>4, <3>5, <3>6 DEF StageOK
  <2>9. UNCHANGED <<memory, database, nodes, last_load, operator, pool, misjudged, broken>>
    BY <1>1, <2>7
  <2>. QED  BY <1>1, <1>2, <2>1, <2>6, <2>7, <2>8, <2>9, QuietMove
<1>. QED  BY <1>3, <1>4

\* What is true of the rules in memory after a step.
MemoryTypes ==
  /\ m_hash_table \in [Types -> [Buckets -> Seq(Nodes)]]
  /\ m_current_version \in [Types -> Nat]
  /\ m_order_table = [ty \in {"MU", "SU"} |-> m_order_table[ty]]
  /\ \A ty \in Types : /\ m_order_table[ty] = [v \in DOMAIN m_order_table[ty] |->
                                                  m_order_table[ty][v]]
                       /\ \A v \in DOMAIN m_order_table[ty] :
                            v \in Nat \ {0} /\ m_order_table[ty][v] \in OrderRecord

LEMMA NewOrder ==
  ASSUME TaskInv, NEW t \in Active, NEW q, q = task[t], new_migration_order(t)
  PROVE  /\ MemoryTypes' /\ OtherRulesKept(q)
         /\ (/\ q.src \in Named(q.type, q.bucket, m_hash_table)
             /\ q.dest \notin Named(q.type, q.bucket, m_hash_table)) =>
              Named(q.type, q.bucket, m_hash_table)'
                = (Named(q.type, q.bucket, m_hash_table) \ {q.src}) \cup {q.dest}
<1>1. /\ q \in TaskRecord /\ q.type \in Types /\ q.bucket \in Buckets /\ q.src \in Nodes
      /\ q.dest \in Nodes
  BY ActiveRecord DEF TaskInv, Typed
<1>2. MemoryTypes
  BY DEF TaskInv, Typed, TypeOK, MemoryTypes
<1>3. PICK rule \in Seq(Nodes) : rule = m_hash_table[q.type][q.bucket]
  BY <1>1, <1>2 DEF MemoryTypes
<1>4. CASE q.src \notin ToSet(rule)
  <2>1. UNCHANGED <<m_hash_table, m_order_table, m_current_version>>
    BY <1>3, <1>4 DEF new_migration_order, memory
  <2>2. MemoryTypes'
    BY <1>2, <2>1 DEF MemoryTypes
  <2>3. OtherRulesKept(q)
    BY <2>1 DEF OtherRulesKept
  <2>4. q.src \notin Named(q.type, q.bucket, m_hash_table)
    BY <1>3, <1>4 DEF Named
  <2>. QED  BY <2>2, <2>3, <2>4
<1>5. CASE q.src \in ToSet(rule)
  <2>1. PICK version : version = m_current_version[q.type] + 1
    OBVIOUS
  <2>2. PICK order : order = Order(t)
    OBVIOUS
  <2>3. PICK new : new = modify_rule_by_migration(rule, q.src, q.dest)
    OBVIOUS
  <2>4. PICK orders : orders = [v \in DOMAIN m_order_table["MU"] \cup {version} |->
                                 IF v = version THEN order ELSE m_order_table["MU"][v]]
    OBVIOUS
  <2>5. /\ m_hash_table' = [m_hash_table EXCEPT ![q.type][q.bucket] = new]
        /\ m_order_table' = [m_order_table EXCEPT !["MU"] = orders]
        /\ m_current_version' = [m_current_version EXCEPT ![q.type] = version]
    BY <1>3, <1>5, <2>1, <2>2, <2>3, <2>4 DEF new_migration_order
  <2>6. version \in Nat \ {0} /\ order \in OrderRecord
    <3>1. m_current_version[q.type] \in Nat
      BY <1>1, <1>2 DEF MemoryTypes
    <3>2. order \in OrderRecord
      BY <1>1, <2>2 DEF Order, OrderRecord
    <3>. QED  BY <2>1, <3>1, <3>2
  <2>7. new \in Seq(Nodes)
    BY <1>1, <2>3, ModifiedRule
  <2>8. m_hash_table' \in [Types -> [Buckets -> Seq(Nodes)]] /\ m_current_version' \in [Types -> Nat]
    BY <1>1, <1>2, <2>5, <2>6, <2>7 DEF MemoryTypes
  <2>9. /\ orders = [v \in DOMAIN orders |-> orders[v]]
        /\ DOMAIN orders = DOMAIN m_order_table["MU"] \cup {version}
        /\ orders[version] = order
        /\ \A v \in DOMAIN m_order_table["MU"] \ {version} : orders[v] = m_order_table["MU"][v]
    BY <2>4
  <2>10. /\ m_order_table' = [ty \in {"MU", "SU"} |-> m_order_table'[ty]]
         /\ m_order_table'["MU"] = orders /\ m_order_table'["SU"] = m_order_table["SU"]
    BY <1>2, <2>5 DEF MemoryTypes
  <2>11. \A ty \in Types :
           /\ m_order_table'[ty] = [v \in DOMAIN m_order_table'[ty] |-> m_order_table'[ty][v]]
           /\ \A v \in DOMAIN m_order_table'[ty] :
                v \in Nat \ {0} /\ m_order_table'[ty][v] \in OrderRecord
    <3>. SUFFICES ASSUME NEW ty \in Types
                  PROVE  /\ m_order_table'[ty] = [v \in DOMAIN m_order_table'[ty] |->
                                                   m_order_table'[ty][v]]
                         /\ \A v \in DOMAIN m_order_table'[ty] :
                              v \in Nat \ {0} /\ m_order_table'[ty][v] \in OrderRecord
      OBVIOUS
    <3>1. ty \in {"MU", "SU"}
      BY MigrationAssumption
    <3>2. CASE ty = "SU"
      BY <1>2, <2>10, <3>2 DEF MemoryTypes
    <3>3. CASE ty = "MU"
      <4>1. \A v \in DOMAIN m_order_table["MU"] :
               v \in Nat \ {0} /\ m_order_table["MU"][v] \in OrderRecord
        BY <1>2, <3>3 DEF MemoryTypes
      <4>. QED  BY <2>6, <2>9, <2>10, <3>3, <4>1
    <3>. QED  BY <3>1, <3>2, <3>3
  <2>12. MemoryTypes'
    BY <2>8, <2>10, <2>11 DEF MemoryTypes
  <2>13. OtherRulesKept(q)
    BY <1>1, <1>2, <2>5 DEF OtherRulesKept, MemoryTypes
  <2>14. m_hash_table'[q.type][q.bucket] = new
    BY <1>1, <1>2, <2>5 DEF MemoryTypes
  <2>15. q.dest \notin ToSet(rule) => ToSet(new) = (ToSet(rule) \ {q.src}) \cup {q.dest}
    <3>1. PICK src \in Nodes : src = q.src
      BY <1>1
    <3>2. PICK dest \in Nodes : dest = q.dest
      BY <1>1
    <3>3. new = modify_rule_by_migration(rule, src, dest)
      BY <2>3, <3>1, <3>2
    <3>4. src \in ToSet(rule) /\ dest \notin ToSet(rule) =>
            ToSet(modify_rule_by_migration(rule, src, dest)) = (ToSet(rule) \ {src}) \cup {dest}
      BY ModifiedRule
    <3>. QED  BY <1>5, <3>1, <3>2, <3>3, <3>4
  <2>. QED  BY <1>3, <2>12, <2>13, <2>14, <2>15 DEF Named
<1>. QED  BY <1>4, <1>5

LEMMA WrittenTaskInv ==
  ASSUME TaskInv, NEW t, after_update_db(t)
  PROVE  TaskInv'
<1>1. /\ finished # <<>> /\ t = Head(finished) /\ Pool!Answer
      /\ deleted' = deleted \cup {t} /\ task[t].phase = "db"
      /\ UNCHANGED <<database, nodes, last_load, misjudged, broken>>
  BY DEF after_update_db
<1>2. /\ t \in Active /\ t \in DOMAIN task /\ t \in ToSet(finished)
      /\ t \notin ToSet(queue) \cup running \cup deleted
      /\ running' = running
      /\ finished' \in Seq(DOMAIN task) /\ IsInjective(finished')
      /\ ToSet(finished') = ToSet(finished) \ {t}
      /\ queue' = queue \/ deleted' = deleted
  BY <1>1, Answered
<1>3. queue' = queue
  BY <1>1, <1>2
<1>4. PICK q : q = task[t]
  OBVIOUS
<1>5. /\ q \in TaskRecord /\ TypeOK /\ q.type \in Types /\ q.bucket \in Buckets
      /\ q.phase = "db" /\ q.dest_ret \in BOOLEAN /\ q.m_exec_result \in BOOLEAN
  <2>1. q \in TaskRecord /\ TypeOK /\ q.type \in Types /\ q.bucket \in Buckets
    BY <1>2, <1>4, ActiveRecord DEF TaskInv, Typed
  <2>. QED  BY <1>1, <1>4, <2>1 DEF TaskRecord
<1>6. (q.dest_ret /\ q.m_exec_result /\ new_migration_order(t))
      \/ (~(q.dest_ret /\ q.m_exec_result) /\ UNCHANGED memory)
  BY <1>4 DEF after_update_db
<1>7. MemoryTypes' /\ OtherRulesKept(q)
  <2>1. CASE new_migration_order(t)
    BY <1>2, <1>4, <2>1, NewOrder
  <2>2. CASE UNCHANGED memory
    <3>1. MemoryTypes
      BY DEF TaskInv, Typed, TypeOK, MemoryTypes
    <3>. QED  BY <2>2, <3>1 DEF MemoryTypes, memory, OtherRulesKept
  <2>. QED  BY <1>6, <2>1, <2>2
<1>8. /\ Places /\ queue \in Seq(DOMAIN task) /\ running \subseteq DOMAIN task
  BY DEF TaskInv, Typed, TypeOK
<1>9. /\ queue' \in Seq(DOMAIN task) /\ running' \subseteq DOMAIN task
      /\ IsInjective(queue')
      /\ ToSet(queue') \cap running' = {} /\ ToSet(queue') \cap ToSet(finished') = {}
      /\ running' \cap ToSet(finished') = {}
      /\ deleted' \cap (ToSet(queue') \cup running' \cup ToSet(finished')) = {}
      /\ ToSet(queue') \cup running' \cup ToSet(finished')
           \subseteq (ToSet(queue) \cup running \cup ToSet(finished)) \ {t}
  BY <1>1, <1>2, <1>3, <1>8 DEF Places
<1>10. <<q.type, q.bucket>> \notin misjudged => StageOK(q)
  BY <1>2, <1>4 DEF TaskInv, Stages, Key
<1>11. CASE ~(q.dest_ret /\ q.type = "SU")
  <2>1. PICK ret \in BOOLEAN : do_callback(t, ret)
    <3>1. do_callback(t, q.dest_ret /\ q.m_exec_result)
      BY <1>4, <1>11 DEF after_update_db
    <3>. QED  BY <3>1
  <2>2. <<q.type, q.bucket>> \notin misjudged /\ q.type = "SU" =>
          m_hash_table'["SU"][q.bucket] = m_hash_table["SU"][q.bucket]
    BY <1>6, <1>11 DEF memory
  <2>3. UNCHANGED <<last_load, database, nodes, misjudged, broken>>
    BY <1>1
  <2>4. /\ TypeOK => /\ m_hash_table' \in [Types -> [Buckets -> Seq(Nodes)]]
                     /\ m_current_version' \in [Types -> Nat]
        /\ m_order_table' = [ty \in {"MU", "SU"} |-> m_order_table'[ty]]
        /\ \A ty \in Types : /\ m_order_table'[ty] = [v \in DOMAIN m_order_table'[ty] |->
                                                        m_order_table'[ty][v]]
                             /\ \A v \in DOMAIN m_order_table'[ty] :
                                  v \in Nat \ {0} /\ m_order_table'[ty][v] \in OrderRecord
    BY <1>7 DEF MemoryTypes
  <2>. QED  BY <1>2, <1>4, <1>7, <1>9, <2>1, <2>2, <2>3, <2>4, EndsTaskInv
<1>12. CASE q.dest_ret /\ q.type = "SU"
  <2>. DEFINE r == [q EXCEPT !.phase = "del", !.moved = q.m_exec_result, !.served = FALSE]
  <2>1. task' = [task EXCEPT ![t] = r] /\ UNCHANGED operator
    BY <1>4, <1>12 DEF after_update_db
  <2>2. /\ r \in TaskRecord /\ SameRequest(r, q)
        /\ r.phase = "del" /\ r.dest_ret = q.dest_ret /\ r.moved = q.m_exec_result
        /\ r.served = FALSE
    <3>. DEFINE s == [q EXCEPT !.phase = "del", !.moved = q.m_exec_result]
    <3>1. /\ s \in TaskRecord /\ SameRequest(s, q) /\ s.phase = "del" /\ s.dest_ret = q.dest_ret
          /\ s.moved = q.m_exec_result
      BY <1>5 DEF TaskRecord, SameRequest, Waiting
    <3>2. r = [s EXCEPT !.served = FALSE]
      OBVIOUS
    <3>. HIDE DEF s, r
    <3>. QED  BY <3>1, <3>2 DEF TaskRecord, SameRequest
  <2>. HIDE DEF r
  <2>3. /\ task' \in Seq(TaskRecord \cup TaskResult) /\ Len(task') = Len(task)
        /\ DOMAIN task' = DOMAIN task /\ task'[t] = r
        /\ \A u \in DOMAIN task \ {t} : task'[u] = task[u]
    BY <1>2, <1>5, <2>1, <2>2, OneTask
  <2>4. UNCHANGED <<db_rule, db_order, held, serving, last_load, open, m_migrate_task, freed,
                    misjudged, broken>>
    BY <1>1, <2>1 DEF database, nodes, operator
  <2>5. Typed'
    <3>1. TypeOK'
      BY <1>2, <1>5, <1>7, <1>9, <2>3, <2>4 DEF TypeOK, MemoryTypes
    <3>. QED  BY <1>7, <3>1 DEF Typed, MemoryTypes
  <2>6. Places'
    <3>1. \A u \in ToSet(queue') \cup running' \cup ToSet(finished') : task'[u] = task[u]
      BY <1>9, <2>3, InFlightActive
    <3>. QED  BY <1>2, <1>8, <1>9, <3>1 DEF Places
  <2>7. OtherCopiesKept(q)
    BY <2>4 DEF OtherCopiesKept
  <2>8. /\ r.type = "SU" /\ r.bucket = q.bucket /\ r.src = q.src /\ r.dest = q.dest
    BY <1>12, <2>2 DEF SameRequest
  <2>9. ASSUME <<q.type, q.bucket>> \notin misjudged
        PROVE  /\ StageOK(r)'
               /\ \A n \in Named("SU", q.bucket, m_hash_table)' : <<n, q.bucket>> \in held'["SU"]
    <3>1. /\ q.src \in Named("SU", q.bucket, m_hash_table)
          /\ q.dest \notin Named("SU", q.bucket, m_hash_table)
          /\ <<q.dest, q.bucket>> \in held["SU"]
      BY <1>5, <1>10, <1>12, <2>9 DEF StageOK
    <3>2. \A n \in Named("SU", q.bucket, m_hash_table) : <<n, q.bucket>> \in held["SU"]
      BY <1>5, <1>12, <2>9 DEF TaskInv, NamedNodesHold
    <3>3. CASE q.m_exec_result
      <4>1. Named("SU", q.bucket, m_hash_table)'
              = (Named("SU", q.bucket, m_hash_table) \ {q.src}) \cup {q.dest}
        <5>1. new_migration_order(t)
          BY <1>6, <1>12, <3>3
        <5>2. /\ (/\ q.src \in Named(q.type, q.bucket, m_hash_table)
                  /\ q.dest \notin Named(q.type, q.bucket, m_hash_table)) =>
                    Named(q.type, q.bucket, m_hash_table)'
                    = (Named(q.type, q.bucket, m_hash_table) \ {q.src}) \cup {q.dest}
          BY <1>2, <1>4, <5>1, NewOrder
        <5>. QED  BY <1>12, <3>1, <5>2
      <4>2. r.moved
        BY <2>2, <3>3
      <4>. QED  BY <2>2, <2>4, <2>8, <3>1, <3>2, <4>1, <4>2 DEF StageOK
    <3>4. CASE ~q.m_exec_result
      <4>1. Named("SU", q.bucket, m_hash_table)' = Named("SU", q.bucket, m_hash_table)
        BY <1>6, <3>4 DEF Named, memory
      <4>2. ~r.moved
        BY <2>2, <3>4
      <4>. QED  BY <2>2, <2>4, <2>8, <3>1, <3>2, <4>1, <4>2 DEF StageOK
    <3>. QED  BY <3>3, <3>4
  <2>10. UNCHANGED <<last_load, database, operator, misjudged, broken>>
    BY <1>1, <2>1
  <2>. QED  BY <1>2, <1>4, <1>7, <1>12, <2>1, <2>2, <2>5, <2>6, <2>7, <2>9, <2>10, MovesTaskInv
<1>. QED  BY <1>11, <1>12

-----------------------------------------------------------------------------
(* The invariant of the tasks is inductive.                                *)

LEMMA InitTaskInv == Init => TaskInv
<1>. SUFFICES ASSUME Init PROVE TaskInv
  OBVIOUS
<1>1. /\ m_hash_table = [ty \in Types |-> FirstRule]
      /\ m_order_table = [ty \in {"MU", "SU"} |-> <<>>]
      /\ m_current_version = [ty \in Types |-> 0]
      /\ db_rule = m_hash_table /\ db_order = [ty \in Types |-> <<>>]
      /\ task = <<>> /\ open = Agents /\ m_migrate_task = [a \in Agents |-> NoTask]
      /\ freed = {} /\ misjudged = {} /\ broken = {}
  BY DEF Init
<1>2. /\ queue = <<>> /\ running = {} /\ finished = <<>> /\ deleted = {}
  BY DEF Init, Pool!Init
<1>3. /\ held \in [Types -> SUBSET (Nodes \X Buckets)]
      /\ serving = held /\ last_load = held
      /\ \A ty \in Types : held[ty] = {p \in Nodes \X Buckets : p[1] \in ToSet(FirstRule[p[2]])}
  BY DEF Init
<1>4. DOMAIN task = {} /\ Active = {} /\ ToSet(queue) = {} /\ ToSet(finished) = {}
  BY <1>1, <1>2 DEF Active, ToSet
<1>5. FirstRule \in [Buckets -> Seq(Nodes)] /\ MaxTasks \in Nat
  BY MigrationAssumption
<1>6. \A ty \in {"MU", "SU"} : /\ m_order_table[ty] = <<>> /\ DOMAIN m_order_table[ty] = {}
                               /\ m_order_table[ty] = [v \in DOMAIN m_order_table[ty] |->
                                                         m_order_table[ty][v]]
  BY <1>1
<1>7. Types \subseteq {"MU", "SU"}
  BY MigrationAssumption
<1>8. TypeOK
  BY <1>1, <1>2, <1>3, <1>4, <1>5, <1>6, <1>7 DEF TypeOK
<1>9. Typed
  BY <1>1, <1>6, <1>7, <1>8 DEF Typed
<1>10. Places
  BY <1>2, <1>4 DEF Places, IsInjective
<1>11. NamedNodesHold
  <2>. SUFFICES ASSUME "SU" \in Types, NEW b \in Buckets, NEW n \in Named("SU", b, m_hash_table)
                PROVE  <<n, b>> \in held["SU"]
    BY DEF NamedNodesHold
  <2>1. n \in ToSet(FirstRule[b]) /\ FirstRule[b] \in Seq(Nodes)
    BY <1>1, <1>5 DEF Named
  <2>2. n \in Nodes
    BY <2>1 DEF ToSet
  <2>. QED  BY <1>3, <2>1, <2>2
<1>12. Alone /\ Stages /\ Remembered /\ (OneAtATime => FreedWhenDone)
  BY <1>1, <1>4 DEF Alone, Stages, Remembered, FreedWhenDone
<1>. QED  BY <1>9, <1>10, <1>11, <1>12 DEF TaskInv

LEMMA NextTaskInv == TaskInv /\ [Next]_vars => TaskInv'
<1>. SUFFICES ASSUME TaskInv, [Next]_vars PROVE TaskInv'
  OBVIOUS
<1>1. ASSUME NEW a \in Agents, CloseAgent(a) PROVE TaskInv'
  BY <1>1, CloseTaskInv
<1>2. ASSUME NEW a \in Agents, NEW ty \in Types, NEW b \in Buckets, NEW src \in Nodes,
             NEW dest \in Nodes, do_migrate_bucket(a, ty, b, src, dest)
      PROVE  TaskInv'
  BY <1>2, NewTaskInv
<1>3. ASSUME NEW ty \in Types, NEW n \in Nodes, update_last_bucket_load(ty, n) PROVE TaskInv'
  BY <1>3, LoadTaskInv
<1>4. CASE StartItem
  BY <1>4, StartTaskInv
<1>5. ASSUME NEW t \in DOMAIN task, Serve(t) PROVE TaskInv'
  BY <1>5, ServeTaskInv
<1>6. ASSUME NEW t \in DOMAIN task, NodeAnswers(t) PROVE TaskInv'
  <2>1. PICK ok \in BOOLEAN : \/ done_dest_migration(t, ok) \/ done_del_bucket(t, ok)
                              \/ after_set_recovery(t, ok)
    BY <1>6 DEF NodeAnswers
  <2>2. CASE done_dest_migration(t, ok)
    BY <2>2, CopiedTaskInv
  <2>3. CASE done_del_bucket(t, ok)
    BY <2>3, DeletedTaskInv
  <2>4. CASE after_set_recovery(t, ok)
    BY <2>4, RecoveredTaskInv
  <2>. QED  BY <2>1, <2>2, <2>3, <2>4
<1>7. ASSUME NEW t \in DOMAIN task, Worker(t) PROVE TaskInv'
  <2>1. t \in running
    BY <1>7 DEF Worker, Connect, RecordFailure, SelectRule, UpdateRule, InsertOrder,
                PostItem, Pool!Finish
  <2>2. CASE PostItem(t)
    BY <2>1, <2>2, PostTaskInv
  <2>3. CASE ~PostItem(t)
    BY <1>7, <2>1, <2>3, WorkerTaskInv DEF Worker
  <2>. QED  BY <2>2, <2>3
<1>8. ASSUME NEW t \in DOMAIN task, Callbacks(t) PROVE TaskInv'
  BY <1>8, LoggedTaskInv, WrittenTaskInv DEF Callbacks
<1>9. CASE UNCHANGED vars
  <2>1. UNCHANGED <<m_hash_table, m_order_table, m_current_version, db_rule, db_order,
                    held, serving, last_load, task, open, m_migrate_task, freed,
                    queue, running, finished, deleted, misjudged, broken>>
    BY <1>9 DEF vars, memory, database, nodes, operator, pool
  <2>2. Typed'
    BY <2>1 DEF TaskInv, Typed, TypeOK
  <2>3. Places' /\ Alone' /\ NamedNodesHold' /\ Remembered' /\ (OneAtATime => FreedWhenDone)'
    BY <2>1 DEF TaskInv, Places, Alone, Active, Key, NamedNodesHold, Named, Remembered,
                FreedWhenDone
  <2>4. Stages'
    BY <2>1 DEF TaskInv, Stages, Active, Key, StageOK, Named
  <2>. QED  BY <2>2, <2>3, <2>4 DEF TaskInv
<1>. QED  BY <1>1, <1>2, <1>3, <1>4, <1>5, <1>6, <1>7, <1>8, <1>9 DEF Next, Progress

\* The invariant of the tasks holds in every reachable state.
THEOREM MigrationTasks == Spec => []TaskInv
<1>. QED  BY InitTaskInv, NextTaskInv, PTL DEF Spec

\* Type correctness, for any number of tasks, nodes, buckets and operators.
THEOREM MigrationTypes == Spec => []TypeOK
<1>1. TaskInv => TypeOK
  BY DEF TaskInv, Typed
<1>. QED  BY <1>1, MigrationTasks, PTL

\* No bucket is lost: after_update_db and done_del_bucket only have a copy
\* deleted that the rules in memory do not name.
THEOREM MigrationNamedNodesHold == Spec => []NamedNodesHold
<1>1. TaskInv => NamedNodesHold
  BY DEF TaskInv
<1>. QED  BY <1>1, MigrationTasks, PTL

\* When no operator asks again before it is answered, the connection deletes the
\* task that called it back: each task is deleted exactly when it is done.
THEOREM MigrationFreedWhenDone == ASSUME OneAtATime PROVE Spec => []FreedWhenDone
<1>1. TaskInv => FreedWhenDone
  BY DEF TaskInv
<1>. QED  BY <1>1, MigrationTasks, PTL


-----------------------------------------------------------------------------
(* The invariant of the rules.                                             *)

\* Task t has changed its row in the database and memory does not know it yet.
Written(t) ==
  /\ t \in running \cup ToSet(finished)
  /\ task[t].phase = "db" /\ task[t].dest_ret = TRUE
  /\ task[t].step = "insert" \/ (task[t].step = "post" /\ task[t].m_exec_result = TRUE)

\* The tasks of a type whose order is in the database and not yet in memory.
Logged(ty) == {u \in Active : task[u].type = ty /\ Written(u) /\ task[u].step = "post"}

\* Where an item can be in its pass.
StepOK(u) ==
  /\ task[u].phase = "log" => task[u].dest_ret = FALSE
  /\ u \in ToSet(finished) => task[u].step = "post"
  /\ u \in running /\ task[u].step \in {"update", "insert"} =>
       task[u].phase = "db" /\ task[u].dest_ret = TRUE

\* The slot update_rule_table found is a slot of the source.
SlotOK(u) ==
  u \in running /\ task[u].step = "update" /\ Key(u) \notin misjudged \cup broken =>
    LET row == m_hash_table[task[u].type][task[u].bucket]
    IN task[u].slot \in DOMAIN row /\ row[task[u].slot] = task[u].src

\* No node is named twice.
Distinct == \A ty \in Types, b \in Buckets :
              <<ty, b>> \notin misjudged => IsInjective(m_hash_table[ty][b])

\* The row of a bucket is that of memory, or what memory is about to become.
RowOK(ty, b) ==
  <<ty, b>> \notin misjudged \cup broken =>
    /\ (\A u \in Active : Key(u) = <<ty, b>> => ~Written(u)) => db_rule[ty][b] = m_hash_table[ty][b]
    /\ \A u \in Active : Key(u) = <<ty, b>> /\ Written(u) =>
         db_rule[ty][b] = modify_rule_by_migration(m_hash_table[ty][b], task[u].src, task[u].dest)

Counts == misjudged \cup broken = {} =>
            \A ty \in Types : Len(db_order[ty]) = m_current_version[ty] + Cardinality(Logged(ty))

Rules == /\ \A u \in Active : StepOK(u) /\ SlotOK(u)
         /\ Distinct
         /\ \A ty \in Types, b \in Buckets : RowOK(ty, b)
         /\ Counts

\* The inductive invariant of the rules.
RuleInv == TaskInv /\ Rules

-----------------------------------------------------------------------------
(* Steps that change no rule.                                              *)

\* The other tasks stay as they are and where they are.
OthersRest(t) ==
  \A u : u # t =>
    /\ u \in Active' <=> u \in Active
    /\ u \in Active => /\ task'[u] = task[u]
                       /\ u \in running' <=> u \in running
                       /\ u \in ToSet(finished)' <=> u \in ToSet(finished)

\* The row of task t stays written or unwritten, unless the step breaks it.
WrittenKept(t) ==
  \/ /\ t \in Active /\ Written(t) <=> t \in Active' /\ Written(t)'
     /\ t \in Active /\ Written(t) => /\ SameRequest(task'[t], task[t])
                                      /\ task'[t].step = task[t].step
  \/ t \in Active /\ t \in Active' /\ SameRequest(task'[t], task[t]) /\ Key(t) \in broken'

LEMMA RulesKept ==
  ASSUME RuleInv, NEW t, OthersRest(t), WrittenKept(t),
         UNCHANGED <<memory, database>>, misjudged \subseteq misjudged', broken \subseteq broken',
         t \in Active' => (StepOK(t) /\ SlotOK(t))'
  PROVE  Rules'
<1>1. UNCHANGED <<m_hash_table, m_current_version, db_rule, db_order>>
  BY DEF memory, database
<1>2. \A u : u # t =>
        /\ u \in Active' <=> u \in Active
        /\ u \in Active => /\ task'[u] = task[u] /\ Key(u)' = Key(u)
                           /\ u \in running' <=> u \in running
                           /\ u \in ToSet(finished)' <=> u \in ToSet(finished)
                           /\ Written(u)' <=> Written(u)
  BY DEF OthersRest, Key, Written
<1>3. \A u \in Active' : (StepOK(u) /\ SlotOK(u))'
  <2>. SUFFICES ASSUME NEW u \in Active', u # t PROVE (StepOK(u) /\ SlotOK(u))'
    OBVIOUS
  <2>1. StepOK(u) /\ SlotOK(u)
    BY <1>2 DEF RuleInv, Rules
  <2>. QED  BY <1>1, <1>2, <2>1 DEF StepOK, SlotOK
<1>4. Distinct'
  BY <1>1 DEF RuleInv, Rules, Distinct
<1>5. ASSUME NEW ty \in Types, NEW b \in Buckets PROVE RowOK(ty, b)'
  <2>. SUFFICES ASSUME <<ty, b>> \notin misjudged' \cup broken'
                PROVE  /\ (\A u \in Active' : Key(u)' = <<ty, b>> => ~Written(u)') =>
                            db_rule[ty][b] = m_hash_table[ty][b]
                       /\ \A u \in Active' : Key(u)' = <<ty, b>> /\ Written(u)' =>
                            db_rule[ty][b] = modify_rule_by_migration(m_hash_table[ty][b],
                                                                      task'[u].src, task'[u].dest)
    BY <1>1 DEF RowOK
  <2>1. /\ (\A u \in Active : Key(u) = <<ty, b>> => ~Written(u)) => db_rule[ty][b] = m_hash_table[ty][b]
        /\ \A u \in Active : Key(u) = <<ty, b>> /\ Written(u) =>
             db_rule[ty][b] = modify_rule_by_migration(m_hash_table[ty][b], task[u].src, task[u].dest)
    BY DEF RuleInv, Rules, RowOK
  <2>2. \/ /\ t \in Active /\ Written(t) <=> t \in Active' /\ Written(t)'
           /\ t \in Active /\ Written(t) => /\ Key(t)' = Key(t)
                                            /\ task'[t].src = task[t].src
                                            /\ task'[t].dest = task[t].dest
        \/ t \in Active /\ t \in Active' /\ Key(t)' = Key(t) /\ Key(t) # <<ty, b>>
    BY DEF WrittenKept, SameRequest, Key
  <2>. QED  BY <1>2, <2>1, <2>2
<1>6. Counts'
  <2>. SUFFICES ASSUME misjudged' \cup broken' = {}, NEW ty \in Types
                PROVE  Len(db_order[ty]) = m_current_version[ty] + Cardinality(Logged(ty)')
    BY <1>1 DEF Counts
  <2>1. /\ t \in Active /\ Written(t) <=> t \in Active' /\ Written(t)'
        /\ t \in Active /\ Written(t) => /\ SameRequest(task'[t], task[t])
                                         /\ task'[t].step = task[t].step
    BY DEF WrittenKept
  <2>2. Logged(ty)' = Logged(ty)
    BY <1>2, <2>1 DEF Logged, SameRequest
  <2>. QED  BY <2>2 DEF RuleInv, Rules, Counts
<1>. QED  BY <1>3, <1>4, <1>5, <1>6 DEF Rules

LEMMA OnlyTask ==
  ASSUME TypeOK, NEW t \in DOMAIN task, NEW r, task' = [task EXCEPT ![t] = r],
         \A u : u # t => /\ u \in running' <=> u \in running
                         /\ u \in ToSet(finished)' <=> u \in ToSet(finished)
  PROVE  /\ OthersRest(t) /\ task'[t] = r /\ DOMAIN task' = DOMAIN task
         /\ t \in Active' <=> r.phase \notin Done
<1>1. /\ DOMAIN task' = DOMAIN task /\ task'[t] = r
      /\ \A u \in DOMAIN task \ {t} : task'[u] = task[u]
  BY DEF TypeOK
<1>2. \A u : u # t => /\ u \in Active' <=> u \in Active
                      /\ u \in Active => task'[u] = task[u]
  BY <1>1 DEF Active
<1>3. t \in Active' <=> r.phase \notin Done
  BY <1>1 DEF Active
<1>4. OthersRest(t)
  <2>. SUFFICES ASSUME NEW u, u # t
                PROVE  /\ u \in Active' <=> u \in Active
                       /\ u \in Active => /\ task'[u] = task[u]
                                          /\ u \in running' <=> u \in running
                                          /\ u \in ToSet(finished)' <=> u \in ToSet(finished)
    BY DEF OthersRest
  <2>1. /\ u \in running' <=> u \in running
        /\ u \in ToSet(finished)' <=> u \in ToSet(finished)
    OBVIOUS
  <2>. QED  BY <1>2, <2>1
<1>. QED  BY <1>1, <1>3, <1>4

-----------------------------------------------------------------------------
(* The passes on a database thread.                                        *)

\* A pass that leaves the row alone.
LEMMA PassRules ==
  ASSUME RuleInv, NEW t \in running, NEW r \in TaskRecord, SameStage(r, task[t]),
         task' = [task EXCEPT ![t] = r],
         UNCHANGED <<memory, database, pool, misjudged>>, broken \subseteq broken',
         \/ Key(t) \in broken'
         \/ ~Written(t) /\ (r.step = "update" \/ (r.step = "post" /\ r.m_exec_result = FALSE)
                                \/ task[t].phase = "log" \/ task[t].dest_ret = FALSE),
         r.step \in {"update", "post"},
         r.step = "update" =>
           /\ task[t].dest_ret = TRUE
           /\ r.slot \in DOMAIN db_rule[r.type][r.bucket]
           /\ db_rule[r.type][r.bucket][r.slot] = r.src
           /\ ~Written(t)
  PROVE  Rules'
<1>1. t \in Active /\ t \in DOMAIN task /\ TypeOK /\ task[t].phase \in {"log", "db"}
  BY InFlightActive DEF RuleInv, TaskInv, Typed, Places
<1>2. UNCHANGED <<m_hash_table, db_rule, queue, running, finished, misjudged>>
  BY DEF memory, database, pool
<1>3. /\ OthersRest(t) /\ task'[t] = r /\ DOMAIN task' = DOMAIN task
      /\ t \in Active' <=> r.phase \notin Done
  BY <1>1, <1>2, OnlyTask
<1>4. /\ r.type = task[t].type /\ r.bucket = task[t].bucket /\ r.src = task[t].src
      /\ r.dest = task[t].dest /\ r.phase = task[t].phase /\ r.dest_ret = task[t].dest_ret
      /\ SameRequest(r, task[t])
  BY DEF SameStage, SameRequest
<1>5. t \in Active' /\ Key(t)' = Key(t)
  BY <1>1, <1>3, <1>4 DEF Active, Key
<1>6. StepOK(t) /\ SlotOK(t)
  BY <1>1 DEF RuleInv, Rules
<1>7. t \notin ToSet(finished)
  BY DEF RuleInv, TaskInv, Places
<1>8. StepOK(t)'
  <2>1. task[t].dest_ret = TRUE => task[t].phase = "db"
    BY <1>1, <1>6 DEF StepOK
  <2>2. task[t].phase = "log" => task[t].dest_ret = FALSE
    BY <1>6 DEF StepOK
  <2>. QED  BY <1>2, <1>3, <1>4, <1>7, <2>1, <2>2 DEF StepOK
<1>9. SlotOK(t)'
  <2>. SUFFICES ASSUME r.step = "update", Key(t) \notin misjudged \cup broken
                PROVE  /\ r.slot \in DOMAIN m_hash_table[r.type][r.bucket]
                       /\ m_hash_table[r.type][r.bucket][r.slot] = r.src
    BY <1>2, <1>3, <1>5 DEF SlotOK
  <2>1. r.type \in Types /\ r.bucket \in Buckets
    BY DEF TaskRecord
  <2>2. db_rule[r.type][r.bucket] = m_hash_table[r.type][r.bucket]
    <3>1. RowOK(r.type, r.bucket) /\ Key(t) = <<r.type, r.bucket>>
      BY <1>4, <2>1 DEF RuleInv, Rules, Key
    <3>2. \A u \in Active : Key(u) = <<r.type, r.bucket>> => ~Written(u)
      BY <1>1, <3>1 DEF RuleInv, TaskInv, Alone
    <3>. QED  BY <3>1, <3>2 DEF RowOK
  <2>. QED  BY <2>2
<1>10. WrittenKept(t)
  <2>1. CASE Key(t) \in broken'
    BY <1>1, <1>3, <1>4, <1>5, <2>1 DEF WrittenKept
  <2>2. CASE Key(t) \notin broken'
    <3>1. ~Written(t)
      BY <2>2
    <3>2. ~Written(t)'
      BY <1>3, <1>4, <2>2 DEF Written
    <3>. QED  BY <3>1, <3>2 DEF WrittenKept
  <2>. QED  BY <2>1, <2>2
<1>11. misjudged \subseteq misjudged' /\ UNCHANGED <<memory, database>>
  BY <1>2
<1>. QED  BY <1>3, <1>8, <1>9, <1>10, <1>11, RulesKept

LEMMA BeginNotWritten ==
  ASSUME NEW t, task[t].step \in {"begin", "update"}
  PROVE  ~Written(t)
BY DEF Written

\* A pass that ends with a failure.
LEMMA FailedPassRules ==
  ASSUME RuleInv, NEW t \in running, Ends(t, FALSE),
         UNCHANGED <<memory, database, pool, misjudged>>, broken \subseteq broken',
         Key(t) \in broken' \/ ~Written(t)
  PROVE  Rules'
<1>1. t \in Active /\ TypeOK
  BY InFlightActive DEF RuleInv, TaskInv, Typed
<1>2. PICK r \in TaskRecord : /\ task' = [task EXCEPT ![t] = r] /\ SameStage(r, task[t])
                              /\ r.step = "post" /\ r.m_exec_result = FALSE
  BY <1>1, EndsTask
<1>3. UNCHANGED <<memory, database, pool, misjudged>>
  OBVIOUS
<1>. QED  BY <1>2, <1>3, PassRules

LEMMA ConnectRules ==
  ASSUME RuleInv, NEW t \in running, Connect(t)
  PROVE  Rules'
<1>1. t \in Active /\ TypeOK /\ task[t] \in TaskRecord /\ t \in DOMAIN task
      /\ task[t].phase \in {"log", "db"}
  BY InFlightActive, ActiveRecord DEF RuleInv, TaskInv, Typed, Places
<1>2. /\ UNCHANGED <<memory, database, pool, misjudged>> /\ broken \subseteq broken'
      /\ ~Written(t)
  <2>1. task[t].step = "begin"
    BY DEF Connect
  <2>2. ~Written(t)
    BY <2>1, BeginNotWritten
  <2>. QED  BY <2>2 DEF Connect, Breaks
<1>3. CASE Ends(t, FALSE)
  BY <1>2, <1>3, FailedPassRules
<1>4. CASE ~Ends(t, FALSE)
  <2>. DEFINE r == [task[t] EXCEPT !.step = "post", !.m_exec_result = TRUE, !.m_times = 1]
  <2>1. task' = [task EXCEPT ![t] = r]
    BY <1>1, <1>4 DEF Connect, TypeOK
  <2>2. task[t].phase = "db" /\ task[t].dest_ret => Key(t) \in broken'
    BY <1>4 DEF Connect, Breaks
  <2>3. /\ r \in TaskRecord /\ SameStage(r, task[t]) /\ r.step = "post"
    BY <1>1, ConnectRecord
  <2>. HIDE DEF r
  <2>4. task[t].dest_ret \in BOOLEAN
    BY <1>1 DEF TaskRecord
  <2>5. Key(t) \in broken' \/ task[t].phase = "log" \/ task[t].dest_ret = FALSE
    BY <1>1, <2>2, <2>4
  <2>. QED  BY <1>2, <2>1, <2>3, <2>5, PassRules
<1>. QED  BY <1>3, <1>4

LEMMA RecordFailureRules ==
  ASSUME RuleInv, NEW t \in running, RecordFailure(t)
  PROVE  Rules'
<1>1. t \in Active /\ TypeOK /\ task[t] \in TaskRecord
  BY InFlightActive, ActiveRecord DEF RuleInv, TaskInv, Typed
<1>2. /\ UNCHANGED <<memory, database, pool, misjudged>> /\ broken \subseteq broken'
      /\ ~Written(t) /\ Ends(t, TRUE)
  <2>1. task[t].step = "begin"
    BY DEF RecordFailure
  <2>2. ~Written(t)
    BY <2>1, BeginNotWritten
  <2>. QED  BY <2>2 DEF RecordFailure
<1>3. PICK r \in TaskRecord : /\ task' = [task EXCEPT ![t] = r] /\ SameStage(r, task[t])
                              /\ r.step = "post"
  BY <1>1, <1>2, EndsTask
<1>4. task[t].dest_ret = FALSE
  BY <1>1 DEF RecordFailure, TaskRecord
<1>. QED  BY <1>2, <1>3, <1>4, PassRules

LEMMA SelectRules ==
  ASSUME RuleInv, NEW t \in running, SelectRule(t)
  PROVE  Rules'
<1>1. t \in Active /\ TypeOK /\ task[t] \in TaskRecord /\ t \in DOMAIN task
      /\ task[t].type \in Types /\ task[t].bucket \in Buckets
  BY InFlightActive, ActiveRecord DEF RuleInv, TaskInv, Typed
<1>2. /\ UNCHANGED <<memory, database, pool, misjudged>> /\ broken \subseteq broken'
      /\ ~Written(t) /\ task[t].dest_ret
  <2>1. task[t].step = "begin"
    BY DEF SelectRule
  <2>2. ~Written(t)
    BY <2>1, BeginNotWritten
  <2>. QED  BY <2>2 DEF SelectRule, Breaks
<1>3. CASE Ends(t, FALSE)
  BY <1>2, <1>3, FailedPassRules
<1>4. CASE ~Ends(t, FALSE)
  <2>1. PICK i \in DOMAIN db_rule[task[t].type][task[t].bucket] :
               /\ db_rule[task[t].type][task[t].bucket][i] = task[t].src
               /\ task' = [task EXCEPT ![t].step = "update", ![t].slot = i]
    BY <1>4 DEF SelectRule
  <2>2. i \in Nat
    <3>1. PICK row \in Seq(Nodes) : row = db_rule[task[t].type][task[t].bucket]
      BY <1>1, DatabaseTypes
    <3>2. DOMAIN row = 1..Len(row) /\ Len(row) \in Nat
      OBVIOUS
    <3>. HIDE DEF SelectRule
    <3>. QED  BY <2>1, <3>1, <3>2
  <2>. DEFINE r == [task[t] EXCEPT !.step = "update", !.slot = i]
  <2>3. /\ r \in TaskRecord /\ SameStage(r, task[t]) /\ r.step = "update" /\ r.slot = i
    BY <1>1, <2>2 DEF TaskRecord, SameRequest, SameStage
  <2>4. task' = [task EXCEPT ![t] = r]
    BY <1>1, <2>1 DEF TypeOK
  <2>. HIDE DEF r
  <2>5. r.type = task[t].type /\ r.bucket = task[t].bucket /\ r.src = task[t].src
    BY <2>3 DEF SameStage, SameRequest
  <2>6. task[t].dest_ret = TRUE
    BY <1>1, <1>2 DEF TaskRecord
  <2>7. /\ r.slot \in DOMAIN db_rule[r.type][r.bucket]
        /\ db_rule[r.type][r.bucket][r.slot] = r.src
    BY <2>1, <2>3, <2>5
  <2>. QED  BY <1>2, <2>3, <2>4, <2>6, <2>7, PassRules
<1>. QED  BY <1>3, <1>4

\* A pass that writes the row: memory's row with the destination for the source.
LEMMA WrittenRowIsModified ==
  ASSUME NEW row \in Seq(Nodes), IsInjective(row), NEW i \in DOMAIN row, NEW src, NEW dest,
         row[i] = src
  PROVE  [row EXCEPT ![i] = dest] = modify_rule_by_migration(row, src, dest)
<1>1. \A j \in DOMAIN row : row[j] = src <=> j = i
  BY DEF IsInjective
<1>2. row = [j \in DOMAIN row |-> row[j]]
  OBVIOUS
<1>. QED  BY <1>1, <1>2 DEF modify_rule_by_migration

LEMMA UpdateRules ==
  ASSUME RuleInv, NEW t \in running, UpdateRule(t)
  PROVE  Rules'
<1>1. /\ t \in Active /\ TypeOK /\ task[t] \in TaskRecord /\ t \in DOMAIN task
      /\ task[t].type \in Types /\ task[t].bucket \in Buckets
  BY InFlightActive, ActiveRecord DEF RuleInv, TaskInv, Typed
<1>2. /\ UNCHANGED <<memory, db_order, pool, misjudged>> /\ broken \subseteq broken'
      /\ task[t].step = "update"
  BY DEF UpdateRule, Breaks
<1>3. ~Written(t)
  BY <1>2, BeginNotWritten
<1>4. CASE Ends(t, FALSE) /\ UNCHANGED db_rule
  <2>1. UNCHANGED <<memory, database, pool, misjudged>>
    BY <1>2, <1>4 DEF database
  <2>. QED  BY <1>2, <1>3, <1>4, <2>1, FailedPassRules
<1>5. CASE ~(Ends(t, FALSE) /\ UNCHANGED db_rule)
  <2>1. /\ db_rule' = [db_rule EXCEPT ![task[t].type][task[t].bucket][task[t].slot]
                                        = task[t].dest]
        /\ task' = [task EXCEPT ![t].step = "insert", ![t].slot = 0]
        /\ broken' = broken
    BY <1>5 DEF UpdateRule
  <2>2. PICK q : q = task[t]
    OBVIOUS
  <2>. DEFINE r == [q EXCEPT !.step = "insert", !.slot = 0]
  <2>3. /\ r \in TaskRecord /\ SameStage(r, q) /\ r.step = "insert" /\ r.slot = 0
    BY <1>1, <2>2 DEF TaskRecord, SameRequest, SameStage
  <2>4. task' = [task EXCEPT ![t] = r]
    BY <1>1, <2>1, <2>2 DEF TypeOK
  <2>. HIDE DEF r
  <2>5. /\ UNCHANGED <<m_hash_table, m_current_version, db_order, misjudged, broken>>
        /\ UNCHANGED <<queue, running, finished>>
    BY <1>2, <2>1 DEF memory, pool
  <2>6. /\ OthersRest(t) /\ task'[t] = r /\ DOMAIN task' = DOMAIN task
        /\ t \in Active' <=> r.phase \notin Done
    BY <1>1, <2>4, <2>5, OnlyTask
  <2>7. /\ r.type = q.type /\ r.bucket = q.bucket /\ r.src = q.src /\ r.dest = q.dest
        /\ r.phase = q.phase /\ r.dest_ret = q.dest_ret
    BY <2>3 DEF SameStage, SameRequest
  <2>8. t \in Active' /\ Key(t)' = Key(t)
    BY <1>1, <2>2, <2>6, <2>7 DEF Active, Key
  <2>9. StepOK(t) /\ SlotOK(t) /\ q.phase = "db" /\ q.dest_ret = TRUE /\ t \notin ToSet(finished)
    BY <1>1, <1>2, <2>2 DEF RuleInv, Rules, StepOK, TaskInv, Places
  <2>10. \A u : u # t =>
           /\ u \in Active' <=> u \in Active
           /\ u \in Active => /\ task'[u] = task[u] /\ Key(u)' = Key(u)
                              /\ Written(u)' <=> Written(u)
    BY <2>5, <2>6 DEF OthersRest, Key, Written
  <2>11. \A u \in Active' : (StepOK(u) /\ SlotOK(u))'
    <3>. SUFFICES ASSUME NEW u \in Active' PROVE (StepOK(u) /\ SlotOK(u))'
      OBVIOUS
    <3>1. CASE u = t
      BY <2>3, <2>5, <2>6, <2>7, <2>9, <3>1 DEF StepOK, SlotOK
    <3>2. CASE u # t
      <4>1. StepOK(u) /\ SlotOK(u)
        BY <2>10, <3>2 DEF RuleInv, Rules
      <4>. QED  BY <2>5, <2>10, <3>2, <4>1 DEF StepOK, SlotOK
    <3>. QED  BY <3>1, <3>2
  <2>12. Distinct'
    BY <2>5 DEF RuleInv, Rules, Distinct
  <2>13. Logged(q.type)' = Logged(q.type) /\ \A ty : Logged(ty)' = Logged(ty)
    BY <1>2, <2>2, <2>3, <2>6, <2>10 DEF Logged
  <2>14. Counts'
    BY <2>5, <2>13 DEF RuleInv, Rules, Counts
  <2>15. PICK row \in Seq(Nodes) : row = db_rule[q.type][q.bucket]
    BY <1>1, <2>2, DatabaseTypes
  <2>16. /\ db_rule'[q.type][q.bucket] = [row EXCEPT ![q.slot] = q.dest]
         /\ \A ty \in Types, b \in Buckets :
              ty # q.type \/ b # q.bucket => db_rule'[ty][b] = db_rule[ty][b]
    <3>1. db_rule \in [Types -> [Buckets -> Seq(Nodes)]] /\ q.type \in Types /\ q.bucket \in Buckets
      BY <1>1, <2>2, DatabaseTypes
    <3>2. db_rule' = [db_rule EXCEPT ![q.type][q.bucket][q.slot] = q.dest]
      BY <2>1, <2>2
    <3>. QED  BY <2>15, <3>1, <3>2
  <2>17. ASSUME NEW ty \in Types, NEW b \in Buckets PROVE RowOK(ty, b)'
    <3>. SUFFICES ASSUME <<ty, b>> \notin misjudged \cup broken
                  PROVE  /\ (\A u \in Active' : Key(u)' = <<ty, b>> => ~Written(u)') =>
                              db_rule'[ty][b] = m_hash_table[ty][b]
                         /\ \A u \in Active' : Key(u)' = <<ty, b>> /\ Written(u)' =>
                              db_rule'[ty][b] = modify_rule_by_migration(m_hash_table[ty][b],
                                                                        task'[u].src, task'[u].dest)
      BY <2>5 DEF RowOK
    <3>1. /\ (\A u \in Active : Key(u) = <<ty, b>> => ~Written(u)) =>
                 db_rule[ty][b] = m_hash_table[ty][b]
          /\ \A u \in Active : Key(u) = <<ty, b>> /\ Written(u) =>
               db_rule[ty][b] = modify_rule_by_migration(m_hash_table[ty][b], task[u].src, task[u].dest)
      BY DEF RuleInv, Rules, RowOK
    <3>2. CASE <<ty, b>> # Key(t)
      <4>1. db_rule'[ty][b] = db_rule[ty][b]
        BY <2>2, <2>16, <3>2 DEF Key
      <4>2. \A u \in Active' : Key(u)' = <<ty, b>> => u # t
        BY <2>8, <3>2
      <4>. QED  BY <2>8, <2>10, <3>1, <3>2, <4>1, <4>2
    <3>3. CASE <<ty, b>> = Key(t)
      <4>1. \A u \in Active : Key(u) = <<ty, b>> => u = t
        BY <1>1, <3>3 DEF RuleInv, TaskInv, Alone
      <4>2. ty = q.type /\ b = q.bucket
        BY <2>2, <3>3 DEF Key
      <4>3. row = m_hash_table[ty][b]
        BY <1>3, <2>15, <3>1, <4>1, <4>2
      <4>4. IsInjective(row)
        BY <4>3 DEF RuleInv, Rules, Distinct
      <4>5. q.slot \in DOMAIN row /\ row[q.slot] = q.src
        BY <1>2, <2>2, <2>9, <3>3, <4>2, <4>3 DEF SlotOK
      <4>6. db_rule'[ty][b] = modify_rule_by_migration(row, q.src, q.dest)
        BY <2>16, <4>2, <4>4, <4>5, WrittenRowIsModified
      <4>7. Written(t)'
        BY <2>3, <2>5, <2>6, <2>7, <2>9 DEF Written
      <4>8. \A u \in Active' : Key(u)' = <<ty, b>> => u = t
        BY <2>10, <4>1
      <4>. QED  BY <2>6, <2>7, <2>8, <3>3, <4>3, <4>6, <4>7, <4>8
    <3>. QED  BY <3>2, <3>3
  <2>. QED  BY <2>11, <2>12, <2>14, <2>17 DEF Rules
<1>. QED  BY <1>4, <1>5

LEMMA LoggedFinite ==
  ASSUME TypeOK, NEW ty
  PROVE  /\ IsFiniteSet(Logged(ty)) /\ Cardinality(Logged(ty)) \in Nat
         /\ \A t \in Logged(ty) : Cardinality(Logged(ty) \ {t}) = Cardinality(Logged(ty)) - 1
         /\ \A t : t \notin Logged(ty) =>
              Cardinality(Logged(ty) \cup {t}) = Cardinality(Logged(ty)) + 1
<1>1. Logged(ty) \subseteq 1..Len(task) /\ Len(task) \in Nat
  BY DEF Logged, Active, TypeOK
<1>2. IsFiniteSet(1..Len(task))
  BY <1>1, FS_Interval
<1>3. IsFiniteSet(Logged(ty))
  BY <1>1, <1>2, FS_Subset
<1>. QED  BY <1>3, FS_CardinalityType, FS_AddElement, FS_RemoveElement

LEMMA InsertRules ==
  ASSUME RuleInv, NEW t \in running, InsertOrder(t)
  PROVE  Rules'
<1>1. /\ t \in Active /\ TypeOK /\ task[t] \in TaskRecord /\ t \in DOMAIN task
      /\ task[t].type \in Types /\ task[t].bucket \in Buckets
  BY InFlightActive, ActiveRecord DEF RuleInv, TaskInv, Typed
<1>2. /\ UNCHANGED <<memory, db_rule, pool, misjudged>> /\ broken \subseteq broken'
      /\ task[t].step = "insert"
  BY DEF InsertOrder, Breaks
<1>3. CASE Ends(t, FALSE) /\ Breaks(t) /\ UNCHANGED db_order
  <2>1. UNCHANGED <<memory, database, pool, misjudged>>
    BY <1>2, <1>3 DEF database
  <2>2. Key(t) \in broken'
    BY <1>3 DEF Breaks
  <2>. QED  BY <1>2, <1>3, <2>1, <2>2, FailedPassRules
<1>4. CASE ~(Ends(t, FALSE) /\ Breaks(t) /\ UNCHANGED db_order)
  <2>1. /\ db_order' = [db_order EXCEPT ![task[t].type] = Append(@, Order(t))]
        /\ Ends(t, TRUE) /\ broken' = broken
    BY <1>4 DEF InsertOrder
  <2>2. PICK q : q = task[t]
    OBVIOUS
  <2>3. PICK r \in TaskRecord : /\ task' = [task EXCEPT ![t] = r] /\ SameStage(r, q)
                                /\ r.step = "post" /\ r.m_exec_result = TRUE
    BY <1>1, <2>1, <2>2, EndsTask
  <2>5. /\ UNCHANGED <<m_hash_table, m_current_version, db_rule, misjudged, broken>>
        /\ UNCHANGED <<queue, running, finished>>
    BY <1>2, <2>1 DEF memory, pool
  <2>6. /\ OthersRest(t) /\ task'[t] = r /\ DOMAIN task' = DOMAIN task
        /\ t \in Active' <=> r.phase \notin Done
    BY <1>1, <2>3, <2>5, OnlyTask
  <2>7. /\ r.type = q.type /\ r.bucket = q.bucket /\ r.src = q.src /\ r.dest = q.dest
        /\ r.phase = q.phase /\ r.dest_ret = q.dest_ret
    BY <2>3 DEF SameStage, SameRequest
  <2>8. t \in Active' /\ Key(t)' = Key(t)
    BY <1>1, <2>2, <2>6, <2>7 DEF Active, Key
  <2>9. StepOK(t) /\ q.phase = "db" /\ q.dest_ret = TRUE /\ t \notin ToSet(finished)
    BY <1>1, <1>2, <2>2 DEF RuleInv, Rules, StepOK, TaskInv, Places
  <2>10. Written(t) /\ Written(t)'
    BY <1>2, <2>2, <2>3, <2>5, <2>6, <2>7, <2>9 DEF Written
  <2>11. \A u : u # t =>
           /\ u \in Active' <=> u \in Active
           /\ u \in Active => /\ task'[u] = task[u] /\ Key(u)' = Key(u)
                              /\ Written(u)' <=> Written(u)
    BY <2>5, <2>6 DEF OthersRest, Key, Written
  <2>12. \A u \in Active' : (StepOK(u) /\ SlotOK(u))'
    <3>. SUFFICES ASSUME NEW u \in Active' PROVE (StepOK(u) /\ SlotOK(u))'
      OBVIOUS
    <3>1. CASE u = t
      BY <2>3, <2>5, <2>6, <2>7, <2>9, <3>1 DEF StepOK, SlotOK
    <3>2. CASE u # t
      <4>1. StepOK(u) /\ SlotOK(u)
        BY <2>11, <3>2 DEF RuleInv, Rules
      <4>. QED  BY <2>5, <2>11, <3>2, <4>1 DEF StepOK, SlotOK
    <3>. QED  BY <3>1, <3>2
  <2>13. Distinct'
    BY <2>5 DEF RuleInv, Rules, Distinct
  <2>14. ASSUME NEW ty \in Types, NEW b \in Buckets PROVE RowOK(ty, b)'
    <3>1. RowOK(ty, b)
      BY DEF RuleInv, Rules
    <3>2. \A u : /\ u \in Active' <=> u \in Active
                 /\ u \in Active => /\ Key(u)' = Key(u)
                                    /\ Written(u)' <=> Written(u)
                                    /\ task'[u].src = task[u].src /\ task'[u].dest = task[u].dest
      BY <1>1, <2>2, <2>6, <2>7, <2>8, <2>10, <2>11
    <3>. QED  BY <2>5, <3>1, <3>2 DEF RowOK
  <2>15. Counts'
    <3>. SUFFICES ASSUME misjudged \cup broken = {}, NEW ty \in Types
                  PROVE  Len(db_order'[ty]) = m_current_version[ty] + Cardinality(Logged(ty)')
      BY <2>5 DEF Counts
    <3>1. Len(db_order[ty]) = m_current_version[ty] + Cardinality(Logged(ty))
      BY DEF RuleInv, Rules, Counts
    <3>2. /\ m_current_version[ty] \in Nat /\ Cardinality(Logged(ty)) \in Nat
          /\ db_order[ty] \in Seq(OrderRecord)
      BY <1>1, LoggedFinite DEF TypeOK
    <3>3. CASE ty = q.type
      <4>1. t \notin Logged(ty) /\ Logged(ty)' = Logged(ty) \cup {t}
        BY <1>2, <2>2, <2>3, <2>6, <2>7, <2>8, <2>10, <2>11, <3>3 DEF Logged
      <4>2. Cardinality(Logged(ty)') = Cardinality(Logged(ty)) + 1
        BY <1>1, <4>1, LoggedFinite
      <4>3. Len(db_order'[ty]) = Len(db_order[ty]) + 1
        <5>1. db_order \in [Types -> Seq(OrderRecord)]
          BY <1>1, DatabaseTypes
        <5>2. db_order'[ty] = Append(db_order[ty], Order(t))
          BY <2>1, <2>2, <3>3, <5>1
        <5>. QED  BY <3>2, <5>2
      <4>. QED  BY <3>1, <3>2, <4>2, <4>3
    <3>4. CASE ty # q.type
      <4>1. Logged(ty)' = Logged(ty)
        BY <2>2, <2>6, <2>7, <2>11, <3>4 DEF Logged
      <4>2. db_order'[ty] = db_order[ty]
        <5>1. db_order \in [Types -> Seq(OrderRecord)]
          BY <1>1, DatabaseTypes
        <5>. QED  BY <2>1, <2>2, <3>4, <5>1
      <4>. QED  BY <3>1, <4>1, <4>2
    <3>. QED  BY <3>3, <3>4
  <2>. QED  BY <2>12, <2>13, <2>14, <2>15 DEF Rules
<1>. QED  BY <1>3, <1>4

\* An item leaves the thread or is taken by one.
LEMMA PostRules ==
  ASSUME RuleInv, NEW t \in running, PostItem(t)
  PROVE  Rules'
<1>1. t \in Active /\ TypeOK /\ t \in DOMAIN task
  BY InFlightActive DEF RuleInv, TaskInv, Typed
<1>2. /\ running' = running \ {t} /\ finished' = Append(finished, t) /\ queue' = queue
      /\ UNCHANGED <<memory, database, task, misjudged, broken>> /\ task[t].step = "post"
  BY DEF PostItem, Pool!Finish
<1>3. ToSet(finished') = ToSet(finished) \cup {t}
  <2>1. finished \in Seq(DOMAIN task)
    BY <1>1 DEF TypeOK
  <2>. QED  BY <1>1, <1>2, <2>1, AppendElements
<1>4. Active' = Active
  BY <1>2 DEF Active
<1>5. OthersRest(t)
  BY <1>2, <1>3, <1>4 DEF OthersRest
<1>6. WrittenKept(t)
  BY <1>1, <1>2, <1>3, <1>4 DEF WrittenKept, Written, SameRequest
<1>7. (StepOK(t) /\ SlotOK(t))'
  <2>1. StepOK(t)
    BY <1>1 DEF RuleInv, Rules
  <2>. QED  BY <1>2, <2>1 DEF StepOK, SlotOK
<1>8. misjudged \subseteq misjudged' /\ broken \subseteq broken' /\ UNCHANGED <<memory, database>>
  BY <1>2
<1>. QED  BY <1>5, <1>6, <1>7, <1>8, RulesKept

LEMMA StartRules ==
  ASSUME RuleInv, StartItem
  PROVE  Rules'
<1>1. /\ queue # <<>> /\ running' = running \cup {Head(queue)} /\ queue' = Tail(queue)
      /\ finished' = finished
      /\ task' = [task EXCEPT ![Head(queue)].step = "begin"]
      /\ UNCHANGED <<memory, database, misjudged, broken>>
  BY DEF StartItem, Pool!Start
<1>2. PICK t : t = Head(queue)
  OBVIOUS
<1>3. t \in ToSet(queue)
  <2>1. queue \in Seq(DOMAIN task) /\ IsInjective(queue)
    BY DEF RuleInv, TaskInv, Typed, TypeOK, Places
  <2>. QED  BY <1>1, <1>2, <2>1, TailDistinct
<1>4. /\ t \in Active /\ t \in DOMAIN task /\ TypeOK /\ task[t] \in TaskRecord
      /\ t \notin running /\ t \notin ToSet(finished)
  BY <1>3, InFlightActive, ActiveRecord DEF RuleInv, TaskInv, Typed, Places
<1>5. PICK r : r = [task[t] EXCEPT !.step = "begin"]
  OBVIOUS
<1>6. /\ r \in TaskRecord /\ r.step = "begin" /\ r.phase = task[t].phase
      /\ r.dest_ret = task[t].dest_ret
  BY <1>4, <1>5, BeginRecord DEF SameStage
<1>7. task' = [task EXCEPT ![t] = r]
  BY <1>1, <1>2, <1>4, <1>5 DEF TypeOK
<1>8. OthersRest(t) /\ task'[t] = r
  <2>1. \A u : u # t => /\ u \in running' <=> u \in running
                        /\ u \in ToSet(finished)' <=> u \in ToSet(finished)
    BY <1>1, <1>2
  <2>. QED  BY <1>4, <1>7, <2>1, OnlyTask
<1>9. ~Written(t) /\ ~Written(t)'
  BY <1>1, <1>4, <1>6, <1>8 DEF Written
<1>10. WrittenKept(t)
  BY <1>9 DEF WrittenKept
<1>11. (StepOK(t) /\ SlotOK(t))'
  <2>1. StepOK(t)
    BY <1>4 DEF RuleInv, Rules
  <2>. QED  BY <1>1, <1>4, <1>6, <1>8, <2>1 DEF StepOK, SlotOK
<1>12. misjudged \subseteq misjudged' /\ broken \subseteq broken' /\ UNCHANGED <<memory, database>>
  BY <1>1
<1>. QED  BY <1>8, <1>10, <1>11, <1>12, RulesKept

-----------------------------------------------------------------------------
(* The other steps.                                                        *)

\* A step of a task no thread has anything to do with.
LEMMA QuietRules ==
  ASSUME RuleInv, NEW t, OthersRest(t),
         t \notin running \cup ToSet(finished), t \notin running' \cup ToSet(finished'),
         UNCHANGED <<memory, database>>, misjudged \subseteq misjudged', broken \subseteq broken',
         t \in Active' => (task'[t].phase = "log" => task'[t].dest_ret = FALSE)
  PROVE  Rules'
<1>1. ~Written(t) /\ ~Written(t)'
  BY DEF Written
<1>2. WrittenKept(t)
  BY <1>1 DEF WrittenKept
<1>3. t \in Active' => (StepOK(t) /\ SlotOK(t))'
  BY DEF StepOK, SlotOK
<1>4. UNCHANGED <<memory, database>>
  OBVIOUS
<1>. QED  BY <1>2, <1>3, <1>4, RulesKept

\* A step that changes no task.
LEMMA IdleRules ==
  ASSUME RuleInv, UNCHANGED <<memory, database, task, running, finished, misjudged, broken>>
  PROVE  Rules'
<1>1. PICK t : t \notin running \cup ToSet(finished) \cup Active
  <2>1. running \cup ToSet(finished) \cup Active \subseteq DOMAIN task /\ DOMAIN task \subseteq Nat
    <3>1. TypeOK
      BY DEF RuleInv, TaskInv, Typed
    <3>2. DOMAIN task = 1..Len(task) /\ Len(task) \in Nat
      BY <3>1 DEF TypeOK
    <3>. QED  BY <3>1, <3>2, InFlightActive DEF RuleInv, Active
  <2>2. NoTask \notin Nat
    BY MigrationAssumption
  <2>. QED  BY <2>1, <2>2
<1>2. /\ task' = task /\ running' = running /\ finished' = finished
      /\ misjudged' = misjudged /\ broken' = broken
  OBVIOUS
<1>3. Active' = Active
  BY <1>2 DEF Active
<1>4. OthersRest(t)
  BY <1>2, <1>3 DEF OthersRest
<1>5. UNCHANGED <<memory, database>>
  OBVIOUS
<1>. QED  BY <1>1, <1>2, <1>3, <1>4, <1>5, QuietRules

LEMMA NewTaskRules ==
  ASSUME RuleInv, NEW a \in Agents, NEW ty \in Types, NEW b \in Buckets,
         NEW src \in Nodes, NEW dest \in Nodes, do_migrate_bucket(a, ty, b, src, dest)
  PROVE  Rules'
<1>1. PICK r : r = [type |-> ty, bucket |-> b, src |-> src, dest |-> dest, father |-> a,
                    phase |-> "log", served |-> FALSE, dest_ret |-> FALSE, moved |-> FALSE,
                    retry |-> 0, m_times |-> 0, step |-> "begin", slot |-> 0,
                    m_exec_result |-> FALSE]
  OBVIOUS
<1>2. PICK t : t = Len(task) + 1
  OBVIOUS
<1>3. /\ task' = Append(task, r)
      /\ UNCHANGED <<memory, database, broken>>
      /\ misjudged \subseteq misjudged'
  BY <1>1 DEF do_migrate_bucket
<1>4. /\ running' = running /\ finished' = finished
      /\ t \notin running \cup ToSet(finished)
  <2>1. Pool!Submit(t)
    BY <1>2 DEF do_migrate_bucket
  <2>. QED  BY <2>1 DEF Pool!Submit, Pool!InFlight, Pool!ToSet, ToSet
<1>5. /\ task \in Seq(TaskRecord \cup TaskResult) /\ Len(task) \in Nat
      /\ DOMAIN task = 1..Len(task)
  BY DEF RuleInv, TaskInv, Typed, TypeOK
<1>6. DOMAIN task' = DOMAIN task \cup {t} /\ task'[t] = r /\ \A u \in DOMAIN task : task'[u] = task[u]
  BY <1>2, <1>3, <1>5
<1>7. \A u : u # t => /\ u \in Active' <=> u \in Active
                      /\ u \in Active => task'[u] = task[u]
  BY <1>6 DEF Active
<1>8. OthersRest(t)
  BY <1>4, <1>7 DEF OthersRest
<1>9. r.dest_ret = FALSE
  BY <1>1
<1>10. UNCHANGED <<memory, database>> /\ broken \subseteq broken'
  BY <1>3
<1>. QED  BY <1>3, <1>4, <1>6, <1>8, <1>9, <1>10, QuietRules

LEMMA ServeRules ==
  ASSUME RuleInv, NEW t \in DOMAIN task, Serve(t)
  PROVE  Rules'
<1>1. /\ task[t].phase \in Waiting
      /\ task' = [task EXCEPT ![t].served = TRUE]
      /\ UNCHANGED <<memory, database, pool, misjudged, broken>>
  BY DEF Serve
<1>2. t \in Active /\ TypeOK /\ task[t] \in TaskRecord
      /\ t \notin running \cup ToSet(finished)
  <2>1. t \in Active
    BY <1>1 DEF Active, Waiting, Done
  <2>. QED  BY <1>1, <2>1, ActiveRecord DEF RuleInv, TaskInv, Typed, Places, Waiting
<1>3. PICK r : r = [task[t] EXCEPT !.served = TRUE]
  OBVIOUS
<1>4. r.phase = task[t].phase
  BY <1>2, <1>3, ServedRecord
<1>5. task' = [task EXCEPT ![t] = r]
  BY <1>1, <1>2, <1>3 DEF TypeOK
<1>6. running' = running /\ finished' = finished
  BY <1>1 DEF pool
<1>7. OthersRest(t) /\ task'[t] = r
  BY <1>2, <1>5, <1>6, OnlyTask
<1>8. UNCHANGED <<memory, database>> /\ misjudged \subseteq misjudged' /\ broken \subseteq broken'
  BY <1>1
<1>. QED  BY <1>1, <1>2, <1>4, <1>6, <1>7, <1>8, QuietRules DEF Waiting

LEMMA LoggedRules ==
  ASSUME RuleInv, NEW t, after_log_operation(t)
  PROVE  Rules'
<1>1. /\ finished # <<>> /\ t = Head(finished) /\ Pool!Answer
      /\ task' = [task EXCEPT ![t].phase = "dest", ![t].served = FALSE]
      /\ UNCHANGED <<memory, database, misjudged, broken>> /\ task[t].phase = "log"
  BY DEF after_log_operation
<1>2. /\ t \in Active /\ t \in DOMAIN task /\ t \in ToSet(finished)
      /\ t \notin running /\ running' = running
      /\ ToSet(finished') = ToSet(finished) \ {t}
  BY <1>1, Answered DEF RuleInv
<1>3. TypeOK /\ task[t] \in TaskRecord
  BY <1>2, ActiveRecord DEF RuleInv, TaskInv, Typed
<1>4. PICK r : r = [task[t] EXCEPT !.phase = "dest", !.served = FALSE]
  OBVIOUS
<1>5. r.phase = "dest"
  BY <1>3, <1>4, AskRecord
<1>6. task' = [task EXCEPT ![t] = r]
  BY <1>1, <1>2, <1>3, <1>4 DEF TypeOK
<1>7. OthersRest(t) /\ task'[t] = r
  BY <1>2, <1>3, <1>6, OnlyTask
<1>8. ~Written(t) /\ ~Written(t)'
  BY <1>1, <1>5, <1>7 DEF Written
<1>9. WrittenKept(t)
  BY <1>8 DEF WrittenKept
<1>10. (StepOK(t) /\ SlotOK(t))'
  BY <1>2, <1>5, <1>7 DEF StepOK, SlotOK
<1>11. UNCHANGED <<memory, database>> /\ misjudged \subseteq misjudged' /\ broken \subseteq broken'
  BY <1>1
<1>. QED  BY <1>7, <1>9, <1>10, <1>11, RulesKept

LEMMA CopiedRules ==
  ASSUME RuleInv, NEW t \in DOMAIN task, NEW ok \in BOOLEAN, done_dest_migration(t, ok)
  PROVE  Rules'
<1>1. /\ task' = [task EXCEPT ![t].phase = "db", ![t].served = FALSE, ![t].dest_ret = ok]
      /\ UNCHANGED <<memory, database, misjudged, broken>>
  BY DEF done_dest_migration
<1>2. /\ t \notin running \cup ToSet(finished)
      /\ running' = running /\ finished' = finished
  BY DEF done_dest_migration, Pool!Submit, Pool!InFlight, Pool!ToSet, ToSet
<1>3. TypeOK /\ t \in Active
  BY DEF done_dest_migration, Active, Done, RuleInv, TaskInv, Typed
<1>4. PICK q : q = task[t]
  OBVIOUS
<1>5. q \in TaskRecord
  BY <1>3, <1>4, ActiveRecord
<1>. DEFINE r == [q EXCEPT !.phase = "db", !.served = FALSE, !.dest_ret = ok]
<1>6. task' = [task EXCEPT ![t] = r]
  BY <1>1, <1>3, <1>4 DEF TypeOK
<1>7. r.phase = "db"
  BY <1>5 DEF TaskRecord
<1>. HIDE DEF r
<1>8. OthersRest(t) /\ task'[t] = r
  BY <1>2, <1>3, <1>6, OnlyTask
<1>9. UNCHANGED <<memory, database>> /\ misjudged \subseteq misjudged' /\ broken \subseteq broken'
  BY <1>1
<1>. QED  BY <1>2, <1>7, <1>8, <1>9, QuietRules

LEMMA CallbackTask ==
  ASSUME NEW t, NEW ret, do_callback(t, ret)
  PROVE  \/ task' = [task EXCEPT ![t] = [phase |-> "answered", ret |-> ret]]
         \/ task' = [task EXCEPT ![t] = [phase |-> "dropped"]]
BY DEF do_callback, do_migrate_callback

\* A node's answer, to a task that waits for it.
LEMMA AnswerRules ==
  ASSUME RuleInv, NEW t \in DOMAIN task, NEW ok \in BOOLEAN,
         done_del_bucket(t, ok) \/ after_set_recovery(t, ok)
  PROVE  Rules'
<1>1. /\ task[t].phase \in {"del", "recover"}
      /\ UNCHANGED <<memory, database, pool, misjudged, broken>>
  BY DEF done_del_bucket, after_set_recovery
<1>2. t \in Active /\ TypeOK /\ task[t] \in TaskRecord
      /\ t \notin running \cup ToSet(finished)
  <2>1. t \in Active
    BY <1>1 DEF Active, Done
  <2>. QED  BY <1>1, <2>1, ActiveRecord DEF RuleInv, TaskInv, Typed, Places
<1>3. \E r : task' = [task EXCEPT ![t] = r] /\ r.phase # "log"
  <2>1. CASE \E ret \in BOOLEAN : do_callback(t, ret)
    <3>1. PICK ret \in BOOLEAN : do_callback(t, ret)
      BY <2>1
    <3>. DEFINE r == [phase |-> "answered", ret |-> ret]
                d == [phase |-> "dropped"]
    <3>2. task' = [task EXCEPT ![t] = r] \/ task' = [task EXCEPT ![t] = d]
      BY <3>1, CallbackTask
    <3>3. r.phase # "log" /\ d.phase # "log"
      OBVIOUS
    <3>. HIDE DEF r, d
    <3>. QED  BY <3>2, <3>3
  <2>2. CASE /\ task' = [task EXCEPT ![t].phase = "recover", ![t].served = FALSE]
    <3>. DEFINE r == [task[t] EXCEPT !.phase = "recover", !.served = FALSE]
    <3>1. task' = [task EXCEPT ![t] = r] /\ r.phase # "log"
      BY <1>2, <2>2 DEF TypeOK, TaskRecord
    <3>. HIDE DEF r
    <3>. QED  BY <3>1
  <2>3. CASE /\ task[t].phase = "recover"
             /\ task' = [task EXCEPT ![t].served = FALSE, ![t].retry = task[t].retry + 1]
    <3>. DEFINE r == [task[t] EXCEPT !.served = FALSE, !.retry = task[t].retry + 1]
    <3>1. task' = [task EXCEPT ![t] = r] /\ r.phase # "log"
      BY <1>2, <2>3 DEF TypeOK, TaskRecord
    <3>. HIDE DEF r
    <3>. QED  BY <3>1
  <2>. QED  BY <2>1, <2>2, <2>3 DEF done_del_bucket, after_set_recovery
<1>4. PICK r : task' = [task EXCEPT ![t] = r] /\ r.phase # "log"
  BY <1>3
<1>5. running' = running /\ finished' = finished
  BY <1>1 DEF pool
<1>6. OthersRest(t) /\ task'[t] = r
  BY <1>2, <1>4, <1>5, OnlyTask
<1>7. UNCHANGED <<memory, database>> /\ misjudged \subseteq misjudged' /\ broken \subseteq broken'
  BY <1>1
<1>. QED  BY <1>2, <1>4, <1>5, <1>6, <1>7, QuietRules

\* The order of a task whose source the rules name.
LEMMA OrderMade ==
  ASSUME TaskInv, NEW t \in Active, NEW q, q = task[t], new_migration_order(t),
         q.src \in Named(q.type, q.bucket, m_hash_table)
  PROVE  /\ m_hash_table'[q.type][q.bucket]
              = modify_rule_by_migration(m_hash_table[q.type][q.bucket], q.src, q.dest)
         /\ m_current_version'[q.type] = m_current_version[q.type] + 1
         /\ \A ty \in Types : ty # q.type => m_current_version'[ty] = m_current_version[ty]
<1>1. q.type \in Types /\ q.bucket \in Buckets /\ TypeOK
  BY ActiveRecord DEF TaskInv, Typed
<1>2. /\ m_hash_table' = [m_hash_table EXCEPT ![q.type][q.bucket] =
             modify_rule_by_migration(m_hash_table[q.type][q.bucket], q.src, q.dest)]
      /\ m_current_version' = [m_current_version EXCEPT ![q.type] = m_current_version[q.type] + 1]
  BY DEF new_migration_order, Named
<1>3. /\ m_hash_table \in [Types -> [Buckets -> Seq(Nodes)]]
      /\ m_current_version \in [Types -> Nat]
  BY <1>1 DEF TypeOK
<1>4. PICK new : new = modify_rule_by_migration(m_hash_table[q.type][q.bucket], q.src, q.dest)
  OBVIOUS
<1>5. m_hash_table' = [m_hash_table EXCEPT ![q.type][q.bucket] = new]
  BY <1>2, <1>4
<1>6. m_hash_table'[q.type][q.bucket] = new
  BY <1>1, <1>3, <1>5
<1>. QED  BY <1>1, <1>2, <1>3, <1>4, <1>6

\* after_update_db: what memory and the tasks look like afterwards.
LEMMA UpdatedTask ==
  ASSUME TaskInv, NEW t, after_update_db(t)
  PROVE  /\ t \in Active /\ t \in DOMAIN task /\ t \in ToSet(finished) /\ t \notin running
         /\ task[t].phase = "db" /\ task[t] \in TaskRecord
         /\ UNCHANGED <<database, nodes, misjudged, broken>> /\ running' = running
         /\ ToSet(finished') = ToSet(finished) \ {t}
         /\ (/\ task[t].dest_ret /\ task[t].m_exec_result /\ new_migration_order(t))
            \/ (~(task[t].dest_ret /\ task[t].m_exec_result) /\ UNCHANGED memory)
         /\ \E r : task' = [task EXCEPT ![t] = r] /\ r.phase \notin {"log", "db"}
<1>1. /\ finished # <<>> /\ t = Head(finished) /\ Pool!Answer /\ task[t].phase = "db"
      /\ UNCHANGED <<database, nodes, misjudged, broken>>
  BY DEF after_update_db
<1>2. /\ t \in Active /\ t \in DOMAIN task /\ t \in ToSet(finished)
      /\ t \notin running /\ running' = running
      /\ ToSet(finished') = ToSet(finished) \ {t}
  BY <1>1, Answered
<1>3. TypeOK /\ task[t] \in TaskRecord
  BY <1>2, ActiveRecord DEF TaskInv, Typed
<1>4. (/\ task[t].dest_ret /\ task[t].m_exec_result /\ new_migration_order(t))
      \/ (~(task[t].dest_ret /\ task[t].m_exec_result) /\ UNCHANGED memory)
  BY DEF after_update_db
<1>5. \E r : task' = [task EXCEPT ![t] = r] /\ r.phase \notin {"log", "db"}
  <2>1. CASE task[t].dest_ret /\ task[t].type = "SU"
    <3>. DEFINE q == task[t]
                r == [q EXCEPT !.phase = "del", !.moved = q.m_exec_result, !.served = FALSE]
    <3>1. task' = [task EXCEPT ![t] = r]
      BY <2>1 DEF after_update_db
    <3>2. r.phase = "del"
      BY <1>3 DEF TaskRecord
    <3>. HIDE DEF r
    <3>. QED  BY <3>1, <3>2
  <2>2. CASE ~(task[t].dest_ret /\ task[t].type = "SU")
    <3>1. PICK ret : do_callback(t, ret)
      BY <2>2 DEF after_update_db
    <3>. DEFINE r == [phase |-> "answered", ret |-> ret]
                d == [phase |-> "dropped"]
    <3>2. task' = [task EXCEPT ![t] = r] \/ task' = [task EXCEPT ![t] = d]
      BY <3>1, CallbackTask
    <3>3. r.phase \notin {"log", "db"} /\ d.phase \notin {"log", "db"}
      OBVIOUS
    <3>. HIDE DEF r, d
    <3>. QED  BY <3>2, <3>3
  <2>. QED  BY <2>1, <2>2
<1>. QED  BY <1>1, <1>2, <1>3, <1>4, <1>5

LEMMA UpdatedRules ==
  ASSUME RuleInv, NEW t, after_update_db(t)
  PROVE  Rules'
<1>. DEFINE Good == task[t].dest_ret /\ task[t].m_exec_result
<1>1. /\ t \in Active /\ t \in DOMAIN task /\ t \in ToSet(finished) /\ t \notin running
      /\ task[t].phase = "db" /\ task[t] \in TaskRecord
      /\ UNCHANGED <<database, nodes, misjudged, broken>> /\ running' = running
      /\ ToSet(finished') = ToSet(finished) \ {t}
  BY UpdatedTask DEF RuleInv
<1>2. (Good /\ new_migration_order(t)) \/ (~Good /\ UNCHANGED memory)
  BY UpdatedTask DEF RuleInv
<1>3. PICK r : task' = [task EXCEPT ![t] = r] /\ r.phase \notin {"log", "db"}
  BY UpdatedTask DEF RuleInv
<1>4. TypeOK /\ TaskInv
  BY DEF RuleInv, TaskInv, Typed
<1>5. OthersRest(t) /\ task'[t] = r
  BY <1>1, <1>3, <1>4, OnlyTask
<1>6. PICK q : q = task[t]
  OBVIOUS
<1>7. q.type \in Types /\ q.bucket \in Buckets /\ q.src \in Nodes /\ q.dest \in Nodes
  BY <1>1, <1>4, <1>6, ActiveRecord
<1>8. Key(t) = <<q.type, q.bucket>>
  BY <1>6 DEF Key
<1>9. Written(t) <=> Good
  <2>1. task[t].step = "post"
    BY <1>1 DEF RuleInv, Rules, StepOK
  <2>2. (task[t].dest_ret <=> task[t].dest_ret = TRUE) /\
        (task[t].m_exec_result <=> task[t].m_exec_result = TRUE)
    BY <1>1 DEF TaskRecord
  <2>. QED  BY <1>1, <2>1, <2>2 DEF Written
<1>. HIDE DEF Good
<1>10. ~Written(t)'
  BY <1>3, <1>5 DEF Written
<1>11. \A u : u # t =>
         /\ u \in Active' <=> u \in Active
         /\ u \in Active => /\ task'[u] = task[u] /\ Key(u)' = Key(u)
                            /\ u \in running' <=> u \in running
                            /\ u \in ToSet(finished)' <=> u \in ToSet(finished)
                            /\ Written(u)' <=> Written(u)
  BY <1>5 DEF OthersRest, Key, Written
<1>12. OtherRulesKept(q)
  <2>1. CASE new_migration_order(t)
    BY <1>1, <1>4, <1>6, <2>1, NewOrder
  <2>2. CASE UNCHANGED memory
    BY <2>2 DEF OtherRulesKept, memory
  <2>. QED  BY <1>2, <2>1, <2>2
<1>13. /\ db_rule' = db_rule /\ db_order' = db_order /\ misjudged' = misjudged /\ broken' = broken
  BY <1>1 DEF database
<1>14. ASSUME Key(t) \notin misjudged
       PROVE  /\ q.src \in Named(q.type, q.bucket, m_hash_table)
              /\ q.dest \notin Named(q.type, q.bucket, m_hash_table)
  <2>1. StageOK(q)
    BY <1>1, <1>4, <1>6, <1>14 DEF TaskInv, Stages
  <2>. QED  BY <1>1, <1>6, <2>1 DEF StageOK
<1>15. ASSUME Key(t) \notin misjudged
       PROVE  m_hash_table'[q.type][q.bucket] =
                IF Good THEN modify_rule_by_migration(m_hash_table[q.type][q.bucket], q.src, q.dest)
                ELSE m_hash_table[q.type][q.bucket]
  <2>1. CASE Good
    BY <1>1, <1>2, <1>4, <1>6, <1>14, <1>15, <2>1, OrderMade
  <2>2. CASE ~Good
    BY <1>2, <2>2 DEF memory
  <2>. QED  BY <2>1, <2>2
<1>16. \A u \in Active' : (StepOK(u) /\ SlotOK(u))'
  <2>. SUFFICES ASSUME NEW u \in Active' PROVE (StepOK(u) /\ SlotOK(u))'
    OBVIOUS
  <2>1. CASE u = t
    BY <1>1, <1>3, <1>5, <2>1 DEF StepOK, SlotOK
  <2>2. CASE u # t
    <3>1. StepOK(u) /\ SlotOK(u) /\ u \in Active
      BY <1>11, <2>2 DEF RuleInv, Rules
    <3>2. StepOK(u)'
      BY <1>11, <2>2, <3>1 DEF StepOK
    <3>3. SlotOK(u)'
      <4>. SUFFICES ASSUME u \in running', task'[u].step = "update",
                           Key(u)' \notin misjudged' \cup broken'
                    PROVE  LET row == m_hash_table'[task'[u].type][task'[u].bucket]
                           IN  /\ task'[u].slot \in DOMAIN row
                               /\ row[task'[u].slot] = task'[u].src
        BY DEF SlotOK
      <4>1. Key(u) # Key(t)
        BY <1>1, <1>4, <1>11, <1>13, <2>2, <3>1 DEF TaskInv, Alone
      <4>2. m_hash_table'[task[u].type][task[u].bucket] = m_hash_table[task[u].type][task[u].bucket]
        <5>1. task[u].type \in Types /\ task[u].bucket \in Buckets
          BY <1>4, <3>1, ActiveRecord
        <5>. QED  BY <1>8, <1>12, <4>1, <5>1 DEF OtherRulesKept, Key
      <4>. QED  BY <1>11, <1>13, <2>2, <3>1, <4>2 DEF SlotOK
    <3>. QED  BY <3>2, <3>3
  <2>. QED  BY <2>1, <2>2
<1>17. Distinct'
  <2>. SUFFICES ASSUME NEW ty \in Types, NEW b \in Buckets, <<ty, b>> \notin misjudged
                PROVE  IsInjective(m_hash_table'[ty][b])
    BY <1>13 DEF Distinct
  <2>1. IsInjective(m_hash_table[ty][b])
    BY DEF RuleInv, Rules, Distinct
  <2>2. CASE <<ty, b>> # Key(t)
    BY <1>8, <1>12, <2>1, <2>2 DEF OtherRulesKept
  <2>3. CASE <<ty, b>> = Key(t)
    <3>1. PICK row \in Seq(Nodes) : row = m_hash_table[q.type][q.bucket]
      <4>1. m_hash_table \in [Types -> [Buckets -> Seq(Nodes)]]
        BY <1>4 DEF TypeOK
      <4>2. q.type \in Types /\ q.bucket \in Buckets
        BY <1>7
      <4>. QED  BY <4>1, <4>2
    <3>2. IsInjective(row) /\ q.src \in ToSet(row) /\ q.dest \notin ToSet(row)
      BY <1>8, <1>14, <2>1, <2>3, <3>1 DEF Named
    <3>3. PICK src \in Nodes : src = q.src
      BY <1>7
    <3>4. PICK dest \in Nodes : dest = q.dest
      BY <1>7
    <3>5. IsInjective(modify_rule_by_migration(row, src, dest))
      BY <3>2, <3>3, <3>4, ModifiedRule
    <3>6. m_hash_table'[q.type][q.bucket] =
            IF Good THEN modify_rule_by_migration(row, src, dest) ELSE row
      BY <1>15, <2>3, <3>1, <3>3, <3>4
    <3>7. ty = q.type /\ b = q.bucket
      BY <1>8, <2>3
    <3>. QED  BY <3>2, <3>5, <3>6, <3>7
  <2>. QED  BY <2>2, <2>3
<1>18. ASSUME NEW ty \in Types, NEW b \in Buckets PROVE RowOK(ty, b)'
  <2>. SUFFICES ASSUME <<ty, b>> \notin misjudged \cup broken
                PROVE  /\ (\A u \in Active' : Key(u)' = <<ty, b>> => ~Written(u)') =>
                            db_rule[ty][b] = m_hash_table'[ty][b]
                       /\ \A u \in Active' : Key(u)' = <<ty, b>> /\ Written(u)' =>
                            db_rule[ty][b] = modify_rule_by_migration(m_hash_table'[ty][b],
                                                                      task'[u].src, task'[u].dest)
    BY <1>13 DEF RowOK
  <2>1. /\ (\A u \in Active : Key(u) = <<ty, b>> => ~Written(u)) =>
               db_rule[ty][b] = m_hash_table[ty][b]
        /\ \A u \in Active : Key(u) = <<ty, b>> /\ Written(u) =>
             db_rule[ty][b] = modify_rule_by_migration(m_hash_table[ty][b], task[u].src, task[u].dest)
    BY DEF RuleInv, Rules, RowOK
  <2>2. CASE <<ty, b>> # Key(t)
    <3>1. m_hash_table'[ty][b] = m_hash_table[ty][b]
      BY <1>8, <1>12, <2>2 DEF OtherRulesKept
    <3>. QED  BY <1>10, <1>11, <2>1, <2>2, <3>1
  <2>3. CASE <<ty, b>> = Key(t)
    <3>1. \A u \in Active : Key(u) = <<ty, b>> => u = t
      BY <1>1, <1>4, <2>3 DEF TaskInv, Alone
    <3>2. \A u \in Active' : Key(u)' = <<ty, b>> => ~Written(u)'
      BY <1>10, <1>11, <3>1
    <3>3. ty = q.type /\ b = q.bucket
      BY <1>8, <2>3
    <3>4. db_rule[ty][b] = IF Good THEN modify_rule_by_migration(m_hash_table[ty][b], q.src, q.dest)
                           ELSE m_hash_table[ty][b]
      BY <1>1, <1>6, <1>9, <2>1, <2>3, <3>1
    <3>5. db_rule[ty][b] = m_hash_table'[ty][b]
      BY <1>15, <2>3, <3>3, <3>4
    <3>. QED  BY <3>2, <3>5
  <2>. QED  BY <2>2, <2>3
<1>19. Counts'
  <2>. SUFFICES ASSUME misjudged \cup broken = {}, NEW ty \in Types
                PROVE  Len(db_order[ty]) = m_current_version'[ty] + Cardinality(Logged(ty)')
    BY <1>13 DEF Counts
  <2>1. Len(db_order[ty]) = m_current_version[ty] + Cardinality(Logged(ty))
    BY DEF RuleInv, Rules, Counts
  <2>2. m_current_version[ty] \in Nat /\ Cardinality(Logged(ty)) \in Nat
    BY <1>4, LoggedFinite DEF TypeOK
  <2>3. CASE Good /\ ty = q.type
    <3>1. m_current_version'[ty] = m_current_version[ty] + 1
      <4>1. q.src \in Named(q.type, q.bucket, m_hash_table)
        BY <1>14
      <4>. QED  BY <1>1, <1>2, <1>4, <1>6, <2>3, <4>1, OrderMade
    <3>2. t \in Logged(ty) /\ Logged(ty)' = Logged(ty) \ {t}
      <4>1. task[t].step = "post"
        BY <1>1 DEF RuleInv, Rules, StepOK
      <4>. QED  BY <1>1, <1>6, <1>9, <1>10, <1>11, <2>3, <4>1 DEF Logged
    <3>3. Cardinality(Logged(ty)') = Cardinality(Logged(ty)) - 1
      BY <1>4, <3>2, LoggedFinite
    <3>. QED  BY <2>1, <2>2, <3>1, <3>3
  <2>4. CASE ~(Good /\ ty = q.type)
    <3>1. m_current_version'[ty] = m_current_version[ty]
      <4>1. CASE Good
        <5>1. q.src \in Named(q.type, q.bucket, m_hash_table)
          BY <1>14
        <5>. QED  BY <1>1, <1>2, <1>4, <1>6, <2>4, <4>1, <5>1, OrderMade
      <4>2. CASE ~Good
        BY <1>2, <4>2 DEF memory
      <4>. QED  BY <4>1, <4>2
    <3>2. Logged(ty)' = Logged(ty)
      <4>1. t \notin Logged(ty)
        BY <1>6, <1>9, <2>4 DEF Logged
      <4>. QED  BY <1>10, <1>11, <4>1 DEF Logged
    <3>. QED  BY <2>1, <3>1, <3>2
  <2>. QED  BY <2>3, <2>4
<1>. QED  BY <1>16, <1>17, <1>18, <1>19 DEF Rules

-----------------------------------------------------------------------------
(* The invariant.                                                          *)

\* The rules of the start name no node twice.
DistinctStart == \A b \in Buckets : IsInjective(FirstRule[b])

LEMMA InitRules == ASSUME DistinctStart PROVE Init => Rules
<1>. SUFFICES ASSUME Init PROVE Rules
  OBVIOUS
<1>1. /\ m_hash_table = [ty \in Types |-> FirstRule] /\ db_rule = m_hash_table
      /\ m_current_version = [ty \in Types |-> 0]
      /\ db_order = [ty \in Types |-> <<>>] /\ task = <<>>
  BY DEF Init
<1>2. Active = {}
  BY <1>1 DEF Active
<1>3. Distinct
  BY <1>1 DEF Distinct, DistinctStart
<1>4. ASSUME NEW ty \in Types, NEW b \in Buckets PROVE RowOK(ty, b)
  BY <1>1, <1>2 DEF RowOK
<1>5. ASSUME NEW ty \in Types PROVE Len(db_order[ty]) = m_current_version[ty] + Cardinality(Logged(ty))
  <2>1. Logged(ty) = {} /\ Len(db_order[ty]) = 0 /\ m_current_version[ty] = 0
    BY <1>1, <1>2 DEF Logged
  <2>2. Cardinality(Logged(ty)) = 0
    BY <2>1, FS_EmptySet
  <2>. QED  BY <2>1, <2>2
<1>6. Counts
  BY <1>5 DEF Counts
<1>. QED  BY <1>2, <1>3, <1>4, <1>6 DEF Rules

LEMMA NextRules == RuleInv /\ [Next]_vars => RuleInv'
<1>. SUFFICES ASSUME RuleInv, [Next]_vars PROVE Rules'
  BY NextTaskInv DEF RuleInv
<1>1. ASSUME NEW a \in Agents, CloseAgent(a) PROVE Rules'
  BY <1>1, IdleRules DEF CloseAgent, pool
<1>2. ASSUME NEW a \in Agents, NEW ty \in Types, NEW b \in Buckets, NEW src \in Nodes,
             NEW dest \in Nodes, do_migrate_bucket(a, ty, b, src, dest)
      PROVE  Rules'
  BY <1>2, NewTaskRules
<1>3. ASSUME NEW ty \in Types, NEW n \in Nodes, update_last_bucket_load(ty, n) PROVE Rules'
  BY <1>3, IdleRules DEF update_last_bucket_load, pool
<1>4. CASE StartItem
  BY <1>4, StartRules
<1>5. ASSUME NEW t \in DOMAIN task, Serve(t) PROVE Rules'
  BY <1>5, ServeRules
<1>6. ASSUME NEW t \in DOMAIN task, NodeAnswers(t) PROVE Rules'
  <2>1. PICK ok \in BOOLEAN : \/ done_dest_migration(t, ok) \/ done_del_bucket(t, ok)
                              \/ after_set_recovery(t, ok)
    BY <1>6 DEF NodeAnswers
  <2>2. CASE done_dest_migration(t, ok)
    BY <2>2, CopiedRules
  <2>3. CASE done_del_bucket(t, ok) \/ after_set_recovery(t, ok)
    BY <2>3, AnswerRules
  <2>. QED  BY <2>1, <2>2, <2>3
<1>7. ASSUME NEW t \in DOMAIN task, Worker(t) PROVE Rules'
  <2>1. t \in running
    BY <1>7 DEF Worker, Connect, RecordFailure, SelectRule, UpdateRule, InsertOrder,
                PostItem, Pool!Finish
  <2>2. CASE Connect(t)
    BY <2>1, <2>2, ConnectRules
  <2>3. CASE RecordFailure(t)
    BY <2>1, <2>3, RecordFailureRules
  <2>4. CASE SelectRule(t)
    BY <2>1, <2>4, SelectRules
  <2>5. CASE UpdateRule(t)
    BY <2>1, <2>5, UpdateRules
  <2>6. CASE InsertOrder(t)
    BY <2>1, <2>6, InsertRules
  <2>7. CASE PostItem(t)
    BY <2>1, <2>7, PostRules
  <2>. QED  BY <1>7, <2>2, <2>3, <2>4, <2>5, <2>6, <2>7 DEF Worker
<1>8. ASSUME NEW t \in DOMAIN task, Callbacks(t) PROVE Rules'
  BY <1>8, LoggedRules, UpdatedRules DEF Callbacks
<1>9. CASE UNCHANGED vars
  BY <1>9, IdleRules DEF vars, pool
<1>. QED  BY <1>1, <1>2, <1>3, <1>4, <1>5, <1>6, <1>7, <1>8, <1>9 DEF Next, Progress

\* The invariant of the rules holds in every reachable state.
THEOREM MigrationRules == ASSUME DistinctStart PROVE Spec => []RuleInv
<1>1. Init => RuleInv
  BY InitRules, InitTaskInv DEF RuleInv
<1>. QED  BY <1>1, NextRules, PTL DEF Spec

\* The two rule tables agree wherever no task is at the database, and the version
\* counts the orders there, for any number of nodes, buckets, operators and tasks.
THEOREM MigrationMemoryMatchesDatabase ==
  ASSUME DistinctStart PROVE Spec => []MemoryMatchesDatabase
<1>1. RuleInv => MemoryMatchesDatabase
  <2>. SUFFICES ASSUME RuleInv PROVE MemoryMatchesDatabase
    OBVIOUS
  <2>1. ASSUME NEW ty \in Types, NEW b \in Buckets, <<ty, b>> \notin misjudged \cup broken,
               \A t \in Active : Key(t) = <<ty, b>> => task[t].phase # "db"
        PROVE  m_hash_table[ty][b] = db_rule[ty][b]
    <3>1. RowOK(ty, b)
      BY DEF RuleInv, Rules
    <3>2. \A u \in Active : Key(u) = <<ty, b>> => ~Written(u)
      BY <2>1 DEF Written
    <3>. QED  BY <2>1, <3>1, <3>2 DEF RowOK
  <2>2. ASSUME misjudged \cup broken = {}, \A t \in Active : task[t].phase # "db",
               NEW ty \in Types
        PROVE  m_current_version[ty] = Len(db_order[ty])
    <3>1. Logged(ty) = {}
      BY <2>2 DEF Logged, Written
    <3>2. Cardinality(Logged(ty)) = 0
      BY <3>1, FS_EmptySet
    <3>3. Len(db_order[ty]) = m_current_version[ty] + Cardinality(Logged(ty))
      BY <2>2 DEF RuleInv, Rules, Counts
    <3>4. m_current_version[ty] \in Nat
      BY DEF RuleInv, TaskInv, Typed, TypeOK
    <3>. QED  BY <3>2, <3>3, <3>4
  <2>. QED  BY <2>1, <2>2 DEF MemoryMatchesDatabase
<1>. QED  BY <1>1, MigrationRules, PTL

-----------------------------------------------------------------------------
(* A success is real.                                                      *)

\* The task that moves on is the only one that can succeed, when it is answered.
LEMMA NoSuccess ==
  ASSUME TypeOK, NEW u \in DOMAIN task, NEW r, task' = [task EXCEPT ![u] = r],
         r.phase # "answered" \/ ~r.ret, NEW t \in DOMAIN task
  PROVE  ~Succeeds(t)
<1>1. task'[u] = r /\ (t # u => task'[t] = task[t])
  BY DEF TypeOK
<1>. QED  BY <1>1 DEF Succeeds

LEMMA CallbackSuccess ==
  ASSUME TypeOK, NEW u \in DOMAIN task, NEW ret, do_callback(u, ret),
         NEW t \in DOMAIN task, Succeeds(t)
  PROVE  t = u /\ ret
<1>. DEFINE r == [phase |-> "answered", ret |-> ret]
            d == [phase |-> "dropped"]
<1>1. task' = [task EXCEPT ![u] = r] \/ task' = [task EXCEPT ![u] = d]
  BY CallbackTask
<1>2. r.phase = "answered" /\ r.ret = ret /\ d.phase # "answered"
  OBVIOUS
<1>. HIDE DEF r, d
<1>3. task'[u] \in {r, d} /\ (t # u => task'[t] = task[t])
  BY <1>1 DEF TypeOK
<1>. QED  BY <1>2, <1>3 DEF Succeeds

\* Only the two ends of a migration that went well tell the operator of a success.
LEMMA SuccessSteps ==
  ASSUME TaskInv, [Next]_vars, NEW t \in DOMAIN task, Succeeds(t)
  PROVE  \/ /\ after_update_db(t) /\ task[t].type # "SU"
            /\ task[t].dest_ret /\ task[t].m_exec_result
         \/ after_set_recovery(t, TRUE)
<1>0. TypeOK
  BY DEF TaskInv, Typed
<1>1. ASSUME task' = task PROVE FALSE
  BY <1>1 DEF Succeeds
<1>2. ASSUME NEW a \in Agents, NEW ty \in Types, NEW b \in Buckets, NEW src \in Nodes,
             NEW dest \in Nodes, do_migrate_bucket(a, ty, b, src, dest)
      PROVE  FALSE
  <2>1. PICK r : task' = Append(task, r)
    BY <1>2 DEF do_migrate_bucket
  <2>2. task'[t] = task[t]
    BY <1>0, <2>1 DEF TypeOK
  <2>. QED  BY <2>2 DEF Succeeds
<1>3. CASE StartItem
  <2>1. PICK u : u = Head(queue)
    OBVIOUS
  <2>2. u \in Active /\ u \in DOMAIN task
    <3>1. queue # <<>> /\ queue \in Seq(DOMAIN task) /\ Places
      BY <1>0, <1>3 DEF StartItem, Pool!Start, TypeOK, TaskInv
    <3>2. u \in ToSet(queue)
      BY <2>1, <3>1, TailDistinct DEF Places
    <3>. QED  BY <3>2, InFlightActive
  <2>3. task[u] \in TaskRecord /\ task[u].phase # "answered"
    BY <1>0, <2>2, ActiveRecord
  <2>4. PICK r : r = [task[u] EXCEPT !.step = "begin"]
    OBVIOUS
  <2>5. r.phase # "answered"
    BY <2>3, <2>4, BeginRecord DEF SameStage
  <2>6. task' = [task EXCEPT ![u] = r]
    BY <1>0, <1>3, <2>1, <2>2, <2>4 DEF StartItem, TypeOK
  <2>. QED  BY <1>0, <2>2, <2>5, <2>6, NoSuccess
<1>4. ASSUME NEW u \in DOMAIN task, Serve(u) PROVE FALSE
  <2>1. /\ task[u].phase \in Waiting /\ task' = [task EXCEPT ![u].served = TRUE]
    BY <1>4 DEF Serve
  <2>2. task[u] \in TaskRecord
    BY <1>0, <2>1, ActiveRecord DEF Active, Waiting, Done
  <2>3. PICK r : r = [task[u] EXCEPT !.served = TRUE]
    OBVIOUS
  <2>4. r.phase # "answered"
    BY <2>1, <2>2, <2>3, ServedRecord DEF Waiting
  <2>5. task' = [task EXCEPT ![u] = r]
    BY <1>0, <2>1, <2>3 DEF TypeOK
  <2>. QED  BY <1>0, <2>4, <2>5, NoSuccess
<1>5. ASSUME NEW u \in DOMAIN task, Worker(u) PROVE FALSE
  <2>1. u \in running
    BY <1>5 DEF Worker, Connect, RecordFailure, SelectRule, UpdateRule, InsertOrder,
                PostItem, Pool!Finish
  <2>2. u \in Active /\ task[u].phase # "answered"
    <3>1. u \in Active
      BY <2>1, InFlightActive
    <3>. QED  BY <1>0, <3>1, ActiveRecord
  <2>3. CASE PostItem(u)
    BY <1>1, <2>3 DEF PostItem
  <2>4. CASE ~PostItem(u)
    <3>1. PICK r \in TaskRecord : task' = [task EXCEPT ![u] = r] /\ SameStage(r, task[u])
      BY <1>0, <1>5, <2>2, <2>4, PassTask, WriteTask DEF Worker
    <3>2. r.phase # "answered"
      BY <2>2, <3>1 DEF SameStage
    <3>. QED  BY <1>0, <1>5, <3>1, <3>2, NoSuccess
  <2>. QED  BY <2>3, <2>4
<1>6. ASSUME NEW u \in DOMAIN task, after_log_operation(u) PROVE FALSE
  <2>1. /\ task' = [task EXCEPT ![u].phase = "dest", ![u].served = FALSE]
        /\ u \in Active
    BY <1>6, Answered DEF after_log_operation
  <2>2. task[u] \in TaskRecord
    BY <1>0, <2>1, ActiveRecord
  <2>3. PICK r : r = [task[u] EXCEPT !.phase = "dest", !.served = FALSE]
    OBVIOUS
  <2>4. r.phase # "answered"
    BY <2>2, <2>3, AskRecord
  <2>5. task' = [task EXCEPT ![u] = r]
    BY <1>0, <1>6, <2>1, <2>3 DEF TypeOK
  <2>. QED  BY <1>0, <1>6, <2>4, <2>5, NoSuccess
<1>7. ASSUME NEW u \in DOMAIN task, NEW ok \in BOOLEAN, done_dest_migration(u, ok) PROVE FALSE
  <2>1. /\ task[u].phase = "dest"
        /\ task' = [task EXCEPT ![u].phase = "db", ![u].served = FALSE, ![u].dest_ret = ok]
    BY <1>7 DEF done_dest_migration
  <2>2. task[u] \in TaskRecord
    BY <1>0, <2>1, ActiveRecord DEF Active, Done
  <2>3. PICK r : r = [task[u] EXCEPT !.phase = "db", !.served = FALSE, !.dest_ret = ok]
    OBVIOUS
  <2>4. r.phase # "answered"
    BY <2>2, <2>3, DatabaseRecord
  <2>5. task' = [task EXCEPT ![u] = r]
    BY <1>0, <2>1, <2>3 DEF TypeOK
  <2>. QED  BY <1>0, <2>4, <2>5, NoSuccess
<1>8. ASSUME NEW u \in DOMAIN task, NEW ok \in BOOLEAN, done_del_bucket(u, ok) PROVE FALSE
  <2>1. CASE do_callback(u, FALSE)
    BY <1>0, <2>1, CallbackSuccess
  <2>2. CASE ~do_callback(u, FALSE)
    <3>1. /\ task[u].phase = "del"
          /\ task' = [task EXCEPT ![u].phase = "recover", ![u].served = FALSE]
      BY <1>8, <2>2 DEF done_del_bucket
    <3>2. task[u] \in TaskRecord
      BY <1>0, <3>1, ActiveRecord DEF Active, Done
    <3>3. PICK r : r = [task[u] EXCEPT !.phase = "recover", !.served = FALSE]
      OBVIOUS
    <3>4. r.phase # "answered"
      BY <3>2, <3>3, AskRecord
    <3>5. task' = [task EXCEPT ![u] = r]
      BY <1>0, <3>1, <3>3 DEF TypeOK
    <3>. QED  BY <1>0, <3>4, <3>5, NoSuccess
  <2>. QED  BY <2>1, <2>2
<1>9. ASSUME NEW u \in DOMAIN task, NEW ok \in BOOLEAN, after_set_recovery(u, ok)
      PROVE  after_set_recovery(t, TRUE)
  <2>1. CASE ok
    <3>1. do_callback(u, TRUE) /\ ok = TRUE
      BY <1>9, <2>1 DEF after_set_recovery
    <3>. QED  BY <1>0, <1>9, <3>1, CallbackSuccess
  <2>2. CASE ~ok /\ do_callback(u, FALSE)
    BY <1>0, <2>2, CallbackSuccess
  <2>3. CASE ~ok /\ ~do_callback(u, FALSE)
    <3>1. /\ task[u].phase = "recover"
          /\ task' = [task EXCEPT ![u].served = FALSE, ![u].retry = task[u].retry + 1]
      BY <1>9, <2>3 DEF after_set_recovery
    <3>2. task[u] \in TaskRecord
      BY <1>0, <3>1, ActiveRecord DEF Active, Done
    <3>3. PICK k : k = task[u].retry + 1
      OBVIOUS
    <3>4. PICK r : r = [task[u] EXCEPT !.served = FALSE, !.retry = k]
      OBVIOUS
    <3>5. r.phase # "answered"
      BY <3>1, <3>2, <3>4 DEF TaskRecord
    <3>6. task' = [task EXCEPT ![u] = r]
      BY <1>0, <3>1, <3>3, <3>4 DEF TypeOK
    <3>. QED  BY <1>0, <3>5, <3>6, NoSuccess
  <2>. QED  BY <2>1, <2>2, <2>3
<1>10. ASSUME NEW u \in DOMAIN task, after_update_db(u)
       PROVE  /\ after_update_db(t) /\ task[t].type # "SU"
              /\ task[t].dest_ret /\ task[t].m_exec_result
  <2>1. u \in Active /\ task[u] \in TaskRecord
    BY <1>10, UpdatedTask
  <2>2. CASE task[u].dest_ret /\ task[u].type = "SU"
    <3>1. PICK r : r = [task[u] EXCEPT !.phase = "del", !.moved = task[u].m_exec_result,
                                       !.served = FALSE]
      OBVIOUS
    <3>2. task' = [task EXCEPT ![u] = r]
      BY <1>10, <2>2, <3>1 DEF after_update_db
    <3>3. r.phase # "answered"
      BY <2>1, <3>1, DeleteRecord DEF TaskRecord
    <3>. QED  BY <1>0, <3>2, <3>3, NoSuccess
  <2>3. CASE ~(task[u].dest_ret /\ task[u].type = "SU")
    <3>1. do_callback(u, task[u].dest_ret /\ task[u].m_exec_result)
      BY <1>10, <2>3 DEF after_update_db
    <3>2. t = u /\ task[u].dest_ret /\ task[u].m_exec_result
      <4>1. PICK ret : ret = (task[u].dest_ret /\ task[u].m_exec_result)
        OBVIOUS
      <4>2. t = u /\ ret
        BY <1>0, <3>1, <4>1, CallbackSuccess
      <4>. QED  BY <4>1, <4>2
    <3>. QED  BY <1>10, <2>3, <3>2
  <2>. QED  BY <2>2, <2>3
<1>11. ASSUME NEW u \in DOMAIN task, Progress(u)
       PROVE  \/ /\ after_update_db(t) /\ task[t].type # "SU"
                 /\ task[t].dest_ret /\ task[t].m_exec_result
              \/ after_set_recovery(t, TRUE)
  BY <1>5, <1>6, <1>7, <1>8, <1>9, <1>10, <1>11 DEF Progress, NodeAnswers, Callbacks
<1>. QED  BY <1>1, <1>2, <1>3, <1>4, <1>11
          DEF Next, CloseAgent, update_last_bucket_load, vars

\* Once a migration is done, both rules of its bucket are those it made.
LEMMA RulesAgreeAfter ==
  ASSUME RuleInv, RuleInv', NEW t \in Active, t \notin Active', OthersRest(t),
         misjudged' = misjudged, Key(t) \notin misjudged \cup broken',
         NEW q, q = task[t]
  PROVE  db_rule'[q.type][q.bucket] = m_hash_table'[q.type][q.bucket]
<1>1. q.type \in Types /\ q.bucket \in Buckets
  BY ActiveRecord DEF RuleInv, TaskInv, Typed
<1>2. PICK ty \in Types, b \in Buckets : ty = q.type /\ b = q.bucket
  BY <1>1
<1>3. Key(t) = <<ty, b>>
  BY <1>2 DEF Key
<1>4. ASSUME NEW u \in Active' PROVE Key(u)' # <<ty, b>>
  <2>1. u # t /\ u \in Active /\ task'[u] = task[u]
    BY <1>4 DEF OthersRest
  <2>2. Key(u) # Key(t)
    BY <2>1 DEF RuleInv, TaskInv, Alone
  <2>. QED  BY <1>3, <2>1, <2>2 DEF Key
<1>5. RowOK(ty, b)'
  BY DEF RuleInv, Rules
<1>6. <<ty, b>> \notin misjudged' \cup broken'
  BY <1>3
<1>7. db_rule'[ty][b] = m_hash_table'[ty][b]
  BY <1>4, <1>5, <1>6 DEF RowOK
<1>. QED  BY <1>2, <1>7

\* What a success means.
Real(t) ==
  LET b == task[t].bucket
      ty == task[t].type
      rules == IF Key(t) \in broken THEN {m_hash_table'}
               ELSE {m_hash_table', db_rule'}
  IN /\ \A r \in rules : /\ task[t].dest \in Named(ty, b, r)
                         /\ task[t].src \notin Named(ty, b, r)
     /\ ty = "SU" => /\ <<task[t].dest, b>> \in serving'["SU"]
                     /\ <<task[t].src, b>> \notin held'["SU"]

LEMMA RealWhen ==
  ASSUME RuleInv, RuleInv', NEW t \in Active, NEW r, task' = [task EXCEPT ![t] = r],
         r.phase \in Done, t \notin running,
         running' = running, ToSet(finished') \in {ToSet(finished), ToSet(finished) \ {t}},
         misjudged' = misjudged, broken' = broken, Key(t) \notin misjudged,
         NEW q, q = task[t],
         q.dest \in Named(q.type, q.bucket, m_hash_table)',
         q.src \notin Named(q.type, q.bucket, m_hash_table)',
         q.type = "SU" => /\ <<q.dest, q.bucket>> \in serving'["SU"]
                          /\ <<q.src, q.bucket>> \notin held'["SU"]
  PROVE  Real(t)
<1>1. TypeOK /\ t \in DOMAIN task
  BY DEF RuleInv, TaskInv, Typed, Active
<1>2. \A u : u # t => /\ u \in running' <=> u \in running
                      /\ u \in ToSet(finished)' <=> u \in ToSet(finished)
  BY DEF ToSet
<1>3. OthersRest(t) /\ t \notin Active'
  BY <1>1, <1>2, OnlyTask
<1>4. Key(t) \notin broken =>
        db_rule'[q.type][q.bucket] = m_hash_table'[q.type][q.bucket]
  BY <1>3, RulesAgreeAfter
<1>5. ASSUME NEW rules \in (IF Key(t) \in broken THEN {m_hash_table'} ELSE {m_hash_table', db_rule'})
      PROVE  q.dest \in Named(q.type, q.bucket, rules) /\ q.src \notin Named(q.type, q.bucket, rules)
  <2>1. rules[q.type][q.bucket] = m_hash_table'[q.type][q.bucket]
    BY <1>4
  <2>. QED  BY <2>1 DEF Named
<1>. QED  BY <1>5 DEF Real

\* A success told to the operator is real: the rules in memory and, unless a
\* statement failed, in the database name the destination and no longer the
\* source, and an SU's destination serves the bucket alone of the two.
THEOREM MigrationSuccessIsReal == ASSUME DistinctStart PROVE Spec => SuccessIsReal
<1>1. RuleInv /\ RuleInv' /\ [Next]_vars =>
        [\A t \in DOMAIN task : Succeeds(t) /\ Key(t) \notin misjudged => Real(t)]_vars
  <2>. SUFFICES ASSUME RuleInv, RuleInv', [Next]_vars,
                       NEW t \in DOMAIN task, Succeeds(t), Key(t) \notin misjudged
                PROVE  Real(t)
    OBVIOUS
  <2>1. TaskInv
    BY DEF RuleInv
  <2>2. PICK q : q = task[t]
    OBVIOUS
  <2>3. CASE /\ after_update_db(t) /\ task[t].type # "SU"
             /\ task[t].dest_ret /\ task[t].m_exec_result
    <3>1. /\ t \in Active /\ t \notin running /\ running' = running
          /\ ToSet(finished') = ToSet(finished) \ {t}
          /\ misjudged' = misjudged /\ broken' = broken
          /\ new_migration_order(t) /\ task[t].phase = "db"
      BY <2>1, <2>3, UpdatedTask
    <3>2. PICK r : task' = [task EXCEPT ![t] = r] /\ r.phase \in Done
      <4>1. PICK ret : do_callback(t, ret)
        BY <2>3 DEF after_update_db
      <4>. DEFINE a == [phase |-> "answered", ret |-> ret]
                  d == [phase |-> "dropped"]
      <4>2. task' = [task EXCEPT ![t] = a] \/ task' = [task EXCEPT ![t] = d]
        BY <4>1, CallbackTask
      <4>3. a.phase \in Done /\ d.phase \in Done
        BY DEF Done
      <4>. HIDE DEF a, d
      <4>. QED  BY <4>2, <4>3
    <3>3. /\ q.src \in Named(q.type, q.bucket, m_hash_table)
          /\ q.dest \notin Named(q.type, q.bucket, m_hash_table)
      BY <2>1, <2>2, <3>1 DEF TaskInv, Stages, StageOK
    <3>4. m_hash_table'[q.type][q.bucket]
            = modify_rule_by_migration(m_hash_table[q.type][q.bucket], q.src, q.dest)
      BY <2>1, <2>2, <3>1, <3>3, OrderMade
    <3>5. /\ m_hash_table[q.type][q.bucket] \in Seq(Nodes)
          /\ q.src \in Nodes /\ q.dest \in Nodes
      <4>1. TypeOK
        BY <2>1 DEF TaskInv, Typed
      <4>2. q.type \in Types /\ q.bucket \in Buckets /\ q.src \in Nodes /\ q.dest \in Nodes
        BY <2>2, <3>1, <4>1, ActiveRecord
      <4>. QED  BY <4>1, <4>2 DEF TypeOK
    <3>6. ToSet(m_hash_table'[q.type][q.bucket])
            = (ToSet(m_hash_table[q.type][q.bucket]) \ {q.src}) \cup {q.dest}
      <4>1. PICK rule \in Seq(Nodes), src \in Nodes, dest \in Nodes :
              /\ rule = m_hash_table[q.type][q.bucket]
              /\ src = q.src /\ dest = q.dest
        BY <3>5
      <4>2. src \in ToSet(rule) /\ dest \notin ToSet(rule)
        BY <3>3, <4>1 DEF Named
      <4>3. ToSet(modify_rule_by_migration(rule, src, dest)) = (ToSet(rule) \ {src}) \cup {dest}
        BY <4>2, ModifiedRule
      <4>. QED  BY <3>4, <4>1, <4>3
    <3>7. /\ q.dest \in Named(q.type, q.bucket, m_hash_table)'
          /\ q.src \notin Named(q.type, q.bucket, m_hash_table)'
      BY <3>3, <3>6 DEF Named
    <3>8. q.type # "SU"
      BY <2>2, <2>3
    <3>. QED  BY <2>2, <3>1, <3>2, <3>7, <3>8, RealWhen
  <2>4. CASE after_set_recovery(t, TRUE)
    <3>1. /\ task[t].phase = "recover" /\ task[t].served /\ do_callback(t, TRUE)
          /\ UNCHANGED <<memory, nodes, pool, misjudged, broken>>
      BY <2>4 DEF after_set_recovery
    <3>2. t \in Active /\ t \notin running
      BY <2>1, <3>1 DEF Active, Done, TaskInv, Places
    <3>3. PICK r : task' = [task EXCEPT ![t] = r] /\ r.phase \in Done
      <4>. DEFINE a == [phase |-> "answered", ret |-> TRUE]
                  d == [phase |-> "dropped"]
      <4>1. task' = [task EXCEPT ![t] = a] \/ task' = [task EXCEPT ![t] = d]
        BY <3>1, CallbackTask
      <4>2. a.phase \in Done /\ d.phase \in Done
        BY DEF Done
      <4>. HIDE DEF a, d
      <4>. QED  BY <4>1, <4>2
    <3>4. StageOK(q)
      BY <2>1, <2>2, <3>2 DEF TaskInv, Stages
    <3>5. /\ q.dest \in Named(q.type, q.bucket, m_hash_table)
          /\ q.src \notin Named(q.type, q.bucket, m_hash_table)
          /\ <<q.dest, q.bucket>> \in serving["SU"] /\ <<q.src, q.bucket>> \notin held["SU"]
      BY <2>2, <3>1, <3>4 DEF StageOK
    <3>6. /\ m_hash_table' = m_hash_table /\ held' = held /\ serving' = serving
          /\ running' = running /\ finished' = finished
          /\ misjudged' = misjudged /\ broken' = broken
      BY <3>1 DEF memory, nodes, pool
    <3>7. /\ q.dest \in Named(q.type, q.bucket, m_hash_table)'
          /\ q.src \notin Named(q.type, q.bucket, m_hash_table)'
          /\ ToSet(finished') = ToSet(finished)
      BY <3>5, <3>6 DEF Named
    <3>. QED  BY <2>2, <3>2, <3>3, <3>5, <3>6, <3>7, RealWhen
  <2>. QED  BY <2>1, <2>3, <2>4, SuccessSteps
<1>. QED  BY <1>1, MigrationRules, PTL DEF SuccessIsReal, Spec, Real

=============================================================================
