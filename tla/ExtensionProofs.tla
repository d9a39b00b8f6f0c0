--------------------------- MODULE ExtensionProofs --------------------------
(***************************************************************************)
(* Proofs about Extension for any nodes and operators and any number of    *)
(* extensions: the types, that memory is never ahead of the database, that *)
(* no migration is admitted at a node with an unanswered request, and that *)
(* a success told to an operator is one.                                   *)
(***************************************************************************)
EXTENDS Extension, FiniteSetTheorems, TLAPS

-----------------------------------------------------------------------------
(* Powers of two.                                                          *)

\* The powers of two, which are the numbers of subsets.
LEMMA PowersOfTwo ==
  /\ 2 ^ 0 = 1
  /\ \A n \in Nat : 2 ^ n \in Nat \ {0} /\ 2 ^ (n + 1) = 2 * 2 ^ n
<1>. DEFINE S(n) == SUBSET (1..n)
            Larger(n) == {T \cup {n + 1} : T \in S(n)}
<1>1. \A n \in Nat : IsFiniteSet(1..n) /\ Cardinality(1..n) = n
  BY FS_Interval
<1>2. \A n \in Nat : IsFiniteSet(S(n)) /\ Cardinality(S(n)) = 2 ^ n
  <2>. SUFFICES ASSUME NEW n \in Nat PROVE IsFiniteSet(S(n)) /\ Cardinality(S(n)) = 2 ^ n
    OBVIOUS
  <2>1. /\ IsFiniteSet(SUBSET (1..n))
        /\ Cardinality(SUBSET (1..n)) = 2 ^ Cardinality(1..n)
    BY <1>1, FS_SUBSET
  <2>. QED  BY <1>1, <2>1
<1>3. 2 ^ 0 = 1
  <2>1. S(0) = {{}}
    OBVIOUS
  <2>2. Cardinality({{}}) = 1
    BY FS_Singleton
  <2>. QED  BY <1>2, <2>1, <2>2
<1>4. ASSUME NEW n \in Nat
      PROVE  2 ^ n \in Nat \ {0} /\ 2 ^ (n + 1) = 2 * 2 ^ n
  <2>1. 2 ^ n \in Nat \ {0}
    <3>1. {} \in S(n)
      OBVIOUS
    <3>2. Cardinality(S(n)) \in Nat /\ Cardinality(S(n)) # 0
      BY <1>2, <3>1, FS_CardinalityType, FS_EmptySet
    <3>. QED  BY <1>2, <3>2
  <2>2. S(n + 1) = S(n) \cup Larger(n)
    <3>1. ASSUME NEW T \in S(n + 1) PROVE T \in S(n) \cup Larger(n)
      <4>1. CASE n + 1 \notin T
        BY <4>1
      <4>2. CASE n + 1 \in T
        <5>1. T \ {n + 1} \in S(n) /\ T = (T \ {n + 1}) \cup {n + 1}
          BY <4>2
        <5>. QED  BY <5>1
      <4>. QED  BY <4>1, <4>2
    <3>2. 1..n \subseteq 1..(n + 1) /\ n + 1 \in 1..(n + 1)
      OBVIOUS
    <3>. QED  BY <3>1, <3>2
  <2>3. S(n) \cap Larger(n) = {}
    OBVIOUS
  <2>4. IsFiniteSet(Larger(n)) /\ Cardinality(Larger(n)) = 2 ^ n
    <3>. DEFINE f == [T \in S(n) |-> T \cup {n + 1}]
    <3>1. f \in Bijection(S(n), Larger(n))
      <4>1. f \in [S(n) -> Larger(n)]
        OBVIOUS
      <4>2. ASSUME NEW T \in S(n), NEW U \in S(n), f[T] = f[U] PROVE T = U
        <5>1. T = f[T] \ {n + 1} /\ U = f[U] \ {n + 1}
          OBVIOUS
        <5>. QED  BY <4>2, <5>1
      <4>3. \A U \in Larger(n) : \E T \in S(n) : f[T] = U
        OBVIOUS
      <4>. QED  BY <4>1, <4>2, <4>3 DEF Bijection, Injection, Surjection, IsInjective
    <3>2. ExistsBijection(S(n), Larger(n))
      BY <3>1 DEF ExistsBijection
    <3>. HIDE DEF S, Larger
    <3>3. IsFiniteSet(Larger(n)) /\ Cardinality(Larger(n)) = Cardinality(S(n))
      BY <1>2, <3>2, FS_Bijection
    <3>. QED  BY <1>2, <3>3
  <2>. HIDE DEF S, Larger
  <2>5. Cardinality(S(n) \cup Larger(n)) = Cardinality(S(n)) + Cardinality(Larger(n))
    <3>1. /\ Cardinality(S(n) \cup Larger(n)) =
               Cardinality(S(n)) + Cardinality(Larger(n)) - Cardinality(S(n) \cap Larger(n))
      BY <1>2, <2>4, FS_Union
    <3>2. Cardinality(S(n) \cap Larger(n)) = 0
      BY <2>3, FS_EmptySet
    <3>. QED  BY <1>2, <2>1, <2>4, <3>1, <3>2
  <2>. QED  BY <1>2, <2>1, <2>2, <2>4, <2>5
<1>. QED  BY <1>3, <1>4

-----------------------------------------------------------------------------
(* The inductive invariant.                                                *)

\* A node has one request of a task at most.
AskedOnce == \A c, d \in calls : c.task = d.task /\ c.node = d.node => c = d

\* Only the current task has its first work item; only it is ahead of memory.
FirstIsCurrent == \A t \in DOMAIN task : task[t].item = "first" => t = g_extent_task

\* Before the rows are copied the task is the next extension, nobody was asked,
\* and once they are copied they are all there.
BeforeCopy(t) ==
  task[t].item = "first" =>
    /\ task[t].m_state = "EXTENTING"
    /\ task[t].new_mod = m_current_mod + 1
    /\ task[t].extent_list = {} /\ task[t].retry_list = {}
    /\ \A c \in calls : c.task # t
    /\ ~task[t].done => task[t].m_times = 0
    /\ task[t].done /\ task[t].ret =>
         0..(2 ^ task[t].new_mod - 1) \subseteq db_rows /\ task[t].new_mod <= db_orders

\* While first answers are waited for there is no work item and no answer to the
\* operator; from the first request on memory has the extension.
Asking(t) ==
  /\ task[t].extent_list # {} =>
       task[t].item = "none" /\ task[t].answer = "none" /\ task[t].m_state = "EXTENTING"
  /\ task[t].extent_list # {} \/ task[t].m_state = "RETRY" => task[t].new_mod <= m_current_mod
  /\ \A c \in calls : c.task = t => c.node \in task[t].extent_list \cup task[t].retry_list

Current ==
  \A t \in DOMAIN task : t = g_extent_task =>
    /\ BeforeCopy(t) /\ Asking(t)
    /\ task[t].item # "none" => task[t].answer = "none"

\* There was a task for every extension.
Numbered == /\ m_current_mod <= Len(task)
            /\ \A t \in DOMAIN task : 1 <= task[t].new_mod /\ task[t].new_mod <= Len(task)

\* The inductive invariant.
IInv == /\ TypeOK /\ MemoryNotAhead /\ AskedOnce /\ FirstIsCurrent /\ Current /\ Numbered

-----------------------------------------------------------------------------
(* Changing the record of one task.                                        *)

LEMMA OneTask ==
  ASSUME TypeOK, NEW t \in DOMAIN task, NEW r \in TaskRecord,
         task' = [task EXCEPT ![t] = r]
  PROVE  /\ task' \in Seq(TaskRecord) /\ Len(task') = Len(task) /\ DOMAIN task' = DOMAIN task
         /\ task'[t] = r /\ \A u \in DOMAIN task \ {t} : task'[u] = task[u]
  BY DEF TypeOK

LEMMA ReturnsTask ==
  ASSUME TypeOK, NEW t \in DOMAIN task, NEW result \in BOOLEAN, Returns(t, result)
  PROVE  \E r \in TaskRecord :
           /\ task' = [task EXCEPT ![t] = r]
           /\ r.new_mod = task[t].new_mod /\ r.m_state = task[t].m_state
           /\ r.extent_list = task[t].extent_list /\ r.retry_list = task[t].retry_list
           /\ r.item = task[t].item /\ r.answer = task[t].answer
           /\ r.done = TRUE /\ r.ret = result
<1>. DEFINE s == [task[t] EXCEPT !.done = TRUE, !.ret = result]
            r == [s EXCEPT !.m_times = 1]
<1>1. task[t] \in TaskRecord
  BY DEF TypeOK
<1>2. /\ s \in TaskRecord
      /\ s.new_mod = task[t].new_mod /\ s.m_state = task[t].m_state
      /\ s.extent_list = task[t].extent_list /\ s.retry_list = task[t].retry_list
      /\ s.item = task[t].item /\ s.answer = task[t].answer
      /\ s.done = TRUE /\ s.ret = result
  BY <1>1 DEF TaskRecord
<1>3. task' = [task EXCEPT ![t] = r]
  BY <1>1 DEF Returns, TypeOK
<1>. HIDE DEF s
<1>4. /\ r \in TaskRecord
      /\ r.new_mod = s.new_mod /\ r.m_state = s.m_state
      /\ r.extent_list = s.extent_list /\ r.retry_list = s.retry_list
      /\ r.item = s.item /\ r.answer = s.answer
      /\ r.done = s.done /\ r.ret = s.ret
  BY <1>2 DEF TaskRecord
<1>. HIDE DEF r
<1>. QED  BY <1>2, <1>3, <1>4

\* The initial state satisfies the invariant.
LEMMA InitIInv == Init => IInv
<1>. SUFFICES ASSUME Init PROVE IInv
  OBVIOUS
<1>1. TypeOK
  <2>1. task \in Seq(TaskRecord) /\ Len(task) <= MaxTasks /\ DOMAIN task = {}
    BY ExtensionAssumption DEF Init
  <2>2. /\ calls \subseteq [task : DOMAIN task, node : Nodes, served : BOOLEAN]
        /\ retried \subseteq DOMAIN task /\ undefined \in BOOLEAN
        /\ g_extent_task \in DOMAIN task \cup {NoTask}
    BY DEF Init
  <2>3. /\ m_current_mod \in Nat /\ m_current_bucket_number \in Nat
        /\ db_rows \subseteq Nat /\ db_orders \in Nat
        /\ last_load \subseteq Nodes /\ open \subseteq Agents
    BY DEF Init
  <2>. QED  BY <2>1, <2>2, <2>3 DEF TypeOK
<1>2. MemoryNotAhead
  BY DEF Init, MemoryNotAhead
<1>3. AskedOnce /\ FirstIsCurrent /\ Current /\ Numbered
  BY DEF Init, AskedOnce, FirstIsCurrent, Current, Numbered
<1>. QED  BY <1>1, <1>2, <1>3 DEF IInv

-----------------------------------------------------------------------------
(* The work item.                                                          *)

\* A pass of the item: what it changes of the task and of the database is given.
LEMMA PassIInv ==
  ASSUME IInv, NEW t \in DOMAIN task, ~task[t].done,
         NEW r \in TaskRecord, task' = [task EXCEPT ![t] = r],
         UNCHANGED <<memory, last_load, open, g_extent_task, calls, retried, undefined>>,
         /\ r.new_mod = task[t].new_mod /\ r.m_state = task[t].m_state
         /\ r.extent_list = task[t].extent_list /\ r.retry_list = task[t].retry_list
         /\ r.item = task[t].item /\ r.answer = task[t].answer /\ r.done,
         db_rows \subseteq db_rows', db_rows' \subseteq Nat,
         db_orders' \in Nat, db_orders <= db_orders',
         r.item = "first" /\ r.ret =>
           0..(2 ^ r.new_mod - 1) \subseteq db_rows' /\ r.new_mod <= db_orders'
  PROVE  IInv'
<1>. USE DEF memory
<1>0. /\ task' \in Seq(TaskRecord) /\ Len(task') = Len(task) /\ DOMAIN task' = DOMAIN task
      /\ task'[t] = r /\ \A u \in DOMAIN task \ {t} : task'[u] = task[u]
  BY OneTask DEF IInv
<1>1. TypeOK'
  BY <1>0 DEF IInv, TypeOK
<1>2. MemoryNotAhead'
  BY DEF IInv, TypeOK, MemoryNotAhead
<1>3. AskedOnce' /\ FirstIsCurrent' /\ Numbered'
  BY <1>0 DEF IInv, AskedOnce, FirstIsCurrent, Numbered
<1>4. Current'
  <2>. SUFFICES ASSUME NEW u \in DOMAIN task, u = g_extent_task
                PROVE  /\ BeforeCopy(u)' /\ Asking(u)'
                       /\ task'[u].item # "none" => task'[u].answer = "none"
    BY <1>0 DEF Current
  <2>1. /\ BeforeCopy(u) /\ Asking(u)
        /\ task[u].item # "none" => task[u].answer = "none"
    BY DEF IInv, Current
  <2>2. CASE u = t
    <3>1. BeforeCopy(u)'
      BY <1>0, <2>1, <2>2 DEF BeforeCopy
    <3>2. Asking(u)'
      BY <1>0, <2>1, <2>2 DEF Asking
    <3>. QED  BY <1>0, <2>1, <2>2, <3>1, <3>2
  <2>3. CASE u # t
    <3>1. task'[u] = task[u]
      BY <1>0, <2>3
    <3>2. BeforeCopy(u)'
      BY <1>0, <2>1, <3>1 DEF BeforeCopy, IInv, TypeOK, TaskRecord
    <3>3. Asking(u)'
      BY <2>1, <3>1 DEF Asking
    <3>. QED  BY <2>1, <3>1, <3>2, <3>3
  <2>. QED  BY <2>2, <2>3
<1>. QED  BY <1>1, <1>2, <1>3, <1>4 DEF IInv

LEMMA NoConnectionIInv ==
  ASSUME IInv, NEW t \in DOMAIN task, NoConnection(t) PROVE IInv'
<1>. DEFINE r == [task[t] EXCEPT !.done = TRUE, !.ret = FALSE]
<1>1. task[t] \in TaskRecord /\ ~task[t].done
  BY DEF IInv, TypeOK, NoConnection
<1>2. /\ r \in TaskRecord
      /\ r.new_mod = task[t].new_mod /\ r.m_state = task[t].m_state
      /\ r.extent_list = task[t].extent_list /\ r.retry_list = task[t].retry_list
      /\ r.item = task[t].item /\ r.answer = task[t].answer /\ r.done = TRUE /\ r.ret = FALSE
  BY <1>1 DEF TaskRecord
<1>3. task' = [task EXCEPT ![t] = r]
  BY DEF NoConnection, IInv, TypeOK
<1>4. UNCHANGED <<memory, database, last_load, open, g_extent_task, calls, retried, undefined>>
  BY DEF NoConnection
<1>5. db_rows \subseteq Nat /\ db_orders \in Nat /\ db_orders <= db_orders
  BY DEF IInv, TypeOK
<1>. HIDE DEF r
<1>. QED  BY <1>1, <1>2, <1>3, <1>4, <1>5, PassIInv DEF database

LEMMA LogEndIInv ==
  ASSUME IInv, NEW t \in DOMAIN task, LogEnd(t) PROVE IInv'
<1>1. /\ task[t] \in TaskRecord /\ ~task[t].done /\ task[t].m_times = 1 /\ Returns(t, TRUE)
      /\ UNCHANGED <<memory, database, last_load, open, g_extent_task, calls, retried, undefined>>
  <2>1. task[t] \in TaskRecord
    BY DEF IInv, TypeOK
  <2>. QED  BY <2>1 DEF LogEnd
<1>2. PICK r \in TaskRecord :
        /\ task' = [task EXCEPT ![t] = r]
        /\ r.new_mod = task[t].new_mod /\ r.m_state = task[t].m_state
        /\ r.extent_list = task[t].extent_list /\ r.retry_list = task[t].retry_list
        /\ r.item = task[t].item /\ r.answer = task[t].answer /\ r.done = TRUE
  BY <1>1, ReturnsTask DEF IInv
<1>4. task[t].item # "first"
  BY <1>1 DEF IInv, FirstIsCurrent, Current, BeforeCopy
<1>5. db_rows \subseteq Nat /\ db_orders \in Nat /\ db_orders <= db_orders
  BY DEF IInv, TypeOK
<1>. QED  BY <1>1, <1>2, <1>4, <1>5, PassIInv DEF database

\* The rows of the copy follow those that memory knows.
LEMMA ExtendRowsIInv ==
  ASSUME IInv, NEW t \in DOMAIN task, ExtendRows(t) PROVE IInv'
<1>. DEFINE size == 2 ^ (task[t].new_mod - 1)
<1>1. /\ task[t] \in TaskRecord /\ ~task[t].done
      /\ UNCHANGED <<memory, last_load, open, g_extent_task, calls, retried, undefined>>
  BY DEF IInv, TypeOK, ExtendRows
<1>2. PICK k \in 0..size, result \in BOOLEAN :
        /\ db_rows' = db_rows \cup size..(size + k - 1)
        /\ Returns(t, result)
        /\ result => k = size /\ db_orders' = db_orders + 1
        /\ ~result => db_orders' = db_orders
  BY DEF ExtendRows
<1>4. PICK r \in TaskRecord :
        /\ task' = [task EXCEPT ![t] = r]
        /\ r.new_mod = task[t].new_mod /\ r.m_state = task[t].m_state
        /\ r.extent_list = task[t].extent_list /\ r.retry_list = task[t].retry_list
        /\ r.item = task[t].item /\ r.answer = task[t].answer /\ r.done = TRUE /\ r.ret = result
  BY <1>2, ReturnsTask DEF IInv
<1>5. db_rows \subseteq Nat /\ db_orders \in Nat
  BY DEF IInv, TypeOK
<1>6. task[t].new_mod \in 1..MaxTasks
  BY <1>1, ExtensionAssumption DEF IInv, TypeOK, Numbered, TaskRecord
<1>7. size \in Nat /\ 2 ^ task[t].new_mod = 2 * size
  <2>1. task[t].new_mod - 1 \in 0..MaxTasks /\ (task[t].new_mod - 1) + 1 = task[t].new_mod
    BY <1>6, ExtensionAssumption
  <2>. QED  BY <2>1, PowersOfTwo
<1>8. task[t].item = "first" =>
        0..(size - 1) \subseteq db_rows /\ task[t].new_mod <= db_orders + 1
  <2>. HAVE task[t].item = "first"
  <2>1. task[t].new_mod = m_current_mod + 1
    BY DEF IInv, FirstIsCurrent, Current, BeforeCopy
  <2>2. task[t].new_mod - 1 = m_current_mod
    BY <2>1 DEF IInv, TypeOK
  <2>. QED  BY <2>1, <2>2, <1>5 DEF IInv, TypeOK, MemoryNotAhead
<1>. HIDE DEF size
<1>9. /\ db_rows \subseteq db_rows' /\ db_rows' \subseteq Nat
      /\ db_orders' \in Nat /\ db_orders <= db_orders'
  BY <1>2, <1>5, <1>7
<1>10. r.item = "first" /\ r.ret =>
         0..(2 ^ r.new_mod - 1) \subseteq db_rows' /\ r.new_mod <= db_orders'
  <2>. HAVE r.item = "first" /\ r.ret
  <2>1. /\ 0..(size - 1) \subseteq db_rows /\ db_rows' = db_rows \cup size..(size + size - 1)
        /\ r.new_mod <= db_orders' /\ 2 ^ r.new_mod = 2 * size
    BY <1>2, <1>4, <1>7, <1>8
  <2>2. 0..(2 * size - 1) \subseteq db_rows'
    BY <2>1, <1>7
  <2>. QED  BY <2>1, <2>2
<1>11. /\ task[t] \in TaskRecord /\ ~task[t].done
       /\ UNCHANGED <<memory, last_load, open, g_extent_task, calls, retried, undefined>>
  BY <1>1
<1>. QED  BY <1>4, <1>9, <1>10, <1>11, PassIInv

-----------------------------------------------------------------------------
(* Operators, nodes and heartbeats.                                        *)

LEMMA CloseIInv ==
  ASSUME IInv, NEW a \in Agents, CloseAgent(a) PROVE IInv'
  BY DEF IInv, CloseAgent, memory, database, TypeOK, MemoryNotAhead, AskedOnce, FirstIsCurrent,
         Current, BeforeCopy, Asking, Numbered

LEMMA HeartbeatIInv ==
  ASSUME IInv, NEW n \in Nodes, Heartbeat(n) PROVE IInv'
  BY DEF IInv, Heartbeat, memory, database, TypeOK, MemoryNotAhead, AskedOnce, FirstIsCurrent,
         Current, BeforeCopy, Asking, Numbered

\* A request that is served, or sent again, stays the request it was.
LEMMA SameRequest ==
  ASSUME TypeOK, AskedOnce, NEW c \in calls, NEW b \in BOOLEAN,
         calls' = (calls \ {c}) \cup {[c EXCEPT !.served = b]}
  PROVE  /\ calls' \subseteq [task : DOMAIN task, node : Nodes, served : BOOLEAN]
         /\ AskedOnce'
         /\ \A d \in calls' : \E e \in calls : d.task = e.task /\ d.node = e.node
<1>. DEFINE x == [c EXCEPT !.served = b]
<1>1. /\ x \in [task : DOMAIN task, node : Nodes, served : BOOLEAN]
      /\ x.task = c.task /\ x.node = c.node
  BY DEF TypeOK
<1>2. calls' = (calls \ {c}) \cup {x}
  OBVIOUS
<1>. HIDE DEF x
<1>. QED  BY <1>1, <1>2 DEF TypeOK, AskedOnce

LEMMA ServeIInv ==
  ASSUME IInv, NEW c \in calls, Serve(c) PROVE IInv'
<1>1. /\ UNCHANGED <<memory, database, last_load, open, task, g_extent_task, retried, undefined>>
      /\ calls' = (calls \ {c}) \cup {[c EXCEPT !.served = TRUE]}
  BY DEF Serve
<1>2. /\ calls' \subseteq [task : DOMAIN task, node : Nodes, served : BOOLEAN]
      /\ AskedOnce'
      /\ \A d \in calls' : \E e \in calls : d.task = e.task /\ d.node = e.node
  BY <1>1, SameRequest DEF IInv
<1>3. TypeOK' /\ MemoryNotAhead' /\ FirstIsCurrent' /\ Numbered'
  BY <1>1, <1>2 DEF IInv, TypeOK, MemoryNotAhead, FirstIsCurrent, Numbered, memory, database
<1>4. Current'
  <2>. SUFFICES ASSUME NEW t \in DOMAIN task, t = g_extent_task
                PROVE  /\ BeforeCopy(t)' /\ Asking(t)'
                       /\ task[t].item # "none" => task[t].answer = "none"
    BY <1>1 DEF Current
  <2>1. /\ BeforeCopy(t) /\ Asking(t)
        /\ task[t].item # "none" => task[t].answer = "none"
    BY DEF IInv, Current
  <2>2. BeforeCopy(t)'
    BY <1>1, <1>2, <2>1 DEF BeforeCopy, memory, database
  <2>3. Asking(t)'
    BY <1>1, <1>2, <2>1 DEF Asking, memory, database
  <2>. QED  BY <2>1, <2>2, <2>3
<1>. QED  BY <1>2, <1>3, <1>4 DEF IInv

\* A new task is the next extension.
LEMMA RequestIInv ==
  ASSUME IInv, NEW a \in Agents, do_extent_bucket(a), NEW t, t = Len(task) + 1 PROVE IInv'
<1>. DEFINE r == [father |-> a, new_mod |-> m_current_mod + 1, m_state |-> "EXTENTING",
                  extent_list |-> {}, retry_list |-> {}, item |-> "first", done |-> FALSE,
                  m_times |-> 0, ret |-> FALSE, answer |-> "none"]
<1>1. /\ UNCHANGED <<memory, database, last_load, open, calls, retried, undefined>>
      /\ task' = Append(task, r) /\ g_extent_task' = t /\ t \in Tasks
      /\ g_extent_task = NoTask
  BY DEF do_extent_bucket, can_exec_extent
<1>2. r \in TaskRecord
  BY DEF TaskRecord, IInv, TypeOK
<1>3. /\ r.new_mod = m_current_mod + 1 /\ r.m_state = "EXTENTING" /\ r.extent_list = {}
      /\ r.retry_list = {} /\ r.item = "first" /\ r.done = FALSE /\ r.m_times = 0
      /\ r.answer = "none"
  OBVIOUS
<1>. HIDE DEF r
<1>4. /\ task' \in Seq(TaskRecord) /\ Len(task') = t /\ t <= MaxTasks /\ t \notin DOMAIN task
      /\ DOMAIN task' = DOMAIN task \cup {t} /\ task'[t] = r
      /\ \A u \in DOMAIN task : task'[u] = task[u]
  BY <1>1, <1>2, ExtensionAssumption DEF IInv, TypeOK, Tasks
<1>5. \A c \in calls : c.task # t
  BY <1>4 DEF IInv, TypeOK
<1>6. TypeOK'
  <2>1. calls' \subseteq [task : DOMAIN task', node : Nodes, served : BOOLEAN]
    BY <1>1, <1>4 DEF IInv, TypeOK
  <2>. QED  BY <1>1, <1>3, <1>4, <2>1 DEF IInv, TypeOK, memory, database
<1>7. MemoryNotAhead' /\ AskedOnce'
  BY <1>1 DEF IInv, MemoryNotAhead, AskedOnce, memory, database
<1>8. FirstIsCurrent'
  <2>1. \A u \in DOMAIN task : task[u].item # "first"
    BY <1>1, ExtensionAssumption DEF IInv, FirstIsCurrent, TypeOK
  <2>. QED  BY <1>1, <1>4, <2>1 DEF FirstIsCurrent
<1>9. Numbered'
  <2>1. \A u \in DOMAIN task : task[u].new_mod \in Nat
    <3>1. \A u \in DOMAIN task : task[u] \in TaskRecord
      BY DEF IInv, TypeOK
    <3>. QED  BY <3>1 DEF TaskRecord
  <2>2. /\ m_current_mod' <= Len(task')
        /\ \A u \in DOMAIN task : 1 <= task'[u].new_mod /\ task'[u].new_mod <= Len(task')
    BY <1>1, <1>4, <2>1 DEF IInv, TypeOK, Numbered, memory
  <2>3. 1 <= r.new_mod /\ r.new_mod <= Len(task')
    BY <1>3, <1>4 DEF IInv, TypeOK, Numbered
  <2>. QED  BY <1>4, <2>2, <2>3 DEF Numbered
<1>10. Current'
  <2>. SUFFICES BeforeCopy(t)' /\ Asking(t)' /\ task'[t].answer = "none"
    BY <1>1, <1>4 DEF Current
  <2>1. BeforeCopy(t)'
    BY <1>1, <1>3, <1>4, <1>5 DEF BeforeCopy, memory
  <2>2. Asking(t)'
    BY <1>1, <1>3, <1>4, <1>5 DEF Asking
  <2>. QED  BY <1>3, <1>4, <2>1, <2>2
<1>. QED  BY <1>6, <1>7, <1>8, <1>9, <1>10 DEF IInv

-----------------------------------------------------------------------------
(* Callbacks of the current task.                                          *)

\* What a callback leaves of its task, and of the requests of it.
LeavesTask(t, r) ==
  /\ task' = [task EXCEPT ![t] = r]
  /\ r.new_mod = task[t].new_mod /\ r.item # "first"
  /\ r.extent_list \cap r.retry_list = {}
  /\ g_extent_task' = t =>
       /\ r.extent_list # {} => r.item = "none" /\ r.answer = "none" /\ r.m_state = "EXTENTING"
       /\ r.extent_list # {} \/ r.m_state = "RETRY" => r.new_mod <= m_current_mod'
       /\ \A c \in calls' : c.task = t => c.node \in r.extent_list \cup r.retry_list
       /\ r.item # "none" => r.answer = "none"

\* What it leaves of everything else.
LeavesRest(t) ==
  /\ UNCHANGED <<database, last_load, open>>
  /\ m_current_mod' \in Nat /\ m_current_bucket_number' \in Nat /\ MemoryNotAhead'
  /\ m_current_mod' <= Len(task)
  /\ g_extent_task' \in {t, NoTask} /\ undefined' \in BOOLEAN /\ retried' \subseteq DOMAIN task
  /\ calls' \subseteq [task : DOMAIN task, node : Nodes, served : BOOLEAN] /\ AskedOnce'

LEMMA HandlerIInv ==
  ASSUME IInv, NEW t \in DOMAIN task, t = g_extent_task,
         NEW r \in TaskRecord, LeavesTask(t, r), LeavesRest(t)
  PROVE  IInv'
<1>. USE DEF LeavesTask, LeavesRest
<1>0. /\ task' \in Seq(TaskRecord) /\ Len(task') = Len(task) /\ DOMAIN task' = DOMAIN task
      /\ task'[t] = r /\ \A u \in DOMAIN task \ {t} : task'[u] = task[u]
  BY OneTask DEF IInv
<1>1. TypeOK'
  <2>1. \A u \in DOMAIN task' : task'[u].extent_list \cap task'[u].retry_list = {}
    BY <1>0 DEF IInv, TypeOK
  <2>2. /\ db_rows' \subseteq Nat /\ db_orders' \in Nat /\ last_load' \subseteq Nodes
        /\ open' \subseteq Agents
    BY DEF IInv, TypeOK, database
  <2>3. Len(task') <= MaxTasks /\ g_extent_task' \in DOMAIN task' \cup {NoTask}
    BY <1>0 DEF IInv, TypeOK
  <2>. QED  BY <1>0, <2>1, <2>2, <2>3 DEF TypeOK
<1>2. FirstIsCurrent'
  BY <1>0 DEF IInv, FirstIsCurrent
<1>3. Numbered'
  BY <1>0 DEF IInv, Numbered
<1>4. Current'
  <2>. SUFFICES ASSUME g_extent_task' = t
                PROVE  /\ BeforeCopy(t)' /\ Asking(t)'
                       /\ task'[t].item # "none" => task'[t].answer = "none"
    BY <1>0, ExtensionAssumption DEF Current, IInv, TypeOK
  <2>1. BeforeCopy(t)'
    BY <1>0 DEF BeforeCopy
  <2>2. Asking(t)'
    BY <1>0 DEF Asking
  <2>. QED  BY <1>0, <2>1, <2>2
<1>. QED  BY <1>1, <1>2, <1>3, <1>4 DEF IInv

\* A record of the task, or of no task, for each thing a callback does to it.
AnsweredBy(q, n) == [q EXCEPT !.extent_list = @ \ {n}, !.retry_list = @ \ {n}]
RetriedFor(q, n) == [q EXCEPT !.extent_list = @ \ {n}, !.retry_list = @ \cup {n}]
ToldTo(q, answer) == [q EXCEPT !.answer = answer]

LEMMA LeftRecord ==
  ASSUME NEW q \in TaskRecord, NEW n \in Nodes
  PROVE  LET left == AnsweredBy(q, n) IN
         /\ left \in TaskRecord
         /\ left.extent_list = q.extent_list \ {n} /\ left.retry_list = q.retry_list \ {n}
         /\ left.new_mod = q.new_mod /\ left.m_state = q.m_state
         /\ left.item = q.item /\ left.answer = q.answer
  BY DEF TaskRecord, AnsweredBy

LEMMA LastRecord ==
  ASSUME NEW q \in TaskRecord
  PROVE  LET last == do_last_work(q) IN
         /\ last \in TaskRecord /\ last.item = "last"
         /\ last.extent_list = q.extent_list /\ last.retry_list = q.retry_list
         /\ last.new_mod = q.new_mod /\ last.m_state = q.m_state /\ last.answer = q.answer
  BY DEF TaskRecord, do_last_work

LEMMA RetryRecord ==
  ASSUME NEW q \in TaskRecord, NEW n \in Nodes
  PROVE  LET new == RetriedFor(q, n) IN
         /\ new \in TaskRecord
         /\ new.extent_list = q.extent_list \ {n} /\ new.retry_list = q.retry_list \cup {n}
         /\ new.new_mod = q.new_mod /\ new.m_state = q.m_state
         /\ new.item = q.item /\ new.answer = q.answer
  BY DEF TaskRecord, RetriedFor

LEMMA StateRecord ==
  ASSUME NEW q \in TaskRecord
  PROVE  LET new == [q EXCEPT !.m_state = "RETRY"] IN
         /\ new \in TaskRecord /\ new.m_state = "RETRY"
         /\ new.extent_list = q.extent_list /\ new.retry_list = q.retry_list
         /\ new.new_mod = q.new_mod /\ new.item = q.item /\ new.answer = q.answer
  BY DEF TaskRecord


\* What the invariant says of the current task.
LEMMA CurrentFacts ==
  ASSUME IInv, NEW t \in DOMAIN task, t = g_extent_task
  PROVE  /\ task[t] \in TaskRecord /\ BeforeCopy(t) /\ Asking(t)
         /\ task[t].item # "none" => task[t].answer = "none"
         /\ task[t].extent_list \cap task[t].retry_list = {}
         /\ task[t].extent_list \subseteq Nodes /\ task[t].retry_list \subseteq Nodes
<1>1. task[t] \in TaskRecord /\ task[t].extent_list \cap task[t].retry_list = {}
  BY DEF IInv, TypeOK
<1>. QED  BY <1>1 DEF IInv, Current, TaskRecord

\* The rows are there: memory follows, and every node with a heartbeat is asked.
LEMMA ModifyRuleIInv ==
  ASSUME IInv, NEW t \in DOMAIN task, done_modify_rule(t) PROVE IInv'
<1>1. t = g_extent_task /\ task[t].item = "first" /\ task[t].done
  BY DEF done_modify_rule, IInv, FirstIsCurrent
<1>2. /\ task[t] \in TaskRecord
      /\ task[t].m_state = "EXTENTING" /\ task[t].answer = "none"
      /\ task[t].extent_list = {} /\ task[t].retry_list = {}
      /\ task[t].new_mod = m_current_mod + 1
      /\ \A c \in calls : c.task # t
      /\ task[t].ret =>
           0..(2 ^ task[t].new_mod - 1) \subseteq db_rows /\ task[t].new_mod <= db_orders
  BY <1>1, CurrentFacts DEF BeforeCopy
<1>3. /\ UNCHANGED <<database, last_load, open, g_extent_task, retried, undefined>>
      /\ m_current_mod + 1 <= Len(task) /\ Len(task) \in Nat /\ Len(task) <= MaxTasks
      /\ m_current_mod \in Nat /\ m_current_bucket_number \in Nat
      /\ undefined \in BOOLEAN /\ retried \subseteq DOMAIN task /\ last_load \subseteq Nodes
      /\ calls \subseteq [task : DOMAIN task, node : Nodes, served : BOOLEAN] /\ AskedOnce
  BY <1>2 DEF done_modify_rule, IInv, TypeOK, Numbered
<1>4. CASE task[t].ret
  <2>. DEFINE r == [task[t] EXCEPT !.item = "none", !.extent_list = last_load]
  <2>1. /\ r \in TaskRecord /\ r.item = "none" /\ r.extent_list = last_load /\ r.retry_list = {}
        /\ r.new_mod = m_current_mod + 1 /\ r.answer = "none" /\ r.m_state = "EXTENTING"
    BY <1>2, <1>3 DEF TaskRecord
  <2>2. /\ task' = [task EXCEPT ![t] = r]
        /\ calls' = calls \cup [task : {t}, node : last_load, served : {FALSE}]
        /\ m_current_mod' = m_current_mod + 1
        /\ m_current_bucket_number' = 2 * m_current_bucket_number
    BY <1>4 DEF done_modify_rule, new_extent_order, IInv, TypeOK
  <2>. HIDE DEF r
  <2>3. /\ calls' \subseteq [task : DOMAIN task, node : Nodes, served : BOOLEAN]
        /\ \A c \in calls' : c.task = t => c.node \in last_load
    BY <1>2, <1>3, <2>2
  <2>4. AskedOnce'
    <3>1. \A c, d \in [task : {t}, node : last_load, served : {FALSE}] :
            c.task = t /\ (c.node = d.node => c = d)
      <4>1. \A c \in [task : {t}, node : last_load, served : {FALSE}] :
              c = [task |-> t, node |-> c.node, served |-> FALSE]
        <5>1. ASSUME NEW c \in [task : {t}, node : last_load, served : {FALSE}]
              PROVE  /\ c = [task |-> c.task, node |-> c.node, served |-> c.served]
                     /\ c.task = t /\ c.served = FALSE
          OBVIOUS
        <5>. QED  BY <5>1
      <4>. QED  BY <4>1
    <3>2. calls' = calls \cup [task : {t}, node : last_load, served : {FALSE}]
          /\ \A c \in calls : c.task # t
      BY <1>2, <2>2
    <3>3. \A c, d \in calls : c.task = d.task /\ c.node = d.node => c = d
      BY <1>3 DEF AskedOnce
    <3>. QED  BY <3>1, <3>2, <3>3 DEF AskedOnce
  <2>5. MemoryNotAhead'
    <3>1. 2 ^ (m_current_mod + 1) = 2 * 2 ^ m_current_mod /\ 2 ^ m_current_mod \in Nat
      <4>1. m_current_mod \in 0..MaxTasks
        BY <1>3, ExtensionAssumption
      <4>. QED  BY <4>1, PowersOfTwo
    <3>. QED  BY <1>2, <1>3, <1>4, <2>2, <3>1 DEF IInv, MemoryNotAhead, database
  <2>6. /\ m_current_mod' \in Nat /\ m_current_bucket_number' \in Nat
        /\ m_current_mod' <= Len(task) /\ g_extent_task' \in {t, NoTask}
        /\ undefined' \in BOOLEAN /\ retried' \subseteq DOMAIN task
        /\ UNCHANGED <<database, last_load, open>>
    BY <1>1, <1>3, <2>2
  <2>7. /\ r.new_mod = task[t].new_mod /\ r.item # "first"
        /\ r.extent_list \cap r.retry_list = {}
    BY <1>2, <2>1
  <2>8. /\ r.extent_list # {} =>
             r.item = "none" /\ r.answer = "none" /\ r.m_state = "EXTENTING"
        /\ r.extent_list # {} \/ r.m_state = "RETRY" => r.new_mod <= m_current_mod'
        /\ \A c \in calls' : c.task = t => c.node \in r.extent_list \cup r.retry_list
        /\ r.item # "none" => r.answer = "none"
    <3>1. \A c \in calls' : c.task = t => c.node \in r.extent_list \cup r.retry_list
      BY <2>1, <2>3
    <3>2. r.new_mod <= m_current_mod'
      BY <1>3, <2>1, <2>2
    <3>. QED  BY <2>1, <3>1, <3>2
  <2>9. LeavesTask(t, r)
    BY <2>2, <2>7, <2>8 DEF LeavesTask
  <2>10. LeavesRest(t)
    BY <2>3, <2>4, <2>5, <2>6 DEF LeavesRest
  <2>. QED  BY <1>1, <2>1, <2>9, <2>10, HandlerIInv
<1>5. CASE ~task[t].ret
  <2>1. task' = [task EXCEPT ![t] = do_last_work(task[t])] /\ UNCHANGED <<calls, memory>>
    BY <1>5 DEF done_modify_rule, IInv, TypeOK
  <2>2. PICK r \in TaskRecord :
          /\ r = do_last_work(task[t]) /\ r.item = "last" /\ r.extent_list = {}
          /\ r.retry_list = {} /\ r.new_mod = task[t].new_mod /\ r.answer = "none"
          /\ r.m_state = "EXTENTING"
    BY <1>2, LastRecord
  <2>3. MemoryNotAhead' /\ AskedOnce'
    BY <1>3, <2>1 DEF IInv, MemoryNotAhead, AskedOnce, memory, database
  <2>4. /\ m_current_mod' \in Nat /\ m_current_bucket_number' \in Nat
        /\ m_current_mod' <= Len(task) /\ g_extent_task' \in {t, NoTask}
        /\ undefined' \in BOOLEAN /\ retried' \subseteq DOMAIN task
        /\ UNCHANGED <<database, last_load, open>>
        /\ calls' \subseteq [task : DOMAIN task, node : Nodes, served : BOOLEAN]
    BY <1>1, <1>3, <2>1 DEF memory
  <2>5. /\ r.new_mod = task[t].new_mod /\ r.item # "first"
        /\ r.extent_list \cap r.retry_list = {}
        /\ task' = [task EXCEPT ![t] = r]
    BY <1>2, <2>1, <2>2
  <2>6. /\ r.extent_list # {} =>
             r.item = "none" /\ r.answer = "none" /\ r.m_state = "EXTENTING"
        /\ r.extent_list # {} \/ r.m_state = "RETRY" => r.new_mod <= m_current_mod'
        /\ \A c \in calls' : c.task = t => c.node \in r.extent_list \cup r.retry_list
        /\ r.item # "none" => r.answer = "none"
    BY <1>2, <2>1, <2>2
  <2>7. LeavesTask(t, r)
    BY <2>5, <2>6 DEF LeavesTask
  <2>8. LeavesRest(t)
    BY <2>3, <2>4 DEF LeavesRest
  <2>. QED  BY <1>1, <2>7, <2>8, HandlerIInv
<1>. QED  BY <1>4, <1>5

\* A node answered, well or not, the current task.
LEMMA AckIInv ==
  ASSUME IInv, NEW c \in calls, NEW ok \in BOOLEAN, done_extent_ack(c, ok),
         c.task = g_extent_task, NEW t, t = c.task, NEW n, n = c.node
  PROVE  IInv'
<1>1. /\ t \in DOMAIN task /\ t = g_extent_task /\ n \in Nodes
      /\ UNCHANGED <<memory, database, last_load, open, undefined>>
  BY DEF done_extent_ack, IInv, TypeOK
<1>2. /\ task[t] \in TaskRecord /\ BeforeCopy(t) /\ Asking(t)
      /\ task[t].item # "none" => task[t].answer = "none"
      /\ task[t].extent_list \cap task[t].retry_list = {}
      /\ task[t].extent_list \subseteq Nodes /\ task[t].retry_list \subseteq Nodes
  BY <1>1, CurrentFacts
<1>3. /\ task[t].item # "first" /\ n \in task[t].extent_list \cup task[t].retry_list
      /\ \A d \in calls : d.task = t => d.node \in task[t].extent_list \cup task[t].retry_list
  BY <1>2 DEF BeforeCopy, Asking
<1>4. /\ m_current_mod' \in Nat /\ m_current_bucket_number' \in Nat /\ MemoryNotAhead'
      /\ m_current_mod' <= Len(task) /\ m_current_mod' = m_current_mod /\ undefined' \in BOOLEAN
  BY <1>1 DEF memory, database, IInv, TypeOK, MemoryNotAhead, Numbered
<1>5. CASE ok
  <2>1. agent_exec_extent_back(t, n) /\ calls' = calls \ {c} /\ retried' = retried
    BY <1>5 DEF done_extent_ack
  <2>2. /\ calls' \subseteq [task : DOMAIN task, node : Nodes, served : BOOLEAN] /\ AskedOnce'
        /\ retried' \subseteq DOMAIN task
        /\ \A d \in calls' : d.task = t => d.node # n
    <3>1. /\ calls \subseteq [task : DOMAIN task, node : Nodes, served : BOOLEAN]
          /\ retried \subseteq DOMAIN task
      BY DEF IInv, TypeOK
    <3>2. \A d, e \in calls : d.task = e.task /\ d.node = e.node => d = e
      BY DEF IInv, AskedOnce
    <3>. QED  BY <2>1, <3>1, <3>2 DEF AskedOnce
  <2>. DEFINE left == AnsweredBy(task[t], n)
  <2>3. /\ left \in TaskRecord
        /\ left.extent_list = task[t].extent_list \ {n}
        /\ left.retry_list = task[t].retry_list \ {n}
        /\ left.new_mod = task[t].new_mod /\ left.m_state = task[t].m_state
        /\ left.item = task[t].item /\ left.answer = task[t].answer
    BY <1>1, <1>2, LeftRecord
  <2>4. \/ task' = [task EXCEPT ![t] = left]
        \/ /\ n \in task[t].extent_list /\ left.extent_list = {}
           /\ task' = [task EXCEPT ![t] = do_last_work([left EXCEPT !.m_state = "RETRY"])]
    BY <2>1 DEF agent_exec_extent_back, AnsweredBy
  <2>5. g_extent_task' \in {t, NoTask}
    BY <1>1, <2>1 DEF agent_exec_extent_back, delete_extent_task
  <2>. HIDE DEF left
  <2>6. \A d \in calls' : d.task = t => d.node \in left.extent_list \cup left.retry_list
    BY <1>3, <2>1, <2>2, <2>3
  <2>a. LeavesRest(t)
    BY <1>1, <1>4, <2>2, <2>5 DEF LeavesRest
  <2>7. CASE task' = [task EXCEPT ![t] = left]
    <3>1. /\ left.extent_list # {} =>
               left.item = "none" /\ left.answer = "none" /\ left.m_state = "EXTENTING"
          /\ left.extent_list # {} \/ left.m_state = "RETRY" => left.new_mod <= m_current_mod
          /\ left.item # "none" => left.answer = "none"
      BY <1>2, <2>3 DEF Asking
    <3>2. left.item # "first" /\ left.extent_list \cap left.retry_list = {}
      BY <1>2, <1>3, <2>3
    <3>3. LeavesTask(t, left)
      BY <1>4, <2>3, <2>6, <2>7, <3>1, <3>2 DEF LeavesTask
    <3>. QED  BY <1>1, <2>3, <2>a, <3>3, HandlerIInv
  <2>8. CASE /\ n \in task[t].extent_list /\ left.extent_list = {}
             /\ task' = [task EXCEPT ![t] = do_last_work([left EXCEPT !.m_state = "RETRY"])]
    <3>1. PICK m \in TaskRecord :
            /\ m = [left EXCEPT !.m_state = "RETRY"] /\ m.m_state = "RETRY"
            /\ m.extent_list = left.extent_list /\ m.retry_list = left.retry_list
            /\ m.new_mod = left.new_mod /\ m.answer = left.answer
      BY <2>3, StateRecord
    <3>. DEFINE r == do_last_work(m)
    <3>2. /\ r \in TaskRecord /\ r.item = "last" /\ r.m_state = m.m_state
          /\ r.extent_list = m.extent_list /\ r.retry_list = m.retry_list
          /\ r.new_mod = m.new_mod /\ r.answer = m.answer
      BY LastRecord
    <3>. HIDE DEF r
    <3>4. task' = [task EXCEPT ![t] = r]
      BY <2>8, <3>1 DEF r
    <3>3. task[t].answer = "none" /\ task[t].new_mod <= m_current_mod
      BY <1>2, <2>8 DEF Asking
    <3>5. /\ r.extent_list = {} /\ r.extent_list \cap r.retry_list = {}
          /\ r.new_mod = task[t].new_mod /\ r.item # "first" /\ r.answer = "none"
          /\ r.new_mod <= m_current_mod'
          /\ \A d \in calls' : d.task = t => d.node \in r.extent_list \cup r.retry_list
      BY <1>4, <2>3, <2>6, <2>8, <3>1, <3>2, <3>3
    <3>6. LeavesTask(t, r)
      BY <3>4, <3>5 DEF LeavesTask
    <3>. QED  BY <1>1, <2>a, <3>2, <3>6, HandlerIInv
  <2>. QED  BY <2>4, <2>7, <2>8
<1>6. CASE ~ok
  <2>1. /\ retry_do_extent(t, n)
        /\ calls' = (calls \ {c}) \cup {[c EXCEPT !.served = FALSE]}
        /\ retried' = retried \cup {t}
    BY <1>6 DEF done_extent_ack
  <2>2. /\ calls' \subseteq [task : DOMAIN task, node : Nodes, served : BOOLEAN] /\ AskedOnce'
        /\ \A d \in calls' : \E e \in calls : d.task = e.task /\ d.node = e.node
    BY <2>1, SameRequest DEF IInv
  <2>. DEFINE r == RetriedFor(task[t], n)
  <2>3. /\ r \in TaskRecord
        /\ r.extent_list = task[t].extent_list \ {n}
        /\ r.retry_list = task[t].retry_list \cup {n}
        /\ r.new_mod = task[t].new_mod /\ r.m_state = task[t].m_state
        /\ r.item = task[t].item /\ r.answer = task[t].answer
    BY <1>1, <1>2, RetryRecord
  <2>4. task' = [task EXCEPT ![t] = r] /\ g_extent_task' = t
    BY <1>1, <2>1 DEF retry_do_extent, RetriedFor, IInv, TypeOK
  <2>. HIDE DEF r
  <2>5. \A d \in calls' : d.task = t => d.node \in r.extent_list \cup r.retry_list
    BY <1>3, <2>2, <2>3
  <2>6. retried' \subseteq DOMAIN task /\ r.extent_list \cap r.retry_list = {}
    BY <1>1, <1>2, <2>1, <2>3 DEF IInv, TypeOK
  <2>7. /\ r.new_mod = task[t].new_mod /\ r.item # "first"
        /\ r.extent_list # {} =>
             r.item = "none" /\ r.answer = "none" /\ r.m_state = "EXTENTING"
        /\ r.extent_list # {} \/ r.m_state = "RETRY" => r.new_mod <= m_current_mod'
        /\ r.item # "none" => r.answer = "none"
    BY <1>2, <1>3, <1>4, <2>3 DEF Asking
  <2>8. LeavesTask(t, r)
    BY <2>4, <2>5, <2>6, <2>7 DEF LeavesTask
  <2>9. LeavesRest(t)
    BY <1>1, <1>4, <2>2, <2>4, <2>6 DEF LeavesRest
  <2>. QED  BY <1>1, <2>3, <2>8, <2>9, HandlerIInv
<1>. QED  BY <1>5, <1>6


LEMMA StaleAckIInv ==
  ASSUME IInv, NEW c \in calls, NEW ok \in BOOLEAN, done_extent_ack(c, ok),
         c.task # g_extent_task
  PROVE  IInv'
<1>1. /\ undefined' = TRUE /\ calls' \subseteq calls
      /\ UNCHANGED <<task, g_extent_task, retried, memory, database, last_load, open>>
  BY DEF done_extent_ack
<1>2. TypeOK' /\ MemoryNotAhead' /\ AskedOnce' /\ FirstIsCurrent' /\ Numbered'
  BY <1>1 DEF IInv, TypeOK, MemoryNotAhead, AskedOnce, FirstIsCurrent, Numbered, memory, database
<1>3. Current'
  BY <1>1 DEF IInv, Current, BeforeCopy, Asking, memory, database
<1>. QED  BY <1>2, <1>3 DEF IInv

\* The record of a task that is through, with its answer.
LEMMA GoneRecord ==
  ASSUME NEW q \in TaskRecord
  PROVE  LET gone == [q EXCEPT !.item = "none"] IN
         /\ gone \in TaskRecord /\ gone.item = "none" /\ gone.answer = q.answer
         /\ gone.extent_list = q.extent_list /\ gone.retry_list = q.retry_list
         /\ gone.new_mod = q.new_mod /\ gone.m_state = q.m_state
  BY DEF TaskRecord

LEMMA ToldRecord ==
  ASSUME NEW q \in TaskRecord, NEW answer \in {"success", "failure"}
  PROVE  LET told == ToldTo(q, answer) IN
         /\ told \in TaskRecord /\ told.item = q.item /\ told.answer = answer
         /\ told.extent_list = q.extent_list /\ told.retry_list = q.retry_list
         /\ told.new_mod = q.new_mod /\ told.m_state = q.m_state
  BY DEF TaskRecord, ToldTo

\* What do_last_back does to the current task.
LEMMA LastBackTask ==
  ASSUME IInv, NEW t \in DOMAIN task, do_last_back(t), t = g_extent_task
  PROVE  /\ g_extent_task' \in {t, NoTask} /\ task[t].item = "last"
         /\ UNCHANGED <<memory, database, last_load, open, calls, retried, undefined>>
         /\ \E r \in TaskRecord :
              /\ task' = [task EXCEPT ![t] = r]
              /\ r.item = "none" /\ r.new_mod = task[t].new_mod /\ r.m_state = task[t].m_state
              /\ r.extent_list = task[t].extent_list /\ r.retry_list = task[t].retry_list
              /\ r.answer = "success" => task[t].answer = "success" \/ task[t].m_state = "RETRY"
<1>1. /\ task[t] \in TaskRecord /\ task[t].item = "last" /\ do_callback(t)
      /\ UNCHANGED <<memory, database, last_load, open, calls, retried, undefined>>
  BY CurrentFacts DEF do_last_back
<1>. DEFINE q == ItemGone(t)
            answer == IF task[t].m_state = "RETRY" THEN "success" ELSE "failure"
            r == ToldTo(q, answer)
<1>2. g_extent_task' \in {t, NoTask}
  BY <1>1 DEF do_callback, do_extent_callback, delete_extent_task
<1>3. /\ q \in TaskRecord /\ q.item = "none" /\ q.answer = task[t].answer
      /\ q.extent_list = task[t].extent_list /\ q.retry_list = task[t].retry_list
      /\ q.new_mod = task[t].new_mod /\ q.m_state = task[t].m_state
  BY <1>1, GoneRecord DEF ItemGone
<1>4. task' = [task EXCEPT ![t] = q] \/ task' = [task EXCEPT ![t] = r]
  BY <1>1 DEF do_callback, do_extent_callback, ToldTo
<1>5. answer \in {"success", "failure"} /\ (answer = "success" => task[t].m_state = "RETRY")
  OBVIOUS
<1>. HIDE DEF q, answer
<1>6. /\ r \in TaskRecord /\ r.item = q.item /\ r.answer = answer
      /\ r.extent_list = q.extent_list /\ r.retry_list = q.retry_list
      /\ r.new_mod = q.new_mod /\ r.m_state = q.m_state
  BY <1>3, <1>5, ToldRecord
<1>. HIDE DEF r
<1>7. CASE task' = [task EXCEPT ![t] = q]
  BY <1>1, <1>2, <1>3, <1>7
<1>8. CASE task' = [task EXCEPT ![t] = r]
  BY <1>1, <1>2, <1>3, <1>5, <1>6, <1>8
<1>. QED  BY <1>4, <1>7, <1>8

LEMMA LastBackIInv ==
  ASSUME IInv, NEW t \in DOMAIN task, do_last_back(t) PROVE IInv'
<1>1. CASE t # g_extent_task
  <2>1. /\ undefined' = TRUE
        /\ UNCHANGED <<task, g_extent_task, memory, database, last_load, open, calls, retried>>
    BY <1>1 DEF do_last_back
  <2>2. TypeOK' /\ MemoryNotAhead' /\ AskedOnce' /\ FirstIsCurrent' /\ Numbered'
    BY <2>1 DEF IInv, TypeOK, MemoryNotAhead, AskedOnce, FirstIsCurrent, Numbered, memory, database
  <2>3. Current'
    BY <2>1 DEF IInv, Current, BeforeCopy, Asking, memory, database
  <2>. QED  BY <2>2, <2>3 DEF IInv
<1>2. CASE t = g_extent_task
  <2>1. /\ g_extent_task' \in {t, NoTask} /\ task[t].item = "last"
        /\ UNCHANGED <<memory, database, last_load, open, calls, retried, undefined>>
    BY <1>2, LastBackTask
  <2>2. PICK r \in TaskRecord :
          /\ task' = [task EXCEPT ![t] = r]
          /\ r.item = "none" /\ r.new_mod = task[t].new_mod /\ r.m_state = task[t].m_state
          /\ r.extent_list = task[t].extent_list /\ r.retry_list = task[t].retry_list
    BY <1>2, LastBackTask
  <2>3. /\ task[t].extent_list = {} /\ (task[t].m_state = "RETRY" => task[t].new_mod <= m_current_mod)
        /\ \A c \in calls : c.task = t => c.node \in task[t].extent_list \cup task[t].retry_list
    BY <1>2, <2>1, CurrentFacts DEF Asking
  <2>4. /\ m_current_mod' \in Nat /\ m_current_bucket_number' \in Nat /\ MemoryNotAhead'
        /\ m_current_mod' <= Len(task) /\ m_current_mod' = m_current_mod
        /\ undefined' \in BOOLEAN /\ retried' \subseteq DOMAIN task
        /\ calls' \subseteq [task : DOMAIN task, node : Nodes, served : BOOLEAN] /\ AskedOnce'
    BY <2>1 DEF memory, database, IInv, TypeOK, MemoryNotAhead, Numbered, AskedOnce
  <2>5. /\ r.extent_list = {} /\ r.extent_list \cap r.retry_list = {} /\ r.item = "none"
        /\ r.new_mod = task[t].new_mod
        /\ r.m_state = "RETRY" => r.new_mod <= m_current_mod'
        /\ \A c \in calls' : c.task = t => c.node \in r.extent_list \cup r.retry_list
    BY <2>1, <2>2, <2>3, <2>4
  <2>6. LeavesTask(t, r)
    BY <2>2, <2>5 DEF LeavesTask
  <2>7. LeavesRest(t)
    BY <2>1, <2>4 DEF LeavesRest
  <2>. QED  BY <1>2, <2>6, <2>7, HandlerIInv
<1>. QED  BY <1>1, <1>2

-----------------------------------------------------------------------------
(* Every step keeps the invariant.                                         *)

LEMMA NextIInv ==
  ASSUME IInv, [Next]_vars PROVE IInv'
<1>1. ASSUME NEW a \in Agents, do_extent_bucket(a) PROVE IInv'
  BY <1>1, RequestIInv
<1>2. ASSUME NEW a \in Agents, CloseAgent(a) PROVE IInv'
  BY <1>2, CloseIInv
<1>3. ASSUME NEW n \in Nodes, Heartbeat(n) PROVE IInv'
  BY <1>3, HeartbeatIInv
<1>4. ASSUME NEW c \in calls, Serve(c) PROVE IInv'
  BY <1>4, ServeIInv
<1>5. ASSUME NEW c \in calls, NEW ok \in BOOLEAN, done_extent_ack(c, ok) PROVE IInv'
  BY <1>5, AckIInv, StaleAckIInv
<1>6. ASSUME NEW t \in DOMAIN task, Item(t) PROVE IInv'
  BY <1>6, NoConnectionIInv, ExtendRowsIInv, LogEndIInv DEF Item
<1>7. ASSUME NEW t \in DOMAIN task, Handlers(t) PROVE IInv'
  BY <1>7, ModifyRuleIInv, LastBackIInv DEF Handlers
<1>8. CASE UNCHANGED vars
  BY <1>8 DEF vars, memory, database, IInv, TypeOK, MemoryNotAhead, AskedOnce, FirstIsCurrent,
              Current, BeforeCopy, Asking, Numbered
<1>. QED  BY <1>1, <1>2, <1>3, <1>4, <1>5, <1>6, <1>7, <1>8 DEF Next, Answer

\* TaskManager's pointer, the tasks and their requests agree with the rules in
\* memory and in the database, in every reachable state.
THEOREM ExtensionInvariant == Spec => []IInv
<1>1. Init => IInv
  BY InitIInv
<1>2. IInv /\ [Next]_vars => IInv'
  BY NextIInv
<1>. QED  BY <1>1, <1>2, PTL DEF Spec

\* Every state has the types of TypeOK, and no node is on both lists of a task.
THEOREM ExtensionTypes == Spec => []TypeOK
<1>1. IInv => TypeOK
  BY DEF IInv
<1>. QED  BY <1>1, ExtensionInvariant, PTL

\* done_modify_rule: every bucket that memory knows has its rule in the database,
\* and every extension its order, whatever failed before.
THEOREM ExtensionMemoryNotAhead == Spec => []MemoryNotAhead
<1>1. IInv => MemoryNotAhead
  BY DEF IInv
<1>. QED  BY <1>1, ExtensionInvariant, PTL

\* can_exec_migration: no migration is admitted from or to a node that has not
\* answered the current extension.
THEOREM ExtensionExcludesMigration == Spec => []NoMigrationDuringExtension
<1>1. IInv => NoMigrationDuringExtension
  <2>. SUFFICES ASSUME IInv, g_extent_task # NoTask, NEW c \in calls, c.task = g_extent_task,
                       NEW n \in Nodes, NEW t, t = g_extent_task
                PROVE  ~can_exec_migration(c.node, n) /\ ~can_exec_migration(n, c.node)
    BY DEF NoMigrationDuringExtension
  <2>1. t \in DOMAIN task /\ task[t] \in TaskRecord /\ Asking(t)
    BY DEF IInv, TypeOK, Current
  <2>2. task[t].m_state \in {"EXTENTING", "RETRY"}
    BY <2>1 DEF TaskRecord
  <2>3. task[t].m_state # "EXTENTING" => c.node \in task[t].retry_list
    BY <2>1, <2>2 DEF Asking
  <2>. QED  BY <2>3 DEF can_exec_migration
<1>. QED  BY <1>1, ExtensionInvariant, PTL

-----------------------------------------------------------------------------
(* What the operators hear.                                                *)

AnswersKept == \A t \in DOMAIN task : task'[t].answer = task[t].answer

\* Only the end of the operation answers an operator.
LEMMA OthersKeepAnswers ==
  ASSUME IInv, Next, \A t \in DOMAIN task : ~do_last_back(t)
  PROVE  AnswersKept
<1>0. \A t \in DOMAIN task : task[t] \in TaskRecord
  BY DEF IInv, TypeOK
<1>1. ASSUME UNCHANGED task PROVE AnswersKept
  BY <1>1 DEF AnswersKept
<1>2. ASSUME NEW t \in DOMAIN task, NEW r, r.answer = task[t].answer,
             task' = [task EXCEPT ![t] = r]
      PROVE  AnswersKept
  BY <1>2 DEF AnswersKept, IInv, TypeOK
<1>3. ASSUME NEW a \in Agents, do_extent_bucket(a) PROVE AnswersKept
  BY <1>3 DEF do_extent_bucket, AnswersKept, IInv, TypeOK
<1>4. ASSUME NEW t \in DOMAIN task, Item(t) PROVE AnswersKept
  <2>1. CASE NoConnection(t)
    <3>. DEFINE r == [task[t] EXCEPT !.done = TRUE, !.ret = FALSE]
    <3>1. r.answer = task[t].answer
      BY <1>0 DEF TaskRecord
    <3>2. task' = [task EXCEPT ![t] = r]
      BY <2>1 DEF NoConnection, IInv, TypeOK
    <3>. QED  BY <1>2, <3>1, <3>2
  <2>2. CASE ExtendRows(t) \/ LogEnd(t)
    <3>1. PICK result \in BOOLEAN : Returns(t, result)
      BY <2>2 DEF ExtendRows, LogEnd
    <3>2. PICK r \in TaskRecord : task' = [task EXCEPT ![t] = r] /\ r.answer = task[t].answer
      BY <3>1, ReturnsTask DEF IInv
    <3>. QED  BY <1>2, <3>2
  <2>. QED  BY <1>4, <2>1, <2>2 DEF Item
<1>5. ASSUME NEW t \in DOMAIN task, done_modify_rule(t) PROVE AnswersKept
  <2>. DEFINE r == [task[t] EXCEPT !.item = "none", !.extent_list = last_load]
              s == do_last_work(task[t])
  <2>1. task' = [task EXCEPT ![t] = r] \/ task' = [task EXCEPT ![t] = s]
    BY <1>5 DEF done_modify_rule, IInv, TypeOK
  <2>2. r.answer = task[t].answer
    BY <1>0 DEF TaskRecord
  <2>3. s.answer = task[t].answer
    BY <1>0, LastRecord
  <2>. HIDE DEF r, s
  <2>. QED  BY <1>2, <2>1, <2>2, <2>3
<1>6. ASSUME NEW c \in calls, NEW ok \in BOOLEAN, done_extent_ack(c, ok) PROVE AnswersKept
  <2>. DEFINE t == c.task
              n == c.node
              left == AnsweredBy(task[t], n)
              m == [left EXCEPT !.m_state = "RETRY"]
              last == do_last_work(m)
              new == RetriedFor(task[t], n)
  <2>1. t \in DOMAIN task /\ n \in Nodes
    BY DEF IInv, TypeOK
  <2>2. \/ UNCHANGED task
        \/ task' = [task EXCEPT ![t] = left]
        \/ task' = [task EXCEPT ![t] = last]
        \/ task' = [task EXCEPT ![t] = new]
    BY <1>6, <2>1 DEF done_extent_ack, agent_exec_extent_back, retry_do_extent,
                      AnsweredBy, RetriedFor, IInv, TypeOK
  <2>3. left \in TaskRecord /\ left.answer = task[t].answer
    BY <1>0, <2>1, LeftRecord
  <2>4. new.answer = task[t].answer
    BY <1>0, <2>1, RetryRecord
  <2>. HIDE DEF left, new
  <2>5. m \in TaskRecord /\ m.answer = left.answer
    BY <2>3, StateRecord
  <2>. HIDE DEF m
  <2>6. last.answer = m.answer
    BY <2>5, LastRecord
  <2>. HIDE DEF last
  <2>. QED  BY <1>1, <1>2, <2>1, <2>2, <2>3, <2>4, <2>5, <2>6
<1>7. ASSUME NEW x, CloseAgent(x) \/ Heartbeat(x) \/ Serve(x) PROVE AnswersKept
  BY <1>1, <1>7 DEF CloseAgent, Heartbeat, Serve
<1>. QED  BY <1>3, <1>4, <1>5, <1>6, <1>7 DEF Next, Answer, Handlers

RightAnswer(t) ==
  task'[t].answer # task[t].answer =>
    /\ task[t].answer = "none"
    /\ task'[t].answer = "success" =>
         /\ m_current_mod >= task[t].new_mod
         /\ db_orders >= task[t].new_mod
         /\ \A c \in calls : c.task = t => c.node \in task[t].retry_list

LEMMA LastBackAnswers ==
  ASSUME IInv, NEW t \in DOMAIN task, do_last_back(t)
  PROVE  \A u \in DOMAIN task : RightAnswer(u)
<1>1. CASE t # g_extent_task
  <2>1. UNCHANGED task
    BY <1>1 DEF do_last_back
  <2>. QED  BY <2>1 DEF RightAnswer
<1>2. CASE t = g_extent_task
  <2>1. task[t].item = "last"
    BY <1>2, LastBackTask
  <2>2. PICK r \in TaskRecord :
          /\ task' = [task EXCEPT ![t] = r]
          /\ r.answer = "success" => task[t].answer = "success" \/ task[t].m_state = "RETRY"
    BY <1>2, LastBackTask
  <2>3. /\ task[t].answer = "none" /\ task[t] \in TaskRecord /\ task[t].extent_list = {}
        /\ task[t].m_state = "RETRY" => task[t].new_mod <= m_current_mod
        /\ \A c \in calls : c.task = t => c.node \in task[t].retry_list
    BY <1>2, <2>1, CurrentFacts DEF Asking
  <2>4. /\ task'[t] = r /\ \A u \in DOMAIN task \ {t} : task'[u] = task[u]
    BY <2>2, OneTask DEF IInv
  <2>5. /\ task[t].new_mod \in Nat /\ m_current_mod \in Nat /\ db_orders \in Nat
        /\ m_current_mod <= db_orders
    BY <2>3 DEF TaskRecord, IInv, TypeOK, MemoryNotAhead
  <2>6. RightAnswer(t)
    BY <2>2, <2>3, <2>4, <2>5 DEF RightAnswer
  <2>7. ASSUME NEW u \in DOMAIN task, u # t PROVE RightAnswer(u)
    BY <2>4, <2>7 DEF RightAnswer
  <2>. QED  BY <2>6, <2>7
<1>. QED  BY <1>1, <1>2

\* do_extent_callback: an operator is answered once, and hears of a success only
\* after memory and database were extended and every node answered or is asked
\* again.
THEOREM ExtensionAnswersAreRight == Spec => AnswersAreRight
<1>1. IInv /\ [Next]_vars => [\A t \in DOMAIN task : RightAnswer(t)]_vars
  <2>. SUFFICES ASSUME IInv, Next PROVE \A t \in DOMAIN task : RightAnswer(t)
    OBVIOUS
  <2>1. CASE \E t \in DOMAIN task : do_last_back(t)
    BY <2>1, LastBackAnswers
  <2>2. CASE \A t \in DOMAIN task : ~do_last_back(t)
    BY <2>2, OthersKeepAnswers DEF AnswersKept, RightAnswer
  <2>. QED  BY <2>1, <2>2
<1>. QED  BY <1>1, ExtensionInvariant, PTL DEF AnswersAreRight, Spec, RightAnswer

=============================================================================
