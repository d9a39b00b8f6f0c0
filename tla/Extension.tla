------------------------------ MODULE Extension ------------------------------
(***************************************************************************)
(* Bucket extensions of the monitor server, for one RULE_TYPE: ExtentTask  *)
(* and its work item, the part of RulerManager and of the database they    *)
(* change, TaskManager's pointer to the one task, and the operators' and   *)
(* nodes' connections.                                                     *)
(*                                                                         *)
(* An extension doubles the buckets: the database rows are copied one by   *)
(* one, memory follows, every node with a heartbeat is told the new        *)
(* modulus.  A node that fails is asked again, without end; the operator   *)
(* is to be answered when every node answered once, and the task is to     *)
(* live until the last retry succeeded.                                    *)
(*                                                                         *)
(* Requests to nodes and work items call their task back through a bare    *)
(* pointer: a callback of a deleted task is undefined behaviour, which     *)
(* this module records and does not follow any further.                    *)
(***************************************************************************)
EXTENDS Naturals, Sequences, FiniteSets

CONSTANTS Nodes,      \* IP addresses of the nodes of this type
          Agents,     \* the operators' connections
          NoTask,     \* NULL
          MaxTasks    \* bound: extensions accepted in all

ASSUME ExtensionAssumption == MaxTasks \in Nat /\ NoTask \notin Nat

Tasks == 1..MaxTasks

VARIABLES
  m_current_mod, m_current_bucket_number,  \* RulerManager
  db_rows, db_orders,  \* buckets with a rule in the database; orders in it
  last_load,           \* nodes with a heartbeat
  open,                \* the operators' connections that are still open
  task,                \* the tasks created so far, in order
  g_extent_task,       \* the task that exists, or NoTask
  calls,               \* requests at the nodes: [task, node, served]
  retried,             \* history: tasks that had to ask a node again
  undefined            \* a deleted task was called back

memory == <<m_current_mod, m_current_bucket_number>>
database == <<db_rows, db_orders>>
vars == <<memory, database, last_load, open, task, g_extent_task, calls, retried,
          undefined>>

Init ==
  /\ m_current_mod = 0 /\ m_current_bucket_number = 1
  /\ db_rows = {0} /\ db_orders = 0
  /\ last_load = Nodes
  /\ open = Agents
  /\ task = <<>> /\ g_extent_task = NoTask
  /\ calls = {} /\ retried = {}
  /\ undefined = FALSE

-----------------------------------------------------------------------------
(* TaskManager and RulerManager.                                           *)

can_exec_extent == g_extent_task = NoTask

\* Mutated can_exec_migration: only the source is looked up.
can_exec_migrationSource(src, dest) ==
  g_extent_task # NoTask =>
    /\ task[g_extent_task].m_state # "EXTENTING"
    /\ src \notin task[g_extent_task].retry_list

\* A migration is refused while an extension waits for first answers, and for
\* nodes it asks again.
can_exec_migration(src, dest) ==
  g_extent_task # NoTask =>
    /\ task[g_extent_task].m_state # "EXTENTING"
    /\ {src, dest} \cap task[g_extent_task].retry_list = {}

delete_extent_task == g_extent_task' = NoTask

new_extent_order ==
  /\ m_current_mod' = m_current_mod + 1
  /\ m_current_bucket_number' = 2 * m_current_bucket_number

-----------------------------------------------------------------------------
(* The operators' and the nodes' side.                                     *)

\* do_extent_bucket and ExtentTask::init; with another task it answers busy.
do_extent_bucket(a) ==
  /\ a \in open
  /\ Len(task) + 1 \in Tasks
  /\ can_exec_extent
  /\ task' = Append(task,
       [father |-> a, new_mod |-> m_current_mod + 1, m_state |-> "EXTENTING",
        extent_list |-> {}, retry_list |-> {}, item |-> "first", done |-> FALSE,
        m_times |-> 0, ret |-> FALSE, answer |-> "none"])
  /\ g_extent_task' = Len(task) + 1
  /\ UNCHANGED <<memory, database, last_load, open, calls, retried, undefined>>

CloseAgent(a) ==
  /\ a \in open
  /\ open' = open \ {a}
  /\ UNCHANGED <<memory, database, last_load, task, g_extent_task, calls, retried,
                 undefined>>

\* A heartbeat connection closes, or a node registers again.
Heartbeat(n) ==
  /\ last_load' = IF n \in last_load THEN last_load \ {n} ELSE last_load \cup {n}
  /\ UNCHANGED <<memory, database, open, task, g_extent_task, calls, retried,
                 undefined>>

Serve(c) ==
  /\ ~c.served
  /\ calls' = (calls \ {c}) \cup {[c EXCEPT !.served = TRUE]}
  /\ UNCHANGED <<memory, database, last_load, open, task, g_extent_task, retried,
                 undefined>>

-----------------------------------------------------------------------------
(* ExtentWorkItem::process on a database thread.                           *)

Returns(t, result) == task' = [task EXCEPT ![t].done = TRUE, ![t].ret = result,
                                           ![t].m_times = 1]

\* Without a connection the pass fails and does not count.
NoConnection(t) ==
  /\ task[t].item # "none" /\ ~task[t].done
  /\ task[t].m_times = 0
  /\ task' = [task EXCEPT ![t].done = TRUE, ![t].ret = FALSE]
  /\ UNCHANGED <<memory, database, last_load, open, g_extent_task, calls, retried,
                 undefined>>

\* The first pass that has a connection copies rule i to i + size, row by row,
\* and appends the order.  It stops at a row that exists (bucket is the primary
\* key) and where a statement fails; the rows copied so far stay.
ExtendRows(t) ==
  LET size == 2 ^ (task[t].new_mod - 1)
      rows(k) == size..(size + k - 1)
  IN
  /\ task[t].item # "none" /\ ~task[t].done
  /\ task[t].m_times = 0
  /\ \E k \in 0..size :
       /\ rows(k) \cap db_rows = {}
       /\ db_rows' = db_rows \cup rows(k)
       /\ \/ /\ k = size
             /\ db_orders' = db_orders + 1
             /\ Returns(t, TRUE)
          \/ /\ UNCHANGED db_orders
             /\ Returns(t, FALSE)
  /\ UNCHANGED <<memory, last_load, open, g_extent_task, calls, retried, undefined>>

\* The next pass logs the end of the operation.
LogEnd(t) ==
  /\ task[t].item # "none" /\ ~task[t].done
  /\ task[t].m_times = 1
  /\ Returns(t, TRUE)
  /\ UNCHANGED <<memory, database, last_load, open, g_extent_task, calls, retried,
                 undefined>>

-----------------------------------------------------------------------------
(* ExtentTask on the main thread.                                          *)

\* A record of task t after do_last_work: the item is handed over again.
do_last_work(new) == [new EXCEPT !.item = "last", !.done = FALSE]

\* Mutated done_modify_rule: memory is extended whatever the database says.
done_modify_ruleAnyway(t) ==
  /\ task[t].item = "first" /\ task[t].done
  /\ task' = [task EXCEPT ![t] = [@ EXCEPT !.item = "none",
                                           !.extent_list = last_load]]
  /\ calls' = calls \cup [task : {t}, node : last_load, served : {FALSE}]
  /\ new_extent_order
  /\ UNCHANGED <<database, last_load, open, g_extent_task, retried, undefined>>

\* done_modify_rule: a failure ends the operation; otherwise memory follows and
\* every node with a heartbeat gets a request.
done_modify_rule(t) ==
  /\ task[t].item = "first" /\ task[t].done
  /\ IF task[t].ret
     THEN /\ task' = [task EXCEPT ![t] = [@ EXCEPT !.item = "none",
                                                   !.extent_list = last_load]]
          /\ calls' = calls \cup [task : {t}, node : last_load, served : {FALSE}]
          /\ new_extent_order
     ELSE /\ task' = [task EXCEPT ![t] = do_last_work(@)]
          /\ UNCHANGED <<calls, memory>>
  /\ UNCHANGED <<database, last_load, open, g_extent_task, retried, undefined>>

\* Mutated agent_exec_extent_back: every first answer ends the first round.
agent_exec_extent_backEach(t, n) ==
  LET left == [task[t] EXCEPT !.extent_list = @ \ {n}, !.retry_list = @ \ {n}] IN
  IF n \in task[t].extent_list
  THEN /\ task' = [task EXCEPT ![t] = do_last_work([left EXCEPT !.m_state = "RETRY"])]
       /\ UNCHANGED g_extent_task
  ELSE /\ task' = [task EXCEPT ![t] = left]
       /\ IF left.retry_list = {} THEN delete_extent_task
                                  ELSE UNCHANGED g_extent_task

\* agent_exec_extent_back: the last first answer ends the first round, the last
\* retry deletes the task.
agent_exec_extent_back(t, n) ==
  LET left == [task[t] EXCEPT !.extent_list = @ \ {n}, !.retry_list = @ \ {n}] IN
  IF n \in task[t].extent_list
  THEN /\ task' = [task EXCEPT ![t] =
             IF left.extent_list = {}
             THEN do_last_work([left EXCEPT !.m_state = "RETRY"]) ELSE left]
       /\ UNCHANGED g_extent_task
  ELSE /\ task' = [task EXCEPT ![t] = left]
       /\ IF left.retry_list = {} THEN delete_extent_task
                                  ELSE UNCHANGED g_extent_task

\* Mutated retry_do_extent: the node stays on the first list.
retry_do_extentStays(t, n) ==
  /\ task' = [task EXCEPT ![t].retry_list = @ \cup {n}]
  /\ UNCHANGED g_extent_task

\* retry_do_extent: the node moves to the other list and is asked again.
retry_do_extent(t, n) ==
  /\ task' = [task EXCEPT ![t].extent_list = @ \ {n}, ![t].retry_list = @ \cup {n}]
  /\ UNCHANGED g_extent_task

\* done_extent_ack: good only if the node did its work; an error, a refusal and
\* a closed connection (UNKOWN_ERROR) all lead to a retry.
done_extent_ack(c, ok) ==
  /\ ok => c.served
  /\ IF c.task # g_extent_task
     THEN /\ undefined' = TRUE
          /\ calls' = calls \ {c}
          /\ UNCHANGED <<task, g_extent_task, retried>>
     ELSE /\ IF ok
             THEN /\ agent_exec_extent_back(c.task, c.node)
                  /\ calls' = calls \ {c}
                  /\ UNCHANGED retried
             ELSE /\ retry_do_extent(c.task, c.node)
                  /\ calls' = (calls \ {c}) \cup {[c EXCEPT !.served = FALSE]}
                  /\ retried' = retried \cup {c.task}
          /\ UNCHANGED undefined
  /\ UNCHANGED <<memory, database, last_load, open>>

\* A record of task t after do_last_back destroyed its item.
ItemGone(t) == [task[t] EXCEPT !.item = "none"]

\* do_extent_callback: the operator gets the result and the task is deleted,
\* unless requests are left.  m_extent_ret is true once the first round ended.
do_extent_callback(t) ==
  /\ task' = [task EXCEPT ![t] = [ItemGone(t) EXCEPT !.answer =
               IF task[t].m_state = "RETRY" THEN "success" ELSE "failure"]]
  /\ IF task[t].extent_list \cup task[t].retry_list = {}
       THEN delete_extent_task ELSE UNCHANGED g_extent_task

\* Mutated do_callback: with no operator left the task stays.
do_callbackStays(t) ==
  IF task[t].father \in open
  THEN do_extent_callback(t)
  ELSE task' = [task EXCEPT ![t] = ItemGone(t)] /\ UNCHANGED g_extent_task

\* do_callback: with no operator left the task is deleted in any case.
do_callback(t) ==
  IF task[t].father \in open
  THEN do_extent_callback(t)
  ELSE task' = [task EXCEPT ![t] = ItemGone(t)] /\ delete_extent_task

\* do_last_back: the operation is over and its item destroyed.
do_last_back(t) ==
  /\ task[t].item = "last" /\ task[t].done
  /\ IF t = g_extent_task
     THEN do_callback(t) /\ UNCHANGED undefined
     ELSE undefined' = TRUE /\ UNCHANGED <<task, g_extent_task>>
  /\ UNCHANGED <<memory, database, last_load, open, calls, retried>>

-----------------------------------------------------------------------------
Item(t) == NoConnection(t) \/ ExtendRows(t) \/ LogEnd(t)
Handlers(t) == done_modify_rule(t) \/ do_last_back(t)
Answer(c) == \E ok \in BOOLEAN : done_extent_ack(c, ok)

Next ==
  /\ ~undefined
  /\ \/ \E a \in Agents : do_extent_bucket(a) \/ CloseAgent(a)
     \/ \E n \in Nodes : Heartbeat(n)
     \/ \E c \in calls : Serve(c) \/ Answer(c)
     \/ \E t \in DOMAIN task : Item(t) \/ Handlers(t)

\* The pool serves every item (Dispatcher), and a request to a node ends, with
\* an answer or because keep-alive breaks the connection.
Fairness ==
  /\ \A t \in Tasks :
       WF_vars(t \in DOMAIN task /\ ~undefined /\ (Item(t) \/ Handlers(t)))
  /\ \A t \in Tasks, n \in Nodes :
       WF_vars(\E c \in calls : c.task = t /\ c.node = n /\ ~undefined /\ Answer(c))

Spec == Init /\ [][Next]_vars /\ Fairness

\* Besides, a node that is asked again and again does its work and says so.
NodesRecover ==
  \A t \in Tasks, n \in Nodes :
    /\ SF_vars(\E c \in calls : c.task = t /\ c.node = n /\ ~undefined /\ Serve(c))
    /\ SF_vars(\E c \in calls : /\ c.task = t /\ c.node = n /\ ~undefined
                                /\ done_extent_ack(c, TRUE))

RecoveringSpec == Spec /\ NodesRecover

-----------------------------------------------------------------------------
(* Properties.                                                             *)

TaskRecord ==
  [father : Agents, new_mod : Nat, m_state : {"EXTENTING", "RETRY"},
   extent_list : SUBSET Nodes, retry_list : SUBSET Nodes,
   item : {"none", "first", "last"}, done : BOOLEAN, m_times : 0..1,
   ret : BOOLEAN, answer : {"none", "success", "failure"}]

\* Type correctness of the rules, the tasks and the requests; no node is on both
\* lists of a task.
TypeOK ==
  /\ m_current_mod \in Nat /\ m_current_bucket_number \in Nat
  /\ db_rows \subseteq Nat /\ db_orders \in Nat
  /\ last_load \subseteq Nodes
  /\ open \subseteq Agents
  /\ task \in Seq(TaskRecord) /\ Len(task) <= MaxTasks
  /\ \A t \in DOMAIN task : task[t].extent_list \cap task[t].retry_list = {}
  /\ g_extent_task \in DOMAIN task \cup {NoTask}
  /\ calls \subseteq [task : DOMAIN task, node : Nodes, served : BOOLEAN]
  /\ retried \subseteq DOMAIN task
  /\ undefined \in BOOLEAN

\* Memory is never ahead of the database: every bucket it knows has a rule there
\* and every extension it made has its order there, so that a restart loses no
\* bucket a client may have used.
MemoryNotAhead ==
  /\ m_current_bucket_number = 2 ^ m_current_mod
  /\ 0..(m_current_bucket_number - 1) \subseteq db_rows
  /\ m_current_mod <= db_orders

\* While a task exists, no migration is allowed that takes a bucket from or to a
\* node with an unanswered extension request.
NoMigrationDuringExtension ==
  g_extent_task # NoTask =>
    \A c \in calls : c.task = g_extent_task =>
      \A n \in Nodes : /\ ~can_exec_migration(c.node, n)
                       /\ ~can_exec_migration(n, c.node)

\* The operator hears of a success only after memory and database have been
\* extended and no node has its first request unanswered, and no operator is
\* answered twice.
AnswersAreRight ==
  [][\A t \in DOMAIN task : task'[t].answer # task[t].answer =>
       /\ task[t].answer = "none"
       /\ task'[t].answer = "success" =>
            /\ m_current_mod >= task[t].new_mod
            /\ db_orders >= task[t].new_mod
            /\ \A c \in calls : c.task = t => c.node \in task[t].retry_list]_vars

\* An extension that has to ask no node twice ends, so that the next one can
\* start, also when the operator has gone in between; the one exception is an
\* extension that found no node with a heartbeat, which nobody calls back.
ExtensionEnds ==
  \A t \in Tasks :
    g_extent_task = t ~>
      \/ g_extent_task # t
      \/ t \in retried
      \/ undefined
      \/ /\ task[t].m_state = "EXTENTING"
         /\ task[t].item = "none"
         /\ task[t].extent_list = {}

\* Extent_task.h says that the operator is answered once the first list is empty:
\* a task that asked its nodes comes to answer its operator, if that one stays.
OperatorIsAnswered ==
  \A t \in Tasks :
    t \in DOMAIN task /\ task[t].extent_list # {} ~>
      (t \in DOMAIN task =>
         undefined \/ task[t].father \notin open \/ task[t].answer # "none")

\* Extent_task.cpp says where the task deletes itself that nothing may refer to it
\* any more: no work item and no request at a node does.
NoReferenceLeft ==
  \A t \in DOMAIN task : t # g_extent_task =>
    /\ task[t].item = "none"
    /\ \A c \in calls : c.task # t

=============================================================================
