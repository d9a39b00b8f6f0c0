------------------------------ MODULE Migration ------------------------------
(***************************************************************************)
(* Bucket migrations of the monitor server: MigrationTask and its work     *)
(* item, the rule tables in memory (RulerManager) and in the database, the *)
(* operator's connections that ask for migrations (MPCClientAgent) and, as *)
(* far as the server can tell, the storage nodes.                          *)
(*                                                                         *)
(* A task logs the operation, asks the destination to copy the bucket,     *)
(* moves the rule in the database and then in memory and, for an SU,       *)
(* deletes one of the two copies and sets the new one to recovery.  The    *)
(* database parts run on the pool of WorkQueue, statement by statement and *)
(* without a transaction; everything else runs on the main thread.         *)
(*                                                                         *)
(* phase is where a task stands: "log" and "db" while its item is with the *)
(* pool, "dest", "del" and "recover" while a storage node has its request, *)
(* "answered" once the operator got the result, "dropped" when there was   *)
(* no operator left to answer.                                             *)
(***************************************************************************)
EXTENDS Naturals, Sequences, SequencesExt, FiniteSets

CONSTANTS Types,         \* the RULE_TYPEs in use, of {"MU", "SU"}
          Nodes,         \* IP addresses of the storage nodes
          Buckets,       \* bucket numbers
          Agents,        \* the operators' connections
          NoTask,        \* NULL
          FirstRule,     \* FirstRule[b]: the nodes of bucket b at the start
          RetryTime,     \* migration_retry_time of the configuration
          MaxTasks,      \* bound: migrations accepted in all
          OneAtATime     \* the operator waits for an answer before it asks again

ASSUME MigrationAssumption ==
  /\ Types \subseteq {"MU", "SU"}
  /\ FirstRule \in [Buckets -> Seq(Nodes)]
  /\ RetryTime \in Nat
  /\ MaxTasks \in Nat
  /\ OneAtATime \in BOOLEAN
  /\ NoTask \notin Nat

Tasks == 1..MaxTasks

VARIABLES
  m_hash_table, m_order_table, m_current_version,  \* rules in memory, by type
  db_rule, db_order,  \* rules in the database, by type
  held, serving,      \* buckets on the nodes: <<node, bucket>> by type
  last_load,          \* the same as the last heartbeats told it
  task,               \* the tasks created so far, in order
  open,               \* the operators' connections that are still open
  m_migrate_task,     \* m_migrate_task[a]: the task connection a remembers
  freed,              \* tasks deleted so far
  queue, running, finished, deleted, sent,  \* the pool (WorkQueue)
  misjudged, broken   \* history: buckets with a migration that should have
                      \* been refused, and buckets a database failure hit

memory == <<m_hash_table, m_order_table, m_current_version>>
database == <<db_rule, db_order>>
nodes == <<held, serving>>
operator == <<open, m_migrate_task, freed>>
pool == <<queue, running, finished, deleted, sent>>
vars == <<memory, database, nodes, last_load, task, operator, pool, misjudged, broken>>

Pool == INSTANCE WorkQueue WITH Items <- Tasks, MaxSends <- 2

-----------------------------------------------------------------------------
Done == {"answered", "dropped"}
Active == {t \in DOMAIN task : task[t].phase \notin Done}
Waiting == {"dest", "del", "recover"}
Key(t) == <<task[t].type, task[t].bucket>>

Init ==
  /\ m_hash_table = [ty \in Types |-> FirstRule]
  /\ m_order_table = [ty \in {"MU", "SU"} |-> <<>>]
  /\ m_current_version = [ty \in Types |-> 0]
  /\ db_rule = m_hash_table
  /\ db_order = [ty \in Types |-> <<>>]
  /\ held = [ty \in Types |->
               {p \in Nodes \X Buckets : p[1] \in ToSet(FirstRule[p[2]])}]
  /\ serving = held
  /\ last_load = held
  /\ task = <<>>
  /\ open = Agents
  /\ m_migrate_task = [a \in Agents |-> NoTask]
  /\ freed = {}
  /\ Pool!Init
  /\ misjudged = {} /\ broken = {}

\* Records that a database failure hit the bucket of task t.
Breaks(t) == broken' = broken \cup {Key(t)}

-----------------------------------------------------------------------------
(* The storage nodes, as the server sees them.                             *)

\* A heartbeat replaces the bucket list the server remembers for the node.
update_last_bucket_load(ty, n) ==
  /\ last_load' = [last_load EXCEPT ![ty] =
       {p \in @ : p[1] # n} \cup {p \in held[ty] : p[1] = n}]
  /\ UNCHANGED <<memory, database, nodes, task, operator, pool, misjudged, broken>>

\* A node carries out the request it was sent.  An MU hands the bucket over by
\* itself; an SU copies it and leaves it to the server to delete the source.
Serve(t) ==
  LET ty == task[t].type
      src == <<task[t].src, task[t].bucket>>
      dest == <<task[t].dest, task[t].bucket>>
      target == IF task[t].moved THEN src ELSE dest
  IN
  /\ task[t].phase \in Waiting
  /\ ~task[t].served
  /\ \/ /\ task[t].phase = "dest"
        /\ src \in held[ty]
        /\ held' = [held EXCEPT ![ty] =
                      (IF ty = "MU" THEN @ \ {src} ELSE @) \cup {dest}]
        /\ serving' = [serving EXCEPT ![ty] =
                      IF ty = "MU" THEN (@ \ {src}) \cup {dest} ELSE @]
     \/ /\ task[t].phase = "del"
        /\ held' = [held EXCEPT ![ty] = @ \ {target}]
        /\ serving' = [serving EXCEPT ![ty] = @ \ {target}]
     \/ /\ task[t].phase = "recover"
        /\ dest \in held[ty]
        /\ serving' = [serving EXCEPT ![ty] = @ \cup {dest}]
        /\ UNCHANGED held
  /\ task' = [task EXCEPT ![t].served = TRUE]
  /\ UNCHANGED <<memory, database, last_load, operator, pool, misjudged, broken>>

-----------------------------------------------------------------------------
(* The operator's connections.                                             *)

IP_is_valid_for_migration(ty, b, src, dest) ==
  /\ <<src, b>> \in last_load[ty]
  /\ <<dest, b>> \notin last_load[ty]

Named(ty, b, rules) == ToSet(rules[ty][b])

\* What nobody checks: the rules name the source and not yet the destination,
\* and no other migration of the bucket is under way.
RulesAllow(ty, b, src, dest) ==
  /\ src \in Named(ty, b, m_hash_table)
  /\ dest \notin Named(ty, b, m_hash_table)
  /\ \A u \in Active : Key(u) # <<ty, b>>

\* do_migrate_bucket: the task is created and its item handed to the pool.
do_migrate_bucket(a, ty, b, src, dest) ==
  LET t == Len(task) + 1 IN
  /\ t \in Tasks
  /\ a \in open
  /\ OneAtATime => \A u \in Active : task[u].father # a
  /\ IP_is_valid_for_migration(ty, b, src, dest)
  /\ task' = Append(task,
       [type |-> ty, bucket |-> b, src |-> src, dest |-> dest, father |-> a,
        phase |-> "log", served |-> FALSE, dest_ret |-> FALSE, moved |-> FALSE,
        retry |-> 0, m_times |-> 0, step |-> "begin", slot |-> 0,
        m_exec_result |-> FALSE])
  /\ m_migrate_task' = [m_migrate_task EXCEPT ![a] = t]
  /\ misjudged' = IF RulesAllow(ty, b, src, dest) THEN misjudged
                                                 ELSE misjudged \cup {<<ty, b>>}
  /\ Pool!Submit(t)
  /\ UNCHANGED <<memory, database, nodes, last_load, open, freed, broken>>

\* The connection is closed; the tasks it asked for are not told.
CloseAgent(a) ==
  /\ a \in open
  /\ open' = open \ {a}
  /\ UNCHANGED <<memory, database, nodes, last_load, task, m_migrate_task, freed,
                 pool, misjudged, broken>>

\* do_migrate_callback: the operator gets the result, and its connection deletes
\* the task it remembers.  Of a task that is done only the result is left.
do_migrate_callback(t, ret) ==
  LET a == task[t].father IN
  /\ task' = [task EXCEPT ![t] = [phase |-> "answered", ret |-> ret]]
  /\ freed' = freed \cup ({m_migrate_task[a]} \ {NoTask})
  /\ m_migrate_task' = [m_migrate_task EXCEPT ![a] = NoTask]
  /\ UNCHANGED open

\* Mutated do_callback: with no operator left the task stays.
do_callbackLeaks(t, ret) ==
  IF task[t].father \in open
  THEN do_migrate_callback(t, ret)
  ELSE /\ task' = [task EXCEPT ![t] = [phase |-> "dropped"]]
       /\ UNCHANGED operator

\* do_callback: with no operator left the task deletes itself.
do_callback(t, ret) ==
  IF task[t].father \in open
  THEN do_migrate_callback(t, ret)
  ELSE /\ task' = [task EXCEPT ![t] = [phase |-> "dropped"]]
       /\ freed' = freed \cup {t}
       /\ UNCHANGED <<open, m_migrate_task>>

-----------------------------------------------------------------------------
(* MigrationWorkItem::process on a database thread.                        *)

\* A thread takes the oldest item.
StartItem ==
  /\ Pool!Start
  /\ task' = [task EXCEPT ![Head(queue)].step = "begin"]
  /\ UNCHANGED <<memory, database, nodes, last_load, operator, misjudged, broken>>

Ends(t, result) == task' = [task EXCEPT ![t].step = "post", ![t].m_exec_result = result]

\* The connection is made on the first pass that can; that pass only logs the
\* start of the operation, whichever pass it is.
Connect(t) ==
  /\ t \in running /\ task[t].step = "begin"
  /\ task[t].m_times = 0
  /\ \/ /\ task' = [task EXCEPT ![t].step = "post", ![t].m_exec_result = TRUE,
                                ![t].m_times = 1]
        /\ IF task[t].phase = "db" /\ task[t].dest_ret
             THEN Breaks(t) ELSE UNCHANGED broken
     \/ Ends(t, FALSE) /\ Breaks(t)
  /\ UNCHANGED <<memory, database, nodes, last_load, operator, pool, misjudged>>

\* generate_record_to_db with a failed migration leaves the rules alone.
RecordFailure(t) ==
  /\ t \in running /\ task[t].step = "begin"
  /\ task[t].m_times = 1
  /\ ~task[t].dest_ret
  /\ Ends(t, TRUE)
  /\ UNCHANGED <<memory, database, nodes, last_load, operator, pool, misjudged, broken>>

\* update_rule_table selects the row and looks for the first slot of the source.
SelectRule(t) ==
  LET row == db_rule[task[t].type][task[t].bucket]
      slots == {i \in DOMAIN row : row[i] = task[t].src}
  IN
  /\ t \in running /\ task[t].step = "begin"
  /\ task[t].m_times = 1
  /\ task[t].dest_ret
  /\ \/ /\ \E i \in slots :
             /\ \A j \in slots : i <= j
             /\ task' = [task EXCEPT ![t].step = "update", ![t].slot = i]
        /\ UNCHANGED broken
     \/ slots = {} /\ Ends(t, FALSE) /\ UNCHANGED broken
     \/ Ends(t, FALSE) /\ Breaks(t)
  /\ UNCHANGED <<memory, database, nodes, last_load, operator, pool, misjudged>>

\* update_rule_table writes the slot it found.
UpdateRule(t) ==
  /\ t \in running /\ task[t].step = "update"
  /\ \/ /\ db_rule' = [db_rule EXCEPT ![task[t].type][task[t].bucket][task[t].slot]
                                        = task[t].dest]
        /\ task' = [task EXCEPT ![t].step = "insert", ![t].slot = 0]
        /\ UNCHANGED broken
     \/ Ends(t, FALSE) /\ Breaks(t) /\ UNCHANGED db_rule
  /\ UNCHANGED <<memory, db_order, nodes, last_load, operator, pool, misjudged>>

Order(t) == [bucket |-> task[t].bucket, src |-> task[t].src, dest |-> task[t].dest]

\* append_order_table; a failure leaves the row of UpdateRule changed.
InsertOrder(t) ==
  /\ t \in running /\ task[t].step = "insert"
  /\ \/ /\ db_order' = [db_order EXCEPT ![task[t].type] = Append(@, Order(t))]
        /\ Ends(t, TRUE)
        /\ UNCHANGED broken
     \/ Ends(t, FALSE) /\ Breaks(t) /\ UNCHANGED db_order
  /\ UNCHANGED <<memory, db_rule, nodes, last_load, operator, pool, misjudged>>

\* process_after sends the item back.
PostItem(t) ==
  /\ t \in running /\ task[t].step = "post"
  /\ Pool!Finish(t)
  /\ UNCHANGED <<memory, database, nodes, last_load, task, operator, misjudged, broken>>

-----------------------------------------------------------------------------
(* MigrationTask on the main thread.                                       *)

\* after_log_operation: whatever the log says, the destination is asked.
after_log_operation(t) ==
  /\ finished # <<>> /\ t = Head(finished)
  /\ task[t].phase = "log"
  /\ Pool!Answer
  /\ UNCHANGED <<queue, deleted>>
  /\ task' = [task EXCEPT ![t].phase = "dest", ![t].served = FALSE]
  /\ UNCHANGED <<memory, database, nodes, last_load, operator, misjudged, broken>>

\* done_dest_migration and migration_exec_back; an answer can only be good when
\* the node did its work, and can be bad (refused or lost) in any case.
done_dest_migration(t, ok) ==
  /\ task[t].phase = "dest"
  /\ ok => task[t].served
  /\ task' = [task EXCEPT ![t].phase = "db", ![t].served = FALSE,
                          ![t].dest_ret = ok]
  /\ Pool!Submit(t)
  /\ UNCHANGED <<memory, database, nodes, last_load, operator, misjudged, broken>>

\* modify_rule_by_migration replaces every slot of the source.
modify_rule_by_migration(rule, src, dest) ==
  [i \in DOMAIN rule |-> IF rule[i] = src THEN dest ELSE rule[i]]

\* Mutated new_migration_order: the version is not increased for the order.
new_migration_orderSameVersion(t) ==
  LET ty == task[t].type
      rule == m_hash_table[ty][task[t].bucket]
      version == m_current_version[ty]
  IN
  IF task[t].src \notin ToSet(rule)
  THEN UNCHANGED memory
  ELSE /\ m_hash_table' = [m_hash_table EXCEPT ![ty][task[t].bucket] =
             modify_rule_by_migration(rule, task[t].src, task[t].dest)]
       /\ m_order_table' = [m_order_table EXCEPT !["MU"] =
             [v \in DOMAIN @ \cup {version} |->
                IF v = version THEN Order(t) ELSE @[v]]]
       /\ m_current_version' = [m_current_version EXCEPT ![ty] = version + 1]

\* new_migration_order: the order always goes to the MU table.
new_migration_order(t) ==
  LET ty == task[t].type
      rule == m_hash_table[ty][task[t].bucket]
      version == m_current_version[ty] + 1
  IN
  IF task[t].src \notin ToSet(rule)
  THEN UNCHANGED memory
  ELSE /\ m_hash_table' = [m_hash_table EXCEPT ![ty][task[t].bucket] =
             modify_rule_by_migration(rule, task[t].src, task[t].dest)]
       /\ m_order_table' = [m_order_table EXCEPT !["MU"] =
             [v \in DOMAIN @ \cup {version} |->
                IF v = version THEN Order(t) ELSE @[v]]]
       /\ m_current_version' = [m_current_version EXCEPT ![ty] = version]

\* Mutated after_update_db: an SU's source copy is deleted even when the
\* database did not take the new rule.
after_update_dbDeletesSource(t) ==
  LET ret == task[t].m_exec_result
      sent_del == [task[t] EXCEPT !.phase = "del", !.moved = TRUE, !.served = FALSE]
  IN
  /\ finished # <<>> /\ t = Head(finished)
  /\ task[t].phase = "db"
  /\ Pool!Answer
  /\ deleted' = deleted \cup {t}
  /\ IF task[t].dest_ret /\ ret THEN new_migration_order(t) ELSE UNCHANGED memory
  /\ IF task[t].dest_ret /\ task[t].type = "SU"
       THEN task' = [task EXCEPT ![t] = sent_del] /\ UNCHANGED operator
       ELSE do_callback(t, task[t].dest_ret /\ ret)
  /\ UNCHANGED <<database, nodes, last_load, misjudged, broken>>

\* Mutated after_update_db: memory follows the node's answer, not the database.
after_update_dbIgnoresDatabase(t) ==
  LET ret == task[t].m_exec_result
      sent_del == [task[t] EXCEPT !.phase = "del", !.moved = ret, !.served = FALSE]
  IN
  /\ finished # <<>> /\ t = Head(finished)
  /\ task[t].phase = "db"
  /\ Pool!Answer
  /\ deleted' = deleted \cup {t}
  /\ IF ret THEN new_migration_order(t) ELSE UNCHANGED memory
  /\ IF task[t].dest_ret /\ task[t].type = "SU"
       THEN task' = [task EXCEPT ![t] = sent_del] /\ UNCHANGED operator
       ELSE do_callback(t, task[t].dest_ret /\ ret)
  /\ UNCHANGED <<database, nodes, last_load, misjudged, broken>>

\* after_update_db: the item is destroyed; memory follows the database; an MU
\* is done, an SU's superfluous copy is deleted.
after_update_db(t) ==
  LET ret == task[t].m_exec_result
      sent_del == [task[t] EXCEPT !.phase = "del", !.moved = ret, !.served = FALSE]
  IN
  /\ finished # <<>> /\ t = Head(finished)
  /\ task[t].phase = "db"
  /\ Pool!Answer
  /\ deleted' = deleted \cup {t}
  /\ IF task[t].dest_ret /\ ret THEN new_migration_order(t) ELSE UNCHANGED memory
  /\ IF task[t].dest_ret /\ task[t].type = "SU"
       THEN task' = [task EXCEPT ![t] = sent_del] /\ UNCHANGED operator
       ELSE do_callback(t, task[t].dest_ret /\ ret)
  /\ UNCHANGED <<database, nodes, last_load, misjudged, broken>>

\* Mutated done_del_bucket: the recovery is taken for granted.
done_del_bucketSkipsRecovery(t, ok) ==
  /\ task[t].phase = "del"
  /\ ok => task[t].served
  /\ do_callback(t, task[t].moved /\ ok)
  /\ UNCHANGED <<memory, database, nodes, last_load, pool, misjudged, broken>>

\* done_del_bucket: after a rollback the result is a failure in any case.
done_del_bucket(t, ok) ==
  /\ task[t].phase = "del"
  /\ ok => task[t].served
  /\ IF task[t].moved /\ ok
       THEN /\ task' = [task EXCEPT ![t].phase = "recover", ![t].served = FALSE]
            /\ UNCHANGED operator
       ELSE do_callback(t, FALSE)
  /\ UNCHANGED <<memory, database, nodes, last_load, pool, misjudged, broken>>

\* Mutated after_set_recovery: the retries are not counted.
after_set_recoveryForever(t, ok) ==
  LET retry == task[t].retry IN
  /\ task[t].phase = "recover"
  /\ ok => task[t].served
  /\ IF ok THEN do_callback(t, TRUE)
     ELSE IF retry < RetryTime
     THEN /\ task' = [task EXCEPT ![t].served = FALSE, ![t].retry = retry]
          /\ UNCHANGED operator
     ELSE do_callback(t, FALSE)
  /\ UNCHANGED <<memory, database, nodes, last_load, pool, misjudged, broken>>

\* after_set_recovery and retry_set_retry.
after_set_recovery(t, ok) ==
  LET retry == task[t].retry + 1 IN
  /\ task[t].phase = "recover"
  /\ ok => task[t].served
  /\ IF ok THEN do_callback(t, TRUE)
     ELSE IF retry < RetryTime
     THEN /\ task' = [task EXCEPT ![t].served = FALSE, ![t].retry = retry]
          /\ UNCHANGED operator
     ELSE do_callback(t, FALSE)
  /\ UNCHANGED <<memory, database, nodes, last_load, pool, misjudged, broken>>

-----------------------------------------------------------------------------
NodeAnswers(t) ==
  \E ok \in BOOLEAN : \/ done_dest_migration(t, ok)
                      \/ done_del_bucket(t, ok)
                      \/ after_set_recovery(t, ok)

Worker(t) == \/ Connect(t) \/ RecordFailure(t)
             \/ SelectRule(t) \/ UpdateRule(t) \/ InsertOrder(t)
             \/ PostItem(t)

Callbacks(t) == after_log_operation(t) \/ after_update_db(t)

Progress(t) == NodeAnswers(t) \/ Worker(t) \/ Callbacks(t)

Next ==
  \/ \E a \in Agents : CloseAgent(a)
  \/ \E a \in Agents, ty \in Types, b \in Buckets, src, dest \in Nodes :
       do_migrate_bucket(a, ty, b, src, dest)
  \/ \E ty \in Types, n \in Nodes : update_last_bucket_load(ty, n)
  \/ StartItem
  \/ \E t \in DOMAIN task : Serve(t) \/ Progress(t)

\* The pool serves every item (Dispatcher), and a request to a node ends: with
\* an answer, or because keep-alive breaks the connection.
Fairness ==
  /\ WF_vars(StartItem)
  /\ \A t \in Tasks : WF_vars(t \in DOMAIN task /\ Progress(t))

Spec == Init /\ [][Next]_vars /\ Fairness

-----------------------------------------------------------------------------
(* Properties.                                                             *)

TaskRecord ==
  [type : Types, bucket : Buckets, src : Nodes, dest : Nodes, father : Agents,
   phase : Waiting \cup {"log", "db"}, served : BOOLEAN,
   dest_ret : BOOLEAN, moved : BOOLEAN, retry : 0..RetryTime + 1, m_times : 0..1,
   step : {"begin", "update", "insert", "post"}, slot : Nat,
   m_exec_result : BOOLEAN]

TaskResult == [phase : {"answered"}, ret : BOOLEAN] \cup [phase : {"dropped"}]

OrderRecord == [bucket : Buckets, src : Nodes, dest : Nodes]

\* Type correctness of the rules, the nodes, the tasks and the pool; slot 0 of
\* an order table is never a version.
TypeOK ==
  /\ m_hash_table \in [Types -> [Buckets -> Seq(Nodes)]]
  /\ db_rule \in [Types -> [Buckets -> Seq(Nodes)]]
  /\ m_current_version \in [Types -> Nat]
  /\ \A ty \in Types : \A v \in DOMAIN m_order_table[ty] :
       v \in Nat \ {0} /\ m_order_table[ty][v] \in OrderRecord
  /\ db_order \in [Types -> Seq(OrderRecord)]
  /\ held \in [Types -> SUBSET (Nodes \X Buckets)]
  /\ serving \in [Types -> SUBSET (Nodes \X Buckets)]
  /\ last_load \in [Types -> SUBSET (Nodes \X Buckets)]
  /\ task \in Seq(TaskRecord \cup TaskResult) /\ Len(task) <= MaxTasks
  /\ open \subseteq Agents
  /\ m_migrate_task \in [Agents -> DOMAIN task \cup {NoTask}]
  /\ freed \subseteq DOMAIN task
  /\ queue \in Seq(DOMAIN task) /\ finished \in Seq(DOMAIN task)
  /\ running \subseteq DOMAIN task
  /\ misjudged \subseteq Types \X Buckets
  /\ broken \subseteq Types \X Buckets

\* No bucket is lost: a node the rules in memory name for an SU bucket holds a
\* copy of it, whatever the database or the nodes answered, as long as no two
\* migrations of that bucket ran at once.
NamedNodesHold ==
  "SU" \in Types => \A b \in Buckets : <<"SU", b>> \notin misjudged =>
    \A n \in Named("SU", b, m_hash_table) : <<n, b>> \in held["SU"]

\* The two rule tables agree on every bucket no task is between its database
\* update and its callback on, unless a failed statement or a second task on
\* the bucket came in between; with none of either and no task at work the
\* version counts the orders in the database.
MemoryMatchesDatabase ==
  /\ \A ty \in Types, b \in Buckets :
       (/\ <<ty, b>> \notin misjudged \cup broken
        /\ \A t \in Active : Key(t) = <<ty, b>> => task[t].phase # "db")
       => m_hash_table[ty][b] = db_rule[ty][b]
  /\ misjudged \cup broken = {} /\ (\A t \in Active : task[t].phase # "db")
       => \A ty \in Types : m_current_version[ty] = Len(db_order[ty])

Succeeds(t) == /\ task'[t].phase = "answered" /\ task'[t].ret
               /\ task[t].phase # "answered"

\* A success told to the operator is real: the rules name the destination in
\* place of the source and, for an SU, the destination serves the bucket and
\* the source has no copy left.
SuccessIsReal ==
  [][\A t \in DOMAIN task : Succeeds(t) /\ Key(t) \notin misjudged =>
       LET b == task[t].bucket
           ty == task[t].type
           rules == IF Key(t) \in broken THEN {m_hash_table'}
                    ELSE {m_hash_table', db_rule'}
       IN /\ \A r \in rules : /\ task[t].dest \in Named(ty, b, r)
                              /\ task[t].src \notin Named(ty, b, r)
          /\ ty = "SU" => /\ <<task[t].dest, b>> \in serving'["SU"]
                          /\ <<task[t].src, b>> \notin held'["SU"]]_vars

\* A task is deleted exactly when it is done: none is destroyed while its work
\* item or its node request can still call it, and none is left over, also when
\* its operator has gone.
FreedWhenDone == freed = DOMAIN task \ Active

\* MPCClientAgent.cpp says that a task is deleted once it is done: no connection
\* deletes a task whose work item or node request is still under way.
DeletedAfterDone == freed \cap Active = {}

\* Every migration comes to an end, with a bounded number of retries.
EveryMigrationEnds ==
  \A t \in Tasks : t \in DOMAIN task ~> t \in DOMAIN task \ Active

=============================================================================
