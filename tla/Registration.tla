---------------------------- MODULE Registration ----------------------------
(***************************************************************************)
(* The deployment of a new system: RunControl counts the storage nodes     *)
(* that register, and when all of a type are there starts the server and   *)
(* has InitSystemTask lay out the rules.  An operator can have rules laid  *)
(* out too, at any time once the server runs.  The statements of           *)
(* InitSystemWorkItem are executed by pool threads, one after the other.   *)
(*                                                                         *)
(* After a crash RuleInit reads what is in the database; a type whose rule *)
(* table exists counts as deployed.                                        *)
(***************************************************************************)
EXTENDS Naturals, FiniteSets, SequencesExt

CONSTANTS Types,       \* the RULE_TYPEs
          Nodes,       \* IP addresses of the storage nodes
          Conns,       \* registration connections
          Owner, Asks, \* the node of each connection and the types it may ask for
          number,      \* mu_number and su_number
          dup, mod,    \* copies of a bucket and modulus, of either type
          Impatient,   \* bound: connections on which a node may register again
          Deployments, \* what operators ask for: types with lists of nodes
          MaxExtra     \* bound: operators' deployments and restarts, together

ASSUME RegistrationAssumption ==
  /\ Owner \in [Conns -> Nodes] /\ Asks \in [Conns -> SUBSET Types]
  /\ number \in [Types -> Nat \ {0}] /\ dup \in [Types -> Nat \ {0}]
  /\ mod \in [Types -> Nat]
  /\ Types # {} /\ \A ty \in Types : dup[ty] <= number[ty]
  /\ Impatient \subseteq Conns
  /\ Deployments \subseteq Types \X Seq(Nodes)
  /\ MaxExtra \in Nat

VARIABLES
  m_running, m_finish,       \* RunControl; m_finish is m_mu_finish, m_su_finish
  m_register_list,           \* m_mu_register_list and m_su_register_list
  agent, m_type, answered,   \* the connections: state, type, types answered OK
  task,                      \* InitSystemTasks with their work items
  m_hash_table, m_current_bucket_number,  \* RulerManager
  rule_table, order_table,   \* database: rows, or none; whether it exists
  up, extra,                 \* process alive; deployments and restarts so far
  repeated,                  \* connections that registered twice, for the bound
  doubled, disturbed         \* history: types laid out for a list that names a
                             \* node twice; types whose last initialisation
                             \* failed, was cut short or met another one

control == <<m_running, m_finish, m_register_list>>
connections == <<agent, m_type, answered>>
memory == <<m_hash_table, m_current_bucket_number>>
database == <<rule_table, order_table>>
history == <<repeated, doubled, disturbed>>
vars == <<control, connections, task, memory, database, up, extra, history>>

\* cs_log: of a number that is no power of two the caller makes 0.
cs_log(n) == IF \E k \in 0..n : 2 ^ k = n THEN CHOOSE k \in 0..n : 2 ^ k = n ELSE 0

NoTable == [exists |-> FALSE, rows |-> <<>>]
EmptyTable == [exists |-> TRUE, rows |-> <<>>]

\* m_type is not initialised; until it is set the connection is in no list.
AnyType == CHOOSE ty \in Types : TRUE

Init ==
  /\ m_running = FALSE /\ m_finish = [ty \in Types |-> FALSE]
  /\ m_register_list = [ty \in Types |-> <<>>]
  /\ agent = [c \in Conns |-> "none"]
  /\ m_type = [c \in Conns |-> AnyType] /\ answered = [c \in Conns |-> {}]
  /\ task = {}
  /\ m_hash_table = [ty \in Types |-> <<>>]
  /\ m_current_bucket_number = [ty \in Types |-> 0]
  /\ rule_table = [ty \in Types |-> NoTable]
  /\ order_table = [ty \in Types |-> FALSE]
  /\ up = TRUE /\ extra = 0
  /\ repeated = {} /\ doubled = {} /\ disturbed = {}

-----------------------------------------------------------------------------
(* InitSystemTask.                                                         *)

\* Mutated layout_all_bucket: the copies are placed without regard to each other.
layout_all_bucketApart(ty, list) ==
  [b \in 0..2 ^ mod[ty] - 1 |->
     [j \in 0..dup[ty] - 1 |-> list[1 + ((b * j) % Len(list))]]]

\* layout_all_bucket: the copies of a bucket go to neighbours in the list.
layout_all_bucket(ty, list) ==
  [b \in 0..2 ^ mod[ty] - 1 |->
     [j \in 0..dup[ty] - 1 |-> list[1 + ((b * dup[ty] + j) % Len(list))]]]

Addresses(list) == [i \in DOMAIN list |-> list[i].ip]
UnderWay(ty) == {t \in task : t.type = ty}

\* A task is created and its work item handed to the pool; id 0 is RunControl's.
NewTask(ty, list, id) ==
  LET alone == UnderWay(ty) = {} IN
  /\ task' = task \cup {[type |-> ty, list |-> list, id |-> id,
                         step |-> "drop_rule", row |-> 0]}
  /\ doubled' = IF IsInjective(list) THEN doubled ELSE doubled \cup {ty}
  /\ disturbed' = IF alone THEN disturbed \ {ty} ELSE disturbed \cup {ty}

\* do_init_hash_rule: whether the rules exist already is not asked (can_init).
do_init_hash_rule(ty, list) ==
  /\ m_running /\ extra < MaxExtra
  /\ dup[ty] <= Len(list)
  /\ extra' = extra + 1
  /\ NewTask(ty, list, extra')
  /\ UNCHANGED <<control, connections, memory, database, up, repeated>>

-----------------------------------------------------------------------------
(* RunControl and RegisteNodeAgent.                                        *)

Gone(entry) == agent[entry.index] # "open"

\* One pass over the list erases the entries of connections that are gone; the
\* one that follows an erased entry is not looked at.
Erased(list) ==
  LET erased[i \in 0..Len(list)] == i > 0 /\ Gone(list[i]) /\ ~erased[i - 1]
  IN {i \in DOMAIN list : erased[i]}

\* Mutated Purge: nothing is erased.
PurgeNothing(list) == list

\* What a pass leaves.
Kept(list) ==
  LET kept[i \in 0..Len(list)] ==
        IF i = 0 THEN <<>>
        ELSE IF i \in Erased(list) THEN kept[i - 1] ELSE Append(kept[i - 1], list[i])
  IN kept[Len(list)]

\* When the last entry is erased the iterator wraps and the pass is repeated, which
\* cannot happen more often than there are entries.
Purge(list) ==
  LET passed[n \in 0..Len(list)] ==
        IF n = 0 THEN list
        ELSE IF Len(passed[n - 1]) \in Erased(passed[n - 1]) THEN Kept(passed[n - 1])
             ELSE passed[n - 1]
  IN Kept(passed[Len(list)])

\* Mutated node_register: one node more than there are.
node_registerOneMore(c, ty) ==
  LET list == Append(Purge(m_register_list[ty]), [index |-> c, ip |-> Owner[c]]) IN
  /\ m_register_list' = [m_register_list EXCEPT ![ty] = list]
  /\ IF Len(list) > number[ty] /\ ~m_running
     THEN /\ m_running' = TRUE
          /\ NewTask(ty, Addresses(list), 0)
          /\ m_finish' = [m_finish EXCEPT ![ty] = TRUE]
     ELSE UNCHANGED <<m_running, m_finish, task, doubled, disturbed>>

\* node_register, finish_register and notice_all_node: the server is started
\* by the first type that is complete, and only then rules are laid out.
node_register(c, ty) ==
  LET list == Append(Purge(m_register_list[ty]), [index |-> c, ip |-> Owner[c]]) IN
  /\ m_register_list' = [m_register_list EXCEPT ![ty] = list]
  /\ IF Len(list) >= number[ty] /\ ~m_running
     THEN /\ m_running' = TRUE
          /\ NewTask(ty, Addresses(list), 0)
          /\ m_finish' = [m_finish EXCEPT ![ty] = TRUE]
     ELSE UNCHANGED <<m_running, m_finish, task, doubled, disturbed>>

Registered(c, ty) == {i \in DOMAIN m_register_list[ty] : m_register_list[ty][i].index = c}
Registrations(c) == {ty \in Types : Registered(c, ty) # {}}

\* RegisteNodeAgent::readBack, for the first request after accepting the
\* connection: before that it concerns nobody.  Bound: a node registers at most
\* twice on a connection, and not after an answer.
readBack(c, ty) ==
  /\ agent[c] # "closed" /\ answered[c] = {}
  /\ Registrations(c) = {} \/ c \in Impatient \ repeated
  /\ agent' = [agent EXCEPT ![c] = "open"]
  /\ m_type' = [m_type EXCEPT ![c] = ty]
  /\ repeated' = IF Registrations(c) = {} THEN repeated ELSE repeated \cup {c}
  /\ IF ~m_finish[ty]
     THEN node_register(c, ty) /\ UNCHANGED answered
     ELSE /\ answered' = [answered EXCEPT ![c] = @ \cup {ty}]
          /\ UNCHANGED <<control, task, doubled, disturbed>>
  /\ UNCHANGED <<memory, database, up, extra>>

\* register_node_recycler: the first entry of the connection is erased, from the
\* list of the type it asked for last and while that type is not finished.
register_node_recycler(c) ==
  LET ty == m_type[c]
      found == Registered(c, ty)
  IN m_register_list' =
       IF m_finish[ty] \/ found = {} THEN m_register_list
       ELSE [m_register_list EXCEPT ![ty] = RemoveAt(@, Min(found))]

\* A connection closes; RegisteNodeAgent::recycler.
Close(c) ==
  /\ agent[c] = "open"
  /\ agent' = [agent EXCEPT ![c] = "closed"]
  /\ register_node_recycler(c)
  /\ UNCHANGED <<m_running, m_finish, m_type, answered, task, memory, database, up, extra,
                 history>>

-----------------------------------------------------------------------------
(* The statements of InitSystemWorkItem, on a pool thread.                 *)

Becomes(t, new) == task' = (task \ {t}) \cup {new}
Enters(t, step) == Becomes(t, [t EXCEPT !.step = step])
Fails(t, step) == Enters(t, step) /\ disturbed' = disturbed \cup {t.type}

OnlyTask == <<control, connections, memory, up, extra, repeated, doubled>>

\* init_tables: the rule table is dropped and created.
drop_rule(t) ==
  /\ t.step = "drop_rule"
  /\ rule_table' = [rule_table EXCEPT ![t.type] = NoTable]
  /\ Enters(t, "create_rule")
  /\ UNCHANGED <<OnlyTask, order_table, disturbed>>

create_rule(t) ==
  /\ t.step = "create_rule"
  /\ IF rule_table[t.type].exists
     THEN Fails(t, "failed") /\ UNCHANGED rule_table
     ELSE /\ rule_table' = [rule_table EXCEPT ![t.type] = EmptyTable]
          /\ Enters(t, "drop_order") /\ UNCHANGED disturbed
  /\ UNCHANGED <<OnlyTask, order_table>>

\* init_tables: the order table likewise, with the rule table dropped on failure.
drop_order(t) ==
  /\ t.step = "drop_order"
  /\ order_table' = [order_table EXCEPT ![t.type] = FALSE]
  /\ Enters(t, "create_order")
  /\ UNCHANGED <<OnlyTask, rule_table, disturbed>>

create_order(t) ==
  /\ t.step = "create_order"
  /\ IF order_table[t.type]
     THEN Fails(t, "undo_rule") /\ UNCHANGED order_table
     ELSE /\ order_table' = [order_table EXCEPT ![t.type] = TRUE]
          /\ Enters(t, "history") /\ UNCHANGED disturbed
  /\ UNCHANGED <<OnlyTask, rule_table>>

\* init_operation_table, whose table no other part reads.
init_operation_table(t) ==
  /\ t.step = "history"
  /\ Enters(t, "rows")
  /\ UNCHANGED <<OnlyTask, database, disturbed>>

\* generate_every_bucket_rule inserts the rule of the next bucket.
generate_every_bucket_rule(t) ==
  LET layout == layout_all_bucket(t.type, t.list)
      rows == rule_table[t.type].rows
      more == [b \in DOMAIN rows \cup {t.row} |-> IF b = t.row THEN layout[b] ELSE rows[b]]
      last == t.row + 1 \notin DOMAIN layout
  IN
  /\ t.step = "rows"
  /\ IF ~rule_table[t.type].exists \/ t.row \in DOMAIN rows
     THEN Fails(t, "failed") /\ UNCHANGED rule_table
     ELSE /\ rule_table' = [rule_table EXCEPT ![t.type].rows = more]
          /\ Becomes(t, [t EXCEPT !.row = @ + 1, !.step = IF last THEN "done" ELSE "rows"])
          /\ UNCHANGED disturbed
  /\ UNCHANGED <<OnlyTask, order_table>>

\* Any statement can fail, or there is no connection: init_tables goes to its
\* labels ERR2 and ERR1, the rows inserted so far stay.
StatementFails(t) ==
  /\ \/ t.step \in {"drop_rule", "create_rule", "rows"} /\ Fails(t, "failed")
     \/ t.step \in {"drop_order", "create_order"} /\ Fails(t, "undo_rule")
     \/ t.step = "history" /\ Fails(t, "undo_order")
  /\ UNCHANGED <<OnlyTask, database>>

\* What the labels ERR2 and ERR1 drop, unless that fails too.
Undo(t) ==
  /\ \/ /\ t.step = "undo_order" /\ Enters(t, "undo_rule")
        /\ \E left \in {FALSE, order_table[t.type]} :
             order_table' = [order_table EXCEPT ![t.type] = left]
        /\ UNCHANGED rule_table
     \/ /\ t.step = "undo_rule" /\ Enters(t, "failed")
        /\ \E left \in {NoTable, rule_table[t.type]} :
             rule_table' = [rule_table EXCEPT ![t.type] = left]
        /\ UNCHANGED order_table
  /\ UNCHANGED <<OnlyTask, disturbed>>

-----------------------------------------------------------------------------
(* The callbacks on the main thread; the end of the process and its start. *)

\* The process ends: what was in memory is gone, the nodes have to connect again.
Ends ==
  /\ up' = FALSE
  /\ m_running' = FALSE /\ m_finish' = [ty \in Types |-> FALSE]
  /\ m_register_list' = [ty \in Types |-> <<>>]
  /\ agent' = [c \in Conns |-> "none"] /\ answered' = [c \in Conns |-> {}]
  /\ m_type' = [c \in Conns |-> AnyType]
  /\ task' = {}
  /\ m_hash_table' = [ty \in Types |-> <<>>]
  /\ m_current_bucket_number' = [ty \in Types |-> 0]
  /\ repeated' = {}
  /\ disturbed' = disturbed \cup {t.type : t \in task}
  /\ UNCHANGED <<database, extra, doubled>>

\* Mutated after_init_system: the nodes of all other types are answered.
after_init_systemOthers(ty) ==
  /\ m_finish' = [m_finish EXCEPT ![ty] = TRUE]
  /\ answered' = [c \in Conns |->
       IF agent[c] = "open" /\ \E other \in Types \ {ty} : Registered(c, other) # {}
       THEN answered[c] \cup {ty} ELSE answered[c]]

\* after_init_system: the nodes that registered and are still there are answered.
after_init_system(ty) ==
  /\ m_finish' = [m_finish EXCEPT ![ty] = TRUE]
  /\ answered' = [c \in Conns |->
       IF agent[c] = "open" /\ Registered(c, ty) # {} THEN answered[c] \cup {ty}
                                                      ELSE answered[c]]

\* Mutated init_memory_rule: the nodes are taken from the end of the list.
init_memory_ruleReversed(t) ==
  /\ m_hash_table' = [m_hash_table EXCEPT ![t.type] = layout_all_bucket(t.type, Reverse(t.list))]
  /\ m_current_bucket_number' = [m_current_bucket_number EXCEPT ![t.type] = 2 ^ mod[t.type]]

\* init_memory_rule lays out the buckets once more.
init_memory_rule(t) ==
  /\ m_hash_table' = [m_hash_table EXCEPT ![t.type] = layout_all_bucket(t.type, t.list)]
  /\ m_current_bucket_number' = [m_current_bucket_number EXCEPT ![t.type] = 2 ^ mod[t.type]]

\* after_init_db_rule of a work item that succeeded; an operator is answered, or
\* is gone and the task deletes itself.
after_init_db_rule(t) ==
  /\ t.step = "done"
  /\ init_memory_rule(t)
  /\ task' = task \ {t}
  /\ IF t.id = 0 THEN after_init_system(t.type)
                 ELSE UNCHANGED <<m_finish, answered>>
  /\ UNCHANGED <<m_running, m_register_list, agent, m_type, database, up, extra, history>>

\* after_init_db_rule of one that failed: RunControl ends the process.
AfterFailure(t) ==
  /\ t.step = "failed"
  /\ IF t.id = 0 THEN Ends
     ELSE /\ task' = task \ {t}
          /\ UNCHANGED <<control, connections, memory, database, up, extra, history>>

\* prepare_run: RuleInit reads the rows of each rule table that exists, for which
\* the order table has to be there; the server waits for nodes if a type is new.
prepare_run ==
  LET deployed == {ty \in Types : rule_table[ty].exists}
      rows(ty) == Cardinality(DOMAIN rule_table[ty].rows)
  IN
  /\ ~up /\ extra < MaxExtra
  /\ \A ty \in deployed : order_table[ty] /\ DOMAIN rule_table[ty].rows = 0..rows(ty) - 1
  /\ up' = TRUE /\ extra' = extra + 1
  /\ m_hash_table' = [ty \in Types |-> rule_table[ty].rows]
  /\ m_current_bucket_number' = [ty \in Types |-> IF ty \in deployed THEN 2 ^ cs_log(rows(ty)) ELSE 0]
  /\ m_finish' = [ty \in Types |-> ty \in deployed]
  /\ m_running' = (deployed = Types)
  /\ UNCHANGED <<m_register_list, connections, task, database, history>>

-----------------------------------------------------------------------------
Worker(t) == \/ drop_rule(t) \/ create_rule(t) \/ drop_order(t) \/ create_order(t)
             \/ init_operation_table(t) \/ generate_every_bucket_rule(t)
             \/ StatementFails(t) \/ Undo(t)

Callback(t) == after_init_db_rule(t) \/ AfterFailure(t)

Next ==
  \/ prepare_run
  \/ /\ up
     /\ \/ \E c \in Conns : Close(c) \/ \E ty \in Asks[c] : readBack(c, ty)
        \/ \E d \in Deployments : do_init_hash_rule(d[1], d[2])
        \/ \E t \in task : Worker(t) \/ Callback(t)
        \/ Ends

\* Fairness: the pool threads and the epoll loop keep running.
Spec == Init /\ [][Next]_vars
        /\ WF_vars(up /\ \E t \in task : Worker(t) \/ Callback(t))

-----------------------------------------------------------------------------
(* Properties.                                                             *)

Layouts(ty) == [0..2 ^ mod[ty] - 1 -> [0..dup[ty] - 1 -> Nodes]]

Quiet(ty) == UnderWay(ty) = {} /\ ty \notin disturbed

\* Between initialisations the rules in memory are those in the database, all of
\* them, and a restart finds the tables it needs; of types whose last
\* initialisation did not fail and met no other.
DeployedMatchesDatabase ==
  up => \A ty \in Types : Quiet(ty) =>
    /\ m_hash_table[ty] = rule_table[ty].rows
    /\ m_current_bucket_number[ty] = Cardinality(DOMAIN rule_table[ty].rows)
    /\ rule_table[ty].exists => order_table[ty] /\ rule_table[ty].rows \in Layouts(ty)

\* The copies of every bucket, also of a layout that was cut short, are on
\* different nodes, unless a node was listed twice.
EachCopyElsewhere ==
  \A ty \in Types \ doubled : \A b \in DOMAIN rule_table[ty].rows :
    IsInjective(rule_table[ty].rows[b])

\* A server that has not begun to serve has no complete list of nodes waiting.
EnoughAreDeployed ==
  up /\ ~m_running => \A ty \in Types : ~m_finish[ty] => Len(m_register_list[ty]) < number[ty]

\* The rules are laid out over nodes that are still connected, although closing
\* erases one entry of a connection only and registering passes over entries: a
\* list with an entry that is gone is not complete.
CountedAreOpen ==
  [][m_running' /\ ~m_running /\ up =>
       \A ty \in Types : m_finish'[ty] /\ ~m_finish[ty] =>
         \A i \in DOMAIN m_register_list'[ty] :
           agent'[m_register_list'[ty][i].index] = "open"]_vars

\* A node that registered and is there when the rules are laid out is answered,
\* or the connection or the process ends.
WaitingIsAnswered ==
  \A c \in Conns : \A ty \in Asks[c] :
    up /\ m_finish[ty] /\ Registered(c, ty) # {} /\ agent[c] = "open"
      ~> ty \in answered[c] \/ agent[c] # "open" \/ ~up

=============================================================================
