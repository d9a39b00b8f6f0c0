------------------------------- MODULE Rules --------------------------------
(***************************************************************************)
(* The rules in memory and in the database: RulerManager with its vectors, *)
(* the statements of the migration and extension work items, and RuleInit, *)
(* which loads the rules again after a crash.                              *)
(*                                                                         *)
(* The vectors are reserved and then written by index, so that their size  *)
(* stays zero: a reallocation keeps none of the items.  INIT_VEC_SIZE is   *)
(* their first capacity.                                                   *)
(*                                                                         *)
(* A rule is the one node of a bucket; what the storage nodes and the      *)
(* operators do in a migration or an extension is in the modules Migration *)
(* and Extension.  A task here is the part of one that changes rules: its  *)
(* statements on a pool thread, then its callback on the main thread.      *)
(***************************************************************************)
EXTENDS Naturals, Sequences, FiniteSets

CONSTANTS Types,          \* the RULE_TYPEs in use, of {"MU", "SU"}
          Nodes,          \* IP addresses of the storage nodes
          FirstNode,      \* the node of bucket 0 at the start
          Garbage,        \* what unwritten memory holds
          INIT_VEC_SIZE,  \* the capacity the vectors begin with
          MaxTasks,       \* bound: migrations and extensions in all
          MaxCrashes      \* bound: crashes

ASSUME RulesAssumption ==
  /\ Types \subseteq {"MU", "SU"}
  /\ FirstNode \in Nodes
  /\ INIT_VEC_SIZE \in Nat \ {0}
  /\ MaxTasks \in Nat /\ MaxCrashes \in Nat

VARIABLES
  m_hash_table, m_order_table,  \* vectors, by type
  m_current_version, m_current_mod, m_current_bucket_number,
  db_rule, db_order,            \* the database, by type
  task, started,                \* the tasks under way; tasks so far
  dead,                         \* set_dead_line was called, or memory overrun
  crashes,                      \* crashes so far
  overlapped, broken, applied   \* history, since the start: types with an
                                \* extension begun during a migration, with a
                                \* failed statement; what was done in memory

tables == <<m_hash_table, m_order_table>>
counters == <<m_current_version, m_current_mod, m_current_bucket_number>>
memory == <<tables, counters>>
database == <<db_rule, db_order>>
history == <<overlapped, broken, applied>>
vars == <<memory, database, task, started, dead, crashes, history>>

-----------------------------------------------------------------------------
(* Vectors: items in use, capacity and what is stored at an index.         *)

Reserved(n) == [size |-> 0, capacity |-> n, items |-> <<>>, overrun |-> FALSE]

\* A reallocation moves the items in use, of which there are size.
reserve(v, n) ==
  IF n <= v.capacity THEN v
  ELSE [v EXCEPT !.capacity = n,
                 !.items = [i \in DOMAIN v.items \cap 0..v.size - 1 |-> v.items[i]]]

\* v[i] = x, which checks nothing.
Write(v, i, x) ==
  IF i < v.capacity
  THEN [v EXCEPT !.items = [j \in DOMAIN v.items \cup {i} |->
                              IF j = i THEN x ELSE v.items[j]]]
  ELSE [v EXCEPT !.overrun = TRUE]

push_back(v, x) ==
  LET w == IF v.size < v.capacity THEN v ELSE reserve(v, 2 * v.size + 1)
  IN [Write(w, v.size, x) EXCEPT !.size = v.size + 1]

Read(v, i) == IF i \in DOMAIN v.items THEN v.items[i]
              ELSE [bucket_nr |-> Garbage, ip |-> Garbage]

add_new_hash_item(v, rule, ty) ==
  LET index == rule.bucket_nr
      full == IF ty = "MU" THEN v.capacity <= index ELSE v.capacity < index
  IN Write(IF full THEN reserve(v, 2 * index + 1) ELSE v, index, rule)

add_new_order_item(v, order) ==
  LET index == order.version
  IN Write(IF v.capacity <= index THEN reserve(v, 2 * index + 1) ELSE v, index, order)

-----------------------------------------------------------------------------
(* Loading the rules: RulerManager::init_rule, then RuleInit.              *)

\* cs_log: -1 for a number that is no power of two, of which the caller makes 0.
cs_log(n) == IF \E k \in 0..n : 2 ^ k = n THEN CHOOSE k \in 0..n : 2 ^ k = n ELSE 0

\* generate_all_rule: every row in turn.
generate_all_rule(ty) ==
  LET load[n \in 0..Cardinality(DOMAIN db_rule[ty])] ==
        IF n = 0 THEN Reserved(INIT_VEC_SIZE)
        ELSE add_new_hash_item(load[n - 1],
               [bucket_nr |-> n - 1, ip |-> db_rule[ty][n - 1]], ty)
  IN load[Cardinality(DOMAIN db_rule[ty])]

\* The order table starts with an entry for version 0.
FirstOrders == Write(Reserved(INIT_VEC_SIZE), 0,
                     [version |-> 0, order |-> [cmd |-> "UNDEFINED"]])

\* generate_all_order: every row in turn, numbered from 1.
generate_all_order(ty) ==
  LET load[n \in 0..Len(db_order[ty])] ==
        IF n = 0 THEN FirstOrders
        ELSE add_new_order_item(load[n - 1], [version |-> n, order |-> db_order[ty][n]])
  IN load[Len(db_order[ty])]

LoadableRows(ty) == DOMAIN db_rule[ty] = 0..Cardinality(DOMAIN db_rule[ty]) - 1

\* Mutated init_rule: the versions are counted from 0.
init_ruleFromZero ==
  LET mod(ty) == cs_log(Cardinality(DOMAIN db_rule[ty]))
      orders(ty) == Len(db_order[ty])
  IN
  /\ \A ty \in Types : LoadableRows(ty)
  /\ m_hash_table' = [ty \in Types |-> generate_all_rule(ty)]
  /\ m_order_table' = [ty \in {"MU", "SU"} |->
                         IF ty \in Types THEN generate_all_order(ty) ELSE FirstOrders]
  /\ m_current_version' = [ty \in Types |-> IF orders(ty) = 0 THEN 0 ELSE orders(ty) - 1]
  /\ m_current_mod' = [ty \in Types |-> mod(ty)]
  /\ m_current_bucket_number' = [ty \in Types |-> 2 ^ mod(ty)]

\* init_rule: a row that is missing keeps the server from starting.
init_rule ==
  LET mod(ty) == cs_log(Cardinality(DOMAIN db_rule[ty])) IN
  /\ \A ty \in Types : LoadableRows(ty)
  /\ m_hash_table' = [ty \in Types |-> generate_all_rule(ty)]
  /\ m_order_table' = [ty \in {"MU", "SU"} |->
                         IF ty \in Types THEN generate_all_order(ty) ELSE FirstOrders]
  /\ m_current_version' = [ty \in Types |-> Len(db_order[ty])]
  /\ m_current_mod' = [ty \in Types |-> mod(ty)]
  /\ m_current_bucket_number' = [ty \in Types |-> 2 ^ mod(ty)]

\* A system with one bucket per type, just started.
Init ==
  /\ db_rule = [ty \in Types |-> [b \in {0} |-> FirstNode]]
  /\ db_order = [ty \in Types |-> <<>>]
  /\ m_hash_table = [ty \in Types |-> generate_all_rule(ty)]
  /\ m_order_table = [ty \in {"MU", "SU"} |-> FirstOrders]
  /\ m_current_version = [ty \in Types |-> 0]
  /\ m_current_mod = [ty \in Types |-> 0]
  /\ m_current_bucket_number = [ty \in Types |-> 1]
  /\ task = {} /\ started = 0
  /\ dead = FALSE /\ crashes = 0
  /\ overlapped = {} /\ broken = {} /\ applied = {}

-----------------------------------------------------------------------------
(* RulerManager.                                                           *)

HashMismatch(ty, b) == Read(m_hash_table[ty], b).bucket_nr # b

OrderMismatch(ty, v) ==
  LET t == m_order_table[ty]
  IN v \notin DOMAIN t.items \/ t.items[v].version # v

\* get_hash_rule: a query of a bucket the server knows.
get_hash_rule(ty, b) ==
  /\ b < m_current_bucket_number[ty]
  /\ dead' = HashMismatch(ty, b)
  /\ UNCHANGED <<memory, database, task, started, crashes, history>>

\* get_order_rule: a query of a version the server knows.
get_order_rule(ty, v) ==
  /\ v \in 1..m_current_version[ty]
  /\ dead' = OrderMismatch(ty, v)
  /\ UNCHANGED <<memory, database, task, started, crashes, history>>

Overrun == (\E ty \in Types : m_hash_table'[ty].overrun)
           \/ (\E ty \in {"MU", "SU"} : m_order_table'[ty].overrun)

\* new_migration_order: nothing changes when the rule does not name the source;
\* the order goes to the MU table for either type.
new_migration_order(t) ==
  LET ty == t.type
      b == t.order.bucket
      rule == Read(m_hash_table[ty], b)
      version == m_current_version[ty] + 1
  IN
  IF rule.bucket_nr # b \/ rule.ip # t.order.src
  THEN dead' = (rule.bucket_nr # b) /\ UNCHANGED memory
  ELSE /\ m_hash_table' = [m_hash_table EXCEPT ![ty] =
                             Write(@, b, [bucket_nr |-> b, ip |-> t.order.dest])]
       /\ m_order_table' = [m_order_table EXCEPT !["MU"] =
                              add_new_order_item(@, [version |-> version,
                                                     order |-> t.order])]
       /\ m_current_version' = [m_current_version EXCEPT ![ty] = version]
       /\ UNCHANGED <<m_current_mod, m_current_bucket_number>>
       /\ dead' = Overrun

\* Mutated modify_rule_by_extent: the new rules are one bucket too far.
modify_rule_by_extentOff(ty) ==
  LET number == m_current_bucket_number[ty]
      add[n \in 0..number] ==
        IF n = 0 THEN m_hash_table[ty]
        ELSE LET rule == [bucket_nr |-> n + number,
                          ip |-> Read(add[n - 1], n - 1).ip]
             IN add_new_hash_item(add[n - 1], rule, ty)
  IN add[number]

\* modify_rule_by_extent: rule i is copied to i + number; for an MU it is also
\* pushed to the back of a vector that has no items.
modify_rule_by_extent(ty) ==
  LET number == m_current_bucket_number[ty]
      add[n \in 0..number] ==
        IF n = 0 THEN m_hash_table[ty]
        ELSE LET rule == [bucket_nr |-> n - 1 + number,
                          ip |-> Read(add[n - 1], n - 1).ip]
             IN add_new_hash_item(IF ty = "MU" THEN push_back(add[n - 1], rule)
                                               ELSE add[n - 1], rule, ty)
  IN add[number]

\* new_extent_order: twice as many buckets, under the next version.
new_extent_order(ty) ==
  LET version == m_current_version[ty] + 1
  IN
  /\ m_hash_table' = [m_hash_table EXCEPT ![ty] = modify_rule_by_extent(ty)]
  /\ m_order_table' = [m_order_table EXCEPT ![ty] =
                         add_new_order_item(@, [version |-> version,
                           order |-> [cmd |-> "EXTENT", new_mod |-> m_current_mod[ty] + 1]])]
  /\ m_current_version' = [m_current_version EXCEPT ![ty] = version]
  /\ m_current_mod' = [m_current_mod EXCEPT ![ty] = @ + 1]
  /\ m_current_bucket_number' = [m_current_bucket_number EXCEPT ![ty] = 2 * @]
  /\ dead' = Overrun

-----------------------------------------------------------------------------
(* Admission (TaskManager).                                                *)

Active(ty, cmd) == {t \in task : t.type = ty /\ t.order.cmd = cmd}

\* Mutated can_exec_migration: an extension is no obstacle.
can_exec_migrationAlways(ty) == TRUE

\* While an extension waits for first answers there is no migration.
can_exec_migration(ty) == Active(ty, "EXTENT") = {}

can_exec_extent(ty) == Active(ty, "EXTENT") = {}

Starts(ty, order) ==
  /\ started < MaxTasks
  /\ started' = started + 1
  /\ task' = task \cup {[type |-> ty, order |-> order, phase |-> "rule", copied |-> 0]}

\* A migration whose destination has copied the bucket: its source is the node
\* the rules name, and no other migration moves the bucket.
StartMigration(ty, b, dest) ==
  LET src == Read(m_hash_table[ty], b).ip IN
  /\ b < m_current_bucket_number[ty] /\ ~HashMismatch(ty, b)
  /\ dest # src
  /\ \A t \in Active(ty, "MIGRATION") : t.order.bucket # b
  /\ can_exec_migration(ty)
  /\ Starts(ty, [cmd |-> "MIGRATION", bucket |-> b, src |-> src, dest |-> dest])
  /\ UNCHANGED <<memory, database, dead, crashes, history>>

\* An extension may begin while migrations are under way.
StartExtension(ty) ==
  /\ can_exec_extent(ty)
  /\ Starts(ty, [cmd |-> "EXTENT", new_mod |-> m_current_mod[ty] + 1])
  /\ overlapped' = IF Active(ty, "MIGRATION") = {} THEN overlapped
                                                   ELSE overlapped \cup {ty}
  /\ UNCHANGED <<memory, database, dead, crashes, broken, applied>>

-----------------------------------------------------------------------------
(* The statements of the work items, on a pool thread.                     *)

Becomes(t, new) == task' = (task \ {t}) \cup {new} /\ UNCHANGED started
Enters(t, phase) == Becomes(t, [t EXCEPT !.phase = phase])
Ends(t) == task' = task \ {t} /\ UNCHANGED started

\* A statement fails, or there is no connection; what was executed stays.
StatementFails(t) ==
  /\ t.phase \in {"rule", "order"}
  /\ Enters(t, "failed")
  /\ broken' = broken \cup {t.type}
  /\ UNCHANGED <<memory, database, dead, crashes, overlapped, applied>>

\* MigrationWorkItem::update_rule_table fails if the row does not name the source.
UpdateRule(t) ==
  LET ty == t.type
      b == t.order.bucket
  IN
  /\ t.phase = "rule" /\ t.order.cmd = "MIGRATION"
  /\ IF b \in DOMAIN db_rule[ty] /\ db_rule[ty][b] = t.order.src
     THEN /\ db_rule' = [db_rule EXCEPT ![ty][b] = t.order.dest]
          /\ Enters(t, "order")
     ELSE Enters(t, "failed") /\ UNCHANGED db_rule
  /\ UNCHANGED <<memory, db_order, dead, crashes, history>>

\* Row to of type ty becomes a copy of row from.
Copies(ty, from, to) ==
  db_rule' = [db_rule EXCEPT ![ty] =
                [b \in DOMAIN @ \cup {to} |-> IF b = to THEN @[from] ELSE @[b]]]

\* Task t after it copied one of size rows.
Copied(t, size) ==
  Becomes(t, [t EXCEPT !.copied = @ + 1,
                       !.phase = IF t.copied + 1 = size THEN "order" ELSE "rule"])

\* Mutated CopyRow: the rows are copied from the last one on.
CopyRowBackwards(t) ==
  LET size == 2 ^ (t.order.new_mod - 1)
      from == size - 1 - t.copied
  IN
  /\ t.phase = "rule" /\ t.order.cmd = "EXTENT"
  /\ IF from + size \in DOMAIN db_rule[t.type]
     THEN Enters(t, "failed") /\ UNCHANGED db_rule
     ELSE Copies(t.type, from, from + size) /\ Copied(t, size)
  /\ UNCHANGED <<memory, db_order, dead, crashes, history>>

\* ExtentWorkItem::update_rule_table copies the next row; it fails if there is
\* one with that number already.
CopyRow(t) ==
  LET size == 2 ^ (t.order.new_mod - 1)
      from == t.copied
  IN
  /\ t.phase = "rule" /\ t.order.cmd = "EXTENT"
  /\ IF from + size \in DOMAIN db_rule[t.type]
     THEN Enters(t, "failed") /\ UNCHANGED db_rule
     ELSE Copies(t.type, from, from + size) /\ Copied(t, size)
  /\ UNCHANGED <<memory, db_order, dead, crashes, history>>

\* append_order_table of either item.
InsertOrder(t) ==
  /\ t.phase = "order"
  /\ db_order' = [db_order EXCEPT ![t.type] = Append(@, t.order)]
  /\ Enters(t, "memory")
  /\ UNCHANGED <<memory, db_rule, dead, crashes, history>>

-----------------------------------------------------------------------------
(* The callbacks on the main thread.                                       *)

\* MigrationTask::after_update_db.
after_update_db(t) ==
  /\ t.phase = "memory" /\ t.order.cmd = "MIGRATION"
  /\ new_migration_order(t)
  /\ Ends(t)
  /\ applied' = applied \cup {<<t.type, "MIGRATION">>}
  /\ UNCHANGED <<database, crashes, overlapped, broken>>

\* ExtentTask::done_modify_rule; then the nodes are asked.
done_modify_rule(t) ==
  /\ t.phase = "memory" /\ t.order.cmd = "EXTENT"
  /\ new_extent_order(t.type)
  /\ Enters(t, "nodes")
  /\ applied' = applied \cup {<<t.type, "EXTENT">>}
  /\ UNCHANGED <<database, crashes, overlapped, broken>>

\* Every node answered, or the work item had failed.
Over(t) ==
  /\ t.phase \in {"nodes", "failed"}
  /\ Ends(t)
  /\ UNCHANGED <<memory, database, dead, crashes, history>>

\* The process ends, by a crash or by the dead line, and is started again: what
\* was in memory is gone, the tasks with it.
Restart ==
  /\ crashes < MaxCrashes
  /\ crashes' = crashes + 1
  /\ init_rule
  /\ dead' = Overrun
  /\ task' = {}
  /\ overlapped' = {} /\ broken' = {} /\ applied' = {}
  /\ UNCHANGED <<database, started>>

-----------------------------------------------------------------------------
Worker(t) == StatementFails(t) \/ UpdateRule(t) \/ CopyRow(t) \/ InsertOrder(t)
Callback(t) == after_update_db(t) \/ done_modify_rule(t) \/ Over(t)

Next ==
  \/ Restart
  \/ /\ ~dead
     /\ \/ \E ty \in Types : StartExtension(ty)
        \/ \E ty \in Types : \E b \in 0..m_current_bucket_number[ty] - 1 :
             get_hash_rule(ty, b) \/ \E dest \in Nodes : StartMigration(ty, b, dest)
        \/ \E ty \in Types : \E v \in 1..m_current_version[ty] : get_order_rule(ty, v)
        \/ \E t \in task : Worker(t) \/ Callback(t)

Spec == Init /\ [][Next]_vars

-----------------------------------------------------------------------------
(* Properties.                                                             *)

\* Whenever the process ends, it can be started again: the rows of either type
\* are numbered from 0 on without a gap.
Restartable == \A ty \in Types : LoadableRows(ty)

Rows(ty) == Cardinality(DOMAIN db_rule[ty])
Fits(ty) == Rows(ty) <= INIT_VEC_SIZE

\* The versions of every type that writes to the order table of ty.
OrdersFit(ty) ==
  \A other \in Types : other = ty \/ ty = "MU" => m_current_version[other] < INIT_VEC_SIZE

\* No query of a rule ends the server, as long as the rows are no more than the
\* vector was made for and, for the MUs, there was no extension since the start;
\* nor does a query of an order, as long as the orders fit too (for the MUs, also
\* those of the SUs, whose migrations go to the MU table) and, for the SUs, there
\* was no migration since the start.
\* The number of buckets, which clients work out from the modulus, is its power of two.
RulesReadable ==
  \A ty \in Types :
    /\ m_current_bucket_number[ty] = 2 ^ m_current_mod[ty]
    /\ Fits(ty) /\ ~(ty = "MU" /\ <<ty, "EXTENT">> \in applied) =>
         \A b \in 0..m_current_bucket_number[ty] - 1 : ~HashMismatch(ty, b)
    /\ OrdersFit(ty) /\ ~(ty = "SU" /\ <<ty, "MIGRATION">> \in applied) =>
         \A v \in 1..m_current_version[ty] : ~OrderMismatch(ty, v)

ExtendedMUs == {ty \in Types : ty = "MU" /\ <<ty, "EXTENT">> \in applied}

\* Nothing but tasks under way may set memory and database of these types apart: no
\* statement failed, no extension copied rows during a migration or overwrote rules
\* of MUs, and the rows fit into the vector.
Sound == {ty \in Types : Fits(ty)} \ (overlapped \cup broken \cup ExtendedMUs)

Moving(ty, b) == \E t \in Active(ty, "MIGRATION") : t.order.bucket = b

\* Memory and database agree on every bucket no migration is about to change.
MemoryMatchesDatabase ==
  \A ty \in Sound : \A b \in 0..m_current_bucket_number[ty] - 1 :
    ~HashMismatch(ty, b) /\ ~Moving(ty, b)
      => b \in DOMAIN db_rule[ty] /\ db_rule[ty][b] = Read(m_hash_table[ty], b).ip

\* A restart forgets nothing the server acted on: every bucket it knew is known
\* again, with the node it had unless a migration of it was under way, and every
\* version too.  The number of rows has to be a power of two, which it is not
\* when an extension was cut short between two rows.
RestartKeepsRules ==
  [][crashes' # crashes =>
     \A ty \in Sound :
       2 ^ cs_log(Rows(ty)) = Rows(ty) =>
         /\ m_current_bucket_number'[ty] >= m_current_bucket_number[ty]
         /\ m_current_version'[ty] >= m_current_version[ty]
         /\ \A b \in 0..m_current_bucket_number[ty] - 1 :
              ~HashMismatch(ty, b) /\ ~Moving(ty, b)
                => Read(m_hash_table'[ty], b) = Read(m_hash_table[ty], b)]_vars

=============================================================================
