------------------------------ MODULE WorkQueue ------------------------------
(***************************************************************************)
(* What the pool of the monitor server promises to the tasks that use it:  *)
(* the requests handed to send_request are started in the order they were  *)
(* handed over, each runs once per hand-over, and the result comes back to *)
(* the main thread once per hand-over, in the order the runs ended.        *)
(* It abstracts from the pipes, the threads and the write event of         *)
(* Dispatcher.cpp and ThreadPool.cpp.                                      *)
(***************************************************************************)
EXTENDS Naturals, Sequences, SequencesExt

CONSTANTS Items,     \* the work items the tasks own
          MaxSends   \* bound: how often one item is handed over

VARIABLES queue,     \* items handed over and not started, oldest first
          running,   \* items a thread is working on
          finished,  \* items whose run ended, oldest first
          deleted,   \* items destroyed by their task
          sent       \* hand-overs of each item so far

vars == <<queue, running, finished, deleted, sent>>

InFlight == ToSet(queue) \cup running \cup ToSet(finished)

Init == /\ queue = <<>>
        /\ running = {}
        /\ finished = <<>>
        /\ deleted = {}
        /\ sent = [i \in Items |-> 0]

\* A task hands item i over; only an item nobody works on can be handed over.
Submit(i) == /\ i \notin InFlight \cup deleted
             /\ sent[i] < MaxSends
             /\ queue' = Append(queue, i)
             /\ sent' = [sent EXCEPT ![i] = @ + 1]
             /\ UNCHANGED <<running, finished, deleted>>

\* The oldest item is started.
Start == /\ queue # <<>>
         /\ running' = running \cup {Head(queue)}
         /\ queue' = Tail(queue)
         /\ UNCHANGED <<finished, deleted, sent>>

\* The run of item i ends.
Finish(i) == /\ i \in running
             /\ running' = running \ {i}
             /\ finished' = Append(finished, i)
             /\ UNCHANGED <<queue, deleted, sent>>

\* The oldest result is given to its task, which keeps the item, destroys it
\* or hands it over again at once.
Answer == LET i == Head(finished) IN
          /\ finished # <<>>
          /\ finished' = Tail(finished)
          /\ \/ UNCHANGED <<queue, deleted, sent>>
             \/ /\ deleted' = deleted \cup {i}
                /\ UNCHANGED <<queue, sent>>
             \/ /\ sent[i] < MaxSends
                /\ queue' = Append(queue, i)
                /\ sent' = [sent EXCEPT ![i] = @ + 1]
                /\ UNCHANGED deleted
          /\ UNCHANGED running

Next == \/ \E i \in Items : Submit(i) \/ Finish(i)
        \/ Start
        \/ Answer

Spec == Init /\ [][Next]_vars
==============================================================================
