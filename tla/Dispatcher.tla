----------------------------- MODULE Dispatcher -----------------------------
(***************************************************************************)
(* The hand-over of work items between the main (epoll) thread and the     *)
(* database threads of the monitor server.                                 *)
(*                                                                         *)
(* Dispatcher.cpp is the main thread's side: send_request queues an item   *)
(* and arms the write event, sendData moves queued items into a            *)
(* non-blocking pipe, recvData drains the pipe that comes back and calls   *)
(* every item's callback.  ThreadPool.cpp is the threads' side: each       *)
(* thread blocks on the first pipe, processes an item and writes it to the *)
(* second.  Both pipes carry pointers, so an item that sits in two places  *)
(* is memory two threads touch at once.                                    *)
(*                                                                         *)
(* main.pc is where the main thread stands: in the loop over the events of *)
(* one epoll_wait, inside recvData, inside its callbacks or inside         *)
(* sendData.  The threads run in between all of these steps.               *)
(***************************************************************************)
EXTENDS Naturals, Sequences, SequencesExt

CONSTANTS Items,          \* the work items the tasks own
          Threads,        \* the threads of the pool
          NoItem,         \* NULL
          MainPipeSize,   \* pointers the pipe to the threads can hold
          ThreadPipeSize, \* pointers the pipe from the threads can hold
          MaxSends        \* bound: how often one item is handed over

ASSUME DispatcherAssumption ==
  /\ NoItem \notin Items
  /\ Threads # {}
  /\ MainPipeSize \in Nat \ {0}
  /\ ThreadPipeSize \in Nat \ {0}
  /\ MaxSends \in Nat

VARIABLES
  pc,              \* "events", "recv", "callback" or "send"
  ready,           \* events of the current epoll_wait not handled yet
  m_request_list,  \* items queued by send_request
  m_open_write,    \* the dispatcher's own idea of the write event
  writeEvent,      \* EpollEvent of the write end: write flag and wlock count
  main_pipe,       \* main thread -> threads
  thread_pipe,     \* threads -> main thread
  m_recv_list,     \* items read back, callbacks still to be called
  item,            \* item[t]: the item thread t holds
  processed,       \* processed[t]: process() has run on it
  deleted,         \* items destroyed by their task
  sent, answered   \* history: hand-overs and callbacks of each item

mainVars == <<pc, ready, m_request_list, m_open_write, writeEvent, m_recv_list>>
threadVars == <<item, processed>>
history == <<deleted, sent, answered>>
vars == <<mainVars, main_pipe, thread_pipe, threadVars, history>>

-----------------------------------------------------------------------------
(* The write event: EpollEvent counts how often it was closed.             *)

closeWevent(e) ==
  IF e.wlock > 0 THEN [write |-> e.write, wlock |-> e.wlock + 1]
                 ELSE [write |-> FALSE, wlock |-> 1]

openWevent(e) ==
  IF e.write THEN e
  ELSE IF e.wlock > 1 THEN [write |-> FALSE, wlock |-> e.wlock - 1]
                      ELSE [write |-> TRUE, wlock |-> 0]

-----------------------------------------------------------------------------
\* Dispatcher::init registers the write event and closes it at once.
Init ==
  /\ pc = "events"
  /\ ready = {}
  /\ m_request_list = <<>>
  /\ m_open_write = FALSE
  /\ writeEvent = closeWevent([write |-> TRUE, wlock |-> 0])
  /\ main_pipe = <<>>
  /\ thread_pipe = <<>>
  /\ m_recv_list = <<>>
  /\ item = [t \in Threads |-> NoItem]
  /\ processed = [t \in Threads |-> FALSE]
  /\ deleted = {}
  /\ sent = [i \in Items |-> 0]
  /\ answered = [i \in Items |-> 0]

\* Mutated send_request: the new item goes to the front of the list.
send_requestAtFront(i) ==
  /\ sent[i] < MaxSends
  /\ sent' = [sent EXCEPT ![i] = @ + 1]
  /\ m_request_list' = <<i>> \o m_request_list
  /\ m_open_write' = TRUE
  /\ writeEvent' = IF m_open_write THEN writeEvent ELSE openWevent(writeEvent)

\* The body of send_request, shared by its two kinds of callers.
send_request(i) ==
  /\ sent[i] < MaxSends
  /\ sent' = [sent EXCEPT ![i] = @ + 1]
  /\ m_request_list' = Append(m_request_list, i)
  /\ m_open_write' = TRUE
  /\ writeEvent' = IF m_open_write THEN writeEvent ELSE openWevent(writeEvent)

\* Where an item can be while its task waits for it.
Held == {item[t] : t \in Threads} \ {NoItem}
InFlight == ToSet(m_request_list) \cup ToSet(main_pipe) \cup Held
              \cup ToSet(thread_pipe) \cup ToSet(m_recv_list)

\* A handler of another socket hands over an item: a task starts, or goes on
\* after an answer of a storage node.  The tasks keep an item to themselves
\* while it is in flight.
OtherEvent(i) ==
  /\ pc = "events"
  /\ i \notin InFlight \cup deleted
  /\ send_request(i)
  /\ UNCHANGED <<pc, ready, m_recv_list, main_pipe, thread_pipe, threadVars,
                 deleted, answered>>

\* epoll_wait returns the events that hold at that moment (level triggered).
EpollWait ==
  /\ pc = "events" /\ ready = {}
  /\ ready' = (IF thread_pipe # <<>> THEN {"R"} ELSE {}) \cup
              (IF writeEvent.write /\ Len(main_pipe) < MainPipeSize
                 THEN {"W"} ELSE {})
  /\ UNCHANGED <<pc, m_request_list, m_open_write, writeEvent, m_recv_list,
                 main_pipe, thread_pipe, threadVars, history>>

Handle(event, to) ==
  /\ pc = "events"
  /\ event \in ready
  /\ ready' = ready \ {event}
  /\ pc' = to
  /\ UNCHANGED <<m_request_list, m_open_write, writeEvent, m_recv_list,
                 main_pipe, thread_pipe, threadVars, history>>

StartRecv == Handle("R", "recv")
StartSend == Handle("W", "send")

-----------------------------------------------------------------------------
(* recvData: read until EAGAIN, then deal_with_all_recv_request.           *)

RecvOne ==
  /\ pc = "recv"
  /\ thread_pipe # <<>>
  /\ m_recv_list' = Append(m_recv_list, Head(thread_pipe))
  /\ thread_pipe' = Tail(thread_pipe)
  /\ UNCHANGED <<pc, ready, m_request_list, m_open_write, writeEvent,
                 main_pipe, threadVars, history>>

RecvAgain ==
  /\ pc = "recv"
  /\ thread_pipe = <<>>
  /\ pc' = "callback"
  /\ UNCHANGED <<ready, m_request_list, m_open_write, writeEvent, m_recv_list,
                 main_pipe, thread_pipe, threadVars, history>>

\* Mutated Callback: the received list is cleared after its first callback.
CallbackClears ==
  LET i == Head(m_recv_list) IN
  /\ pc = "callback"
  /\ m_recv_list # <<>>
  /\ m_recv_list' = <<>>
  /\ answered' = [answered EXCEPT ![i] = @ + 1]
  /\ UNCHANGED <<pc, ready, m_request_list, m_open_write, writeEvent,
                 main_pipe, thread_pipe, threadVars, deleted, sent>>

\* One do_callback: the task keeps the item for later, deletes it, or hands it
\* over again from inside the callback.  m_recv_list is the part of the list
\* the iterator has not passed yet.
Callback ==
  LET i == Head(m_recv_list) IN
  /\ pc = "callback"
  /\ m_recv_list # <<>>
  /\ m_recv_list' = Tail(m_recv_list)
  /\ answered' = [answered EXCEPT ![i] = @ + 1]
  /\ \/ UNCHANGED <<m_request_list, m_open_write, writeEvent, deleted, sent>>
     \/ /\ deleted' = deleted \cup {i}
        /\ UNCHANGED <<m_request_list, m_open_write, writeEvent, sent>>
     \/ /\ send_request(i)
        /\ UNCHANGED deleted
  /\ UNCHANGED <<pc, ready, main_pipe, thread_pipe, threadVars>>

CallbacksDone ==
  /\ pc = "callback"
  /\ m_recv_list = <<>>
  /\ pc' = "events"
  /\ UNCHANGED <<ready, m_request_list, m_open_write, writeEvent, m_recv_list,
                 main_pipe, thread_pipe, threadVars, history>>

-----------------------------------------------------------------------------
(* sendData: write until the list is empty or the pipe is full.            *)

\* Mutated SendOne: a written item stays on the list.
SendOneKeeps ==
  /\ pc = "send"
  /\ m_request_list # <<>>
  /\ Len(main_pipe) < MainPipeSize
  /\ main_pipe' = Append(main_pipe, Head(m_request_list))
  /\ UNCHANGED <<pc, ready, m_request_list, m_open_write, writeEvent,
                 m_recv_list, thread_pipe, threadVars, history>>

SendOne ==
  /\ pc = "send"
  /\ m_request_list # <<>>
  /\ Len(main_pipe) < MainPipeSize
  /\ main_pipe' = Append(main_pipe, Head(m_request_list))
  /\ m_request_list' = Tail(m_request_list)
  /\ UNCHANGED <<pc, ready, m_open_write, writeEvent, m_recv_list,
                 thread_pipe, threadVars, history>>

\* Mutated SendAgain: sendData closes the write event whenever it returns.
SendAgainCloses ==
  /\ pc = "send"
  /\ m_request_list # <<>>
  /\ Len(main_pipe) = MainPipeSize
  /\ writeEvent' = closeWevent(writeEvent)
  /\ m_open_write' = FALSE
  /\ pc' = "events"
  /\ UNCHANGED <<ready, m_request_list, m_recv_list, main_pipe, thread_pipe,
                 threadVars, history>>

\* EAGAIN: the write event stays open.
SendAgain ==
  /\ pc = "send"
  /\ m_request_list # <<>>
  /\ Len(main_pipe) = MainPipeSize
  /\ pc' = "events"
  /\ UNCHANGED <<ready, m_request_list, m_open_write, writeEvent, m_recv_list,
                 main_pipe, thread_pipe, threadVars, history>>

\* Mutated SendDone: the dispatcher's flag is not reset.
SendDoneKeepsFlag ==
  /\ pc = "send"
  /\ m_request_list = <<>>
  /\ writeEvent' = closeWevent(writeEvent)
  /\ pc' = "events"
  /\ UNCHANGED <<ready, m_request_list, m_open_write, m_recv_list, main_pipe,
                 thread_pipe, threadVars, history>>

\* The list is empty: the write event is closed.
SendDone ==
  /\ pc = "send"
  /\ m_request_list = <<>>
  /\ writeEvent' = closeWevent(writeEvent)
  /\ m_open_write' = FALSE
  /\ pc' = "events"
  /\ UNCHANGED <<ready, m_request_list, m_recv_list, main_pipe, thread_pipe,
                 threadVars, history>>

-----------------------------------------------------------------------------
(* ThreadHandler::run: readn, process, process_after.                      *)

Take(t) ==
  /\ item[t] = NoItem
  /\ main_pipe # <<>>
  /\ item' = [item EXCEPT ![t] = Head(main_pipe)]
  /\ main_pipe' = Tail(main_pipe)
  /\ UNCHANGED <<mainVars, thread_pipe, processed, history>>

Process(t) ==
  /\ item[t] # NoItem
  /\ ~processed[t]
  /\ processed' = [processed EXCEPT ![t] = TRUE]
  /\ UNCHANGED <<mainVars, main_pipe, thread_pipe, item, history>>

\* Mutated Post: the thread forgets its item before it writes the pointer.
PostForgets(t) ==
  /\ processed[t]
  /\ Len(thread_pipe) < ThreadPipeSize
  /\ item' = [item EXCEPT ![t] = NoItem]
  /\ thread_pipe' = Append(thread_pipe, item'[t])
  /\ processed' = [processed EXCEPT ![t] = FALSE]
  /\ UNCHANGED <<mainVars, main_pipe, history>>

\* post_request blocks while the pipe is full.
Post(t) ==
  /\ processed[t]
  /\ Len(thread_pipe) < ThreadPipeSize
  /\ thread_pipe' = Append(thread_pipe, item[t])
  /\ item' = [item EXCEPT ![t] = NoItem]
  /\ processed' = [processed EXCEPT ![t] = FALSE]
  /\ UNCHANGED <<mainVars, main_pipe, history>>

-----------------------------------------------------------------------------
Main == \/ EpollWait \/ StartRecv \/ StartSend
        \/ RecvOne \/ RecvAgain \/ Callback \/ CallbacksDone
        \/ SendOne \/ SendAgain \/ SendDone

Thread(t) == Take(t) \/ Process(t) \/ Post(t)

Next == \/ Main
        \/ \E i \in Items : OtherEvent(i)
        \/ \E t \in Threads : Thread(t)

\* The epoll loop never blocks for good (it polls with a timeout and its file
\* descriptors are non-blocking) and every thread is scheduled; process() is
\* a bounded series of database calls.
Fairness == WF_vars(Main) /\ \A t \in Threads : WF_vars(Thread(t))

Spec == Init /\ [][Next]_vars /\ Fairness

-----------------------------------------------------------------------------
(* Properties.                                                             *)

\* Type correctness of the dispatcher, the pipes and the threads.
TypeOK ==
  /\ pc \in {"events", "recv", "callback", "send"}
  /\ ready \subseteq {"R", "W"}
  /\ m_request_list \in Seq(Items)
  /\ m_open_write \in BOOLEAN
  /\ writeEvent \in [write : BOOLEAN, wlock : Nat]
  /\ main_pipe \in Seq(Items)
  /\ thread_pipe \in Seq(Items)
  /\ m_recv_list \in Seq(Items)
  /\ item \in [Threads -> Items \cup {NoItem}]
  /\ processed \in [Threads -> BOOLEAN]
  /\ deleted \subseteq Items
  /\ sent \in [Items -> Nat]
  /\ answered \in [Items -> Nat]

\* An item is in one place at a time: never twice in a list or pipe, never in
\* two of them, never in the hands of two threads, and never in any of them
\* once its task has deleted it (Dispatcher.cpp and ThreadPool.cpp pass bare
\* pointers, so a second place is a data race or a use after free).
NoSharing ==
  /\ \A s \in {m_request_list, main_pipe, thread_pipe, m_recv_list} :
       IsInjective(s)
  /\ \A t, u \in Threads : item[t] = item[u] /\ item[t] # NoItem => t = u
  /\ ToSet(m_request_list) \cap (ToSet(main_pipe) \cup Held
        \cup ToSet(thread_pipe) \cup ToSet(m_recv_list) \cup deleted) = {}
  /\ ToSet(main_pipe) \cap (Held \cup ToSet(thread_pipe)
        \cup ToSet(m_recv_list) \cup deleted) = {}
  /\ Held \cap (ToSet(thread_pipe) \cup ToSet(m_recv_list) \cup deleted) = {}
  /\ ToSet(thread_pipe) \cap (ToSet(m_recv_list) \cup deleted) = {}
  /\ ToSet(m_recv_list) \cap deleted = {}

\* Every hand-over is answered by one callback: an item in flight owes its task
\* exactly one callback, an item at rest none.
OneAnswerEach ==
  \A i \in Items : sent[i] = answered[i] + (IF i \in InFlight THEN 1 ELSE 0)

\* No lost wake-up: the dispatcher's flag, the event's flag and the nesting
\* count of EpollEvent agree, a queued item keeps the write event armed, and
\* sendData runs only while it is.
WriteArmed ==
  /\ writeEvent.write = m_open_write
  /\ writeEvent.wlock = (IF m_open_write THEN 0 ELSE 1)
  /\ m_request_list # <<>> => m_open_write
  /\ pc = "send" \/ "W" \in ready => m_open_write

\* Every item handed over comes back to its task: neither full pipe can stop
\* the hand-over for good, in spite of threads that block on post_request
\* while the main thread is busy filling their pipe.
EveryItemAnswered ==
  \A i \in Items : sent[i] > answered[i] ~> sent[i] = answered[i]

\* The pipes and the threads implement the first-in first-out pool of
\* WorkQueue: the pipe continues the request list, the received list
\* continues the pipe back.
Pool == INSTANCE WorkQueue WITH
          queue <- main_pipe \o m_request_list,
          running <- Held,
          finished <- m_recv_list \o thread_pipe

PoolSpec == Pool!Spec

=============================================================================
