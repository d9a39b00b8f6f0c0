----------------------------- MODULE Connections ----------------------------
(***************************************************************************)
(* The short connections over which tasks ask storage nodes: an SCAgent    *)
(* connects, sends its one request, hands the answer or the failure to the *)
(* callback of the task, and is recycled.  The epoll loop handles the      *)
(* events of one epoll_wait in turn and recycles afterwards (doTask).      *)
(*                                                                         *)
(* A storage node and the kernel are external: a socket that connects is   *)
(* accepted or refused, the request is answered, or the connection ends.   *)
(* A request is short: it is written, and its answer read, in one call.    *)
(* Opening a socket may fail; epoll_ctl does not.  EISCONN is not modelled:*)
(* no connected socket reports EPOLLERR or EPOLLHUP, so that connect does  *)
(* not return it to getErrno.                                              *)
(***************************************************************************)
EXTENDS Integers, Sequences, FiniteSets

CONSTANTS Agents,            \* the SCAgents, one for each request
          Extension,         \* those of ExtentTasks; the others are MigrationTasks'
          MAXRECONNECTTIMES

ASSUME ConnectionsAssumption ==
  /\ Extension \subseteq Agents
  /\ MAXRECONNECTTIMES \in Nat

VARIABLES
  life,                   \* of the agents: none, live, freed
  m_iConnect, m_iConnectTimes,
  write,                  \* whether EPOLLOUT is asked for (EpollEvent)
  pending,                \* whether the request is in the buffer list
  m_is_call_cb, reported, \* whether and what the callback was told
  sock,                   \* socket: none, connecting, refused, open, closed, reset
  served, answer,         \* the node has the request; its answer is there to read
  m_recycler_agent_list,  \* AgentRegister
  batch,                  \* the events still to handle, with their flags
  polled,                 \* whether doTask is due
  undefined,              \* memory was used after it was freed
  reset                   \* history: agents whose connection was reset

agents == <<life, m_iConnect, m_iConnectTimes, write, pending, m_is_call_cb, reported>>
kernel == <<sock, served, answer>>
loop == <<m_recycler_agent_list, batch, polled>>
vars == <<agents, kernel, loop, undefined, reset>>

Init ==
  /\ life = [a \in Agents |-> "none"]
  /\ m_iConnect = [a \in Agents |-> "CONNECTING"]
  /\ m_iConnectTimes = [a \in Agents |-> -1]
  /\ write = [a \in Agents |-> FALSE] /\ pending = [a \in Agents |-> FALSE]
  /\ m_is_call_cb = [a \in Agents |-> FALSE] /\ reported = [a \in Agents |-> <<>>]
  /\ sock = [a \in Agents |-> "none"]
  /\ served = [a \in Agents |-> FALSE] /\ answer = [a \in Agents |-> FALSE]
  /\ m_recycler_agent_list = <<>> /\ batch = {} /\ polled = FALSE
  /\ undefined = FALSE /\ reset = {}

-----------------------------------------------------------------------------
(* Callbacks and recycling.                                                *)

\* Mutated disposes: whatever happened.
disposesAlways(a, type) == TRUE

\* What the callback does with its agent: a MigrationTask leaves it when the peer
\* closed, for the loop recycles it; an ExtentTask, which tries again, does not.
disposes(a, type) == type # "UNKOWN_ERROR" \/ a \in Extension

\* do_call_back with the type in told, if there is one: <<>> stands for no callback.
do_call_back(a, told) ==
  /\ reported' = [reported EXCEPT ![a] = @ \o told]
  /\ m_is_call_cb' = [m_is_call_cb EXCEPT ![a] = @ \/ told # <<>>]
  /\ m_recycler_agent_list' = IF told # <<>> /\ disposes(a, told[1])
                              THEN Append(m_recycler_agent_list, a)
                              ELSE m_recycler_agent_list

\* Mutated recycler: the task is told nothing.
recyclerSilent(a, told) == <<>>

\* Mutated recycler: whether the task was called back is not asked.
recyclerAgain(a, told) == <<"UNKOWN_ERROR">>

\* recycler: a task that heard nothing yet, nor was told something just now, is
\* told that the peer closed.
recycler(a, told) == IF m_is_call_cb[a] \/ told # <<>> THEN <<>> ELSE <<"UNKOWN_ERROR">>

\* The destructors: nothing of the agent is left, the socket is closed.
Free(a) ==
  /\ life' = [life EXCEPT ![a] = "freed"]
  /\ write' = [write EXCEPT ![a] = FALSE]
  /\ pending' = [pending EXCEPT ![a] = FALSE]
  /\ sock' = [sock EXCEPT ![a] = "none"]
  /\ answer' = [answer EXCEPT ![a] = FALSE]

\* recyclerAgent of the epoll loop, after a failure of which the task was told.
recyclerAgent(a, told) ==
  /\ do_call_back(a, told \o recycler(a, told)) /\ Free(a)
  /\ UNCHANGED <<m_iConnect, served>>

\* doTask recycles the queued agents; a pointer to a freed one is used.
doTask ==
  /\ polled /\ batch = {}
  /\ polled' = FALSE
  /\ LET queued == {m_recycler_agent_list[i] : i \in DOMAIN m_recycler_agent_list} IN
     /\ undefined' = (\/ \E a \in queued : life[a] = "freed"
                      \/ Cardinality(queued) < Len(m_recycler_agent_list))
     /\ life' = [a \in Agents |-> IF a \in queued THEN "freed" ELSE life[a]]
     /\ write' = [a \in Agents |-> write[a] /\ a \notin queued]
     /\ pending' = [a \in Agents |-> pending[a] /\ a \notin queued]
     /\ sock' = [a \in Agents |-> IF a \in queued THEN "none" ELSE sock[a]]
     /\ answer' = [a \in Agents |-> answer[a] /\ a \notin queued]
     /\ reported' = [a \in Agents |-> IF a \in queued THEN reported[a] \o recycler(a, <<>>)
                                      ELSE reported[a]]
  /\ m_recycler_agent_list' = <<>>
  /\ UNCHANGED <<m_iConnect, m_iConnectTimes, m_is_call_cb, served, batch, reset>>

-----------------------------------------------------------------------------
(* Opening the connection.                                                 *)

\* TCPAgent::connect with a socket, or without one.
connect(a, opened) ==
  /\ m_iConnectTimes' = [m_iConnectTimes EXCEPT ![a] = @ + 1]
  /\ sock' = [sock EXCEPT ![a] = IF opened THEN "connecting" ELSE "none"]
  /\ write' = [write EXCEPT ![a] = opened]

\* A task creates its agent (create_new_agent) and init connects.
create_new_agent(a) ==
  /\ life[a] = "none"
  /\ life' = [life EXCEPT ![a] = "live"]
  /\ connect(a, TRUE)
  /\ UNCHANGED <<m_iConnect, pending, m_is_call_cb, reported, served, answer, loop, undefined,
                 reset>>

\* The same, but there is no socket: the callback is told, and when init returns
\* an ExtentTask queues the agent once more; a MigrationTask forgot its index.
InitFails(a) ==
  /\ life[a] = "none"
  /\ life' = [life EXCEPT ![a] = "live"]
  /\ connect(a, FALSE)
  /\ reported' = [reported EXCEPT ![a] = Append(@, "CONNECT_ERROR")]
  /\ m_is_call_cb' = [m_is_call_cb EXCEPT ![a] = TRUE]
  /\ LET once == Append(m_recycler_agent_list, a)
     IN m_recycler_agent_list' = IF a \in Extension THEN Append(once, a) ELSE once
  /\ UNCHANGED <<m_iConnect, pending, served, answer, batch, polled, undefined, reset>>

-----------------------------------------------------------------------------
(* The kernel and the storage nodes.                                       *)

Becomes(a, from, to) ==
  /\ sock[a] \in from
  /\ sock' = [sock EXCEPT ![a] = to]
  /\ UNCHANGED <<agents, served, loop, undefined>>

Establish(a) == Becomes(a, {"connecting"}, "open") /\ UNCHANGED <<answer, reset>>

Refuse(a) == Becomes(a, {"connecting"}, "refused") /\ UNCHANGED <<answer, reset>>

\* The node answers the request it has, once.
Answer(a) ==
  /\ served[a] /\ ~answer[a] /\ reported[a] = <<>>
  /\ answer' = [answer EXCEPT ![a] = TRUE]
  /\ Becomes(a, {"open"}, "open") /\ UNCHANGED reset

\* The node closes the connection, or it breaks.
PeerCloses(a) == Becomes(a, {"open"}, "closed") /\ UNCHANGED <<answer, reset>>

Reset(a) ==
  /\ Becomes(a, {"open", "closed"}, "reset")
  /\ reset' = reset \cup {a}
  /\ UNCHANGED answer

-----------------------------------------------------------------------------
(* The epoll loop.                                                         *)

\* The events a socket is ready for.
Ready(a) ==
  {f \in {"ERR", "OUT", "IN"} :
     CASE f = "ERR" -> sock[a] \in {"refused", "reset"}
       [] f = "OUT" -> write[a] /\ sock[a] \notin {"none", "connecting"}
       [] f = "IN"  -> sock[a] \in {"refused", "reset", "closed"} \/ answer[a]}

epoll_wait ==
  /\ batch = {} /\ ~polled
  /\ batch' = {[agent |-> a, flags |-> Ready(a)] : a \in {b \in Agents : Ready(b) # {}}}
  /\ polled' = TRUE
  /\ UNCHANGED <<agents, kernel, m_recycler_agent_list, undefined, reset>>

\* One event of the batch is taken.
Takes(e, a) == batch' = batch \ {e} /\ UNCHANGED <<polled, undefined, reset>>

Connecting(a) == m_iConnect[a] = "CONNECTING"

\* Mutated Reconnect: once more than allowed.
ReconnectOnceMore(e, a) ==
  /\ Takes(e, a)
  /\ "ERR" \in e.flags /\ Connecting(a) /\ m_iConnectTimes[a] <= MAXRECONNECTTIMES
  /\ connect(a, TRUE)
  /\ UNCHANGED <<life, m_iConnect, pending, m_is_call_cb, reported, served, answer,
                 m_recycler_agent_list>>

\* A connect that failed is repeated.
Reconnect(e, a) ==
  /\ Takes(e, a)
  /\ "ERR" \in e.flags /\ Connecting(a) /\ m_iConnectTimes[a] < MAXRECONNECTTIMES
  /\ connect(a, TRUE)
  /\ UNCHANGED <<life, m_iConnect, pending, m_is_call_cb, reported, served, answer,
                 m_recycler_agent_list>>

\* When there is no socket to repeat it with, the loop takes no notice.
ReconnectFails(e, a) ==
  /\ Takes(e, a)
  /\ "ERR" \in e.flags /\ Connecting(a) /\ m_iConnectTimes[a] < MAXRECONNECTTIMES
  /\ connect(a, FALSE)
  /\ UNCHANGED <<life, m_iConnect, pending, m_is_call_cb, reported, served, answer,
                 m_recycler_agent_list>>

\* connectAfter(false) tells the task, and the loop frees what the task queued.
connectAfterFailed(e, a) ==
  /\ Takes(e, a)
  /\ "ERR" \in e.flags /\ Connecting(a) /\ m_iConnectTimes[a] >= MAXRECONNECTTIMES
  /\ m_iConnectTimes' = [m_iConnectTimes EXCEPT ![a] = 0]
  /\ recyclerAgent(a, <<"CONNECT_ERROR">>)

\* Mutated connectAfter: setState has closed the write event, and it stays closed.
connectAfterUnarmed(e, a) ==
  /\ Takes(e, a)
  /\ "ERR" \notin e.flags /\ "OUT" \in e.flags /\ Connecting(a)
  /\ m_iConnect' = [m_iConnect EXCEPT ![a] = "CONNECTED"]
  /\ pending' = [pending EXCEPT ![a] = TRUE]
  /\ write' = [write EXCEPT ![a] = FALSE]
  /\ UNCHANGED <<life, m_iConnectTimes, m_is_call_cb, reported, kernel, m_recycler_agent_list>>

\* The connection is there: setState, and connectAfter buffers the request.
connectAfter(e, a) ==
  /\ Takes(e, a)
  /\ "ERR" \notin e.flags /\ "OUT" \in e.flags /\ Connecting(a)
  /\ m_iConnect' = [m_iConnect EXCEPT ![a] = "CONNECTED"]
  /\ pending' = [pending EXCEPT ![a] = TRUE]
  /\ write' = [write EXCEPT ![a] = TRUE]
  /\ UNCHANGED <<life, m_iConnectTimes, m_is_call_cb, reported, kernel, m_recycler_agent_list>>

\* What recvData finds: the answer, the end of the connection, or nothing.
Answered(a) == answer[a]
Ended(a) == ~answer[a] /\ sock[a] \in {"closed", "reset"}

\* Mutated sendData: the write event stays.
sendDataStays(e, a) ==
  /\ Takes(e, a)
  /\ e.flags = {"OUT"} /\ ~Connecting(a) /\ sock[a] # "reset"
  /\ pending' = [pending EXCEPT ![a] = FALSE]
  /\ served' = [served EXCEPT ![a] = TRUE]
  /\ UNCHANGED <<life, m_iConnect, m_iConnectTimes, write, m_is_call_cb, reported, sock, answer,
                 m_recycler_agent_list>>

\* sendData writes the request and then wants no more write events.
sendData(e, a) ==
  /\ Takes(e, a)
  /\ e.flags = {"OUT"} /\ ~Connecting(a) /\ sock[a] # "reset"
  /\ pending' = [pending EXCEPT ![a] = FALSE]
  /\ write' = [write EXCEPT ![a] = FALSE]
  /\ served' = [served EXCEPT ![a] = TRUE]
  /\ UNCHANGED <<life, m_iConnect, m_iConnectTimes, m_is_call_cb, reported, sock, answer,
                 m_recycler_agent_list>>

\* sendData fails (handleWriteError): the task is told, and the loop frees.
sendDataFails(e, a) ==
  /\ Takes(e, a)
  /\ "ERR" \notin e.flags /\ "OUT" \in e.flags /\ ~Connecting(a) /\ sock[a] = "reset"
  /\ recyclerAgent(a, <<"WRITE_ERROR">>) /\ UNCHANGED m_iConnectTimes

\* EPOLLIN alone: recvData reads the answer and the task is called back.
readBack(e, a) ==
  /\ Takes(e, a)
  /\ e.flags = {"IN"} /\ Answered(a)
  /\ do_call_back(a, <<"SUCCESSFULLY">>)
  /\ answer' = [answer EXCEPT ![a] = FALSE]
  /\ UNCHANGED <<life, m_iConnect, m_iConnectTimes, write, pending, sock, served>>

\* recvData finds the end of the connection; the buffer may still hold the request.
recvDataFails(e, a) ==
  /\ Takes(e, a)
  /\ ~Connecting(a) /\ Ended(a)
  /\ e.flags = {"IN"} \/ "ERR" \in e.flags
  /\ recyclerAgent(a, <<>>) /\ UNCHANGED m_iConnectTimes

\* With EPOLLERR the answer is read first and then, for EPOLLIN, the end of the
\* connection is found by a second recvData of the same event.
readBackAndEnd(e, a) ==
  /\ Takes(e, a)
  /\ "ERR" \in e.flags /\ ~Connecting(a) /\ Answered(a)
  /\ recyclerAgent(a, <<"SUCCESSFULLY">>) /\ UNCHANGED m_iConnectTimes

\* EPOLLOUT with EPOLLIN: the peer closed before the request was written, which
\* is written all the same, and then the end of the connection is found.
sendDataAndEnd(e, a) ==
  /\ Takes(e, a)
  /\ e.flags = {"OUT", "IN"} /\ ~Connecting(a) /\ sock[a] = "closed"
  /\ recyclerAgent(a, <<>>) /\ UNCHANGED m_iConnectTimes

-----------------------------------------------------------------------------
Handle(e, a) ==
  \/ Reconnect(e, a) \/ ReconnectFails(e, a) \/ connectAfterFailed(e, a)
  \/ connectAfter(e, a) \/ sendData(e, a) \/ sendDataFails(e, a) \/ sendDataAndEnd(e, a)
  \/ readBack(e, a) \/ recvDataFails(e, a) \/ readBackAndEnd(e, a)

Loop == doTask \/ epoll_wait \/ \E e \in batch : Handle(e, e.agent)

Connects(a) == Establish(a) \/ Refuse(a)
Concludes(a) == Answer(a) \/ PeerCloses(a) \/ Reset(a)

Next ==
  /\ ~undefined
  /\ \/ Loop
     \/ \E a \in Agents : create_new_agent(a) \/ InitFails(a) \/ Connects(a) \/ Concludes(a)

\* Fairness: the loop runs; TCP ends every attempt to connect; a node that has
\* the request answers it, or its connection ends, by keep-alive at the latest.
Spec == Init /\ [][Next]_vars
        /\ WF_vars(~undefined /\ Loop)
        /\ \A a \in Agents : /\ WF_vars(~undefined /\ Connects(a))
                             /\ WF_vars(~undefined /\ served[a] /\ Concludes(a))

-----------------------------------------------------------------------------
(* Properties.                                                             *)

RET_TYPES == {"SUCCESSFULLY", "CONNECT_ERROR", "WRITE_ERROR", "UNKOWN_ERROR"}

\* Type correctness; events, buffers and write events are those of live agents.
TypeOK ==
  /\ life \in [Agents -> {"none", "live", "freed"}]
  /\ m_iConnect \in [Agents -> {"CONNECTING", "CONNECTED"}]
  /\ m_iConnectTimes \in [Agents -> -1..MAXRECONNECTTIMES]
  /\ write \in [Agents -> BOOLEAN] /\ pending \in [Agents -> BOOLEAN]
  /\ m_is_call_cb \in [Agents -> BOOLEAN]
  /\ reported \in [Agents -> Seq(RET_TYPES)]
  /\ sock \in [Agents -> {"none", "connecting", "refused", "open", "closed", "reset"}]
  /\ served \in [Agents -> BOOLEAN] /\ answer \in [Agents -> BOOLEAN]
  /\ m_recycler_agent_list \in Seq(Agents)
  /\ batch \subseteq [agent : Agents, flags : SUBSET {"ERR", "OUT", "IN"}]
  /\ \A e \in batch : life[e.agent] = "live"
  /\ polled \in BOOLEAN /\ undefined \in BOOLEAN /\ reset \subseteq Agents
  /\ \A a \in Agents : pending[a] \/ write[a] => life[a] = "live"

\* No task is called back twice about one request, whatever fails in whatever
\* order.
OneReport == \A a \in Agents : Len(reported[a]) <= 1

\* An agent is freed only after its task was told something.
FreedAfterReport ==
  [][\A a \in Agents : life[a] = "live" /\ life'[a] = "freed" => reported'[a] # <<>>]_vars

\* A request waits in the buffer exactly while write events are asked for: it is
\* neither forgotten nor does the loop spin.
WriteArmed ==
  \A a \in Agents : life[a] = "live" /\ ~Connecting(a) => (pending[a] <=> write[a])

\* Agents to which something happened for which they are freed twice: they could
\* not connect or write, an ExtentTask's was closed by the peer, or the connection
\* was reset.
Endangered(a) ==
  \/ a \in reset
  \/ reported[a] # <<>> /\ reported[a][1] \in {"CONNECT_ERROR", "WRITE_ERROR"}
  \/ reported[a] # <<>> /\ reported[a][1] = "UNKOWN_ERROR" /\ a \in Extension

\* An agent is queued once at most and not freed before its turn, when the node
\* answered or, for a MigrationTask, closed the connection.
QueuedOnce ==
  \A i \in DOMAIN m_recycler_agent_list :
    LET a == m_recycler_agent_list[i] IN
    ~Endangered(a) => /\ life[a] = "live"
                      /\ \A j \in DOMAIN m_recycler_agent_list :
                           m_recycler_agent_list[j] = a => j = i

\* A reconnect for which there was no socket: no event will come.
Stuck(a) == life[a] = "live" /\ sock[a] = "none" /\ reported[a] = <<>>

\* Every request is answered or found to have failed, its task is told, and the
\* agent is freed, unless no socket could be opened for a reconnect.
EveryRequestEnds ==
  \A a \in Agents : life[a] = "live" ~> life[a] = "freed" \/ Stuck(a) \/ undefined

=============================================================================
