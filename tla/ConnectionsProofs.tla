-------------------------- MODULE ConnectionsProofs -------------------------
(***************************************************************************)
(* Proofs about Connections for every number of agents of either kind and  *)
(* every number of reconnects: the types, that a task is called back once  *)
(* about a request and before its agent is freed, that a request waits     *)
(* exactly while write events are asked for, and that the queue of agents  *)
(* to recycle is sound but after failures.                                 *)
(***************************************************************************)
EXTENDS Connections, TLAPS

Queued == {m_recycler_agent_list[i] : i \in DOMAIN m_recycler_agent_list}

\* What has been told to the task is what the agent remembers of it.
CalledBack == \A a \in Agents : m_is_call_cb[a] <=> reported[a] # <<>>

\* An agent that was not created has no connection and has told nothing; one
\* that was freed has told something and left no socket behind.
Lifetime ==
  \A a \in Agents :
    /\ life[a] = "none" => reported[a] = <<>> /\ m_iConnectTimes[a] = -1 /\ Connecting(a)
    /\ life[a] = "freed" => reported[a] # <<>>
    /\ life[a] # "live" => sock[a] = "none"

\* What the state of a socket says about its agent.
Sockets ==
  \A a \in Agents :
    /\ sock[a] \in {"connecting", "refused"} => Connecting(a)
    /\ life[a] = "live" /\ ~Connecting(a) => sock[a] \in {"open", "closed", "reset"}
    /\ served[a] => ~Connecting(a)
    /\ answer[a] => life[a] = "live" /\ served[a] /\ reported[a] = <<>>
    /\ sock[a] = "reset" => a \in reset

\* A batch has one event of an agent, whose task has heard nothing yet; an error
\* of an established connection is a reset.
Events ==
  /\ ~polled => batch = {}
  /\ \A e, f \in batch : e.agent = f.agent => e = f
  /\ \A e \in batch :
       /\ reported[e.agent] = <<>>
       /\ "ERR" \in e.flags => Connecting(e.agent) \/ e.agent \in reset
       /\ "OUT" \in e.flags /\ "ERR" \notin e.flags
            => sock[e.agent] \in {"open", "closed", "reset"}

\* An agent whose task was told something waits in the queue to be recycled; it
\* has no socket unless it was handled in this turn of the loop.
Queue ==
  /\ \A a \in Queued : reported[a] # <<>>
  /\ \A a \in Agents : life[a] = "live" /\ reported[a] # <<>>
                         => a \in Queued /\ (sock[a] = "none" \/ polled)

\* The inductive invariant.
IInv == TypeOK /\ OneReport /\ WriteArmed /\ CalledBack /\ Lifetime /\ Sockets /\ Events
        /\ Queue /\ QueuedOnce
-----------------------------------------------------------------------------
(* Lemmas about the one thing a task is told.                              *)

LEMMA ToldOnce ==
  ASSUME NEW x PROVE <<>> \o <<x>> = <<x>> /\ <<x>> \o <<>> = <<x>>
  OBVIOUS

LEMMA ToldNothing ==
  ASSUME NEW S, NEW r \in Seq(S) PROVE r \o <<>> = r
  OBVIOUS

LEMMA OneEntry ==
  ASSUME NEW D, NEW S, NEW f \in [D -> S], NEW a \in D, NEW y \in S
  PROVE  /\ [f EXCEPT ![a] = y] \in [D -> S] /\ [f EXCEPT ![a] = y][a] = y
         /\ \A b \in D \ {a} : [f EXCEPT ![a] = y][b] = f[b]
  OBVIOUS

LEMMA Disposes ==
  ASSUME NEW a, NEW y \in RET_TYPES, disposes(a, y), y # "SUCCESSFULLY"
  PROVE  y \in {"CONNECT_ERROR", "WRITE_ERROR"} \/ (y = "UNKOWN_ERROR" /\ a \in Extension)
  BY DEF disposes, RET_TYPES

\* The types of what the events of an agent change.
LEMMA Typed ==
  ASSUME IInv
  PROVE  /\ life \in [Agents -> {"none", "live", "freed"}]
         /\ m_iConnect \in [Agents -> {"CONNECTING", "CONNECTED"}]
         /\ m_iConnectTimes \in [Agents -> -1..MAXRECONNECTTIMES]
         /\ write \in [Agents -> BOOLEAN] /\ pending \in [Agents -> BOOLEAN]
         /\ m_is_call_cb \in [Agents -> BOOLEAN]
         /\ reported \in [Agents -> Seq(RET_TYPES)]
         /\ sock \in [Agents -> {"none", "connecting", "refused", "open", "closed", "reset"}]
         /\ served \in [Agents -> BOOLEAN] /\ answer \in [Agents -> BOOLEAN]
         /\ m_recycler_agent_list \in Seq(Agents)
  BY DEF IInv, TypeOK

\* The other conjuncts of TypeOK, which are about events, buffers and flags.
LEMMA TypedLoop ==
  ASSUME IInv
  PROVE  /\ batch \subseteq [agent : Agents, flags : SUBSET {"ERR", "OUT", "IN"}]
         /\ \A e \in batch : life[e.agent] = "live"
         /\ polled \in BOOLEAN /\ undefined \in BOOLEAN /\ reset \subseteq Agents
         /\ \A a \in Agents : pending[a] \/ write[a] => life[a] = "live"
  BY DEF IInv, TypeOK

\* A queue that is extended by a keeps its items where they are.
Extends(q, p, a) ==
  /\ DOMAIN p \subseteq DOMAIN q
  /\ \A i \in DOMAIN q : q[i] = IF i \in DOMAIN p THEN p[i] ELSE a
  /\ \E i \in DOMAIN q : q[i] = a

LEMMA AppendExtends ==
  ASSUME NEW S, NEW p \in Seq(S), NEW a \in S
  PROVE  Append(p, a) \in Seq(S) /\ Extends(Append(p, a), p, a)
<1>1. /\ Append(p, a) \in Seq(S) /\ Len(p) \in Nat
      /\ DOMAIN Append(p, a) = 1..Len(p) + 1 /\ DOMAIN p = 1..Len(p)
      /\ \A i \in 1..Len(p) + 1 : Append(p, a)[i] = IF i <= Len(p) THEN p[i] ELSE a
  OBVIOUS
<1>. QED  BY <1>1 DEF Extends

LEMMA AppendTwiceExtends ==
  ASSUME NEW S, NEW p \in Seq(S), NEW a \in S
  PROVE  Append(Append(p, a), a) \in Seq(S) /\ Extends(Append(Append(p, a), a), p, a)
<1>1. Append(p, a) \in Seq(S) /\ Extends(Append(p, a), p, a)
  BY AppendExtends
<1>2. Append(Append(p, a), a) \in Seq(S) /\ Extends(Append(Append(p, a), a), Append(p, a), a)
  BY <1>1, AppendExtends
<1>. QED  BY <1>1, <1>2 DEF Extends

\* The initial state satisfies the invariant.
LEMMA InitIInv == Init => IInv
<1>. SUFFICES ASSUME Init PROVE IInv
  OBVIOUS
<1>1. TypeOK
  <2>1. /\ write \in [Agents -> BOOLEAN] /\ pending \in [Agents -> BOOLEAN]
        /\ m_is_call_cb \in [Agents -> BOOLEAN]
        /\ served \in [Agents -> BOOLEAN] /\ answer \in [Agents -> BOOLEAN]
        /\ \A a \in Agents : pending[a] \/ write[a] => life[a] = "live"
    BY DEF Init
  <2>2. reported \in [Agents -> Seq(RET_TYPES)] /\ m_recycler_agent_list \in Seq(Agents)
    BY DEF Init
  <2>3. m_iConnectTimes \in [Agents -> -1..MAXRECONNECTTIMES]
    BY ConnectionsAssumption DEF Init
  <2>. QED  BY <2>1, <2>2, <2>3 DEF Init, TypeOK
<1>2. OneReport /\ WriteArmed /\ CalledBack /\ Lifetime /\ Sockets /\ Events
  BY DEF Init, OneReport, WriteArmed, CalledBack, Lifetime, Sockets, Events, Connecting
<1>3. Queue /\ QueuedOnce
  BY DEF Init, Queue, QueuedOnce, Queued
<1>. QED  BY <1>1, <1>2, <1>3 DEF IInv

\* The kernel and the storage nodes.
LEMMA KernelIInv ==
  ASSUME IInv, NEW a \in Agents,
         Establish(a) \/ Refuse(a) \/ Answer(a) \/ PeerCloses(a) \/ Reset(a)
  PROVE  IInv'
<1>1. TypeOK'
  <2>1. /\ UNCHANGED <<agents, served, loop, undefined>>
        /\ sock' \in [Agents -> {"none", "connecting", "refused", "open", "closed", "reset"}]
        /\ reset' \subseteq Agents
    BY DEF IInv, TypeOK, Establish, Refuse, Answer, PeerCloses, Reset, Becomes
  <2>2. answer' \in [Agents -> BOOLEAN]
    BY DEF IInv, TypeOK, Establish, Refuse, Answer, PeerCloses, Reset
  <2>. QED  BY <2>1, <2>2 DEF IInv, TypeOK, agents, loop
<1>2. OneReport' /\ WriteArmed' /\ CalledBack'
  BY DEF IInv, OneReport, WriteArmed, CalledBack, Connecting,
         Establish, Refuse, Answer, PeerCloses, Reset, Becomes, agents, loop
<1>3. Lifetime' /\ Sockets'
  BY DEF IInv, TypeOK, Lifetime, Sockets, Connecting,
         Establish, Refuse, Answer, PeerCloses, Reset, Becomes, agents, loop
<1>a. /\ UNCHANGED <<life, m_iConnect, reported, m_recycler_agent_list, batch, polled>>
      /\ sock[a] \in {"connecting", "open", "closed"}
      /\ sock[a] # "connecting" => sock'[a] \in {"open", "closed", "reset"}
      /\ \A b \in Agents \ {a} : sock'[b] = sock[b]
      /\ reset \subseteq reset'
  BY DEF IInv, TypeOK, Establish, Refuse, Answer, PeerCloses, Reset, Becomes, agents, loop
<1>b. Events'
  <2>1. \A e \in batch : e.agent \in Agents
    BY DEF IInv, TypeOK
  <2>2. ASSUME NEW e \in batch, "OUT" \in e.flags, "ERR" \notin e.flags
        PROVE  sock'[e.agent] \in {"open", "closed", "reset"}
    <3>1. sock[e.agent] \in {"open", "closed", "reset"}
      BY <2>2 DEF IInv, Events
    <3>. QED  BY <3>1, <2>1, <1>a
  <2>. QED  BY <2>2, <1>a DEF IInv, Events, Connecting
<1>4. Queue'
  <2>1. \A b \in Agents : life[b] = "live" /\ reported[b] # <<>> /\ ~polled => b # a
    BY <1>a DEF IInv, Queue
  <2>. QED  BY <2>1, <1>a DEF IInv, Queue, Queued
<1>5. QueuedOnce'
  BY DEF IInv, QueuedOnce, Endangered,
         Establish, Refuse, Answer, PeerCloses, Reset, Becomes, agents, loop
<1>. QED  BY <1>1, <1>2, <1>3, <1>b, <1>4, <1>5 DEF IInv

\* Creating an agent, with a socket or without.
LEMMA CreateIInv ==
  ASSUME IInv, NEW a \in Agents, create_new_agent(a) PROVE IInv'
<1>. USE DEF create_new_agent, connect, loop
<1>0. reported[a] = <<>> /\ m_iConnectTimes[a] = -1 /\ Connecting(a) /\ a \notin Queued
  BY DEF IInv, Lifetime, Queue
<1>1. TypeOK'
  BY <1>0, ConnectionsAssumption DEF IInv, TypeOK
<1>2. OneReport' /\ WriteArmed' /\ CalledBack'
  BY <1>0 DEF IInv, TypeOK, OneReport, WriteArmed, CalledBack, Connecting
<1>3. Lifetime' /\ Sockets'
  BY <1>0 DEF IInv, TypeOK, Lifetime, Sockets, Connecting
<1>4. Events' /\ Queue'
  BY <1>0 DEF IInv, TypeOK, Events, Queue, Queued, Connecting
<1>5. QueuedOnce'
  BY <1>0 DEF IInv, TypeOK, QueuedOnce, Queued, Endangered
<1>. QED  BY <1>1, <1>2, <1>3, <1>4, <1>5 DEF IInv

LEMMA InitFailsIInv ==
  ASSUME IInv, NEW a \in Agents, InitFails(a) PROVE IInv'
<1>. USE DEF InitFails, connect
<1>0. reported[a] = <<>> /\ m_iConnectTimes[a] = -1 /\ Connecting(a) /\ life[a] = "none"
  BY DEF IInv, Lifetime
<1>a. reported' = [reported EXCEPT ![a] = <<"CONNECT_ERROR">>]
  BY <1>0 DEF IInv, TypeOK
<1>e. /\ m_recycler_agent_list' \in Seq(Agents)
      /\ Extends(m_recycler_agent_list', m_recycler_agent_list, a)
  <2>1. m_recycler_agent_list \in Seq(Agents)
    BY DEF IInv, TypeOK
  <2>. QED  BY <2>1, AppendExtends, AppendTwiceExtends
<1>c. Queued' = Queued \cup {a}
  <2>1. Queued' \subseteq Queued \cup {a}
    BY <1>e DEF Queued, Extends
  <2>2. Queued \cup {a} \subseteq Queued'
    BY <1>e DEF Queued, Extends
  <2>. QED  BY <2>1, <2>2
<1>1. TypeOK'
  <2>1. m_recycler_agent_list' \in Seq(Agents)
    BY <1>e
  <2>2. reported' \in [Agents -> Seq(RET_TYPES)]
    BY <1>a DEF IInv, TypeOK, RET_TYPES
  <2>. QED  BY <2>1, <2>2, <1>0, ConnectionsAssumption DEF IInv, TypeOK
<1>2. OneReport' /\ WriteArmed' /\ CalledBack'
  BY <1>0, <1>a DEF IInv, TypeOK, OneReport, WriteArmed, CalledBack, Connecting
<1>3. Lifetime' /\ Sockets'
  BY <1>0, <1>a DEF IInv, TypeOK, Lifetime, Sockets, Connecting
<1>4. Events' /\ Queue'
  BY <1>0, <1>a, <1>c DEF IInv, TypeOK, Events, Queue, Connecting
<1>5. QueuedOnce'
  <2>1. Endangered(a)'
    <3>1. reported'[a] = <<"CONNECT_ERROR">>
      BY <1>a DEF IInv, TypeOK
    <3>2. <<"CONNECT_ERROR">> # <<>> /\ <<"CONNECT_ERROR">>[1] = "CONNECT_ERROR"
      OBVIOUS
    <3>. QED  BY <3>1, <3>2 DEF Endangered
  <2>2. ASSUME NEW b \in Agents, b # a PROVE Endangered(b)' = Endangered(b)
    <3>1. reported'[b] = reported[b] /\ reset' = reset
      BY <1>a, <2>2 DEF IInv, TypeOK
    <3>. QED  BY <3>1 DEF Endangered
  <2>3. \A i \in DOMAIN m_recycler_agent_list : m_recycler_agent_list[i] \in Agents \ {a}
    BY <1>0 DEF IInv, TypeOK, Queue, Queued
  <2>4. \A b \in Agents : b # a => life'[b] = life[b]
    BY DEF IInv, TypeOK
  <2>5. ASSUME NEW i \in DOMAIN m_recycler_agent_list', NEW b,
               b = m_recycler_agent_list'[i], ~Endangered(b)'
        PROVE  /\ life'[b] = "live"
               /\ \A j \in DOMAIN m_recycler_agent_list' : m_recycler_agent_list'[j] = b => j = i
    <3>1. b # a
      BY <2>1, <2>5
    <3>2. i \in DOMAIN m_recycler_agent_list /\ b = m_recycler_agent_list[i]
      BY <3>1, <1>e, <2>5 DEF Extends
    <3>3. ~Endangered(b) /\ b \in Agents
      BY <2>2, <2>3, <2>5, <3>1, <3>2
    <3>4. /\ life[b] = "live"
          /\ \A j \in DOMAIN m_recycler_agent_list : m_recycler_agent_list[j] = b => j = i
      BY <3>2, <3>3 DEF IInv, QueuedOnce
    <3>. QED  BY <3>1, <3>3, <3>4, <2>4, <1>e DEF Extends
  <2>. QED  BY <2>5 DEF QueuedOnce
<1>. QED  BY <1>1, <1>2, <1>3, <1>4, <1>5 DEF IInv

\* epoll_wait: what is ready is live and its task has heard nothing.
LEMMA EpollWaitIInv ==
  ASSUME IInv, epoll_wait PROVE IInv'
<1>. USE DEF epoll_wait, agents, kernel
<1>0. ASSUME NEW a \in Agents, Ready(a) # {}
      PROVE  /\ life[a] = "live" /\ reported[a] = <<>>
             /\ Ready(a) \subseteq {"ERR", "OUT", "IN"}
             /\ "ERR" \in Ready(a) => Connecting(a) \/ a \in reset
             /\ "OUT" \in Ready(a) /\ "ERR" \notin Ready(a)
                  => sock[a] \in {"open", "closed", "reset"}
  <2>1. sock[a] # "none"
    BY <1>0 DEF Ready, IInv, Sockets, Lifetime, TypeOK, Connecting
  <2>2. life[a] = "live" /\ reported[a] = <<>>
    BY <2>1 DEF IInv, Lifetime, Queue, TypeOK
  <2>3. Ready(a) \subseteq {"ERR", "OUT", "IN"}
    BY DEF Ready
  <2>4. "ERR" \in Ready(a) => sock[a] \in {"refused", "reset"}
    BY DEF Ready
  <2>5. "OUT" \in Ready(a) /\ "ERR" \notin Ready(a) => sock[a] \in {"open", "closed", "reset"}
    <3>1. sock[a] \in {"none", "connecting", "refused", "open", "closed", "reset"}
      BY DEF IInv, TypeOK
    <3>. QED  BY <3>1 DEF Ready
  <2>. QED  BY <2>2, <2>3, <2>4, <2>5 DEF IInv, Sockets
<1>a. ASSUME NEW e \in batch'
      PROVE  /\ e.agent \in Agents /\ Ready(e.agent) # {}
             /\ e = [agent |-> e.agent, flags |-> Ready(e.agent)]
             /\ life[e.agent] = "live" /\ reported[e.agent] = <<>>
             /\ e.flags \subseteq {"ERR", "OUT", "IN"}
             /\ "ERR" \in e.flags => Connecting(e.agent) \/ e.agent \in reset
             /\ "OUT" \in e.flags /\ "ERR" \notin e.flags
                  => sock[e.agent] \in {"open", "closed", "reset"}
  <2>1. PICK a \in Agents : Ready(a) # {} /\ e = [agent |-> a, flags |-> Ready(a)]
    BY <1>a
  <2>2. e.agent = a /\ e.flags = Ready(a)
    BY <2>1
  <2>3. /\ life[a] = "live" /\ reported[a] = <<>>
        /\ Ready(a) \subseteq {"ERR", "OUT", "IN"}
        /\ "ERR" \in Ready(a) => Connecting(a) \/ a \in reset
        /\ "OUT" \in Ready(a) /\ "ERR" \notin Ready(a)
             => sock[a] \in {"open", "closed", "reset"}
    BY <1>0, <2>1
  <2>. QED  BY <2>1, <2>2, <2>3
<1>1. TypeOK'
  <2>1. batch' \subseteq [agent : Agents, flags : SUBSET {"ERR", "OUT", "IN"}]
    <3>. SUFFICES ASSUME NEW e \in batch'
                  PROVE  e \in [agent : Agents, flags : SUBSET {"ERR", "OUT", "IN"}]
      OBVIOUS
    <3>1. PICK a \in Agents : Ready(a) # {} /\ e = [agent |-> a, flags |-> Ready(a)]
      OBVIOUS
    <3>2. Ready(a) \in SUBSET {"ERR", "OUT", "IN"}
      BY <1>0, <3>1
    <3>. QED  BY <3>1, <3>2
  <2>2. \A e \in batch' : life'[e.agent] = "live"
    BY <1>a
  <2>. QED  BY <2>1, <2>2 DEF IInv, TypeOK
<1>2. OneReport' /\ WriteArmed' /\ CalledBack' /\ Lifetime' /\ Sockets'
  BY DEF IInv, OneReport, WriteArmed, CalledBack, Lifetime, Sockets, Connecting
<1>3. Events'
  <2>1. \A e, f \in batch' : e.agent = f.agent => e = f
    BY <1>a
  <2>. QED  BY <1>a, <2>1 DEF Events, Connecting
<1>4. Queue' /\ QueuedOnce'
  BY DEF IInv, TypeOK, Queue, Queued, QueuedOnce, Endangered
<1>. QED  BY <1>1, <1>2, <1>3, <1>4 DEF IInv

\* doTask frees what is queued, all of which has told its task before.
LEMMA DoTaskIInv ==
  ASSUME IInv, doTask PROVE IInv'
<1>. USE DEF doTask
<1>0. \A a \in Queued : a \in Agents /\ reported[a] # <<>> /\ m_is_call_cb[a]
  BY DEF IInv, TypeOK, Queue, Queued, CalledBack
<1>1. reported' = reported
  <2>. HIDE DEF doTask
  <2>1. ASSUME NEW a \in Queued PROVE reported[a] \o recycler(a, <<>>) = reported[a]
    <3>1. recycler(a, <<>>) = <<>>
      BY <1>0, <2>1 DEF recycler
    <3>2. reported[a] \in Seq(RET_TYPES)
      BY <1>0, <2>1, Typed
    <3>. QED  BY <3>1, <3>2, ToldNothing
  <2>2. reported' = [a \in Agents |-> IF a \in Queued THEN reported[a] \o recycler(a, <<>>)
                                      ELSE reported[a]]
    BY DEF doTask, Queued
  <2>3. reported' = [a \in Agents |-> reported[a]]
    BY <2>1, <2>2
  <2>. QED  BY <2>3, Typed
<1>2. life' = [a \in Agents |-> IF a \in Queued THEN "freed" ELSE life[a]]
  BY DEF Queued
<1>3. sock' = [a \in Agents |-> IF a \in Queued THEN "none" ELSE sock[a]]
  BY DEF Queued
<1>4. /\ write' = [a \in Agents |-> write[a] /\ a \notin Queued]
      /\ pending' = [a \in Agents |-> pending[a] /\ a \notin Queued]
      /\ answer' = [a \in Agents |-> answer[a] /\ a \notin Queued]
  BY DEF Queued
<1>5. TypeOK'
  <2>1. /\ write' \in [Agents -> BOOLEAN] /\ pending' \in [Agents -> BOOLEAN]
        /\ answer' \in [Agents -> BOOLEAN]
    BY <1>4
  <2>2. undefined' \in BOOLEAN
    OBVIOUS
  <2>3. \A a \in Agents : pending'[a] \/ write'[a] => life'[a] = "live"
    BY <1>2, <1>4, TypedLoop
  <2>4. life' \in [Agents -> {"none", "live", "freed"}]
    BY <1>2, Typed
  <2>5. sock' \in [Agents -> {"none", "connecting", "refused", "open", "closed", "reset"}]
    BY <1>3, Typed
  <2>6. /\ batch' = {} /\ m_recycler_agent_list' = <<>> /\ polled' = FALSE
        /\ UNCHANGED <<m_iConnect, m_iConnectTimes, m_is_call_cb, served, reset>>
    OBVIOUS
  <2>. HIDE DEF doTask
  <2>7. <<>> \in Seq(Agents)
    OBVIOUS
  <2>. QED  BY <1>1, <2>1, <2>2, <2>3, <2>4, <2>5, <2>6, <2>7, Typed, TypedLoop DEF TypeOK
<1>6. OneReport' /\ CalledBack'
  BY <1>1 DEF IInv, OneReport, CalledBack
<1>7. WriteArmed'
  BY <1>2, <1>4 DEF IInv, WriteArmed, Connecting
<1>8. Lifetime' /\ Sockets'
  <2>1. UNCHANGED <<m_iConnect, m_iConnectTimes, served, reset>>
    OBVIOUS
  <2>. HIDE DEF doTask
  <2>2. \A a \in Queued : served[a] => ~Connecting(a)
    BY <1>0 DEF IInv, Sockets
  <2>3. Lifetime'
    BY <1>0, <1>1, <1>2, <1>3, <2>1 DEF IInv, Lifetime, Connecting
  <2>4. Sockets'
    BY <1>0, <1>1, <1>2, <1>3, <1>4, <2>1 DEF IInv, Sockets, Connecting
  <2>. QED  BY <2>3, <2>4
<1>9. Events' /\ Queue' /\ QueuedOnce'
  BY <1>1, <1>2 DEF IInv, TypeOK, Events, Queue, Queued, QueuedOnce
<1>. QED  BY <1>5, <1>6, <1>7, <1>8, <1>9 DEF IInv

-----------------------------------------------------------------------------
(* The events of a batch.                                                  *)

\* Before an event is handled its task has heard nothing; afterwards there is no
\* other event of its agent.
LEMMA TakesFacts ==
  ASSUME IInv, NEW e \in batch, NEW a, a = e.agent, Takes(e, a)
  PROVE  /\ a \in Agents /\ life[a] = "live" /\ reported[a] = <<>> /\ a \notin Queued
         /\ "ERR" \in e.flags => Connecting(a) \/ a \in reset
         /\ "OUT" \in e.flags /\ "ERR" \notin e.flags => sock[a] \in {"open", "closed", "reset"}
         /\ polled /\ polled' = polled /\ reset' = reset /\ undefined' = undefined
         /\ batch' \subseteq batch /\ \A f \in batch' : f.agent # a
<1>1. a \in Agents /\ life[a] = "live"
  BY DEF IInv, TypeOK
<1>2. reported[a] = <<>> /\ a \notin Queued /\ polled
  BY DEF IInv, Events, Queue
<1>3. /\ "ERR" \in e.flags => Connecting(a) \/ a \in reset
      /\ "OUT" \in e.flags /\ "ERR" \notin e.flags => sock[a] \in {"open", "closed", "reset"}
  BY DEF IInv, Events
<1>4. /\ polled' = polled /\ reset' = reset /\ undefined' = undefined
      /\ batch' \subseteq batch /\ \A f \in batch' : f.agent # a
  BY DEF Takes, IInv, Events
<1>. QED  BY <1>1, <1>2, <1>3, <1>4

\* Events of which the task hears nothing: what they change of the agent is given.
LEMMA QuietEventIInv ==
  ASSUME IInv, NEW e \in batch, NEW a, a = e.agent, Takes(e, a),
         UNCHANGED <<life, m_is_call_cb, reported, m_recycler_agent_list, answer>>,
         m_iConnect' \in [Agents -> {"CONNECTING", "CONNECTED"}],
         m_iConnectTimes' \in [Agents -> -1..MAXRECONNECTTIMES],
         write' \in [Agents -> BOOLEAN], pending' \in [Agents -> BOOLEAN],
         served' \in [Agents -> BOOLEAN],
         sock' \in [Agents -> {"none", "connecting", "refused", "open", "closed", "reset"}],
         \A b \in Agents \ {a} :
           /\ m_iConnect'[b] = m_iConnect[b] /\ m_iConnectTimes'[b] = m_iConnectTimes[b]
           /\ write'[b] = write[b] /\ pending'[b] = pending[b]
           /\ served'[b] = served[b] /\ sock'[b] = sock[b],
         \/ m_iConnect'[a] = "CONNECTING" /\ ~served'[a] /\ ~answer[a] /\ sock'[a] # "reset"
         \/ /\ m_iConnect'[a] = "CONNECTED" /\ pending'[a] = write'[a]
            /\ sock'[a] \in {"open", "closed", "reset"} /\ sock'[a] = sock[a]
            /\ answer[a] => served'[a]
  PROVE  IInv'
<1>0. /\ a \in Agents /\ life[a] = "live" /\ reported[a] = <<>> /\ a \notin Queued
      /\ polled /\ polled' = polled /\ reset' = reset /\ undefined' = undefined
      /\ batch' \subseteq batch /\ \A f \in batch' : f.agent # a
  BY TakesFacts
<1>1. TypeOK'
  <2>1. \A b \in Agents : pending'[b] \/ write'[b] => life'[b] = "live"
    BY <1>0 DEF IInv, TypeOK
  <2>. QED  BY <1>0, <2>1 DEF IInv, TypeOK
<1>2. OneReport' /\ CalledBack'
  BY DEF IInv, OneReport, CalledBack
<1>3. WriteArmed'
  BY <1>0 DEF IInv, WriteArmed, Connecting
<1>4. Lifetime'
  BY <1>0 DEF IInv, Lifetime, Connecting
<1>5. Sockets'
  <2>1. ASSUME NEW b \in Agents, b # a
        PROVE  /\ sock'[b] \in {"connecting", "refused"} => Connecting(b)'
               /\ life'[b] = "live" /\ ~Connecting(b)' => sock'[b] \in {"open", "closed", "reset"}
               /\ served'[b] => ~Connecting(b)'
               /\ answer'[b] => life'[b] = "live" /\ served'[b] /\ reported'[b] = <<>>
               /\ sock'[b] = "reset" => b \in reset'
    <3>1. /\ m_iConnect'[b] = m_iConnect[b] /\ sock'[b] = sock[b] /\ served'[b] = served[b]
          /\ life' = life /\ answer' = answer /\ reported' = reported /\ reset' = reset
      BY <1>0, <2>1
    <3>2. /\ sock[b] \in {"connecting", "refused"} => Connecting(b)
          /\ life[b] = "live" /\ ~Connecting(b) => sock[b] \in {"open", "closed", "reset"}
          /\ served[b] => ~Connecting(b)
          /\ answer[b] => life[b] = "live" /\ served[b] /\ reported[b] = <<>>
          /\ sock[b] = "reset" => b \in reset
      BY DEF IInv, Sockets
    <3>. QED  BY <3>1, <3>2 DEF Connecting
  <2>2. /\ sock'[a] \in {"connecting", "refused"} => Connecting(a)'
        /\ life'[a] = "live" /\ ~Connecting(a)' => sock'[a] \in {"open", "closed", "reset"}
        /\ served'[a] => ~Connecting(a)'
        /\ answer'[a] => life'[a] = "live" /\ served'[a] /\ reported'[a] = <<>>
        /\ sock'[a] = "reset" => a \in reset'
    BY <1>0 DEF IInv, Sockets, Connecting
  <2>. QED  BY <2>1, <2>2 DEF Sockets
<1>6. Events'
  <2>1. \A f \in batch' : /\ f \in batch /\ f.agent \in Agents /\ f.agent # a
                          /\ m_iConnect'[f.agent] = m_iConnect[f.agent]
                          /\ sock'[f.agent] = sock[f.agent]
    BY <1>0 DEF IInv, TypeOK
  <2>. QED  BY <1>0, <2>1 DEF IInv, Events, Connecting
<1>7. Queue'
  BY <1>0 DEF IInv, Queue, Queued
<1>8. QueuedOnce'
  BY <1>0 DEF IInv, QueuedOnce, Endangered
<1>. QED  BY <1>1, <1>2, <1>3, <1>4, <1>5, <1>6, <1>7, <1>8 DEF IInv

LEMMA ReconnectIInv ==
  ASSUME IInv, NEW e \in batch, NEW a, a = e.agent, Reconnect(e, a) \/ ReconnectFails(e, a)
  PROVE  IInv'
<1>. USE DEF Reconnect, ReconnectFails
<1>1. Takes(e, a) /\ Connecting(a) /\ m_iConnectTimes[a] < MAXRECONNECTTIMES
  OBVIOUS
<1>2. a \in Agents
  BY <1>1, TakesFacts
<1>3. connect(a, TRUE) \/ connect(a, FALSE)
  OBVIOUS
<1>4. /\ m_iConnectTimes' \in [Agents -> -1..MAXRECONNECTTIMES]
      /\ write' \in [Agents -> BOOLEAN]
      /\ sock' \in [Agents -> {"none", "connecting", "refused", "open", "closed", "reset"}]
      /\ sock'[a] \in {"none", "connecting"}
      /\ \A b \in Agents \ {a} : /\ m_iConnectTimes'[b] = m_iConnectTimes[b]
                               /\ write'[b] = write[b] /\ sock'[b] = sock[b]
  <2>1. \E opened \in BOOLEAN : connect(a, opened)
    BY <1>3
  <2>2. PICK opened \in BOOLEAN : connect(a, opened)
    BY <2>1
  <2>3. write' \in [Agents -> BOOLEAN] /\ \A b \in Agents \ {a} : write'[b] = write[b]
    BY <1>2, <2>2 DEF connect, IInv, TypeOK
  <2>4. /\ m_iConnectTimes' \in [Agents -> -1..MAXRECONNECTTIMES]
        /\ \A b \in Agents \ {a} : m_iConnectTimes'[b] = m_iConnectTimes[b]
    BY <1>1, <1>2, <2>2, ConnectionsAssumption DEF connect, IInv, TypeOK
  <2>5. /\ sock' \in [Agents -> {"none", "connecting", "refused", "open", "closed", "reset"}]
        /\ sock'[a] \in {"none", "connecting"}
        /\ \A b \in Agents \ {a} : sock'[b] = sock[b]
    BY <1>2, <2>2 DEF connect, IInv, TypeOK
  <2>. QED  BY <2>3, <2>4, <2>5
<1>5. ~served[a] /\ ~answer[a]
  BY <1>1, <1>2 DEF IInv, Sockets
<1>6. /\ UNCHANGED <<life, m_is_call_cb, reported, m_recycler_agent_list, answer,
                     m_iConnect, pending, served>>
      /\ m_iConnect'[a] = "CONNECTING"
  BY <1>1 DEF Connecting
<1>. HIDE DEF Reconnect, ReconnectFails
<1>. QED  BY <1>1, <1>4, <1>5, <1>6, Typed, QuietEventIInv

LEMMA ConnectAfterIInv ==
  ASSUME IInv, NEW e \in batch, NEW a, a = e.agent, connectAfter(e, a) PROVE IInv'
<1>. USE DEF connectAfter, kernel
<1>1. /\ a \in Agents /\ Takes(e, a) /\ Connecting(a)
      /\ sock[a] \in {"open", "closed", "reset"}
  BY TakesFacts
<1>2. /\ m_iConnect' \in [Agents -> {"CONNECTING", "CONNECTED"}]
      /\ pending' \in [Agents -> BOOLEAN] /\ write' \in [Agents -> BOOLEAN]
      /\ m_iConnect'[a] = "CONNECTED" /\ pending'[a] = TRUE /\ write'[a] = TRUE
      /\ \A b \in Agents \ {a} : /\ m_iConnect'[b] = m_iConnect[b]
                               /\ write'[b] = write[b] /\ pending'[b] = pending[b]
  <2>1. /\ m_iConnect' = [m_iConnect EXCEPT ![a] = "CONNECTED"]
        /\ pending' = [pending EXCEPT ![a] = TRUE] /\ write' = [write EXCEPT ![a] = TRUE]
    OBVIOUS
  <2>. HIDE DEF connectAfter
  <2>. QED  BY <1>1, <2>1, Typed
<1>3. ~answer[a]
  BY <1>1 DEF IInv, Sockets
<1>4. UNCHANGED <<life, m_is_call_cb, reported, m_recycler_agent_list, answer,
                  m_iConnectTimes, served, sock>>
  OBVIOUS
<1>. HIDE DEF connectAfter
<1>. QED  BY <1>1, <1>2, <1>3, <1>4, Typed, QuietEventIInv

LEMMA SendDataIInv ==
  ASSUME IInv, NEW e \in batch, NEW a, a = e.agent, sendData(e, a) PROVE IInv'
<1>. USE DEF sendData
<1>1. a \in Agents /\ Takes(e, a) /\ ~Connecting(a) /\ life[a] = "live"
  BY TakesFacts
<1>2. /\ served' \in [Agents -> BOOLEAN]
      /\ pending' \in [Agents -> BOOLEAN] /\ write' \in [Agents -> BOOLEAN]
      /\ served'[a] = TRUE /\ pending'[a] = FALSE /\ write'[a] = FALSE
      /\ \A b \in Agents \ {a} : /\ served'[b] = served[b]
                               /\ write'[b] = write[b] /\ pending'[b] = pending[b]
  <2>1. /\ served' = [served EXCEPT ![a] = TRUE]
        /\ pending' = [pending EXCEPT ![a] = FALSE] /\ write' = [write EXCEPT ![a] = FALSE]
    OBVIOUS
  <2>. HIDE DEF sendData
  <2>. QED  BY <1>1, <2>1, Typed
<1>3. sock[a] \in {"open", "closed", "reset"} /\ m_iConnect[a] = "CONNECTED"
  BY <1>1, Typed DEF IInv, Sockets, Connecting
<1>4. UNCHANGED <<life, m_is_call_cb, reported, m_recycler_agent_list, answer,
                  m_iConnect, m_iConnectTimes, sock>>
  OBVIOUS
<1>. HIDE DEF sendData
<1>. QED  BY <1>1, <1>2, <1>3, <1>4, Typed, QuietEventIInv

\* Events of which the task hears x: its agent is kept and queued, or freed, and
\* when it is freed and queued all the same it was endangered.
LEMMA HeardIInv ==
  ASSUME IInv, NEW e \in batch, NEW a, a = e.agent, Takes(e, a),
         UNCHANGED <<m_iConnect, served>>,
         NEW x \in RET_TYPES,
         reported' = [reported EXCEPT ![a] = <<x>>],
         m_is_call_cb' = [m_is_call_cb EXCEPT ![a] = TRUE],
         life' \in [Agents -> {"none", "live", "freed"}],
         m_iConnectTimes' \in [Agents -> -1..MAXRECONNECTTIMES],
         write' \in [Agents -> BOOLEAN], pending' \in [Agents -> BOOLEAN],
         answer' \in [Agents -> BOOLEAN],
         sock' \in [Agents -> {"none", "connecting", "refused", "open", "closed", "reset"}],
         \A b \in Agents \ {a} :
           /\ life'[b] = life[b] /\ m_iConnectTimes'[b] = m_iConnectTimes[b]
           /\ write'[b] = write[b] /\ pending'[b] = pending[b]
           /\ answer'[b] = answer[b] /\ sock'[b] = sock[b],
         ~answer'[a],
         \/ /\ life'[a] = "live" /\ write'[a] = write[a] /\ pending'[a] = pending[a]
            /\ sock'[a] = sock[a]
            /\ m_recycler_agent_list' = Append(m_recycler_agent_list, a)
         \/ /\ life'[a] = "freed" /\ ~write'[a] /\ ~pending'[a] /\ sock'[a] = "none"
            /\ \/ m_recycler_agent_list' = m_recycler_agent_list
               \/ m_recycler_agent_list' = Append(m_recycler_agent_list, a) /\ Endangered(a)'
  PROVE  IInv'
<1>0. /\ a \in Agents /\ life[a] = "live" /\ reported[a] = <<>> /\ a \notin Queued
      /\ polled /\ polled' = polled /\ reset' = reset /\ undefined' = undefined
      /\ batch' \subseteq batch /\ \A f \in batch' : f.agent # a
  BY TakesFacts
<1>a. /\ reported'[a] = <<x>> /\ <<x>> # <<>> /\ Len(<<x>>) = 1 /\ m_is_call_cb'[a] = TRUE
      /\ reported' \in [Agents -> Seq(RET_TYPES)] /\ m_is_call_cb' \in [Agents -> BOOLEAN]
      /\ \A b \in Agents \ {a} : /\ reported'[b] = reported[b]
                               /\ m_is_call_cb'[b] = m_is_call_cb[b]
  <2>1. <<x>> # <<>> /\ Len(<<x>>) = 1 /\ <<x>> \in Seq(RET_TYPES)
    OBVIOUS
  <2>2. reported \in [Agents -> Seq(RET_TYPES)] /\ m_is_call_cb \in [Agents -> BOOLEAN]
    BY DEF IInv, TypeOK
  <2>3. /\ reported'[a] = <<x>> /\ reported' \in [Agents -> Seq(RET_TYPES)]
        /\ \A b \in Agents \ {a} : reported'[b] = reported[b]
    BY <1>0, <2>1, <2>2, OneEntry
  <2>4. /\ m_is_call_cb'[a] = TRUE /\ m_is_call_cb' \in [Agents -> BOOLEAN]
        /\ \A b \in Agents \ {a} : m_is_call_cb'[b] = m_is_call_cb[b]
    BY <1>0, <2>2
  <2>. QED  BY <2>1, <2>3, <2>4
<1>b. /\ m_recycler_agent_list \in Seq(Agents) /\ m_recycler_agent_list' \in Seq(Agents)
      /\ Extends(m_recycler_agent_list', m_recycler_agent_list, a)
         \/ m_recycler_agent_list' = m_recycler_agent_list
  <2>1. m_recycler_agent_list \in Seq(Agents)
    BY DEF IInv, TypeOK
  <2>2. /\ Append(m_recycler_agent_list, a) \in Seq(Agents)
        /\ Extends(Append(m_recycler_agent_list, a), m_recycler_agent_list, a)
    BY <1>0, <2>1, AppendExtends
  <2>3. \/ m_recycler_agent_list' = m_recycler_agent_list
        \/ m_recycler_agent_list' = Append(m_recycler_agent_list, a)
    OBVIOUS
  <2>. QED  BY <2>1, <2>2, <2>3
<1>c. Queued \subseteq Queued' /\ Queued' \subseteq Queued \cup {a}
  BY <1>b DEF Queued, Extends
<1>d. life'[a] = "live" => a \in Queued'
  <2>1. ASSUME life'[a] = "live" PROVE Extends(m_recycler_agent_list', m_recycler_agent_list, a)
    BY <1>0, <1>b, <2>1, AppendExtends
  <2>. QED  BY <2>1 DEF Queued, Extends
<1>1. TypeOK'
  <2>1. \A b \in Agents : pending'[b] \/ write'[b] => life'[b] = "live"
    <3>1. ASSUME NEW b \in Agents, b # a PROVE pending'[b] \/ write'[b] => life'[b] = "live"
      BY <3>1 DEF IInv, TypeOK
    <3>2. pending'[a] \/ write'[a] => life'[a] = "live"
      OBVIOUS
    <3>. QED  BY <3>1, <3>2
  <2>2. \A f \in batch' : life'[f.agent] = "live"
    <3>1. ASSUME NEW f \in batch' PROVE f.agent \in Agents \ {a} /\ life[f.agent] = "live"
      BY <1>0, <3>1, TypedLoop
    <3>2. ASSUME NEW f \in batch' PROVE life'[f.agent] = life[f.agent]
      BY <3>1
    <3>. QED  BY <3>1, <3>2
  <2>3. batch' \subseteq [agent : Agents, flags : SUBSET {"ERR", "OUT", "IN"}]
    BY <1>0, TypedLoop
  <2>4. /\ m_iConnect' \in [Agents -> {"CONNECTING", "CONNECTED"}]
        /\ served' \in [Agents -> BOOLEAN]
        /\ polled' \in BOOLEAN /\ undefined' \in BOOLEAN /\ reset' \subseteq Agents
    BY <1>0, Typed, TypedLoop
  <2>. QED  BY <1>a, <1>b, <2>1, <2>2, <2>3, <2>4 DEF TypeOK
<1>2. OneReport' /\ CalledBack'
  BY <1>a DEF IInv, OneReport, CalledBack
<1>3. WriteArmed'
  <2>1. \A b \in Agents : life[b] = "live" /\ ~Connecting(b) => (pending[b] <=> write[b])
    BY DEF IInv, WriteArmed
  <2>2. m_iConnect' = m_iConnect
    OBVIOUS
  <2>3. life'[a] = "live" /\ ~Connecting(a) => (pending'[a] <=> write'[a])
    BY <1>0, <2>1
  <2>4. ASSUME NEW b \in Agents, b # a
        PROVE  life'[b] = "live" /\ ~Connecting(b) => (pending'[b] <=> write'[b])
    BY <2>1, <2>4
  <2>. QED  BY <2>2, <2>3, <2>4 DEF WriteArmed, Connecting
<1>4. Lifetime'
  <2>1. ASSUME NEW b \in Agents, b # a
        PROVE  /\ life'[b] = "none" => reported'[b] = <<>> /\ m_iConnectTimes'[b] = -1
                                       /\ Connecting(b)'
               /\ life'[b] = "freed" => reported'[b] # <<>>
               /\ life'[b] # "live" => sock'[b] = "none"
    <3>1. /\ m_iConnect' = m_iConnect /\ sock'[b] = sock[b] /\ reported'[b] = reported[b]
          /\ life'[b] = life[b] /\ m_iConnectTimes'[b] = m_iConnectTimes[b]
      BY <1>a, <2>1
    <3>2. /\ life[b] = "none" => reported[b] = <<>> /\ m_iConnectTimes[b] = -1 /\ Connecting(b)
          /\ life[b] = "freed" => reported[b] # <<>>
          /\ life[b] # "live" => sock[b] = "none"
      BY DEF IInv, Lifetime
    <3>. QED  BY <3>1, <3>2 DEF Connecting
  <2>2. life'[a] # "none" /\ reported'[a] # <<>> /\ (life'[a] # "live" => sock'[a] = "none")
    BY <1>a
  <2>. QED  BY <2>1, <2>2 DEF Lifetime
<1>5. Sockets'
  <2>1. ASSUME NEW b \in Agents, b # a
        PROVE  /\ sock'[b] \in {"connecting", "refused"} => Connecting(b)'
               /\ life'[b] = "live" /\ ~Connecting(b)' => sock'[b] \in {"open", "closed", "reset"}
               /\ served'[b] => ~Connecting(b)'
               /\ answer'[b] => life'[b] = "live" /\ served'[b] /\ reported'[b] = <<>>
               /\ sock'[b] = "reset" => b \in reset'
    <3>1. /\ m_iConnect' = m_iConnect /\ sock'[b] = sock[b] /\ served' = served
          /\ life'[b] = life[b] /\ answer'[b] = answer[b] /\ reported'[b] = reported[b]
          /\ reset' = reset
      BY <1>0, <1>a, <2>1
    <3>2. /\ sock[b] \in {"connecting", "refused"} => Connecting(b)
          /\ life[b] = "live" /\ ~Connecting(b) => sock[b] \in {"open", "closed", "reset"}
          /\ served[b] => ~Connecting(b)
          /\ answer[b] => life[b] = "live" /\ served[b] /\ reported[b] = <<>>
          /\ sock[b] = "reset" => b \in reset
      BY DEF IInv, Sockets
    <3>. QED  BY <3>1, <3>2 DEF Connecting
  <2>2. /\ sock'[a] \in {"connecting", "refused"} => Connecting(a)'
        /\ life'[a] = "live" /\ ~Connecting(a)' => sock'[a] \in {"open", "closed", "reset"}
        /\ served'[a] => ~Connecting(a)'
        /\ sock'[a] = "reset" => a \in reset'
    <3>1. /\ sock[a] \in {"connecting", "refused"} => Connecting(a)
          /\ ~Connecting(a) => sock[a] \in {"open", "closed", "reset"}
          /\ served[a] => ~Connecting(a)
          /\ sock[a] = "reset" => a \in reset
      BY <1>0 DEF IInv, Sockets
    <3>2. (sock'[a] = "none" /\ life'[a] = "freed") \/ sock'[a] = sock[a]
      OBVIOUS
    <3>3. m_iConnect' = m_iConnect /\ served' = served /\ reset' = reset
      BY <1>0
    <3>. QED  BY <3>1, <3>2, <3>3 DEF Connecting
  <2>3. ~answer'[a]
    OBVIOUS
  <2>. QED  BY <2>1, <2>2, <2>3 DEF Sockets
<1>6. Events'
  <2>1. \A f \in batch' : /\ f \in batch /\ f.agent \in Agents /\ f.agent # a
                          /\ sock'[f.agent] = sock[f.agent]
                          /\ reported'[f.agent] = reported[f.agent]
    <3>1. \A f \in batch' : f \in batch /\ f.agent \in Agents \ {a}
      BY <1>0, TypedLoop
    <3>. QED  BY <1>a, <3>1
  <2>2. m_iConnect' = m_iConnect /\ reset' = reset /\ polled' /\ batch' \subseteq batch
    BY <1>0
  <2>3. Events
    BY DEF IInv
  <2>4. \A f, g \in batch' : f.agent = g.agent => f = g
    BY <2>2, <2>3 DEF Events
  <2>5. ASSUME NEW f \in batch'
        PROVE  /\ reported'[f.agent] = <<>>
               /\ "ERR" \in f.flags => Connecting(f.agent)' \/ f.agent \in reset'
               /\ "OUT" \in f.flags /\ "ERR" \notin f.flags
                    => sock'[f.agent] \in {"open", "closed", "reset"}
    BY <2>1, <2>2, <2>3, <2>5 DEF Events, Connecting
  <2>. QED  BY <2>2, <2>4, <2>5 DEF Events
<1>7. Queue'
  <2>1. Queued \subseteq Agents
    BY <1>b DEF Queued
  <2>2. \A b \in Queued' : reported'[b] # <<>>
    BY <1>a, <1>c, <2>1 DEF IInv, Queue
  <2>3. \A b \in Agents : life'[b] = "live" /\ reported'[b] # <<>>
                           => b \in Queued' /\ (sock'[b] = "none" \/ polled')
    <3>1. ASSUME NEW b \in Agents, b # a, life'[b] = "live", reported'[b] # <<>>
          PROVE  b \in Queued' /\ (sock'[b] = "none" \/ polled')
      <4>1. /\ life[b] = "live" /\ reported[b] # <<>> /\ sock'[b] = sock[b]
        BY <1>a, <3>1
      <4>. QED  BY <1>0, <1>c, <4>1 DEF IInv, Queue
    <3>. QED  BY <1>0, <1>d, <3>1
  <2>. QED  BY <2>2, <2>3 DEF Queue
<1>8. QueuedOnce'
  <2>1. ASSUME NEW b \in Agents, b # a PROVE Endangered(b)' = Endangered(b)
    <3>1. reported'[b] = reported[b] /\ reset' = reset
      BY <1>0, <1>a, <2>1
    <3>. QED  BY <3>1 DEF Endangered
  <2>2. ASSUME NEW i \in DOMAIN m_recycler_agent_list', NEW b,
               b = m_recycler_agent_list'[i], ~Endangered(b)'
        PROVE  /\ life'[b] = "live"
               /\ \A j \in DOMAIN m_recycler_agent_list' : m_recycler_agent_list'[j] = b => j = i
    <3>1. CASE b # a
      <4>1. i \in DOMAIN m_recycler_agent_list /\ b = m_recycler_agent_list[i] /\ b \in Agents
        BY <1>b, <2>2, <3>1 DEF Extends
      <4>2. ~Endangered(b)
        BY <2>1, <2>2, <3>1, <4>1
      <4>3. /\ life[b] = "live"
            /\ \A j \in DOMAIN m_recycler_agent_list : m_recycler_agent_list[j] = b => j = i
        BY <4>1, <4>2 DEF IInv, QueuedOnce
      <4>. QED  BY <3>1, <4>1, <4>3, <1>b DEF Extends
    <3>2. CASE b = a
      <4>1. \A j \in DOMAIN m_recycler_agent_list : m_recycler_agent_list[j] # a
        BY <1>0 DEF Queued
      <4>2. m_recycler_agent_list' = Append(m_recycler_agent_list, a) /\ life'[a] = "live"
        BY <2>2, <3>2, <4>1
      <4>3. \A j \in DOMAIN m_recycler_agent_list' :
              m_recycler_agent_list'[j] = a => j = Len(m_recycler_agent_list) + 1
        BY <1>0, <1>b, <4>1, <4>2
      <4>. QED  BY <2>2, <3>2, <4>2, <4>3
    <3>. QED  BY <3>1, <3>2
  <2>. QED  BY <2>2 DEF QueuedOnce
<1>. QED  BY <1>1, <1>2, <1>3, <1>4, <1>5, <1>6, <1>7, <1>8 DEF IInv

\* The answer is read: the task hears of it and queues its agent.
LEMMA ReadBackIInv ==
  ASSUME IInv, NEW e \in batch, NEW a, a = e.agent, readBack(e, a) PROVE IInv'
<1>. USE DEF readBack
<1>0. /\ a \in Agents /\ life[a] = "live" /\ reported[a] = <<>> /\ a \notin Queued
      /\ polled /\ polled' = polled /\ reset' = reset /\ undefined' = undefined
      /\ batch' \subseteq batch /\ \A f \in batch' : f.agent # a
  BY TakesFacts
<1>1. /\ m_recycler_agent_list' = Append(m_recycler_agent_list, a)
      /\ reported' = [reported EXCEPT ![a] = <<"SUCCESSFULLY">>]
      /\ m_is_call_cb' = [m_is_call_cb EXCEPT ![a] = TRUE]
  <2>1. <<"SUCCESSFULLY">> # <<>> /\ <<"SUCCESSFULLY">>[1] = "SUCCESSFULLY"
    OBVIOUS
  <2>2. <<>> \o <<"SUCCESSFULLY">> = <<"SUCCESSFULLY">>
    BY ToldOnce
  <2>. QED  BY <1>0, <2>1, <2>2 DEF do_call_back, disposes
<1>2. /\ life \in [Agents -> {"none", "live", "freed"}]
      /\ m_iConnectTimes \in [Agents -> -1..MAXRECONNECTTIMES]
      /\ write \in [Agents -> BOOLEAN] /\ pending \in [Agents -> BOOLEAN]
      /\ sock \in [Agents -> {"none", "connecting", "refused", "open", "closed", "reset"}]
  BY DEF IInv, TypeOK
<1>3. /\ answer' \in [Agents -> BOOLEAN] /\ answer'[a] = FALSE
      /\ \A b \in Agents \ {a} : answer'[b] = answer[b]
  BY <1>0 DEF IInv, TypeOK
<1>4. "SUCCESSFULLY" \in RET_TYPES
  BY DEF RET_TYPES
<1>5. /\ UNCHANGED <<life, m_iConnect, m_iConnectTimes, write, pending, sock, served>>
      /\ Takes(e, a)
  OBVIOUS
<1>. HIDE DEF readBack
<1>. QED  BY <1>0, <1>1, <1>2, <1>3, <1>4, <1>5, HeardIInv

\* An event that ends with recyclerAgent after told: what was told, or that the
\* peer closed.
LEMMA RecycledIInv ==
  ASSUME IInv, NEW e \in batch, NEW a, a = e.agent, Takes(e, a),
         NEW told, told \in {<<>>, <<"SUCCESSFULLY">>, <<"CONNECT_ERROR">>, <<"WRITE_ERROR">>},
         recyclerAgent(a, told),
         told = <<"SUCCESSFULLY">> => a \in reset,
         m_iConnectTimes' \in [Agents -> -1..MAXRECONNECTTIMES],
         \A b \in Agents \ {a} : m_iConnectTimes'[b] = m_iConnectTimes[b]
  PROVE  IInv'
<1>0. /\ a \in Agents /\ life[a] = "live" /\ reported[a] = <<>> /\ a \notin Queued
      /\ reset' = reset
  BY TakesFacts
<1>1. ~m_is_call_cb[a]
  BY <1>0 DEF IInv, CalledBack
<1>. DEFINE x == IF told = <<>> THEN "UNKOWN_ERROR" ELSE told[1]
<1>2. /\ x \in RET_TYPES /\ told \o recycler(a, told) = <<x>>
      /\ x = "SUCCESSFULLY" => a \in reset
  <2>1. CASE told = <<>>
    <3>1. recycler(a, told) = <<"UNKOWN_ERROR">>
      BY <1>1, <2>1 DEF recycler
    <3>. QED  BY <2>1, <3>1, ToldOnce DEF RET_TYPES
  <2>2. ASSUME NEW y \in {"SUCCESSFULLY", "CONNECT_ERROR", "WRITE_ERROR"}, told = <<y>>
        PROVE  /\ x \in RET_TYPES /\ told \o recycler(a, told) = <<x>>
               /\ x = "SUCCESSFULLY" => a \in reset
    <3>1. told # <<>> /\ told[1] = y
      BY <2>2
    <3>2. recycler(a, told) = <<>>
      BY <3>1 DEF recycler
    <3>3. <<y>> \o <<>> = <<y>>
      BY ToldOnce
    <3>4. y = "SUCCESSFULLY" => told = <<"SUCCESSFULLY">>
      BY <2>2
    <3>. QED  BY <2>2, <3>1, <3>2, <3>3, <3>4 DEF RET_TYPES
  <2>. QED  BY <2>1, <2>2
<1>. HIDE DEF x
<1>3. <<x>> # <<>> /\ <<x>>[1] = x
  OBVIOUS
<1>4. /\ reported' = [reported EXCEPT ![a] = <<x>>]
      /\ m_is_call_cb' = [m_is_call_cb EXCEPT ![a] = TRUE]
      /\ m_recycler_agent_list' = IF disposes(a, x) THEN Append(m_recycler_agent_list, a)
                                                    ELSE m_recycler_agent_list
  <2>1. do_call_back(a, <<x>>)
    BY <1>2 DEF recyclerAgent
  <2>2. <<>> \o <<x>> = <<x>>
    BY ToldOnce
  <2>. QED  BY <1>0, <1>3, <2>1, <2>2 DEF do_call_back
<1>5. disposes(a, x) => Endangered(a)'
  <2>1. reported'[a] = <<x>>
    <3>1. reported \in [Agents -> Seq(RET_TYPES)] /\ <<x>> \in Seq(RET_TYPES)
      BY <1>2 DEF IInv, TypeOK
    <3>. QED  BY <1>0, <1>4, <3>1, OneEntry
  <2>2. disposes(a, x) /\ a \notin reset
          => x \in {"CONNECT_ERROR", "WRITE_ERROR"} \/ (x = "UNKOWN_ERROR" /\ a \in Extension)
    BY <1>2, Disposes
  <2>. QED  BY <1>0, <1>3, <2>1, <2>2 DEF Endangered
<1>6. /\ life' = [life EXCEPT ![a] = "freed"]
      /\ write' = [write EXCEPT ![a] = FALSE] /\ pending' = [pending EXCEPT ![a] = FALSE]
      /\ sock' = [sock EXCEPT ![a] = "none"] /\ answer' = [answer EXCEPT ![a] = FALSE]
      /\ UNCHANGED <<m_iConnect, served>>
  BY DEF recyclerAgent, Free
<1>7. /\ life' \in [Agents -> {"none", "live", "freed"}] /\ life'[a] = "freed"
      /\ \A b \in Agents \ {a} : life'[b] = life[b]
  BY <1>0, <1>6 DEF IInv, TypeOK
<1>8. /\ sock' \in [Agents -> {"none", "connecting", "refused", "open", "closed", "reset"}]
      /\ sock'[a] = "none" /\ \A b \in Agents \ {a} : sock'[b] = sock[b]
  BY <1>0, <1>6 DEF IInv, TypeOK
<1>9. /\ write' \in [Agents -> BOOLEAN] /\ pending' \in [Agents -> BOOLEAN]
      /\ answer' \in [Agents -> BOOLEAN] /\ ~write'[a] /\ ~pending'[a] /\ ~answer'[a]
      /\ \A b \in Agents \ {a} : /\ write'[b] = write[b] /\ pending'[b] = pending[b]
                               /\ answer'[b] = answer[b]
  <2>1. /\ write \in [Agents -> BOOLEAN] /\ pending \in [Agents -> BOOLEAN]
        /\ answer \in [Agents -> BOOLEAN]
    BY DEF IInv, TypeOK
  <2>. QED  BY <1>0, <1>6, <2>1
<1>10. x \in RET_TYPES
  BY <1>2
<1>11. /\ m_iConnectTimes' \in [Agents -> -1..MAXRECONNECTTIMES]
       /\ \A b \in Agents \ {a} : m_iConnectTimes'[b] = m_iConnectTimes[b]
  OBVIOUS
<1>12. /\ life'[a] = "freed" /\ ~write'[a] /\ ~pending'[a] /\ sock'[a] = "none"
       /\ \/ m_recycler_agent_list' = m_recycler_agent_list
          \/ m_recycler_agent_list' = Append(m_recycler_agent_list, a) /\ Endangered(a)'
  BY <1>4, <1>5, <1>7, <1>8, <1>9
<1>13. \A b \in Agents \ {a} :
          /\ life'[b] = life[b] /\ m_iConnectTimes'[b] = m_iConnectTimes[b]
          /\ write'[b] = write[b] /\ pending'[b] = pending[b]
          /\ answer'[b] = answer[b] /\ sock'[b] = sock[b]
  BY <1>7, <1>8, <1>9, <1>11
<1>14. UNCHANGED <<m_iConnect, served>>
  BY <1>6
<1>15. /\ reported' = [reported EXCEPT ![a] = <<x>>]
       /\ m_is_call_cb' = [m_is_call_cb EXCEPT ![a] = TRUE]
  BY <1>4
<1>. QED  BY <1>7, <1>8, <1>9, <1>10, <1>11, <1>12, <1>13, <1>14, <1>15, HeardIInv

LEMMA FreeingIInv ==
  ASSUME IInv, NEW e \in batch, NEW a, a = e.agent,
         \/ connectAfterFailed(e, a) \/ sendDataFails(e, a) \/ sendDataAndEnd(e, a)
         \/ recvDataFails(e, a) \/ readBackAndEnd(e, a)
  PROVE  IInv'
<1>1. Takes(e, a)
  BY DEF connectAfterFailed, sendDataFails, sendDataAndEnd, recvDataFails, readBackAndEnd
<1>2. a \in Agents /\ ("ERR" \in e.flags => Connecting(a) \/ a \in reset)
  BY <1>1, TakesFacts
<1>3. PICK told \in {<<>>, <<"SUCCESSFULLY">>, <<"CONNECT_ERROR">>, <<"WRITE_ERROR">>} :
        recyclerAgent(a, told) /\ (told = <<"SUCCESSFULLY">> => a \in reset)
  <2>1. /\ <<"CONNECT_ERROR">> # <<"SUCCESSFULLY">> /\ <<"WRITE_ERROR">> # <<"SUCCESSFULLY">>
        /\ <<>> # <<"SUCCESSFULLY">>
    OBVIOUS
  <2>2. readBackAndEnd(e, a) => recyclerAgent(a, <<"SUCCESSFULLY">>) /\ a \in reset
    BY <1>2 DEF readBackAndEnd
  <2>3. connectAfterFailed(e, a) => recyclerAgent(a, <<"CONNECT_ERROR">>)
    BY DEF connectAfterFailed
  <2>4. sendDataFails(e, a) => recyclerAgent(a, <<"WRITE_ERROR">>)
    BY DEF sendDataFails
  <2>5. sendDataAndEnd(e, a) \/ recvDataFails(e, a) => recyclerAgent(a, <<>>)
    BY DEF sendDataAndEnd, recvDataFails
  <2>. QED  BY <2>1, <2>2, <2>3, <2>4, <2>5
<1>4. /\ m_iConnectTimes' \in [Agents -> -1..MAXRECONNECTTIMES]
      /\ \A b \in Agents \ {a} : m_iConnectTimes'[b] = m_iConnectTimes[b]
  <2>1. m_iConnectTimes \in [Agents -> -1..MAXRECONNECTTIMES] /\ 0 \in -1..MAXRECONNECTTIMES
    BY ConnectionsAssumption DEF IInv, TypeOK
  <2>2. UNCHANGED m_iConnectTimes \/ m_iConnectTimes' = [m_iConnectTimes EXCEPT ![a] = 0]
    BY DEF connectAfterFailed, sendDataFails, sendDataAndEnd, recvDataFails, readBackAndEnd
  <2>. QED  BY <1>2, <2>1, <2>2, OneEntry
<1>. QED  BY <1>1, <1>3, <1>4, RecycledIInv

-----------------------------------------------------------------------------
(* Every step keeps the invariant.                                         *)

LEMMA HandleIInv ==
  ASSUME IInv, NEW e \in batch, Handle(e, e.agent) PROVE IInv'
<1>1. CASE Reconnect(e, e.agent) \/ ReconnectFails(e, e.agent)
  BY <1>1, ReconnectIInv
<1>2. CASE connectAfter(e, e.agent)
  BY <1>2, ConnectAfterIInv
<1>3. CASE sendData(e, e.agent)
  BY <1>3, SendDataIInv
<1>4. CASE readBack(e, e.agent)
  BY <1>4, ReadBackIInv
<1>5. CASE \/ connectAfterFailed(e, e.agent) \/ sendDataFails(e, e.agent)
           \/ sendDataAndEnd(e, e.agent) \/ recvDataFails(e, e.agent)
           \/ readBackAndEnd(e, e.agent)
  BY <1>5, FreeingIInv
<1>. QED  BY <1>1, <1>2, <1>3, <1>4, <1>5 DEF Handle

LEMMA NextIInv ==
  ASSUME IInv, [Next]_vars PROVE IInv'
<1>1. CASE doTask
  BY <1>1, DoTaskIInv
<1>2. CASE epoll_wait
  BY <1>2, EpollWaitIInv
<1>3. ASSUME NEW e \in batch, Handle(e, e.agent) PROVE IInv'
  BY <1>3, HandleIInv
<1>4. ASSUME NEW a \in Agents, create_new_agent(a) PROVE IInv'
  BY <1>4, CreateIInv
<1>5. ASSUME NEW a \in Agents, InitFails(a) PROVE IInv'
  BY <1>5, InitFailsIInv
<1>6. ASSUME NEW a \in Agents, Connects(a) \/ Concludes(a) PROVE IInv'
  BY <1>6, KernelIInv DEF Connects, Concludes
<1>7. CASE UNCHANGED vars
  BY <1>7 DEF vars, agents, kernel, loop, IInv, TypeOK, OneReport, WriteArmed, CalledBack,
              Lifetime, Sockets, Events, Queue, Queued, QueuedOnce, Endangered, Connecting
<1>. QED  BY <1>1, <1>2, <1>3, <1>4, <1>5, <1>6, <1>7 DEF Next, Loop

\* What the loop knows of an agent agrees with its connection and with what its
\* task was told, in every reachable state.
THEOREM ConnectionsInvariant == Spec => []IInv
<1>1. Init => IInv
  BY InitIInv
<1>2. IInv /\ [Next]_vars => IInv'
  BY NextIInv
<1>. QED  BY <1>1, <1>2, PTL DEF Spec

\* Every state of the loop has the types of TypeOK; an agent of which there is an
\* event, a request to write or a write event to come has not been freed.
THEOREM ConnectionsTypes == Spec => []TypeOK
<1>1. IInv => TypeOK
  BY DEF IInv
<1>. QED  BY <1>1, ConnectionsInvariant, PTL

\* do_call_back: however its connection fails, no task is called back twice.
THEOREM ConnectionsOneReport == Spec => []OneReport
<1>1. IInv => OneReport
  BY DEF IInv
<1>. QED  BY <1>1, ConnectionsInvariant, PTL

\* connectAfter and sendData: a request is in the buffer exactly while write
\* events are asked for.
THEOREM ConnectionsWriteArmed == Spec => []WriteArmed
<1>1. IInv => WriteArmed
  BY DEF IInv
<1>. QED  BY <1>1, ConnectionsInvariant, PTL

\* AgentRegister: an agent waits once in the queue, and lives, unless it failed to
\* connect or to write, was reset, or was closed on an ExtentTask.
THEOREM ConnectionsQueuedOnce == Spec => []QueuedOnce
<1>1. IInv => QueuedOnce
  BY DEF IInv
<1>. QED  BY <1>1, ConnectionsInvariant, PTL

\* recycler: no agent is freed of which the task has heard nothing.
THEOREM ConnectionsFreedAfterReport == Spec => FreedAfterReport
<1>1. IInv /\ IInv' /\ [Next]_vars
        => [\A a \in Agents : life[a] = "live" /\ life'[a] = "freed" => reported'[a] # <<>>]_vars
  BY DEF IInv, Lifetime
<1>. QED  BY <1>1, ConnectionsInvariant, PTL DEF FreedAfterReport, Spec

=============================================================================
