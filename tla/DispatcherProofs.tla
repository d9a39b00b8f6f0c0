-------------------------- MODULE DispatcherProofs --------------------------
(***************************************************************************)
(* Proofs about Dispatcher for every set of items and threads and every    *)
(* size of the two pipes: the types, that an item is never in two places,  *)
(* that every hand-over is owed exactly one callback, and that a queued    *)
(* item keeps the write event armed.                                       *)
(***************************************************************************)
EXTENDS Dispatcher, SequenceTheorems, TLAPS

-----------------------------------------------------------------------------
(* Queues.                                                                 *)

\* Appending an element adds it to the set of elements.
LEMMA AppendElements ==
  ASSUME NEW S, NEW s \in Seq(S), NEW e \in S
  PROVE  /\ Append(s, e) \in Seq(S)
         /\ ToSet(Append(s, e)) = ToSet(s) \cup {e}
<1>1. /\ Append(s, e) \in Seq(S)
      /\ DOMAIN Append(s, e) = 1 .. Len(s) + 1
      /\ \A j \in 1 .. Len(s) : Append(s, e)[j] = s[j]
      /\ Append(s, e)[Len(s) + 1] = e
      /\ DOMAIN s = 1 .. Len(s)
      /\ Len(s) \in Nat
  OBVIOUS
<1>2. ToSet(Append(s, e)) \subseteq ToSet(s) \cup {e}
  BY <1>1 DEF ToSet
<1>3. ToSet(s) \subseteq ToSet(Append(s, e))
  <2>. SUFFICES ASSUME NEW j \in 1 .. Len(s)
                PROVE  s[j] \in ToSet(Append(s, e))
    BY <1>1 DEF ToSet
  <2>. QED  BY <1>1 DEF ToSet
<1>4. e \in ToSet(Append(s, e))
  BY <1>1 DEF ToSet
<1>. QED  BY <1>1, <1>2, <1>3, <1>4

\* Appending a new element keeps the elements distinct.
LEMMA AppendDistinct ==
  ASSUME NEW S, NEW s \in Seq(S), NEW e \in S,
         IsInjective(s), e \notin ToSet(s)
  PROVE  IsInjective(Append(s, e))
<1>1. /\ DOMAIN Append(s, e) = 1 .. Len(s) + 1
      /\ \A j \in 1 .. Len(s) : Append(s, e)[j] = s[j]
      /\ Append(s, e)[Len(s) + 1] = e
      /\ DOMAIN s = 1 .. Len(s)
      /\ Len(s) \in Nat
  OBVIOUS
<1>2. \A j \in 1 .. Len(s) : s[j] # e
  BY <1>1 DEF ToSet
<1>. QED  BY <1>1, <1>2 DEF IsInjective

\* Taking the head of a queue of distinct elements removes just that element.
LEMMA TailDistinct ==
  ASSUME NEW S, NEW s \in Seq(S), s # <<>>, IsInjective(s)
  PROVE  /\ Head(s) \in ToSet(s)
         /\ Head(s) \in S
         /\ Tail(s) \in Seq(S)
         /\ IsInjective(Tail(s))
         /\ ToSet(Tail(s)) = ToSet(s) \ {Head(s)}
<1>1. /\ Len(s) \in Nat \ {0}
      /\ DOMAIN s = 1 .. Len(s)
      /\ Head(s) = s[1]
      /\ Head(s) \in S
      /\ Tail(s) \in Seq(S)
      /\ DOMAIN Tail(s) = 1 .. Len(s) - 1
      /\ \A j \in 1 .. Len(s) - 1 : Tail(s)[j] = s[j + 1]
  OBVIOUS
<1>2. Head(s) \in ToSet(s)
  BY <1>1 DEF ToSet
<1>3. IsInjective(Tail(s))
  BY <1>1 DEF IsInjective
<1>4. ToSet(Tail(s)) \subseteq ToSet(s) \ {Head(s)}
  <2>. SUFFICES ASSUME NEW j \in 1 .. Len(s) - 1
                PROVE  s[j + 1] \in ToSet(s) \ {Head(s)}
    BY <1>1 DEF ToSet
  <2>. QED  BY <1>1 DEF ToSet, IsInjective
<1>5. ToSet(s) \ {Head(s)} \subseteq ToSet(Tail(s))
  <2>. SUFFICES ASSUME NEW j \in 1 .. Len(s), s[j] # s[1]
                PROVE  s[j] \in ToSet(Tail(s))
    BY <1>1 DEF ToSet
  <2>1. /\ j - 1 \in 1 .. Len(s) - 1
        /\ Tail(s)[j - 1] = s[j]
    BY <1>1
  <2>. QED  BY <1>1, <2>1 DEF ToSet
<1>. QED  BY <1>1, <1>2, <1>3, <1>4, <1>5

\* The elements of two queues put one behind the other.
LEMMA ConcatElements ==
  ASSUME NEW S, NEW s \in Seq(S), NEW t \in Seq(S)
  PROVE  ToSet(s \o t) = ToSet(s) \cup ToSet(t)
<1>1. /\ s \o t \in Seq(S)
      /\ Len(s \o t) = Len(s) + Len(t)
      /\ \A i \in 1 .. Len(s) + Len(t) :
           (s \o t)[i] = IF i <= Len(s) THEN s[i] ELSE t[i - Len(s)]
  BY ConcatProperties
<1>2. /\ DOMAIN s = 1 .. Len(s) /\ DOMAIN t = 1 .. Len(t)
      /\ DOMAIN (s \o t) = 1 .. Len(s) + Len(t)
      /\ Len(s) \in Nat /\ Len(t) \in Nat
  BY <1>1, LenProperties
<1>3. ToSet(s \o t) \subseteq ToSet(s) \cup ToSet(t)
  <2>. SUFFICES ASSUME NEW i \in 1 .. Len(s) + Len(t)
                PROVE  (s \o t)[i] \in ToSet(s) \cup ToSet(t)
    BY <1>2 DEF ToSet
  <2>1. CASE i <= Len(s)
    BY <1>1, <1>2, <2>1 DEF ToSet
  <2>2. CASE ~(i <= Len(s))
    <3>1. i - Len(s) \in 1 .. Len(t)
      BY <1>2, <2>2
    <3>. QED  BY <1>1, <1>2, <2>2, <3>1 DEF ToSet
  <2>. QED  BY <2>1, <2>2
<1>4. ToSet(s) \subseteq ToSet(s \o t)
  <2>. SUFFICES ASSUME NEW i \in 1 .. Len(s)
                PROVE  s[i] \in ToSet(s \o t)
    BY <1>2 DEF ToSet
  <2>1. i \in 1 .. Len(s) + Len(t) /\ (s \o t)[i] = s[i]
    BY <1>1, <1>2
  <2>. QED  BY <1>2, <2>1 DEF ToSet
<1>5. ToSet(t) \subseteq ToSet(s \o t)
  <2>. SUFFICES ASSUME NEW i \in 1 .. Len(t)
                PROVE  t[i] \in ToSet(s \o t)
    BY <1>2 DEF ToSet
  <2>1. /\ Len(s) + i \in 1 .. Len(s) + Len(t)
        /\ (s \o t)[Len(s) + i] = t[i]
    BY <1>1, <1>2
  <2>. QED  BY <1>2, <2>1 DEF ToSet
<1>. QED  BY <1>3, <1>4, <1>5

\* Appending to the second of two queues appends to the whole.
LEMMA ConcatAppend ==
  ASSUME NEW S, NEW s \in Seq(S), NEW t \in Seq(S), NEW e \in S
  PROVE  s \o Append(t, e) = Append(s \o t, e)
<1>1. /\ s \o t \in Seq(S)
      /\ Len(s \o t) = Len(s) + Len(t)
      /\ \A i \in 1 .. Len(s) + Len(t) :
           (s \o t)[i] = IF i <= Len(s) THEN s[i] ELSE t[i - Len(s)]
  BY ConcatProperties
<1>2. /\ Append(t, e) \in Seq(S)
      /\ Len(Append(t, e)) = Len(t) + 1
      /\ \A i \in 1 .. Len(t) : Append(t, e)[i] = t[i]
      /\ Append(t, e)[Len(t) + 1] = e
      /\ Len(s) \in Nat /\ Len(t) \in Nat
  BY LenProperties
<1>3. /\ s \o Append(t, e) \in Seq(S)
      /\ Len(s \o Append(t, e)) = Len(s) + Len(t) + 1
      /\ \A i \in 1 .. Len(s) + Len(t) + 1 :
           (s \o Append(t, e))[i] =
              IF i <= Len(s) THEN s[i] ELSE Append(t, e)[i - Len(s)]
  BY <1>2, ConcatProperties
<1>4. /\ Append(s \o t, e) \in Seq(S)
      /\ Len(Append(s \o t, e)) = Len(s) + Len(t) + 1
      /\ \A i \in 1 .. Len(s) + Len(t) : Append(s \o t, e)[i] = (s \o t)[i]
      /\ Append(s \o t, e)[Len(s) + Len(t) + 1] = e
  BY <1>1
<1>5. ASSUME NEW i \in 1 .. Len(s) + Len(t) + 1
      PROVE  (s \o Append(t, e))[i] = Append(s \o t, e)[i]
  <2>1. CASE i <= Len(s)
    BY <1>1, <1>2, <1>3, <1>4, <2>1
  <2>2. CASE i > Len(s) /\ i <= Len(s) + Len(t)
    <3>1. i - Len(s) \in 1 .. Len(t) /\ i \in 1 .. Len(s) + Len(t)
      BY <1>2, <2>2
    <3>. QED  BY <1>1, <1>2, <1>3, <1>4, <2>2, <3>1
  <2>3. CASE i = Len(s) + Len(t) + 1
    BY <1>2, <1>3, <1>4, <2>3
  <2>. QED  BY <1>2, <2>1, <2>2, <2>3
<1>. QED  BY <1>3, <1>4, <1>5, SeqEqual

\* Taking the head of the first of two queues takes the head of the whole.
LEMMA ConcatTail ==
  ASSUME NEW S, NEW s \in Seq(S), NEW t \in Seq(S), s # <<>>
  PROVE  /\ s \o t # <<>>
         /\ Head(s \o t) = Head(s)
         /\ Tail(s \o t) = Tail(s) \o t
<1>1. /\ s \o t \in Seq(S)
      /\ Len(s \o t) = Len(s) + Len(t)
      /\ \A i \in 1 .. Len(s) + Len(t) :
           (s \o t)[i] = IF i <= Len(s) THEN s[i] ELSE t[i - Len(s)]
  BY ConcatProperties
<1>2. /\ Len(s) \in Nat \ {0} /\ Len(t) \in Nat
      /\ Head(s) = s[1]
  BY EmptySeq, LenProperties
<1>3. s \o t # <<>> /\ Head(s \o t) = Head(s)
  BY <1>1, <1>2
<1>4. /\ Tail(s) \in Seq(S)
      /\ Len(Tail(s)) = Len(s) - 1
      /\ \A i \in 1 .. Len(Tail(s)) : Tail(s)[i] = s[i + 1]
  BY HeadTailProperties
<1>5. /\ Tail(s \o t) \in Seq(S)
      /\ Len(Tail(s \o t)) = Len(s) + Len(t) - 1
      /\ \A i \in 1 .. Len(Tail(s \o t)) : Tail(s \o t)[i] = (s \o t)[i + 1]
  BY <1>1, <1>3, HeadTailProperties
<1>6. /\ Tail(s) \o t \in Seq(S)
      /\ Len(Tail(s) \o t) = Len(s) - 1 + Len(t)
      /\ \A i \in 1 .. Len(s) - 1 + Len(t) :
           (Tail(s) \o t)[i] =
              IF i <= Len(s) - 1 THEN Tail(s)[i] ELSE t[i - (Len(s) - 1)]
  BY <1>4, ConcatProperties
<1>7. ASSUME NEW i \in 1 .. Len(s) + Len(t) - 1
      PROVE  Tail(s \o t)[i] = (Tail(s) \o t)[i]
  <2>1. CASE i <= Len(s) - 1
    BY <1>1, <1>2, <1>4, <1>5, <1>6, <2>1
  <2>2. CASE ~(i <= Len(s) - 1)
    BY <1>1, <1>2, <1>5, <1>6, <2>2
  <2>. QED  BY <2>1, <2>2
<1>8. Tail(s \o t) = Tail(s) \o t
  BY <1>2, <1>5, <1>6, <1>7, SeqEqual
<1>. QED  BY <1>3, <1>8

\* Moving the head of the second queue to the end of the first moves nothing
\* in the whole.
LEMMA ConcatShift ==
  ASSUME NEW S, NEW s \in Seq(S), NEW t \in Seq(S), t # <<>>
  PROVE  Append(s, Head(t)) \o Tail(t) = s \o t
<1>1. /\ s \o t \in Seq(S)
      /\ Len(s \o t) = Len(s) + Len(t)
      /\ \A i \in 1 .. Len(s) + Len(t) :
           (s \o t)[i] = IF i <= Len(s) THEN s[i] ELSE t[i - Len(s)]
  BY ConcatProperties
<1>2. /\ Len(t) \in Nat \ {0} /\ Len(s) \in Nat
      /\ Head(t) = t[1] /\ Head(t) \in S
      /\ Tail(t) \in Seq(S)
      /\ Len(Tail(t)) = Len(t) - 1
      /\ \A i \in 1 .. Len(Tail(t)) : Tail(t)[i] = t[i + 1]
  BY EmptySeq, LenProperties, HeadTailProperties
<1>3. /\ Append(s, Head(t)) \in Seq(S)
      /\ Len(Append(s, Head(t))) = Len(s) + 1
      /\ \A i \in 1 .. Len(s) : Append(s, Head(t))[i] = s[i]
      /\ Append(s, Head(t))[Len(s) + 1] = Head(t)
  BY <1>2
<1>. DEFINE u == Append(s, Head(t)) \o Tail(t)
<1>4. /\ u \in Seq(S)
      /\ Len(u) = Len(s) + Len(t)
      /\ \A i \in 1 .. Len(s) + Len(t) :
           u[i] = IF i <= Len(s) + 1 THEN Append(s, Head(t))[i]
                                     ELSE Tail(t)[i - (Len(s) + 1)]
  <2>1. Len(s) + 1 + (Len(t) - 1) = Len(s) + Len(t)
    BY <1>2
  <2>. QED  BY <1>2, <1>3, <2>1, ConcatProperties
<1>5. ASSUME NEW i \in 1 .. Len(s) + Len(t)
      PROVE  u[i] = (s \o t)[i]
  <2>. HIDE DEF u
  <2>1. CASE i <= Len(s)
    BY <1>1, <1>2, <1>3, <1>4, <2>1
  <2>2. CASE i = Len(s) + 1
    BY <1>1, <1>2, <1>3, <1>4, <2>2
  <2>3. CASE i > Len(s) + 1
    <3>1. /\ i - (Len(s) + 1) \in 1 .. Len(Tail(t))
          /\ i - (Len(s) + 1) + 1 = i - Len(s)
      BY <1>2, <2>3
    <3>2. Tail(t)[i - (Len(s) + 1)] = t[i - Len(s)]
      BY <1>2, <3>1
    <3>. QED  BY <1>1, <1>2, <1>4, <2>3, <3>2
  <2>. QED  BY <1>2, <2>1, <2>2, <2>3
<1>. HIDE DEF u
<1>6. u = s \o t
  BY <1>1, <1>4, <1>5, SeqEqual
<1>. QED  BY <1>6 DEF u

-----------------------------------------------------------------------------
(* The inductive invariant.                                                *)

\* A thread marks only an item it holds as processed.
ProcessedIsHeld == \A t \in Threads : processed[t] => item[t] # NoItem

\* sendData runs for the write event it was called for, so no second one can
\* outlive the closing of the event.
OneWriteEvent == pc = "send" => "W" \notin ready

\* The inductive invariant.
IInv == /\ TypeOK /\ NoSharing /\ OneAnswerEach /\ WriteArmed
        /\ ProcessedIsHeld /\ OneWriteEvent

-----------------------------------------------------------------------------
\* The places of an item, as sets.
LEMMA NoSharingSets ==
  NoSharing <=>
    /\ IsInjective(m_request_list) /\ IsInjective(main_pipe)
    /\ IsInjective(thread_pipe) /\ IsInjective(m_recv_list)
    /\ \A t, u \in Threads : item[t] = item[u] /\ item[t] # NoItem => t = u
    /\ ToSet(m_request_list) \cap (ToSet(main_pipe) \cup Held
          \cup ToSet(thread_pipe) \cup ToSet(m_recv_list) \cup deleted) = {}
    /\ ToSet(main_pipe) \cap (Held \cup ToSet(thread_pipe)
          \cup ToSet(m_recv_list) \cup deleted) = {}
    /\ Held \cap (ToSet(thread_pipe) \cup ToSet(m_recv_list) \cup deleted) = {}
    /\ ToSet(thread_pipe) \cap (ToSet(m_recv_list) \cup deleted) = {}
    /\ ToSet(m_recv_list) \cap deleted = {}
  BY DEF NoSharing

\* The initial state satisfies the invariant.
LEMMA InitIInv == Init => IInv
<1>. SUFFICES ASSUME Init PROVE IInv
  OBVIOUS
<1>1. /\ ToSet(m_request_list) = {} /\ ToSet(main_pipe) = {}
      /\ ToSet(thread_pipe) = {} /\ ToSet(m_recv_list) = {}
      /\ Held = {}
  BY DEF Init, ToSet, Held
<1>0. writeEvent = [write |-> FALSE, wlock |-> 1]
  <2>1. writeEvent = closeWevent([write |-> TRUE, wlock |-> 0])
    BY DEF Init
  <2>2. [write |-> TRUE, wlock |-> 0].wlock = 0
    OBVIOUS
  <2>. QED  BY <2>1, <2>2 DEF closeWevent
<1>2. TypeOK
  <2>1. writeEvent \in [write : BOOLEAN, wlock : Nat]
    BY <1>0
  <2>2. processed \in [Threads -> BOOLEAN] /\ m_open_write \in BOOLEAN
    BY DEF Init
  <2>. QED  BY <2>1, <2>2 DEF Init, TypeOK
<1>3. NoSharing
  BY <1>1, NoSharingSets DEF Init, IsInjective
<1>4. OneAnswerEach
  BY <1>1 DEF Init, OneAnswerEach, InFlight
<1>5. WriteArmed
  <2>1. writeEvent.write = FALSE /\ writeEvent.wlock = 1
    BY <1>0
  <2>. QED  BY <2>1 DEF Init, WriteArmed
<1>6. ProcessedIsHeld /\ OneWriteEvent
  BY DEF Init, ProcessedIsHeld, OneWriteEvent
<1>. QED  BY <1>2, <1>3, <1>4, <1>5, <1>6 DEF IInv

\* A hand-over of an item at rest keeps the counts, the flags and the
\* places of the other items.
LEMMA SendRequestFacts ==
  ASSUME IInv, NEW i \in Items, send_request(i), i \notin ToSet(m_request_list)
  PROVE  /\ m_request_list' \in Seq(Items)
         /\ IsInjective(m_request_list')
         /\ ToSet(m_request_list') = ToSet(m_request_list) \cup {i}
         /\ m_open_write' = TRUE
         /\ writeEvent' = [write |-> TRUE, wlock |-> 0]
         /\ sent' \in [Items -> Nat]
         /\ sent'[i] = sent[i] + 1
         /\ \A j \in Items \ {i} : sent'[j] = sent[j]
<1>1. /\ m_request_list \in Seq(Items) /\ IsInjective(m_request_list)
      /\ sent \in [Items -> Nat]
  BY NoSharingSets DEF IInv, TypeOK
<1>2. m_request_list' = Append(m_request_list, i)
  BY DEF send_request
<1>3. /\ m_request_list' \in Seq(Items)
      /\ IsInjective(m_request_list')
      /\ ToSet(m_request_list') = ToSet(m_request_list) \cup {i}
  BY <1>1, <1>2, AppendElements, AppendDistinct
<1>4. /\ m_open_write' = TRUE
      /\ writeEvent' = [write |-> TRUE, wlock |-> 0]
  <2>1. /\ writeEvent \in [write : BOOLEAN, wlock : Nat]
        /\ writeEvent.write = m_open_write
        /\ writeEvent.wlock = (IF m_open_write THEN 0 ELSE 1)
        /\ m_open_write \in BOOLEAN
    BY DEF IInv, TypeOK, WriteArmed
  <2>2. CASE m_open_write
    BY <2>1, <2>2 DEF send_request
  <2>3. CASE ~m_open_write
    BY <2>1, <2>3 DEF send_request, openWevent
  <2>. QED  BY <2>1, <2>2, <2>3
<1>5. /\ sent' \in [Items -> Nat]
      /\ sent'[i] = sent[i] + 1
      /\ \A j \in Items \ {i} : sent'[j] = sent[j]
  BY <1>1 DEF send_request
<1>. QED  BY <1>3, <1>4, <1>5

-----------------------------------------------------------------------------
\* A hand-over from the handler of another socket.
LEMMA OtherEventStep ==
  ASSUME IInv, NEW i \in Items, OtherEvent(i)
  PROVE  IInv'
<1>1. /\ i \notin InFlight \cup deleted
      /\ send_request(i)
      /\ UNCHANGED <<pc, ready, m_recv_list, main_pipe, thread_pipe,
                     item, processed, deleted, answered>>
  BY DEF OtherEvent, threadVars
<1>2. /\ m_request_list' \in Seq(Items)
      /\ IsInjective(m_request_list')
      /\ ToSet(m_request_list') = ToSet(m_request_list) \cup {i}
      /\ m_open_write' = TRUE
      /\ writeEvent' = [write |-> TRUE, wlock |-> 0]
      /\ sent' \in [Items -> Nat]
      /\ sent'[i] = sent[i] + 1
      /\ \A j \in Items \ {i} : sent'[j] = sent[j]
  BY <1>1, SendRequestFacts DEF InFlight
<1>3. Held' = Held
  BY <1>1 DEF Held
<1>4. TypeOK'
  BY <1>1, <1>2 DEF IInv, TypeOK
<1>5. NoSharing'
  BY <1>1, <1>2, <1>3 DEF IInv, NoSharing, InFlight
<1>6. InFlight' = InFlight \cup {i}
  BY <1>1, <1>2, <1>3 DEF InFlight
<1>7. OneAnswerEach'
  BY <1>1, <1>2, <1>6 DEF IInv, OneAnswerEach, TypeOK
<1>8. WriteArmed' /\ ProcessedIsHeld' /\ OneWriteEvent'
  BY <1>1, <1>2 DEF IInv, WriteArmed, ProcessedIsHeld, OneWriteEvent
<1>. QED  BY <1>4, <1>5, <1>7, <1>8 DEF IInv

\* epoll_wait and the switch to one of the two handlers move no item.
LEMMA EventsStep ==
  ASSUME IInv, EpollWait \/ StartRecv \/ StartSend
  PROVE  IInv'
<1>1. UNCHANGED <<m_request_list, m_open_write, writeEvent, m_recv_list,
                  main_pipe, thread_pipe, item, processed, deleted,
                  sent, answered>>
  BY DEF EpollWait, StartRecv, StartSend, Handle, threadVars, history
<1>2. /\ pc' \in {"events", "recv", "callback", "send"}
      /\ ready' \subseteq {"R", "W"}
      /\ pc' = "send" \/ "W" \in ready' => m_open_write
      /\ pc' = "send" => "W" \notin ready'
  BY DEF EpollWait, StartRecv, StartSend, Handle, IInv, TypeOK, WriteArmed
<1>3. TypeOK'
  BY <1>1, <1>2 DEF IInv, TypeOK
<1>4. Held' = Held
  BY <1>1 DEF Held
<1>5. NoSharing'
  BY <1>1, <1>4 DEF IInv, NoSharing
<1>6. OneAnswerEach'
  BY <1>1, <1>4 DEF IInv, OneAnswerEach, InFlight
<1>7. WriteArmed' /\ ProcessedIsHeld' /\ OneWriteEvent'
  BY <1>1, <1>2 DEF IInv, WriteArmed, ProcessedIsHeld, OneWriteEvent
<1>. QED  BY <1>3, <1>5, <1>6, <1>7 DEF IInv

\* recvData moves one item from the pipe to the received list.
LEMMA RecvOneStep ==
  ASSUME IInv, RecvOne
  PROVE  IInv'
<1>. DEFINE i == Head(thread_pipe)
<1>1. /\ thread_pipe # <<>>
      /\ m_recv_list' = Append(m_recv_list, i)
      /\ thread_pipe' = Tail(thread_pipe)
      /\ UNCHANGED <<pc, ready, m_request_list, m_open_write, writeEvent,
                     main_pipe, item, processed, deleted, sent, answered>>
  BY DEF RecvOne, threadVars, history
<1>2. /\ thread_pipe \in Seq(Items) /\ IsInjective(thread_pipe)
      /\ m_recv_list \in Seq(Items) /\ IsInjective(m_recv_list)
      /\ ToSet(thread_pipe) \cap ToSet(m_recv_list) = {}
  BY DEF IInv, TypeOK, NoSharing
<1>3. /\ i \in ToSet(thread_pipe)
      /\ i \in Items
      /\ thread_pipe' \in Seq(Items)
      /\ IsInjective(thread_pipe')
      /\ ToSet(thread_pipe') = ToSet(thread_pipe) \ {i}
  BY <1>1, <1>2, TailDistinct
<1>4. /\ m_recv_list' \in Seq(Items)
      /\ IsInjective(m_recv_list')
      /\ ToSet(m_recv_list') = ToSet(m_recv_list) \cup {i}
  BY <1>1, <1>2, <1>3, AppendElements, AppendDistinct
<1>5. Held' = Held
  BY <1>1 DEF Held
<1>6. TypeOK'
  BY <1>1, <1>3, <1>4 DEF IInv, TypeOK
<1>7. NoSharing'
  BY <1>1, <1>3, <1>4, <1>5 DEF IInv, NoSharing
<1>8. InFlight' = InFlight
  BY <1>1, <1>3, <1>4, <1>5 DEF InFlight
<1>9. OneAnswerEach'
  BY <1>1, <1>8 DEF IInv, OneAnswerEach
<1>10. WriteArmed' /\ ProcessedIsHeld' /\ OneWriteEvent'
  BY <1>1 DEF IInv, WriteArmed, ProcessedIsHeld, OneWriteEvent
<1>. QED  BY <1>6, <1>7, <1>9, <1>10 DEF IInv

\* The loops of recvData, of the callbacks and of sendData end; only the end
\* of sendData with an empty list closes the write event.
LEMMA LoopEndStep ==
  ASSUME IInv, RecvAgain \/ CallbacksDone \/ SendAgain
  PROVE  IInv'
<1>1. /\ UNCHANGED <<ready, m_request_list, m_open_write, writeEvent,
                     m_recv_list, main_pipe, thread_pipe, item, processed,
                     deleted, sent, answered>>
      /\ pc' \in {"callback", "events"}
  BY DEF RecvAgain, CallbacksDone, SendAgain, threadVars, history
<1>2. Held' = Held
  BY <1>1 DEF Held
<1>3. TypeOK' /\ NoSharing' /\ OneAnswerEach'
  BY <1>1, <1>2 DEF IInv, TypeOK, NoSharing, OneAnswerEach, InFlight
<1>4. WriteArmed' /\ ProcessedIsHeld' /\ OneWriteEvent'
  BY <1>1 DEF IInv, WriteArmed, ProcessedIsHeld, OneWriteEvent
<1>. QED  BY <1>3, <1>4 DEF IInv

LEMMA SendDoneStep ==
  ASSUME IInv, SendDone
  PROVE  IInv'
<1>1. /\ m_request_list = <<>>
      /\ writeEvent' = closeWevent(writeEvent)
      /\ m_open_write' = FALSE
      /\ pc = "send" /\ pc' = "events"
      /\ UNCHANGED <<ready, m_request_list, m_recv_list, main_pipe,
                     thread_pipe, item, processed, deleted, sent, answered>>
  BY DEF SendDone, threadVars, history
<1>2. writeEvent' = [write |-> FALSE, wlock |-> 1]
  BY <1>1 DEF IInv, WriteArmed, closeWevent
<1>6. /\ writeEvent' \in [write : BOOLEAN, wlock : Nat]
      /\ writeEvent'.write = FALSE /\ writeEvent'.wlock = 1
      /\ m_open_write' \in BOOLEAN
  <2>1. m_open_write' \in BOOLEAN
    BY <1>1
  <2>. QED  BY <1>2, <2>1
<1>3. Held' = Held
  BY <1>1 DEF Held
<1>4. TypeOK' /\ NoSharing' /\ OneAnswerEach'
  BY <1>1, <1>6, <1>3 DEF IInv, TypeOK, NoSharing, OneAnswerEach, InFlight
<1>5. WriteArmed' /\ ProcessedIsHeld' /\ OneWriteEvent'
  BY <1>1, <1>6 DEF IInv, WriteArmed, ProcessedIsHeld, OneWriteEvent
<1>. QED  BY <1>4, <1>5 DEF IInv

\* sendData moves the oldest queued item into the pipe.
LEMMA SendOneStep ==
  ASSUME IInv, SendOne
  PROVE  IInv'
<1>. DEFINE i == Head(m_request_list)
<1>1. /\ m_request_list # <<>>
      /\ main_pipe' = Append(main_pipe, i)
      /\ m_request_list' = Tail(m_request_list)
      /\ UNCHANGED <<pc, ready, m_open_write, writeEvent, m_recv_list,
                     thread_pipe, item, processed, deleted, sent, answered>>
  BY DEF SendOne, threadVars, history
<1>2. /\ m_request_list \in Seq(Items) /\ IsInjective(m_request_list)
      /\ main_pipe \in Seq(Items) /\ IsInjective(main_pipe)
      /\ ToSet(m_request_list) \cap ToSet(main_pipe) = {}
  BY DEF IInv, TypeOK, NoSharing
<1>3. /\ i \in ToSet(m_request_list)
      /\ i \in Items
      /\ m_request_list' \in Seq(Items)
      /\ IsInjective(m_request_list')
      /\ ToSet(m_request_list') = ToSet(m_request_list) \ {i}
  BY <1>1, <1>2, TailDistinct
<1>4. /\ main_pipe' \in Seq(Items)
      /\ IsInjective(main_pipe')
      /\ ToSet(main_pipe') = ToSet(main_pipe) \cup {i}
  BY <1>1, <1>2, <1>3, AppendElements, AppendDistinct
<1>5. Held' = Held
  BY <1>1 DEF Held
<1>6. TypeOK'
  BY <1>1, <1>3, <1>4 DEF IInv, TypeOK
<1>7. NoSharing'
  BY <1>1, <1>3, <1>4, <1>5 DEF IInv, NoSharing
<1>8. InFlight' = InFlight
  BY <1>1, <1>3, <1>4, <1>5 DEF InFlight
<1>9. OneAnswerEach'
  BY <1>1, <1>8 DEF IInv, OneAnswerEach
<1>10. WriteArmed' /\ ProcessedIsHeld' /\ OneWriteEvent'
  BY <1>1 DEF IInv, WriteArmed, ProcessedIsHeld, OneWriteEvent
<1>. QED  BY <1>6, <1>7, <1>9, <1>10 DEF IInv

\* A callback answers one hand-over, and may make the next.
LEMMA CallbackStep ==
  ASSUME IInv, Callback
  PROVE  IInv'
<1>. DEFINE i == Head(m_recv_list)
<1>1. /\ m_recv_list # <<>>
      /\ m_recv_list' = Tail(m_recv_list)
      /\ answered' = [answered EXCEPT ![i] = @ + 1]
      /\ UNCHANGED <<pc, ready, main_pipe, thread_pipe, item, processed>>
  BY DEF Callback, threadVars
<1>2. /\ m_recv_list \in Seq(Items) /\ IsInjective(m_recv_list)
      /\ answered \in [Items -> Nat] /\ sent \in [Items -> Nat]
  BY DEF IInv, TypeOK, NoSharing
<1>3. /\ i \in ToSet(m_recv_list)
      /\ i \in Items
      /\ m_recv_list' \in Seq(Items)
      /\ IsInjective(m_recv_list')
      /\ ToSet(m_recv_list') = ToSet(m_recv_list) \ {i}
  BY <1>1, <1>2, TailDistinct
<1>4. /\ Held' = Held
      /\ answered' \in [Items -> Nat]
      /\ answered'[i] = answered[i] + 1
      /\ \A j \in Items \ {i} : answered'[j] = answered[j]
  BY <1>1, <1>2, <1>3 DEF Held
<1>5. /\ i \notin ToSet(m_request_list) \cup ToSet(main_pipe) \cup Held
                    \cup ToSet(thread_pipe) \cup deleted
      /\ sent[i] = answered[i] + 1
      /\ i \in InFlight
  BY <1>3 DEF IInv, NoSharing, OneAnswerEach, InFlight
<1>6. CASE UNCHANGED <<m_request_list, m_open_write, writeEvent, sent>>
           /\ deleted' \in {deleted, deleted \cup {i}}
  <2>1. TypeOK'
    BY <1>1, <1>3, <1>4, <1>6 DEF IInv, TypeOK
  <2>2. NoSharing'
    BY <1>1, <1>3, <1>4, <1>5, <1>6 DEF IInv, NoSharing
  <2>3. InFlight' = InFlight \ {i}
    BY <1>1, <1>3, <1>4, <1>5, <1>6 DEF InFlight
  <2>4. OneAnswerEach'
    BY <1>2, <1>4, <1>5, <1>6, <2>3 DEF IInv, OneAnswerEach
  <2>5. WriteArmed' /\ ProcessedIsHeld' /\ OneWriteEvent'
    BY <1>1, <1>6 DEF IInv, WriteArmed, ProcessedIsHeld, OneWriteEvent
  <2>. QED  BY <2>1, <2>2, <2>4, <2>5 DEF IInv
<1>7. CASE send_request(i) /\ UNCHANGED deleted
  <2>1. /\ m_request_list' \in Seq(Items)
        /\ IsInjective(m_request_list')
        /\ ToSet(m_request_list') = ToSet(m_request_list) \cup {i}
        /\ m_open_write' = TRUE
        /\ writeEvent' = [write |-> TRUE, wlock |-> 0]
        /\ sent' \in [Items -> Nat]
        /\ sent'[i] = sent[i] + 1
        /\ \A j \in Items \ {i} : sent'[j] = sent[j]
    BY <1>3, <1>5, <1>7, SendRequestFacts
  <2>2. TypeOK'
    BY <1>1, <1>3, <1>4, <1>7, <2>1 DEF IInv, TypeOK
  <2>3. NoSharing'
    BY <1>1, <1>3, <1>4, <1>5, <1>7, <2>1 DEF IInv, NoSharing
  <2>4. InFlight' = InFlight
    BY <1>1, <1>3, <1>4, <2>1 DEF InFlight
  <2>5. OneAnswerEach'
    BY <1>2, <1>3, <1>4, <1>5, <2>1, <2>4 DEF IInv, OneAnswerEach
  <2>6. WriteArmed' /\ ProcessedIsHeld' /\ OneWriteEvent'
    BY <1>1, <2>1 DEF IInv, WriteArmed, ProcessedIsHeld, OneWriteEvent
  <2>. QED  BY <2>2, <2>3, <2>5, <2>6 DEF IInv
<1>. QED  BY <1>6, <1>7 DEF Callback

-----------------------------------------------------------------------------
\* A thread takes the oldest item out of the pipe.
LEMMA TakeStep ==
  ASSUME IInv, NEW t \in Threads, Take(t)
  PROVE  IInv'
<1>. DEFINE i == Head(main_pipe)
<1>1. /\ item[t] = NoItem
      /\ main_pipe # <<>>
      /\ item' = [item EXCEPT ![t] = i]
      /\ main_pipe' = Tail(main_pipe)
      /\ UNCHANGED <<pc, ready, m_request_list, m_open_write, writeEvent,
                     m_recv_list, thread_pipe, processed, deleted, sent,
                     answered>>
  BY DEF Take, mainVars, history
<1>2. /\ main_pipe \in Seq(Items) /\ IsInjective(main_pipe)
      /\ item \in [Threads -> Items \cup {NoItem}]
      /\ ToSet(main_pipe) \cap Held = {}
  BY DEF IInv, TypeOK, NoSharing
<1>3. /\ i \in ToSet(main_pipe)
      /\ i \in Items
      /\ main_pipe' \in Seq(Items)
      /\ IsInjective(main_pipe')
      /\ ToSet(main_pipe') = ToSet(main_pipe) \ {i}
  BY <1>1, <1>2, TailDistinct
<1>4. /\ item' \in [Threads -> Items \cup {NoItem}]
      /\ item'[t] = i
      /\ \A u \in Threads \ {t} : item'[u] = item[u]
      /\ i # NoItem
      /\ i \notin Held
  BY <1>1, <1>2, <1>3, DispatcherAssumption DEF DispatcherAssumption
<1>5. Held' = Held \cup {i}
  BY <1>1, <1>4 DEF Held
<1>6. \A u, v \in Threads :
        item'[u] = item'[v] /\ item'[u] # NoItem => u = v
  BY <1>4 DEF IInv, NoSharing, Held
<1>7. TypeOK'
  BY <1>1, <1>3, <1>4 DEF IInv, TypeOK
<1>8. NoSharing'
  BY <1>1, <1>3, <1>5, <1>6 DEF IInv, NoSharing
<1>9. InFlight' = InFlight
  BY <1>1, <1>3, <1>5 DEF InFlight
<1>10. OneAnswerEach'
  BY <1>1, <1>9 DEF IInv, OneAnswerEach
<1>11. WriteArmed' /\ ProcessedIsHeld' /\ OneWriteEvent'
  BY <1>1, <1>4 DEF IInv, WriteArmed, ProcessedIsHeld, OneWriteEvent
<1>. QED  BY <1>7, <1>8, <1>10, <1>11 DEF IInv

\* Processing an item moves it nowhere.
LEMMA ProcessStep ==
  ASSUME IInv, NEW t \in Threads, Process(t)
  PROVE  IInv'
<1>1. /\ item[t] # NoItem
      /\ processed' = [processed EXCEPT ![t] = TRUE]
      /\ UNCHANGED <<pc, ready, m_request_list, m_open_write, writeEvent,
                     m_recv_list, main_pipe, thread_pipe, item, deleted, sent,
                     answered>>
  BY DEF Process, mainVars, history
<1>2. Held' = Held
  BY <1>1 DEF Held
<1>3. processed' \in [Threads -> BOOLEAN]
  BY <1>1 DEF IInv, TypeOK
<1>4. TypeOK' /\ NoSharing' /\ OneAnswerEach'
  BY <1>1, <1>2, <1>3 DEF IInv, TypeOK, NoSharing, OneAnswerEach, InFlight
<1>5. ProcessedIsHeld'
  BY <1>1 DEF IInv, TypeOK, ProcessedIsHeld
<1>6. WriteArmed' /\ OneWriteEvent'
  BY <1>1 DEF IInv, WriteArmed, OneWriteEvent
<1>. QED  BY <1>4, <1>5, <1>6 DEF IInv

\* A thread writes its item to the pipe back and is free again.
LEMMA PostStep ==
  ASSUME IInv, NEW t \in Threads, Post(t)
  PROVE  IInv'
<1>. DEFINE i == item[t]
<1>1. /\ processed[t]
      /\ thread_pipe' = Append(thread_pipe, i)
      /\ item' = [item EXCEPT ![t] = NoItem]
      /\ processed' = [processed EXCEPT ![t] = FALSE]
      /\ UNCHANGED <<pc, ready, m_request_list, m_open_write, writeEvent,
                     m_recv_list, main_pipe, deleted, sent, answered>>
  BY DEF Post, mainVars, history
<1>2. /\ thread_pipe \in Seq(Items) /\ IsInjective(thread_pipe)
      /\ item \in [Threads -> Items \cup {NoItem}]
      /\ processed \in [Threads -> BOOLEAN]
      /\ ToSet(thread_pipe) \cap Held = {}
      /\ i # NoItem
  BY <1>1 DEF IInv, TypeOK, NoSharing, ProcessedIsHeld
<1>3. i \in Items /\ i \in Held
  BY <1>2 DEF Held
<1>4. /\ thread_pipe' \in Seq(Items)
      /\ IsInjective(thread_pipe')
      /\ ToSet(thread_pipe') = ToSet(thread_pipe) \cup {i}
  BY <1>1, <1>2, <1>3, AppendElements, AppendDistinct
<1>5. /\ item' \in [Threads -> Items \cup {NoItem}]
      /\ item'[t] = NoItem
      /\ \A u \in Threads \ {t} : item'[u] = item[u] /\ item[u] # i
      /\ processed' \in [Threads -> BOOLEAN]
      /\ \A u \in Threads : processed'[u] = (IF u = t THEN FALSE ELSE processed[u])
  BY <1>1, <1>2 DEF IInv, NoSharing
<1>6. Held' = Held \ {i}
  BY <1>5 DEF Held
<1>7. \A u, v \in Threads :
        item'[u] = item'[v] /\ item'[u] # NoItem => u = v
  BY <1>5 DEF IInv, NoSharing
<1>8. TypeOK'
  BY <1>1, <1>4, <1>5 DEF IInv, TypeOK
<1>9. NoSharing'
  BY <1>1, <1>3, <1>4, <1>6, <1>7 DEF IInv, NoSharing
<1>10. InFlight' = InFlight
  BY <1>1, <1>3, <1>4, <1>6 DEF InFlight
<1>11. OneAnswerEach'
  BY <1>1, <1>10 DEF IInv, OneAnswerEach
<1>12. ProcessedIsHeld'
  BY <1>1, <1>5 DEF IInv, ProcessedIsHeld
<1>13. WriteArmed' /\ OneWriteEvent'
  BY <1>1 DEF IInv, WriteArmed, OneWriteEvent
<1>. QED  BY <1>8, <1>9, <1>11, <1>12, <1>13 DEF IInv

-----------------------------------------------------------------------------
\* Every step keeps the invariant.
LEMMA NextIInv == IInv /\ [Next]_vars => IInv'
<1>. SUFFICES ASSUME IInv, [Next]_vars PROVE IInv'
  OBVIOUS
<1>1. CASE UNCHANGED vars
  <2>1. UNCHANGED <<pc, ready, m_request_list, m_open_write, writeEvent,
                    m_recv_list, main_pipe, thread_pipe, item, processed,
                    deleted, sent, answered>>
    BY <1>1 DEF vars, mainVars, threadVars, history
  <2>2. Held' = Held
    BY <2>1 DEF Held
  <2>. QED
    BY <2>1, <2>2 DEF IInv, TypeOK, NoSharing, OneAnswerEach, InFlight,
                      WriteArmed, ProcessedIsHeld, OneWriteEvent
<1>2. CASE EpollWait \/ StartRecv \/ StartSend
  BY <1>2, EventsStep
<1>3. CASE RecvOne
  BY <1>3, RecvOneStep
<1>4. CASE RecvAgain \/ CallbacksDone \/ SendAgain
  BY <1>4, LoopEndStep
<1>5. CASE Callback
  BY <1>5, CallbackStep
<1>6. CASE SendOne
  BY <1>6, SendOneStep
<1>7. CASE SendDone
  BY <1>7, SendDoneStep
<1>8. CASE \E i \in Items : OtherEvent(i)
  BY <1>8, OtherEventStep
<1>9. CASE \E t \in Threads : Thread(t)
  BY <1>9, TakeStep, ProcessStep, PostStep DEF Thread
<1>. QED
  BY <1>1, <1>2, <1>3, <1>4, <1>5, <1>6, <1>7, <1>8, <1>9 DEF Next, Main

\* The invariant holds in every reachable state of the pool.
THEOREM DispatcherInvariant == Spec => []IInv
<1>1. Init => IInv
  BY InitIInv
<1>2. IInv /\ [Next]_vars => IInv'
  BY NextIInv
<1>. QED  BY <1>1, <1>2, PTL DEF Spec

\* Type correctness of the dispatcher, for every instance.
THEOREM DispatcherTypes == Spec => []TypeOK
<1>1. IInv => TypeOK
  BY DEF IInv
<1>. QED  BY <1>1, DispatcherInvariant, PTL

\* The pointers in the pipes, lists and threads are never shared, for every
\* number of items and threads and every pipe size.
THEOREM DispatcherNoSharing == Spec => []NoSharing
<1>1. IInv => NoSharing
  BY DEF IInv
<1>. QED  BY <1>1, DispatcherInvariant, PTL

\* A work item in flight owes its task exactly one callback.
THEOREM DispatcherOneAnswerEach == Spec => []OneAnswerEach
<1>1. IInv => OneAnswerEach
  BY DEF IInv
<1>. QED  BY <1>1, DispatcherInvariant, PTL

\* A queued request keeps the write event armed.
THEOREM DispatcherWriteArmed == Spec => []WriteArmed
<1>1. IInv => WriteArmed
  BY DEF IInv
<1>. QED  BY <1>1, DispatcherInvariant, PTL

-----------------------------------------------------------------------------
(* Refinement: every step of the pipes and threads is a step of WorkQueue  *)
(* or changes nothing there.                                               *)

\* The items of the abstract pool that are in flight are those of the pipes.
LEMMA SameInFlight ==
  ASSUME TypeOK
  PROVE  Pool!InFlight = InFlight
<1>1. ToSet(main_pipe \o m_request_list) = ToSet(main_pipe) \cup ToSet(m_request_list)
  BY ConcatElements DEF TypeOK
<1>2. ToSet(m_recv_list \o thread_pipe) = ToSet(m_recv_list) \cup ToSet(thread_pipe)
  BY ConcatElements DEF TypeOK
<1>. QED  BY <1>1, <1>2 DEF Pool!InFlight, Pool!ToSet, ToSet, InFlight

\* A step that leaves the abstract pool alone.
LEMMA PoolStutter ==
  ASSUME main_pipe' \o m_request_list' = main_pipe \o m_request_list,
         m_recv_list' \o thread_pipe' = m_recv_list \o thread_pipe,
         UNCHANGED <<item, deleted, sent>>
  PROVE  UNCHANGED Pool!vars
  BY DEF Pool!vars, Held

\* Every step of the dispatcher is a step of the abstract pool or none.
LEMMA PoolStep ==
  ASSUME IInv, [Next]_vars
  PROVE  [Pool!Next]_(Pool!vars)
<1>. USE DEF IInv
<1>1. CASE \/ UNCHANGED vars
           \/ EpollWait \/ StartRecv \/ StartSend
           \/ RecvAgain \/ CallbacksDone \/ SendAgain \/ SendDone
           \/ \E t \in Threads : Process(t)
  <2>1. UNCHANGED <<m_request_list, m_recv_list, main_pipe, thread_pipe, item,
                    deleted, sent>>
    BY <1>1 DEF vars, mainVars, threadVars, history, EpollWait, StartRecv,
                StartSend, Handle, RecvAgain, CallbacksDone, SendAgain,
                SendDone, Process
  <2>. QED  BY <2>1, PoolStutter
<1>2. CASE RecvOne
  <2>1. m_recv_list' \o thread_pipe' = m_recv_list \o thread_pipe
    <3>1. /\ thread_pipe # <<>>
          /\ m_recv_list' = Append(m_recv_list, Head(thread_pipe))
          /\ thread_pipe' = Tail(thread_pipe)
      BY <1>2 DEF RecvOne
    <3>2. m_recv_list \in Seq(Items) /\ thread_pipe \in Seq(Items)
      BY DEF TypeOK
    <3>. QED  BY <3>1, <3>2, ConcatShift
  <2>2. UNCHANGED <<m_request_list, main_pipe, item, deleted, sent>>
    BY <1>2 DEF RecvOne, threadVars, history
  <2>. QED  BY <2>1, <2>2, PoolStutter
<1>3. CASE SendOne
  <2>1. main_pipe' \o m_request_list' = main_pipe \o m_request_list
    <3>1. /\ m_request_list # <<>>
          /\ main_pipe' = Append(main_pipe, Head(m_request_list))
          /\ m_request_list' = Tail(m_request_list)
      BY <1>3 DEF SendOne
    <3>2. main_pipe \in Seq(Items) /\ m_request_list \in Seq(Items)
      BY DEF TypeOK
    <3>. QED  BY <3>1, <3>2, ConcatShift
  <2>2. UNCHANGED <<m_recv_list, thread_pipe, item, deleted, sent>>
    BY <1>3 DEF SendOne, threadVars, history
  <2>. QED  BY <2>1, <2>2, PoolStutter
<1>4. ASSUME NEW i \in Items, OtherEvent(i)
      PROVE  Pool!Submit(i)
  <2>1. /\ send_request(i)
        /\ i \notin InFlight \cup deleted
        /\ UNCHANGED <<m_recv_list, main_pipe, thread_pipe, item, deleted>>
    BY <1>4 DEF OtherEvent, threadVars
  <2>2. main_pipe' \o m_request_list' = Append(main_pipe \o m_request_list, i)
    <3>1. main_pipe' = main_pipe /\ m_request_list' = Append(m_request_list, i)
      BY <2>1 DEF send_request
    <3>2. main_pipe \in Seq(Items) /\ m_request_list \in Seq(Items)
      BY DEF TypeOK
    <3>. QED  BY <3>1, <3>2, ConcatAppend
  <2>3. Held' = Held
    BY <2>1 DEF Held
  <2>. QED
    BY <2>1, <2>2, <2>3, SameInFlight DEF Pool!Submit, send_request
<1>5. CASE Callback
  <2>. DEFINE i == Head(m_recv_list)
  <2>1. /\ m_recv_list # <<>>
        /\ m_recv_list' = Tail(m_recv_list)
        /\ UNCHANGED <<main_pipe, thread_pipe, item>>
    BY <1>5 DEF Callback, threadVars
  <2>2. /\ m_recv_list \o thread_pipe # <<>>
        /\ Head(m_recv_list \o thread_pipe) = i
        /\ m_recv_list' \o thread_pipe' = Tail(m_recv_list \o thread_pipe)
    <3>1. m_recv_list \in Seq(Items) /\ thread_pipe \in Seq(Items)
      BY DEF TypeOK
    <3>2. m_recv_list' = Tail(m_recv_list) /\ thread_pipe' = thread_pipe
      BY <2>1
    <3>. QED  BY <2>1, <3>1, <3>2, ConcatTail
  <2>3. Held' = Held
    BY <2>1 DEF Held
  <2>4. CASE UNCHANGED <<m_request_list, sent>>
             /\ deleted' \in {deleted, deleted \cup {i}}
    BY <2>1, <2>2, <2>3, <2>4 DEF Pool!Next, Pool!Answer
  <2>5. CASE send_request(i) /\ UNCHANGED deleted
    <3>1. i \in Items
      BY <2>1 DEF TypeOK
    <3>2. main_pipe' \o m_request_list' = Append(main_pipe \o m_request_list, i)
      <4>1. main_pipe' = main_pipe /\ m_request_list' = Append(m_request_list, i)
        BY <2>1, <2>5 DEF send_request
      <4>2. main_pipe \in Seq(Items) /\ m_request_list \in Seq(Items)
        BY DEF TypeOK
      <4>. QED  BY <3>1, <4>1, <4>2, ConcatAppend
    <3>. QED
      BY <2>2, <2>3, <2>5, <3>2 DEF Pool!Next, Pool!Answer, send_request
  <2>. QED  BY <1>5, <2>4, <2>5 DEF Callback
<1>6. ASSUME NEW t \in Threads, Take(t)
      PROVE  Pool!Start
  <2>1. /\ item[t] = NoItem
        /\ main_pipe # <<>>
        /\ item' = [item EXCEPT ![t] = Head(main_pipe)]
        /\ main_pipe' = Tail(main_pipe)
        /\ UNCHANGED <<m_request_list, m_recv_list, thread_pipe, deleted, sent>>
    BY <1>6 DEF Take, mainVars, history
  <2>2. /\ main_pipe \o m_request_list # <<>>
        /\ Head(main_pipe \o m_request_list) = Head(main_pipe)
        /\ main_pipe' \o m_request_list' = Tail(main_pipe \o m_request_list)
    <3>1. main_pipe \in Seq(Items) /\ m_request_list \in Seq(Items)
      BY DEF TypeOK
    <3>2. main_pipe' = Tail(main_pipe) /\ m_request_list' = m_request_list
      BY <2>1
    <3>. QED  BY <2>1, <3>1, <3>2, ConcatTail
  <2>3. Head(main_pipe) # NoItem
    BY <2>1, DispatcherAssumption DEF TypeOK, DispatcherAssumption
  <2>4. Held' = Held \cup {Head(main_pipe)}
    <3>1. item \in [Threads -> Items \cup {NoItem}]
      BY DEF TypeOK
    <3>2. /\ item'[t] = Head(main_pipe)
          /\ \A u \in Threads \ {t} : item'[u] = item[u]
      BY <2>1, <3>1
    <3>. QED  BY <2>1, <2>3, <3>2 DEF Held
  <2>. QED  BY <2>1, <2>2, <2>4 DEF Pool!Start
<1>7. ASSUME NEW t \in Threads, Post(t)
      PROVE  \E i \in Items : Pool!Finish(i)
  <2>. DEFINE i == item[t]
  <2>1. /\ processed[t]
        /\ thread_pipe' = Append(thread_pipe, i)
        /\ item' = [item EXCEPT ![t] = NoItem]
        /\ UNCHANGED <<m_request_list, m_recv_list, main_pipe, deleted, sent>>
    BY <1>7 DEF Post, mainVars, history
  <2>2. i # NoItem /\ i \in Items /\ i \in Held
    BY <2>1 DEF ProcessedIsHeld, TypeOK, Held
  <2>3. Held' = Held \ {i}
    <3>0. item \in [Threads -> Items \cup {NoItem}]
      BY DEF TypeOK
    <3>1. /\ item'[t] = NoItem
          /\ \A u \in Threads \ {t} : item'[u] = item[u]
      BY <2>1, <3>0
    <3>2. \A u \in Threads \ {t} : item[u] # i
      BY <2>2 DEF NoSharing
    <3>. QED  BY <3>1, <3>2 DEF Held
  <2>4. m_recv_list' \o thread_pipe' = Append(m_recv_list \o thread_pipe, i)
    <3>1. m_recv_list' = m_recv_list /\ thread_pipe' = Append(thread_pipe, i)
      BY <2>1
    <3>2. m_recv_list \in Seq(Items) /\ thread_pipe \in Seq(Items)
      BY DEF TypeOK
    <3>3. i \in Items
      BY <2>2
    <3>. QED  BY <3>1, <3>2, <3>3, ConcatAppend
  <2>. QED  BY <2>1, <2>2, <2>3, <2>4 DEF Pool!Finish
<1>. QED
  BY <1>1, <1>2, <1>3, <1>4, <1>5, <1>6, <1>7
  DEF Next, Main, Thread, Pool!Next

\* The pipes and threads implement the first-in first-out pool.
THEOREM DispatcherRefinesWorkQueue == Spec => PoolSpec
<1>1. Init => Pool!Init
  <2>. SUFFICES ASSUME Init PROVE Pool!Init
    OBVIOUS
  <2>1. main_pipe \o m_request_list = <<>> /\ m_recv_list \o thread_pipe = <<>>
    BY DEF Init
  <2>. QED  BY <2>1 DEF Init, Held, Pool!Init
<1>2. IInv /\ [Next]_vars => [Pool!Next]_(Pool!vars)
  BY PoolStep
<1>. QED
  BY <1>1, <1>2, DispatcherInvariant, PTL DEF Spec, PoolSpec, Pool!Spec
=============================================================================
