------------------------------ MODULE Heartbeat -----------------------------
(***************************************************************************)
(* The heartbeat connections of the storage nodes: HeartbeatAgent, the     *)
(* load tables of HBManager and the timer that drops silent connections.   *)
(* Migration and Extension read these tables as last_load.                 *)
(*                                                                         *)
(* The epoll loop handles the events of one epoll_wait as a batch.  The    *)
(* timer deletes agents whose own event may be later in the batch.         *)
(*                                                                         *)
(* A bucket list is abstracted to the connection it came on; time to the   *)
(* number of ticks since a connection was heard of.                        *)
(***************************************************************************)
EXTENDS Naturals, FiniteSetsExt

CONSTANTS Conns,       \* heartbeat connections, 
          Nodes,       \* IP addresses
          Services,    \* the RULE_TYPEs a node runs
          NoNode,      \* no address yet
          NoConn,      \* no bucket list came yet
          heartbeat_timeout  \* in ticks

Timer == "timer"         \* the descriptor of the timer

ASSUME HeartbeatAssumption ==
  /\ Services \in [Nodes -> SUBSET {"MU", "SU"}]
  /\ NoConn \notin Conns /\ NoNode \notin Nodes /\ Timer \notin Conns
  /\ heartbeat_timeout \in Nat \ {0}

VARIABLES
  conn, m_Addr,            \* by connection: "none", "open" or "freed"; its peer
  input,                   \* what waits in its socket
  m_type, m_time_stamp,    \* HeartbeatAgent; the latter as ticks gone by
  m_heartbeat_agent_list,  \* HBManager
  m_last_load,             \* m_mu_last_load and m_su_last_load, by address
  timer,                   \* the timer has expired
  batch,                   \* events returned by epoll_wait and not handled
  undefined,               \* an event was handled on freed memory
  shadowed                 \* history: connections whose node another one cleared

agents == <<conn, m_Addr, m_type, m_time_stamp>>
manager == <<m_heartbeat_agent_list, m_last_load>>
vars == <<agents, input, manager, timer, batch, undefined, shadowed>>

RuleTypes == {"MU", "SU"}
Messages == {"handshake", "beat", "close"}

Init ==
  /\ conn = [c \in Conns |-> "none"]
  /\ m_Addr = [c \in Conns |-> NoNode]
  /\ input = [c \in Conns |-> "none"]
  /\ m_type = [c \in Conns |-> "UNKNOWN"]
  /\ m_time_stamp = [c \in Conns |-> 0]
  /\ m_heartbeat_agent_list = {}
  /\ m_last_load = [ty \in RuleTypes |-> <<>>]
  /\ timer = FALSE /\ batch = {}
  /\ undefined = FALSE /\ shadowed = {}

-----------------------------------------------------------------------------
(* The load tables.                                                        *)

Without(load, ip) == [n \in DOMAIN load \ {ip} |-> load[n]]

\* clear_node_info: by address, the SUs first.
clear_node_info(load, ip) ==
  IF ip \in DOMAIN load["SU"] THEN [load EXCEPT !["SU"] = Without(@, ip)]
  ELSE [load EXCEPT !["MU"] = Without(@, ip)]

\* Mutated init_node_heartbeat_info: an entry of either type will do.
init_node_heartbeat_infoOnce(load, ty, ip) ==
  IF \E kind \in RuleTypes : ip \in DOMAIN load[kind] THEN load
  ELSE [load EXCEPT ![ty] = [n \in DOMAIN @ \cup {ip} |->
                               IF n = ip THEN NoConn ELSE @[n]]]

\* init_node_heartbeat_info: an entry that is there keeps its bucket list.
init_node_heartbeat_info(load, ty, ip) ==
  IF ip \in DOMAIN load[ty] THEN load
  ELSE [load EXCEPT ![ty] = [n \in DOMAIN @ \cup {ip} |->
                               IF n = ip THEN NoConn ELSE @[n]]]

\* update_last_bucket_load: nothing for a node without an entry.
update_last_bucket_load(load, ty, c) ==
  IF m_Addr[c] \in DOMAIN load[ty] THEN [load EXCEPT ![ty][m_Addr[c]] = c] ELSE load

\* The connections in open that lose an entry of their own type to clearing by c.
Shadows(open, c) ==
  {d \in open \ {c} : /\ m_Addr[d] = m_Addr[c] /\ m_type[d] # "UNKNOWN"
                      /\ m_Addr[c] \in DOMAIN m_last_load[m_type[d]]
                      /\ m_Addr[c] \notin DOMAIN clear_node_info(m_last_load, m_Addr[c])[m_type[d]]}

-----------------------------------------------------------------------------
(* The nodes and the epoll loop.                                           *)

\* A node connects: the agent is created and entered in the list (init).
Accept(c, ip) ==
  /\ batch = {} /\ conn[c] = "none"
  /\ m_Addr' = [m_Addr EXCEPT ![c] = ip]
  /\ conn' = [conn EXCEPT ![c] = "open"]
  /\ m_time_stamp' = [m_time_stamp EXCEPT ![c] = 0]
  /\ m_heartbeat_agent_list' = m_heartbeat_agent_list \cup {c}
  /\ UNCHANGED <<m_type, input, m_last_load, timer, batch, undefined, shadowed>>

\* A message or the end of the connection reaches the socket; a node sends
\* heartbeats once it has shaken hands.
Arrive(c, msg) ==
  /\ conn[c] = "open" /\ input[c] = "none"
  /\ msg = "beat" => m_type[c] # "UNKNOWN"
  /\ input' = [input EXCEPT ![c] = msg]
  /\ UNCHANGED <<agents, manager, timer, batch, undefined, shadowed>>

\* Time goes by and the timer expires.
Tick ==
  /\ m_time_stamp' = [c \in Conns |-> IF conn[c] = "open" /\ m_time_stamp[c] < heartbeat_timeout
                                      THEN m_time_stamp[c] + 1 ELSE m_time_stamp[c]]
  /\ timer' = TRUE
  /\ UNCHANGED <<conn, m_Addr, m_type, input, manager, batch, undefined, shadowed>>

\* epoll_wait returns every descriptor that is ready.
epoll_wait ==
  /\ batch = {}
  /\ batch' = {c \in Conns : input[c] # "none"} \cup {e \in {Timer} : timer}
  /\ batch' # {}
  /\ UNCHANGED <<agents, input, manager, timer, undefined, shadowed>>

\* The event of a connection whose agent is still there.
Handles(c, msg) ==
  /\ c \in batch /\ conn[c] = "open" /\ input[c] = msg
  /\ batch' = batch \ {c}
  /\ input' = [input EXCEPT ![c] = "none"]
  /\ UNCHANGED <<timer, undefined>>

\* do_heartbeat_handshake: the type and the time stamp, then the table.
do_heartbeat_handshake(c, ty) ==
  /\ Handles(c, "handshake")
  /\ ty \in Services[m_Addr[c]]
  /\ m_type' = [m_type EXCEPT ![c] = ty]
  /\ m_time_stamp' = [m_time_stamp EXCEPT ![c] = 0]
  /\ m_last_load' = init_node_heartbeat_info(m_last_load, ty, m_Addr[c])
  /\ shadowed' = {d \in shadowed \ {c} : ~(m_Addr[d] = m_Addr[c] /\ m_type[d] = ty)}
  /\ UNCHANGED <<conn, m_Addr, m_heartbeat_agent_list>>

\* do_heartbeat; the node sends its type with every heartbeat.
do_heartbeat(c) ==
  /\ Handles(c, "beat")
  /\ m_time_stamp' = [m_time_stamp EXCEPT ![c] = 0]
  /\ m_last_load' = update_last_bucket_load(m_last_load, m_type[c], c)
  /\ UNCHANGED <<conn, m_Addr, m_type, m_heartbeat_agent_list, shadowed>>

\* Mutated heartbeat_closed: the load of the node is left to the timer.
heartbeat_closedOnly(c) ==
  /\ m_heartbeat_agent_list' = m_heartbeat_agent_list \ {c}
  /\ UNCHANGED <<m_last_load, shadowed>>

\* heartbeat_closed.
heartbeat_closed(c) ==
  /\ m_heartbeat_agent_list' = m_heartbeat_agent_list \ {c}
  /\ m_last_load' = clear_node_info(m_last_load, m_Addr[c])
  /\ shadowed' = (shadowed \ {c}) \cup Shadows(m_heartbeat_agent_list, c)

\* Mutated recycler: all agents of the address are deleted.
recyclerOfAddress(c) ==
  LET all == {d \in m_heartbeat_agent_list : m_Addr[d] = m_Addr[c]} IN
  /\ Handles(c, "close")
  /\ m_heartbeat_agent_list' = m_heartbeat_agent_list \ all
  /\ m_last_load' = clear_node_info(m_last_load, m_Addr[c])
  /\ conn' = [d \in Conns |-> IF d \in all THEN "freed" ELSE conn[d]]
  /\ UNCHANGED <<m_Addr, m_type, m_time_stamp, shadowed>>

\* The peer closed: recycler, then the loop deletes the agent.
recycler(c) ==
  /\ Handles(c, "close")
  /\ heartbeat_closed(c)
  /\ conn' = [conn EXCEPT ![c] = "freed"]
  /\ UNCHANGED <<m_Addr, m_type, m_time_stamp>>

\* The event of an agent that was deleted since epoll_wait.
StaleEvent(c) ==
  /\ c \in batch /\ conn[c] = "freed"
  /\ batch' = batch \ {c}
  /\ undefined' = TRUE
  /\ UNCHANGED <<agents, input, manager, timer, shadowed>>

\* Mutated expired: an agent is kept for another tick.
expiredLate == {c \in m_heartbeat_agent_list : m_time_stamp[c] > heartbeat_timeout}

expired == {c \in m_heartbeat_agent_list : m_time_stamp[c] >= heartbeat_timeout}

\* The load tables once the nodes of closed connections are cleared.
clear_nodes(load, closed) ==
  FoldSet(LAMBDA c, l : clear_node_info(l, m_Addr[c]), load, closed)

\* check_heartbeat_timeout deletes the agents at once.
check_heartbeat_timeout ==
  /\ Timer \in batch
  /\ batch' = batch \ {Timer}
  /\ timer' = FALSE
  /\ LET load == clear_nodes(m_last_load, expired)
         lost == {d \in m_heartbeat_agent_list \ expired :
                    /\ m_type[d] # "UNKNOWN"
                    /\ m_Addr[d] \in DOMAIN m_last_load[m_type[d]] \ DOMAIN load[m_type[d]]}
     IN m_last_load' = load /\ shadowed' = (shadowed \ expired) \cup lost
  /\ m_heartbeat_agent_list' = m_heartbeat_agent_list \ expired
  /\ conn' = [c \in Conns |-> IF c \in expired THEN "freed" ELSE conn[c]]
  /\ input' = [c \in Conns |-> IF c \in expired THEN "none" ELSE input[c]]
  /\ UNCHANGED <<m_Addr, m_type, m_time_stamp, undefined>>

Handler == \/ check_heartbeat_timeout
           \/ \E c \in Conns : \/ \E ty \in RuleTypes : do_heartbeat_handshake(c, ty)
                             \/ do_heartbeat(c) \/ recycler(c) \/ StaleEvent(c)

Next ==
  /\ ~undefined
  /\ \/ Tick \/ epoll_wait \/ Handler
     \/ \E c \in Conns : (\E ip \in Nodes : Accept(c, ip)) \/ \E msg \in Messages : Arrive(c, msg)

\* Time goes by, the loop waits again after a batch, and handlers return.
Spec == Init /\ [][Next]_vars
             /\ WF_vars(~undefined /\ Tick) /\ WF_vars(~undefined /\ epoll_wait)
             /\ WF_vars(~undefined /\ Handler)

-----------------------------------------------------------------------------
(* Properties.                                                             *)

OneService(n) == Cardinality(Services[n]) = 1

\* A node that runs one service is listed only while it has a connection, and its
\* bucket list came on one that is still open: no migration is sent to a node that is
\* known to be gone, and what an earlier run of it reported is not taken for its load.
NoGhost ==
  \A ty \in RuleTypes : \A n \in DOMAIN m_last_load[ty] : OneService(n) =>
    /\ \E c \in m_heartbeat_agent_list : m_Addr[c] = n
    /\ m_last_load[ty][n] \in m_heartbeat_agent_list \cup {NoConn}

\* A node that shook hands and is connected has an entry, unless the end of another
\* connection from its address took it away.
ConnectedIsListed ==
  \A c \in m_heartbeat_agent_list \ shadowed :
    m_type[c] # "UNKNOWN" => m_Addr[c] \in DOMAIN m_last_load[m_type[c]]

\* The list the timer walks has the agents that are alive and no other, and the event
\* of an agent in a batch finds it alive, unless the timer was handled before it in
\* the same batch.
AgentsOutliveTheirEvents ==
  /\ m_heartbeat_agent_list = {c \in Conns : conn[c] = "open"}
  /\ \A c \in batch \cap Conns : Timer \in batch => conn[c] = "open"

\* A connection from which nothing arrives any more is dropped.
SilentIsDropped ==
  \A c \in Conns : []<>(c \notin m_heartbeat_agent_list \/ input[c] # "none" \/ undefined)
=============================================================================
