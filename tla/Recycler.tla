------------------------------ MODULE Recycler ------------------------------
(***************************************************************************)
(* Rubbish recycling: RCManager connects to every node of the rules over a *)
(* long connection (RCAgent), initialises it, hands out buckets and the    *)
(* token, watches heartbeats, and tries lost nodes again; first with the   *)
(* MU nodes, then with the SU nodes.                                       *)
(*                                                                         *)
(* The nodes are external.  They answer what they are asked; those in Own  *)
(* begin one bucket of theirs without being told, as the node program of   *)
(* ../MetaServer works through its own list.  Requests and answers are     *)
(* read in the order of their connection.  epoll_ctl does not fail, so     *)
(* that write_data succeeds.                                               *)
(***************************************************************************)
EXTENDS Integers, SequencesExt, FiniteSetsExt

CONSTANTS Nodes, NULL,
          MURule, SURule,      \* for bucket 0, 1, ... the nodes that hold it
          Own,                 \* nodes that begin a bucket unasked
          m_max_token_holders,
          MaxStarts, MaxFailures  \* bounds: requests of operators, failures

ASSUME RecyclerAssumption ==
  /\ IsFiniteSet(Nodes) /\ NULL \notin Nodes /\ Own \subseteq Nodes
  /\ MURule \in Seq(SUBSET Nodes) /\ SURule \in Seq(SUBSET Nodes) /\ MURule # <<>>
  /\ m_max_token_holders \in Nat \ {0}
  /\ MaxStarts \in Nat /\ MaxFailures \in Nat

VARIABLES
  rc,        \* RCManager: the state; m_all_rules; m_all_agents; the current_state in
             \* m_all_heartbeats; m_retry_list; token holders and m_token_apply_list;
             \* and whether the server is up, or how it came to grief
  agents,    \* the RCAgents created so far, with what their node is at
  starts, failures,
  reported   \* history: buckets reported as finished in this phase

vars == <<rc, agents, starts, failures, reported>>

NoBucket == -1
NoAgent == 0
Buckets == 0..Len(MURule) - 1
Running == rc.state \in {"GENERATE_BITMAP", "CHECK_INFOHASH"}

\* An agent of address ip in connection state st.
Agent(ip, st) == [ip |-> ip, st |-> st, ready |-> FALSE,
                  cmd |-> NoBucket, work |-> NoBucket, token |-> "none"]

Init ==
  /\ rc = [state |-> "IDEL_STATE", rules |-> <<>>, agent |-> <<>>, hb |-> <<>>,
           retry |-> <<>>, holders |-> 0, apply |-> <<>>, server |-> "up"]
  /\ agents = <<>> /\ starts = 0 /\ failures = 0 /\ reported = {}

Fails(m, how) == [m EXCEPT !.server = how]
With(f, ips, v) == [n \in DOMAIN f \cup ips |-> IF n \in ips THEN v ELSE f[n]]
Without(f, ips) == [n \in DOMAIN f \ ips |-> f[n]]
Freed(as, S) == [a \in DOMAIN as |-> IF a \in S THEN Agent(as[a].ip, "freed") ELSE as[a]]

-----------------------------------------------------------------------------
(* Connecting and losing nodes.                                            *)

\* get_all_rules: the number of buckets of the type, but the rules of the MUs;
\* beyond those it fails.
get_all_rules(m, rule) ==
  LET known == Min({Len(rule), Len(MURule)})
      rules == m.rules \o [i \in 1..known |-> [status |-> "NOT_START", bucket_nr |-> i - 1,
                                               ip |-> MURule[i], using |-> NULL]]
      found == UNION {rules[i].ip : i \in 1..known}
  IN IF Len(rule) > known THEN [m EXCEPT !.rules = rules, !.state = "IDEL_STATE"]
     ELSE [m EXCEPT !.rules = rules,
                    !.agent = [n \in DOMAIN @ \cup found |-> IF n \in DOMAIN @ THEN @[n] ELSE NULL]]

\* New agents for the nodes in ips; those in shut get no socket.
NewAgents(ips, shut) ==
  [i \in DOMAIN ips |-> Agent(ips[i], IF ips[i] \in shut THEN "shut" ELSE "connecting")]

\* The last agent of a node is the one that is remembered.
Remember(m, ips) ==
  [m EXCEPT !.agent = [n \in DOMAIN @ |->
     IF \E i \in DOMAIN ips : ips[i] = n
     THEN Len(agents) + Max({i \in DOMAIN ips : ips[i] = n}) ELSE @[n]]]

\* connect_all_node_start_rc: an agent for each, who gets no socket is tried again.
connect_all_node_start_rc(m, ips, shut) ==
  [Remember(m, ips) EXCEPT !.retry = @ \o SetToSeq(shut)]

\* start_do_recylcer: also while it runs already.
start_do_recylcer(shut) ==
  LET m == get_all_rules([rc EXCEPT !.state = "GENERATE_BITMAP"], MURule)
      ips == SetToSeq(DOMAIN m.agent)
  IN /\ starts < MaxStarts /\ shut \subseteq DOMAIN m.agent
     /\ failures + Cardinality(shut) <= MaxFailures
     /\ starts' = starts + 1 /\ failures' = failures + Cardinality(shut)
     /\ rc' = connect_all_node_start_rc(m, ips, shut)
     /\ agents' = agents \o NewAgents(ips, shut)
     /\ UNCHANGED reported

\* Mutated agent_run_error: the nodes are not tried again.
agent_run_errorForgets(m, ips) ==
  [m EXCEPT !.hb = Without(@, ips), !.agent = With(@, ips, NULL)]

\* agent_run_error for each of the nodes in ips: one past its initialisation must be at
\* bucket 0, the only current_bucket_nr there ever is, or an assertion fails.
agent_run_error(m, ips) ==
  LET busy == {ip \in ips \cap DOMAIN m.hb : m.hb[ip] # "INITING"}
      lost == [m EXCEPT !.hb = Without(@, ips), !.retry = @ \o SetToSeq(ips),
                        !.agent = With(@, ips, NULL)]
  IN CASE busy = {} -> lost
       [] busy # {} /\ m.rules = <<>> -> Fails(m, "undefined")
       [] OTHER -> IF busy = {m.rules[1].using} /\ m.rules[1].status = "WORKING"
                   THEN [lost EXCEPT !.rules[1].status = "NOT_START", !.rules[1].using = NULL]
                   ELSE Fails(m, "assert")

\* send_first_command: an entry that is there stays as it is.
send_first_command(m, ip) ==
  IF ip \in DOMAIN m.hb THEN m ELSE [m EXCEPT !.hb = With(@, {ip}, "INITING")]

\* The connection of an agent is established: connectAfter.
Connected(a) ==
  /\ agents[a].st = "connecting"
  /\ agents' = [agents EXCEPT ![a].st = "open"]
  /\ rc' = send_first_command(rc, agents[a].ip)
  /\ UNCHANGED <<starts, failures, reported>>

\* It is refused: agent_connect_error, then the loop recycles the agent, which
\* calls back once more.
Refused(a) ==
  /\ agents[a].st = "connecting" /\ failures < MaxFailures
  /\ failures' = failures + 1
  /\ rc' = agent_run_error([rc EXCEPT !.retry = Append(@, agents[a].ip)], {agents[a].ip})
  /\ agents' = Freed(agents, {a})
  /\ UNCHANGED <<starts, reported>>

\* The peer closes, or the socket fails: recycler.
Closed(a) ==
  /\ agents[a].st = "open" /\ failures < MaxFailures
  /\ failures' = failures + 1
  /\ rc' = agent_run_error(rc, {agents[a].ip})
  /\ agents' = Freed(agents, {a})
  /\ UNCHANGED <<starts, reported>>

-----------------------------------------------------------------------------
(* The timer.                                                              *)

\* The nodes whose heartbeat is late; the entry of one may be without an agent.
TimedOut(late) ==
  IF \E ip \in late : IF ip \in DOMAIN rc.agent THEN rc.agent[ip] = NULL ELSE TRUE
  THEN Fails(rc, "null") ELSE agent_run_error(rc, late)

\* Mutated check_heartbeat_state: a node with an agent is not connected to again.
check_heartbeat_stateNull(late, fate) ==
  LET ips == SelectSeq(rc.retry, LAMBDA n : rc.agent[n] = NULL) IN
  /\ Running /\ rc.retry # <<>> /\ late = {} /\ fate = "up"
  /\ rc' = [Remember(rc, ips) EXCEPT !.retry = <<>>]
  /\ agents' = agents \o NewAgents(ips, {})
  /\ UNCHANGED <<starts, failures, reported>>

\* check_heartbeat_state: the late nodes are lost, and every node on the retry list
\* is connected to again.  The loop uses the entry of a late node after erasing
\* it; it does not get past a node that gets no socket.
check_heartbeat_state(late, fate) ==
  LET m == TimedOut(late)
  IN /\ Running
     /\ late \subseteq DOMAIN rc.hb /\ failures + Cardinality(late) <= MaxFailures
     /\ late # {} \/ rc.retry # <<>>
     /\ \/ fate = "up"
        \/ fate = "undefined" /\ late # {}
        \/ fate = "spins" /\ m.retry # <<>> /\ failures + Cardinality(late) < MaxFailures
     /\ failures' = failures + Cardinality(late)
     /\ IF m.server = "up" /\ fate = "up"
        THEN /\ rc' = [Remember(m, m.retry) EXCEPT !.retry = <<>>]
             /\ agents' = agents \o NewAgents(m.retry, {})
        ELSE /\ rc' = IF m.server # "up" THEN m ELSE Fails(m, fate)
             /\ UNCHANGED agents
     /\ UNCHANGED <<starts, reported>>

-----------------------------------------------------------------------------
(* The messages of a node: deal_with_data.                                 *)

\* A message arrives on an open connection.
Reads(a) == agents[a].st = "open" /\ UNCHANGED <<starts, failures>>

\* RC_CS_NODE_INIT_MSG_ACK; the command is sent again after an error.
InitAck(a, err) ==
  /\ Reads(a) /\ ~agents[a].ready
  /\ \/ /\ err /\ rc' = send_first_command(rc, agents[a].ip)
        /\ UNCHANGED agents
     \/ /\ ~err
        /\ \E b \in {NoBucket} \cup {c \in Buckets : agents[a].ip \in Own \cap MURule[c + 1]} :
             agents' = [agents EXCEPT ![a].ready = TRUE, ![a].work = b]
        /\ UNCHANGED rc
  /\ UNCHANGED reported

\* RC_CS_NODE_HEARTBEAT_MSG: a node that has no entry is looked up all the same.
\* RECYCLERING stands for every state past the initialisation.
Heartbeat(a) ==
  /\ Reads(a)
  /\ rc' = IF agents[a].ip \notin DOMAIN rc.hb THEN Fails(rc, "null")
           ELSE IF agents[a].work > 0 THEN Fails(rc, "assert")
           ELSE [rc EXCEPT !.hb[agents[a].ip] = IF agents[a].ready THEN "RECYCLERING" ELSE "INITING"]
  /\ UNCHANGED <<agents, reported>>

\* Mutated find_next_bucket: what is being worked on counts as finished.
find_next_bucketEarly(m, ip) ==
  LET free == {i \in DOMAIN m.rules : m.rules[i].status = "NOT_START" /\ ip \in m.rules[i].ip}
  IN CASE \A i \in DOMAIN m.rules : m.rules[i].status # "NOT_START" -> -2
       [] free # {} -> m.rules[Min(free)].bucket_nr
       [] OTHER -> -1

\* find_next_bucket: the first bucket of the node nobody started.
find_next_bucket(m, ip) ==
  LET free == {i \in DOMAIN m.rules : m.rules[i].status = "NOT_START" /\ ip \in m.rules[i].ip}
  IN CASE \A i \in DOMAIN m.rules : m.rules[i].status = "FINISHED" -> -2
       [] free # {} -> m.rules[Min(free)].bucket_nr
       [] OTHER -> -1

\* RC_CS_NODE_START_BUCKET_MSG_ACK: only now does the bucket count as started.
\* After a failure another is chosen; bucket 0 never is.
StartAck(a, err) ==
  LET b == agents[a].cmd
      next == find_next_bucket(rc, agents[a].ip)
  IN /\ Reads(a) /\ b # NoBucket
     /\ IF err THEN /\ agents' = [agents EXCEPT ![a].cmd = IF next > 0 THEN next ELSE NoBucket]
                    /\ UNCHANGED rc
        ELSE /\ agents' = [agents EXCEPT ![a].cmd = NoBucket, ![a].work = b, ![a].token = "none"]
             /\ rc' = IF b >= Len(rc.rules) THEN Fails(rc, "undefined")
                      ELSE [rc EXCEPT !.rules[b + 1].status = "WORKING",
                                      !.rules[b + 1].using = agents[a].ip]
     /\ UNCHANGED reported

\* Mutated GET_TOKEN: one token too many.
GetTokenMore(a) ==
  /\ Reads(a) /\ agents[a].work # NoBucket /\ agents[a].token = "none"
  /\ IF rc.holders > m_max_token_holders
     THEN /\ rc' = [rc EXCEPT !.apply = Append(@, agents[a].ip)]
          /\ agents' = [agents EXCEPT ![a].token = "asked"]
     ELSE /\ rc' = [rc EXCEPT !.holders = @ + 1]
          /\ agents' = [agents EXCEPT ![a].token = "has"]
  /\ UNCHANGED reported

\* RC_NODE_CS_GET_TOKEN_MSG: granted, or put on the waiting list.
GetToken(a) ==
  /\ Reads(a) /\ agents[a].work # NoBucket /\ agents[a].token = "none"
  /\ IF rc.holders = m_max_token_holders
     THEN /\ rc' = [rc EXCEPT !.apply = Append(@, agents[a].ip)]
          /\ agents' = [agents EXCEPT ![a].token = "asked"]
     ELSE /\ rc' = [rc EXCEPT !.holders = @ + 1]
          /\ agents' = [agents EXCEPT ![a].token = "has"]
  /\ UNCHANGED reported

\* RC_MU_CS_UPLOAD_BITMAP_MSG or RC_SU_CS_DOWNLOAD_BITMAP_MSG: the token goes to
\* the first in the list, if there is one and the rules still have it; an agent that
\* did not ask ignores it.
Upload(a) ==
  /\ Reads(a) /\ agents[a].token = "has"
  /\ IF rc.apply = <<>>
     THEN /\ agents' = [agents EXCEPT ![a].token = "given"]
          /\ UNCHANGED rc
     ELSE LET ip == Head(rc.apply)
              next == IF ip \in DOMAIN rc.agent THEN rc.agent[ip] ELSE NoAgent IN
          IF next = NULL
          THEN /\ rc' = Fails(rc, "null")
               /\ UNCHANGED agents
          ELSE /\ rc' = [rc EXCEPT !.apply = Tail(@)]
               /\ agents' = LET given == [agents EXCEPT ![a].token = "given"]
                            IN [given EXCEPT ![next].token = IF @ = "asked" THEN "has" ELSE @]
  /\ UNCHANGED reported

\* start_merge_all_bitmap, for the state m after the message of agent a: the agents
\* are deleted, a itself among them, to which the call returns.
start_merge_all_bitmap(m, a) ==
  LET mine == {m.agent[n] : n \in DOMAIN m.agent}
      empty == [m EXCEPT !.rules = <<>>, !.agent = <<>>, !.hb = <<>>, !.retry = <<>>,
                         !.holders = 0, !.apply = <<>>]
      next == get_all_rules([empty EXCEPT !.state = "CHECK_INFOHASH"], SURule)
      ips == SetToSeq(DOMAIN next.agent)
  IN IF NULL \in mine
     THEN /\ rc' = Fails(m, "null")
          /\ UNCHANGED <<agents, failures>>
     ELSE \E fate \in {"up", "undefined"}, shut \in SUBSET DOMAIN next.agent :
          /\ fate = "undefined" => a \in mine /\ shut = {}
          /\ failures + Cardinality(shut) <= MaxFailures
          /\ IF m.state = "GENERATE_BITMAP"
             THEN /\ rc' = Fails(connect_all_node_start_rc(next, ips, shut), fate)
                  /\ agents' = Freed(agents, mine) \o NewAgents(ips, shut)
             ELSE /\ shut = {}
                  /\ rc' = Fails([empty EXCEPT !.state = "FINISH_RECYCLER"], fate)
                  /\ agents' = Freed(agents, mine)
          /\ failures' = failures + Cardinality(shut)

\* The bucket b after the report of node ip: finished, or open again, but not for ip.
FinishedBucket(ip, b, err) ==
  IF err THEN [rc EXCEPT !.rules[b + 1] = [@ EXCEPT !.status = "NOT_START", !.using = NULL,
                                                    !.ip = rc.rules[b + 1].ip \ {ip}]]
  ELSE [rc EXCEPT !.rules[b + 1] = [@ EXCEPT !.status = "FINISHED", !.using = NULL]]

\* NODE_CS_BUCKET_FINISH_MSG.  A node whose work failed is not asked again for this
\* bucket; it keeps the token if it has it, for nothing takes one back.
Finish(a, err) ==
  LET b == agents[a].work
      ip == agents[a].ip
      rule == rc.rules[b + 1]
      done == FinishedBucket(ip, b, err)
      next == find_next_bucket(done, ip)
  IN /\ agents[a].st = "open" /\ b # NoBucket /\ UNCHANGED starts
     /\ err \/ agents[a].token = "given"
     /\ IF b >= Len(rc.rules) \/ (err /\ ip \notin rule.ip)
        THEN /\ rc' = Fails(rc, IF b >= Len(rc.rules) THEN "undefined" ELSE "assert")
             /\ UNCHANGED <<agents, failures, reported>>
        ELSE IF next = -2
        THEN /\ start_merge_all_bitmap(done, a)
             /\ reported' = {}
        ELSE /\ rc' = done
             /\ agents' = [agents EXCEPT ![a].work = NoBucket,
                                         ![a].token = IF err THEN @ ELSE "none",
                                         ![a].cmd = IF next < 0 THEN @ ELSE next]
             /\ reported' = IF err THEN reported \ {b} ELSE reported \cup {b}
             /\ UNCHANGED failures

Message(a) ==
  \/ \E err \in BOOLEAN : InitAck(a, err) \/ StartAck(a, err) \/ Finish(a, err)
  \/ Heartbeat(a) \/ GetToken(a) \/ Upload(a)

Up == rc.server = "up"
Timer == \E late \in SUBSET DOMAIN rc.hb, fate \in {"up", "undefined", "spins"} :
           check_heartbeat_state(late, fate)

Next ==
  /\ Up
  /\ \/ \E shut \in SUBSET Nodes : start_do_recylcer(shut)
     \/ Timer
     \/ \E a \in DOMAIN agents : Connected(a) \/ Refused(a) \/ Closed(a) \/ Message(a)

\* The timer goes on, and an attempt to connect ends.
Fairness ==
  /\ WF_vars(Up /\ Timer)
  /\ \A a \in 1..MaxStarts * 2 * Cardinality(Nodes) + 2 * MaxFailures :
       WF_vars(Up /\ a \in DOMAIN agents /\ (Connected(a) \/ Refused(a)))

Spec == Init /\ [][Next]_vars /\ Fairness

-----------------------------------------------------------------------------
(* Properties.                                                             *)

Live(a) == agents[a].st \in {"connecting", "open"}

\* Whatever fails, m_all_agents and m_retry_list account for every node of the rules
\* while recycling runs: each has a connection, or one in the making, or is on the list
\* to be tried again; and the map never points to a deleted agent, nor to that of
\* another node, although the epoll loop deletes agents by itself and the timer, the
\* token and the merge use the map.
NodesAccountedFor ==
  Up => \A n \in DOMAIN rc.agent :
    /\ Running => \/ n \in ToSet(rc.retry)
                  \/ \E a \in DOMAIN agents : agents[a].ip = n /\ Live(a)
    /\ rc.agent[n] # NULL => /\ agents[rc.agent[n]].ip = n
                             /\ agents[rc.agent[n]].st # "freed"

\* No more nodes hold the token than may, until the first phase ends: afterwards a
\* connection left over from it may still pass on a token of that phase.
TokenLimit ==
  Up /\ rc.state = "GENERATE_BITMAP" /\ starts = 1 =>
    Cardinality({a \in DOMAIN agents : agents[a].token = "has"}) <= m_max_token_holders

\* A phase ends only when each of its buckets was reported as finished, the last one
\* by this very message; another request of the operator ends none.
PhaseEndsFinished ==
  [][Running /\ starts' = starts /\ rc.state # rc'.state =>
       Cardinality((0..Len(rc.rules) - 1) \ reported) <= 1]_vars

\* A node that is lost is connected to again in the end, unless recycling ends or the
\* server is gone: neither a late nor a refused connection makes it drop out.
Reconnects ==
  \A n \in Nodes :
    (Running /\ n \in DOMAIN rc.agent)
      ~> (~Up \/ ~Running \/ \E a \in DOMAIN agents : agents[a].ip = n /\ agents[a].st = "open")
=============================================================================
