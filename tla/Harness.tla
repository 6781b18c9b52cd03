--------------------------------- MODULE Harness ---------------------------------
(***************************************************************************)
(* How a test controller (src/inc/toolings/test_ctrl.hpp) starts and kills    *)
(* the nodes (src/app/node.cpp, src/inc/toolings/raft_wrapper.hpp) and cuts    *)
(* and heals the network between them.  The cut is not in the network: every  *)
(* node decides for itself, by its own copy of rank1 and rank2                *)
(* (src/inc/common/utils/net_intercepter.hpp), which of its own Raft calls    *)
(* to let out, and the controller tells the nodes one RPC each, concurrently. *)
(***************************************************************************)
EXTENDS Integers, FiniteSets

CONSTANTS Node,
          FailTypes,      \* values of --fail_type to consider
          MaxCommands     \* bound: commands the controller gives

ASSUME HarnessAssumption == /\ FailTypes \subseteq {"FAILURE", "PARTITION"}
                            /\ MaxCommands \in Nat

VARIABLES fail_type,      \* --fail_type of this controller and its nodes
          phase,          \* how far each node's main has come
          rank1, rank2, type,   \* each node's interceptor
          active,         \* Raft::run has been called, and kill has not
          ready,          \* ready_nodes of the controller
          command,        \* what the controller waits for
          ids,            \* the argument of disconnect or reconnect
          pending,        \* <<n, id>>: node n has yet to treat id
          cut,            \* nodes disconnected by commands that returned
          commands,       \* commands given so far
          exited,         \* the controller has ended the test: a call failed
          early           \* history: a node was told of a cut before it had
                          \* prepared its interceptor
nodeVars == <<phase, rank1, rank2, type, active>>
ctrlVars == <<ready, command, ids, pending, cut, commands, exited, early>>
vars == <<fail_type, nodeVars, ctrlVars>>

\* Every variable keeps the shape of its declaration.
TypeOK ==
  /\ fail_type \in FailTypes
  /\ phase \in [Node -> {"spawned", "serving", "reported", "ranked", "up", "gone"}]
  /\ rank1 \in [Node -> SUBSET Node] /\ rank2 \in [Node -> SUBSET Node]
  /\ type \in [Node -> {"FAILURE", "PARTITION"}]
  /\ active \in [Node -> BOOLEAN]
  /\ ready \in [Node -> BOOLEAN]
  /\ command \in {"connect", "none", "run", "disconnect", "reconnect", "kill", "killed"}
  /\ ids \subseteq Node /\ pending \subseteq Node \X Node /\ cut \subseteq Node
  /\ commands \in Nat /\ exited \in BOOLEAN /\ early \in BOOLEAN

\* spawn_raft_node has started every process and waits for them; the static
\* members of the interceptor are empty and zero.
Init ==
  /\ fail_type \in FailTypes
  /\ phase = [n \in Node |-> "spawned"]
  /\ rank1 = [n \in Node |-> {}] /\ rank2 = [n \in Node |-> {}]
  /\ type = [n \in Node |-> "FAILURE"]
  /\ active = [n \in Node |-> FALSE]
  /\ ready = [n \in Node |-> FALSE]
  /\ command = "connect" /\ ids = {} /\ pending = {} /\ cut = {} /\ commands = 0
  /\ exited = FALSE /\ early = FALSE

------------------------------------------------------------------------------
(* A node's main.                                                           *)

Advance(n, from, to) == phase[n] = from /\ phase' = [phase EXCEPT ![n] = to]

\* run_tester_node_server, in the wrapper's constructor.
ServeTester(n) ==
  /\ Advance(n, "spawned", "serving")
  /\ UNCHANGED <<fail_type, rank1, rank2, type, active, ctrlVars>>

\* report_ready, in the same constructor, and ReportReady at the controller.
\* The node does not look at the status of its call: a report that is lost is
\* not made again.
ReportLost(n) ==
  /\ Advance(n, "serving", "reported")
  /\ UNCHANGED <<fail_type, rank1, rank2, type, active, ctrlVars>>
ReportReady(n) ==
  /\ Advance(n, "serving", "reported")
  /\ ready' = [ready EXCEPT ![n] = TRUE]
  /\ UNCHANGED <<fail_type, rank1, rank2, type, active,
                 command, ids, pending, cut, commands, exited, early>>

\* prepare_interceptor: setup_rank, then set_type without the lock.
SetupRank(n) ==
  /\ Advance(n, "reported", "ranked")
  /\ rank1' = [rank1 EXCEPT ![n] = Node]
  /\ rank2' = [rank2 EXCEPT ![n] = {}]
  /\ UNCHANGED <<fail_type, type, active, ctrlVars>>
SetType(n) ==
  /\ Advance(n, "ranked", "up")
  /\ type' = [type EXCEPT ![n] = fail_type]
  /\ UNCHANGED <<fail_type, rank1, rank2, active, ctrlVars>>

------------------------------------------------------------------------------
(* The controller, one command at a time, and the nodes' answers.           *)

Served(n) == phase[n] \notin {"spawned", "gone"}

\* connect_to_raft_nodes: the wait on cv_ready_ ends.
AllReady == \A n \in Node : ready[n]
Connect ==
  /\ command = "connect" /\ AllReady
  /\ command' = "none"
  /\ UNCHANGED <<fail_type, nodeVars, ready, ids, pending, cut, commands, exited, early>>

\* run, disconnect, reconnect and kill start one asynchronous call per node.
Prepared == \A n \in Node : phase[n] = "up"
Give(c, who) ==
  /\ command = "none" /\ commands < MaxCommands
  /\ command' = c /\ ids' = who
  /\ pending' = IF c \in {"run", "kill"} THEN {<<n, n>> : n \in Node} ELSE Node \X who
  /\ commands' = commands + 1
  /\ UNCHANGED <<fail_type, nodeVars, ready, cut, exited, early>>
GiveRun == Give("run", {})
GiveDisconnect == \E who \in SUBSET Node \ {{}} : Give("disconnect", who)
GiveReconnect == \E who \in SUBSET Node \ {{}} : Give("reconnect", who)
GiveKill == Give("kill", {})

\* The Run handler: connect_peers and run.
NodeRun(n) ==
  /\ command = "run" /\ <<n, n>> \in pending /\ Served(n)
  /\ active' = [active EXCEPT ![n] = TRUE]
  /\ pending' = pending \ {<<n, n>>}
  /\ UNCHANGED <<fail_type, phase, rank1, rank2, type,
                 ready, command, ids, cut, commands, exited, early>>

\* The Kill handler: the timers are told to end and the Raft server is shut
\* down; the process and its tester service go on.
NodeKill(n) ==
  /\ command = "kill" /\ <<n, n>> \in pending /\ Served(n)
  /\ active' = [active EXCEPT ![n] = FALSE]
  /\ pending' = pending \ {<<n, n>>}
  /\ UNCHANGED <<fail_type, phase, rank1, rank2, type,
                 ready, command, ids, cut, commands, exited, early>>

\* NetInterceptor::disconnect and reconnect: an id moves from one set to the
\* other, and an id that is not in the first stays where it is.
MoveCopy(from, to, n, id) ==
  /\ from' = from
  /\ to' = [to EXCEPT ![n] = IF id \in from[n] THEN @ \cup {id} ELSE @]
Move(from, to, n, id) ==
  /\ from' = [from EXCEPT ![n] = @ \ {id}]
  /\ to' = [to EXCEPT ![n] = IF id \in from[n] THEN @ \cup {id} ELSE @]

\* The Disconnect and Reconnect handlers treat the ids one by one; the lock is
\* taken for each of them.
NodeDisconnectOnce(n, id) ==
  /\ command = "disconnect" /\ <<n, id>> \in pending /\ Served(n)
  /\ id \in rank1[n]
  /\ Move(rank1, rank2, n, id)
  /\ pending' = pending \ {<<n, id>>}
  /\ early' = (early \/ phase[n] # "up")
  /\ UNCHANGED <<fail_type, phase, type, active, ready, command, ids, cut, commands, exited>>
NodeDisconnect(n, id) ==
  /\ command = "disconnect" /\ <<n, id>> \in pending /\ Served(n)
  /\ Move(rank1, rank2, n, id)
  /\ pending' = pending \ {<<n, id>>}
  /\ early' = (early \/ phase[n] # "up")
  /\ UNCHANGED <<fail_type, phase, type, active, ready, command, ids, cut, commands, exited>>
NodeReconnect(n, id) ==
  /\ command = "reconnect" /\ <<n, id>> \in pending /\ Served(n)
  /\ Move(rank2, rank1, n, id)
  /\ pending' = pending \ {<<n, id>>}
  /\ early' = (early \/ phase[n] # "up")
  /\ UNCHANGED <<fail_type, phase, type, active, ready, command, ids, cut, commands, exited>>

\* All futures are there: the command returns, and the test notes the nodes
\* it has cut off (test_config.hpp:498-528).
AllAnswered == pending = {}
Return ==
  /\ command \in {"run", "disconnect", "reconnect"} /\ AllAnswered /\ ~exited
  /\ command' = "none" /\ ids' = {}
  /\ cut' = CASE command = "disconnect" -> cut \cup ids
              [] command = "reconnect" -> cut \ ids
              [] OTHER -> cut
  /\ pending' = {}
  /\ UNCHANGED <<fail_type, nodeVars, ready, commands, exited, early>>

\* A call of run, disconnect or reconnect fails, whether the node has treated
\* it or not: the controller prints a line and ends, and the nodes that were
\* called go on with what they were told.
CallFailed ==
  /\ command \in {"run", "disconnect", "reconnect"} /\ ~exited
  /\ exited' = TRUE
  /\ UNCHANGED <<fail_type, nodeVars, ready, command, ids, pending, cut, commands, early>>

\* kill waits two seconds for the answers, whether or not they come, and then
\* sends SIGKILL to every process that has reported its pid.
KillProcesses ==
  /\ command = "kill"
  /\ command' = "killed"
  /\ phase' = [n \in Node |-> IF ready[n] THEN "gone" ELSE phase[n]]
  /\ pending' = {}
  /\ UNCHANGED <<fail_type, rank1, rank2, type, active, ready, ids, cut, commands, exited, early>>

------------------------------------------------------------------------------
\* NetInterceptor::Intercept: does node m stop its own call to node n?
HijackedAny(m, n) == rank2[m] # {}
Hijacked(m, n) ==
  CASE type[m] = "FAILURE" -> m \in rank2[m] \/ n \in rank2[m]
    [] type[m] = "PARTITION" -> \/ m \in rank1[m] /\ n \in rank2[m]
                                \/ n \in rank1[m] /\ m \in rank2[m]

NodeNext(n) ==
  \/ ServeTester(n) \/ ReportReady(n) \/ ReportLost(n)
  \/ SetupRank(n) \/ SetType(n)
  \/ NodeRun(n) \/ NodeKill(n)
  \/ \E id \in Node : NodeDisconnect(n, id) \/ NodeReconnect(n, id)
Next == \/ \E n \in Node : NodeNext(n)
        \/ Connect \/ GiveRun \/ GiveDisconnect \/ GiveReconnect \/ Return
        \/ CallFailed \/ GiveKill \/ KillProcesses

\* A started process runs on, a call is answered or fails, and the controller
\* goes on when it can; nobody has to give a command.
Fairness == /\ \A n \in Node : WF_vars(NodeNext(n))
            /\ WF_vars(Connect) /\ WF_vars(Return)
            /\ WF_vars(KillProcesses)
Spec == Init /\ [][Next]_vars /\ Fairness

------------------------------------------------------------------------------
\* Once disconnect or reconnect has returned (272-320), the nodes' own
\* decisions add up to the network the test asked for: exactly the calls it
\* wants stopped are stopped, whoever makes them.  A node that was told before
\* it had prepared its interceptor is the exception: the wrapper reports it
\* ready first (raft_wrapper.hpp:43, node.cpp:226), and setup_rank then undoes
\* the cut.
Apart(m, n) == IF fail_type = "FAILURE" THEN m \in cut \/ n \in cut
               ELSE (m \in cut) # (n \in cut)
CutAsAsked ==
  ~early /\ command \in {"none", "run"} =>
    \A m, n \in Node : m # n /\ active[m] => (Hijacked(m, n) <=> Apart(m, n))

\* While a command is under way the nodes may differ, but only about its ids:
\* a call between two nodes it does not name is treated as before and after.
OthersUndisturbed ==
  \A m, n \in Node \ ids : m # n /\ Prepared /\ ~early => (Hijacked(m, n) <=> Apart(m, n))

\* Every command returns: run, disconnect and reconnect wait for every node's
\* answer (test_ctrl.hpp 227, 289, 314), also when they name a node twice or
\* before it is prepared, and kill for none (251-254).  Two things may end a
\* test otherwise: a failed call makes the controller exit, and a report that
\* was lost (raft_wrapper.hpp 65) keeps it in its constructor (147) for good.
Unreported == \E n \in Node : phase[n] \notin {"spawned", "serving"} /\ ~ready[n]
CommandsReturn ==
  (command \notin {"none", "killed"}) ~>
    (command \in {"none", "killed"} \/ exited \/ Unreported)
==============================================================================
