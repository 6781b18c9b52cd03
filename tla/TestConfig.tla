------------------------------- MODULE TestConfig -------------------------------
(***************************************************************************)
(* The tester's side of a cluster (src/inc/toolings/test_config.hpp): one,     *)
(* which proposes a command to every node and then waits until enough of them *)
(* have applied it, and the handler of every applied entry, both under the    *)
(* tester's mutex.  Between them and the nodes lie four waits in a row: a     *)
(* node that applies keeps its own mutex until the applier has taken the entry *)
(* (raft.ipp 91), the applier waits while the stream to the tester is full,    *)
(* the stream is emptied by the handler, the handler waits for the tester's    *)
(* mutex, and one keeps that mutex while the nodes answer its proposals.       *)
(*                                                                           *)
(* Consensus is the environment (modules Raft and ReplicatedLog): the nodes    *)
(* apply one sequence of entries, of which only the length matters here.       *)
(***************************************************************************)
EXTENDS Integers

CONSTANTS Node,
          Window,     \* results between Write and the end of their handler:
                      \* what gRPC buffers, and the one being handled
          MaxLog,     \* bound: entries decided
          MaxTries    \* bound: rounds of one

ASSUME TesterAssumption == Window \in Nat /\ MaxLog \in Nat /\ MaxTries \in Nat

VARIABLES decided,    \* entries of the replicated log
          commit,     \* commitIndex of each node
          taken,      \* entries each node's applier has dequeued
          written,    \*   ... has written to its stream
          logged,     \*   ... that check_logs has put into the tester's logs
          one,        \* where one stands: between rounds, proposing, waiting
          asked,      \* the nodes whose answer one waits for
          claimed,    \* one of the answers came from a node that claims to lead
          tries       \* rounds of one so far
nodeVars == <<decided, commit, taken>>
streamVars == <<written, logged>>
oneVars == <<one, asked, claimed, tries>>
vars == <<nodeVars, streamVars, oneVars>>

Count == [Node -> 0..MaxLog]

\* Every count is one the code can have, and no stage is ahead of the one
\* before it.
TypeOK ==
  /\ decided \in 0..MaxLog
  /\ commit \in Count /\ taken \in Count /\ written \in Count /\ logged \in Count
  /\ \A n \in Node : /\ logged[n] <= written[n] /\ written[n] <= taken[n]
                     /\ taken[n] <= commit[n] /\ commit[n] <= decided
  /\ one \in {"idle", "proposing", "waiting"}
  /\ asked \subseteq Node /\ claimed \in BOOLEAN /\ tries \in 0..MaxTries

Init ==
  /\ decided = 0
  /\ commit = [n \in Node |-> 0] /\ taken = commit
  /\ written = commit /\ logged = commit
  /\ one = "idle" /\ asked = {} /\ claimed = FALSE /\ tries = 0

\* apply_entries keeps the node's mutex until everything committed is taken.
NodeFree(n) == taken[n] = commit[n]

\* one keeps the tester's mutex from its first proposal to the last answer.
TesterFree == one # "proposing"

------------------------------------------------------------------------------
(* The nodes and their streams.                                             *)

\* A command of somebody else is decided.
Decide ==
  /\ decided < MaxLog
  /\ decided' = decided + 1
  /\ UNCHANGED <<commit, taken, streamVars, oneVars>>

\* A node learns that it may apply up to i, any number of entries at once.
Commit(n, i) ==
  /\ NodeFree(n) /\ i > commit[n]
  /\ commit' = [commit EXCEPT ![n] = i]
  /\ UNCHANGED <<decided, taken, streamVars, oneVars>>

\* RaftWrapper::applier: dequeue, then Write, which blocks on a full stream.
DequeueAcked(n) ==
  /\ taken[n] < commit[n] /\ taken[n] = logged[n]
  /\ taken' = [taken EXCEPT ![n] = @ + 1]
  /\ UNCHANGED <<decided, commit, streamVars, oneVars>>
Dequeue(n) ==
  /\ taken[n] < commit[n] /\ taken[n] = written[n]
  /\ taken' = [taken EXCEPT ![n] = @ + 1]
  /\ UNCHANGED <<decided, commit, streamVars, oneVars>>
Write(n) ==
  /\ written[n] < taken[n] /\ written[n] - logged[n] < Window
  /\ written' = [written EXCEPT ![n] = @ + 1]
  /\ UNCHANGED <<nodeVars, logged, oneVars>>

\* serve_apply_result: Read returns the next result of a node's stream.
Available(n) == written[n] > logged[n]

\* check_logs notes what the node applied next.  Its two comparisons, with the
\* other nodes at that index and with the index before, cannot fail here: the
\* nodes apply one sequence, and a stream keeps its order.
CheckLogs(n) == logged' = [logged EXCEPT ![n] = @ + 1]

\* The handler of a result, which takes the tester's mutex.
Handle(n) ==
  /\ Available(n) /\ TesterFree
  /\ CheckLogs(n)
  /\ UNCHANGED <<nodeVars, written, oneVars>>

------------------------------------------------------------------------------
(* one, with retry.                                                         *)

\* It takes the mutex and calls Propose on every connected node at once.
StartRound ==
  /\ one = "idle" /\ tries < MaxTries
  /\ one' = "proposing" /\ tries' = tries + 1
  /\ asked' \in SUBSET Node /\ claimed' = FALSE
  /\ UNCHANGED <<nodeVars, streamVars>>

\* Propose at node n, with the node's mutex: refused, accepted by the leader,
\* or accepted by a node that only believes to lead, where nothing is decided.
ProposeAt(n) ==
  /\ one = "proposing" /\ n \in asked /\ NodeFree(n)
  /\ asked' = asked \ {n}
  /\ \/ UNCHANGED <<decided, claimed>>
     \/ claimed' = TRUE /\ decided < MaxLog /\ decided' = decided + 1
     \/ claimed' = TRUE /\ UNCHANGED decided
  /\ UNCHANGED <<commit, taken, streamVars, one, tries>>

\* All have answered: the mutex is given back, and if somebody claims to lead,
\* the index it gave is waited for.
EndRound ==
  /\ one = "proposing" /\ asked = {}
  /\ one' = IF claimed THEN "waiting" ELSE "idle"
  /\ UNCHANGED <<nodeVars, streamVars, asked, claimed, tries>>

\* The wait ends: n_committed has counted enough nodes, and the caller's next
\* command is a round of its own; or five seconds are over, and the same
\* command is proposed again.
EndWait ==
  /\ one = "waiting"
  /\ one' = "idle"
  /\ UNCHANGED <<nodeVars, streamVars, asked, claimed, tries>>

Next ==
  \/ Decide
  \/ \E n \in Node : \/ \E i \in 1..decided : Commit(n, i)
                     \/ Dequeue(n) \/ Write(n) \/ Handle(n)
                     \/ ProposeAt(n)
  \/ StartRound \/ EndRound \/ EndWait

\* Threads run on and calls are answered.  Between two rounds one sleeps
\* without the mutex, so a handler that wants it gets it; and a node's mutex
\* is free between two batches, so a call that wants it gets it.
Fairness ==
  /\ \A n \in Node : /\ WF_vars(Dequeue(n)) /\ WF_vars(Write(n))
                     /\ SF_vars(Handle(n)) /\ SF_vars(ProposeAt(n))
  /\ WF_vars(EndRound) /\ WF_vars(EndWait)
Spec == Init /\ [][Next]_vars /\ Fairness

------------------------------------------------------------------------------
\* The circle of waits (437-457 keeps the tester's mutex over Propose) closes
\* only when a node has more entries on their way than the stream, the
\* handler and the applier hold between them; until then one's proposals are
\* answered.
Overrun == \E n \in Node : commit[n] - logged[n] > Window + 1
ProposalsAnswered == (one = "proposing") ~> (one # "proposing" \/ Overrun)
==============================================================================
