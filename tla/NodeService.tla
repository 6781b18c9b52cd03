------------------------------ MODULE NodeService ------------------------------
(***************************************************************************)
(* One node as its clients see it: propose and propose_sync                   *)
(* (src/src/raft.cpp), the waiters kept in proposal_cvs, apply_entries handing *)
(* entries to the ready queue with the node's mutex held, and the applier of   *)
(* src/inc/toolings/raft_wrapper.hpp that streams them to the tester.          *)
(*                                                                           *)
(* What the peers do is the environment: terms that others lead, entries they *)
(* send, acknowledgements that let this node commit.  They may do all that    *)
(* append_entries and the reply handlers accept, as the late threads of the   *)
(* run phantom of Raft do: depose a leader inside its term, erase what was    *)
(* applied.  The variable prompt tells whether they have kept, so far, to     *)
(* what Raft proves of a cluster under SpecPrompt (DeposedByLaterTerm,        *)
(* CommittedKept); what the node promises its clients rests on it.            *)
(*                                                                           *)
(* An entry is its term: a leader appends to an index once per term, so term  *)
(* and index name an entry.  The mutex is free between actions except while a *)
(* handler is inside apply_entries (mutex # "free").                          *)
(***************************************************************************)
EXTENDS Integers, Sequences

CONSTANTS Client,     \* threads of the RPC server that serve propose_sync
          NoClient,   \* no condition variable at this index
          MaxTerm,    \* bound: terms
          MaxLog      \* bound: entries in the log

ASSUME ServiceAssumption ==
  NoClient \notin Client /\ MaxTerm \in Nat /\ MaxLog \in Nat

VARIABLES role, active, currentTerm, log, commitIndex, lastApplied,
          mutex,        \* free, or where apply_entries stands in ready.enqueue
          applied,      \* what the applier has taken and streamed
          served,       \* the controller has called Apply on this node
          proposal_cvs, \* the client whose condition variable an index holds
          waiting,      \* the clients inside propose_sync
          notified,     \* those whose condition variable was notified
          res,          \* what each client's call was given: index and term
          answer,       \* what the last call of a client returned
          prompt        \* history: PeersPrompt was true of every step so far
node == <<role, active, currentTerm>>
store == <<log, commitIndex>>
pipe == <<lastApplied, mutex, applied, served>>
calls == <<proposal_cvs, waiting, notified, res, answer>>
vars == <<node, store, pipe, calls, prompt>>

Index == 1..MaxLog
Term == 1..MaxTerm
NoRes == [index |-> 0, term |-> 0]

\* Every index, term and waiting place is one the code can have.
TypeOK ==
  /\ role \in {"Leader", "Follower", "Candidate"} /\ active \in BOOLEAN
  /\ currentTerm \in 0..MaxTerm
  /\ log \in Seq(0..MaxTerm) /\ Len(log) <= MaxLog
  /\ commitIndex \in 0..MaxLog /\ lastApplied \in 0..MaxLog
  /\ mutex \in {"free", "enqueue", "offered", "taken"}
  /\ applied \in Seq(0..MaxTerm) /\ served \in BOOLEAN
  /\ proposal_cvs \in [Index -> Client \cup {NoClient}]
  /\ waiting \subseteq Client /\ notified \subseteq waiting
  /\ res \in [Client -> [index : 0..MaxLog, term : 0..MaxTerm]]
  /\ answer \in [Client -> {"none", "committed", "not_leader"}]

\* The constructor gives currentRole no value.
Init ==
  /\ role \in {"Leader", "Follower", "Candidate"} /\ active = FALSE
  /\ currentTerm = 0
  /\ log = <<>> /\ commitIndex = 0 /\ lastApplied = 0
  /\ mutex = "free" /\ applied = <<>> /\ served = FALSE
  /\ proposal_cvs = [i \in Index |-> NoClient]
  /\ waiting = {} /\ notified = {}
  /\ res = [c \in Client |-> NoRes]
  /\ answer = [c \in Client |-> "none"]
  /\ prompt = TRUE

Unlocked == mutex = "free"
Registered == {c \in Client : \E i \in Index : proposal_cvs[i] = c}

------------------------------------------------------------------------------
(* Clients.  Neither propose nor propose_sync asks whether the node runs.    *)

Propose ==
  /\ Unlocked /\ role = "Leader" /\ Len(log) < MaxLog
  /\ log' = Append(log, currentTerm)
  /\ UNCHANGED <<node, commitIndex, pipe, calls>>

\* The wait returns at once when the index counts as committed already, which
\* takes a commit index past the log.
ProposeSync(c) ==
  /\ Unlocked /\ c \notin waiting
  /\ \/ /\ role = "Leader" /\ Len(log) < MaxLog /\ commitIndex <= Len(log)
        /\ log' = Append(log, currentTerm)
        /\ res' = [res EXCEPT ![c] = [index |-> Len(log) + 1, term |-> currentTerm]]
        /\ proposal_cvs' = [proposal_cvs EXCEPT ![Len(log) + 1] = c]
        /\ waiting' = waiting \cup {c}
        /\ answer' = [answer EXCEPT ![c] = "none"]
     \/ /\ role = "Leader" /\ Len(log) < MaxLog /\ commitIndex > Len(log)
        /\ log' = Append(log, currentTerm)
        /\ proposal_cvs' = [proposal_cvs EXCEPT ![Len(log) + 1] = NoClient]
        /\ answer' = [answer EXCEPT ![c] = "committed"]
        /\ UNCHANGED <<res, waiting>>
     \/ /\ role # "Leader"
        /\ answer' = [answer EXCEPT ![c] = "not_leader"]
        /\ UNCHANGED <<log, res, proposal_cvs, waiting>>
  /\ UNCHANGED <<node, commitIndex, pipe, notified>>

\* The predicate of propose_sync's wait.
ReleasedEarly(c) == commitIndex + 1 >= res[c].index \/ role # "Leader"
Released(c) == commitIndex >= res[c].index \/ role # "Leader"

\* A notified client gets the mutex: it goes on waiting, or it erases what its
\* index holds, be it its own condition variable or not, and answers by the
\* commit index alone.
Wake(c) ==
  /\ Unlocked /\ c \in waiting \cap notified
  /\ notified' = notified \ {c}
  /\ \/ /\ ~Released(c)
        /\ UNCHANGED <<proposal_cvs, waiting, res, answer>>
     \/ /\ Released(c)
        /\ proposal_cvs' = [proposal_cvs EXCEPT ![res[c].index] = NoClient]
        /\ waiting' = waiting \ {c}
        /\ answer' = [answer EXCEPT ![c] =
             IF commitIndex >= res[c].index THEN "committed" ELSE "not_leader"]
        /\ res' = [res EXCEPT ![c] = NoRes]
  /\ UNCHANGED <<node, store, pipe>>

\* A wait may return without a notification.
Spurious(c) ==
  /\ c \in waiting \ notified
  /\ notified' = notified \cup {c}
  /\ UNCHANGED <<node, store, pipe, proposal_cvs, waiting, res, answer>>

\* handle_pending_sync_props, called before a leader becomes a follower.
ForgetPending ==
  /\ proposal_cvs' = IF role = "Leader" THEN [i \in Index |-> NoClient] ELSE proposal_cvs
  /\ UNCHANGED notified
HandlePending ==
  IF role = "Leader"
  THEN /\ notified' = notified \cup Registered
       /\ proposal_cvs' = [i \in Index |-> NoClient]
  ELSE UNCHANGED <<proposal_cvs, notified>>

------------------------------------------------------------------------------
(* The node's role and log, as far as its clients depend on them.            *)

\* run assigns the role, with no mutex and telling no waiter; a console's "r"
\* runs a node again.
Run ==
  /\ active' = TRUE /\ role' = "Follower"
  /\ UNCHANGED <<currentTerm, store, pipe, calls>>

\* become_candidate, whatever the role has become since the timer expired; a
\* leader's waiters are not told.
BecomeCandidate ==
  /\ active /\ Unlocked /\ currentTerm < MaxTerm
  /\ role' = "Candidate" /\ currentTerm' = currentTerm + 1
  /\ UNCHANGED <<active, store, pipe, calls>>

BecomeLeader ==
  /\ active /\ Unlocked /\ role = "Candidate"
  /\ role' = "Leader"
  /\ UNCHANGED <<active, currentTerm, store, pipe, calls>>

\* A vote request or any reply with a later term t.
StepDown(t) ==
  /\ active /\ Unlocked /\ t > currentTerm
  /\ HandlePending
  /\ currentTerm' = t /\ role' = "Follower"
  /\ UNCHANGED <<active, store, pipe, waiting, res, answer>>

\* The tail of a handler that moves commitIndex to n: the mutex is kept while
\* apply_entries has something to apply.  It throws, and the handler swallows
\* it, when the commit index is past the log.
CommitToUnchecked(n) ==
  /\ commitIndex' = n
  /\ mutex' = IF n > lastApplied THEN "enqueue" ELSE "free"
  /\ UNCHANGED <<lastApplied, applied, served>>
CommitTo(n) ==
  /\ commitIndex' = n
  /\ mutex' = IF n > lastApplied /\ n <= Len(log') THEN "enqueue" ELSE "free"
  /\ UNCHANGED <<lastApplied, applied, served>>

\* What a request can make of the log: everything behind the first k entries
\* is replaced, from the first that differs on, or the log is extended.
\* Terms never fall along a log.
Merged(k, new) == SubSeq(log, 1, k) \o new
Mergeable(k, new) ==
  /\ new = <<>> => k = Len(log)
  /\ k < Len(log) /\ new # <<>> => new[1] # log[k + 1]
  /\ \A i \in 2..k + Len(new) : Merged(k, new)[i - 1] <= Merged(k, new)[i]

\* AppendEntries of term t: a refusal, or a merge and the commit index n of
\* the sender, as far as the log now reaches.
AppendEntries(t) ==
  /\ active /\ Unlocked /\ t >= currentTerm
  /\ HandlePending
  /\ currentTerm' = t /\ role' = "Follower"
  /\ \/ UNCHANGED <<store, pipe>>
     \/ \E k \in 0..Len(log) : \E m \in 0..MaxLog - k :
        \E new \in [1..m -> 1..t] :
          /\ Mergeable(k, new)
          /\ log' = Merged(k, new)
          /\ \/ UNCHANGED <<commitIndex, pipe>>
             \/ \E n \in commitIndex + 1..MaxLog :
                  CommitTo(IF n < k + m THEN n ELSE k + m)
  /\ UNCHANGED <<active, waiting, res, answer>>

\* A follower's reply lets the leader commit up to n, an entry of its term, or
\* one past the log whose term is read out of bounds.
AdvanceCommit(n) ==
  /\ active /\ Unlocked /\ role = "Leader" /\ n > commitIndex
  /\ n <= Len(log) => log[n] = currentTerm
  /\ log' = log /\ CommitTo(n)
  /\ UNCHANGED <<node, calls>>

------------------------------------------------------------------------------
(* The apply pipeline: apply_entries in Raft::apply -> enqueue on a queue with *)
(* no buffer, and RaftWrapper::applier at the other end.                     *)

Enqueue ==
  /\ mutex = "enqueue"
  /\ mutex' = "offered"
  /\ UNCHANGED <<node, store, lastApplied, applied, served, calls>>

\* dequeue and the Write of one result to the tester's stream.
Applier ==
  /\ served /\ mutex = "offered"
  /\ mutex' = "taken"
  /\ applied' = Append(applied, log[lastApplied + 1])
  /\ UNCHANGED <<node, store, lastApplied, served, calls>>

\* enqueue returns: the entry counts as applied and its waiter is notified;
\* the loop goes on, or the handler ends and gives the mutex back.
AppliedLast ==
  /\ mutex = "taken"
  /\ lastApplied' = lastApplied + 1
  /\ mutex' = IF lastApplied' < commitIndex THEN "enqueue" ELSE "free"
  /\ notified' = IF lastApplied' < commitIndex THEN notified
                 ELSE notified \cup ({proposal_cvs[lastApplied']} \ {NoClient})
  /\ UNCHANGED <<node, store, applied, served, proposal_cvs, waiting, res, answer>>
AppliedAll ==
  /\ mutex = "taken"
  /\ lastApplied' = commitIndex
  /\ mutex' = "free"
  /\ notified' = notified \cup ({proposal_cvs[lastApplied']} \ {NoClient})
  /\ UNCHANGED <<node, store, applied, served, proposal_cvs, waiting, res, answer>>
Applied ==
  /\ mutex = "taken"
  /\ lastApplied' = lastApplied + 1
  /\ mutex' = IF lastApplied' < commitIndex THEN "enqueue" ELSE "free"
  /\ notified' = notified \cup ({proposal_cvs[lastApplied']} \ {NoClient})
  /\ UNCHANGED <<node, store, applied, served, proposal_cvs, waiting, res, answer>>

\* serve_apply_result of the controller; a console node has no controller.
Serve ==
  /\ ~served /\ served' = TRUE
  /\ UNCHANGED <<node, store, lastApplied, mutex, applied, calls>>

Step ==
  \/ Run \/ BecomeCandidate \/ BecomeLeader
  \/ \E t \in Term : StepDown(t) \/ AppendEntries(t)
  \/ \E n \in Index : AdvanceCommit(n)
  \/ Enqueue \/ Applier \/ Applied \/ Serve
  \/ Propose
  \/ \E c \in Client : ProposeSync(c) \/ Wake(c) \/ Spurious(c)

\* What Raft proves of the cluster under SpecPrompt: a leader that runs is
\* deposed by a later term only, unless it is run again, which nobody does
\* here; and no committed entry is replaced.
PeersPrompt ==
  /\ active /\ role = "Leader" /\ role' # "Leader" => currentTerm' > currentTerm
  /\ commitIndex' <= Len(log')
  /\ \A i \in 1..commitIndex : i <= Len(log') /\ log'[i] = log[i]
Watched == prompt' = (prompt /\ PeersPrompt)
Next == Step /\ Watched

\* The threads inside the pipeline and a notified client go on; peers, timers,
\* clients and the controller owe nothing.
Fairness ==
  /\ WF_vars(Enqueue /\ Watched) /\ WF_vars(Applier /\ Watched)
  /\ WF_vars(Applied /\ Watched)
  /\ \A c \in Client : WF_vars(Wake(c) /\ Watched)
Spec == Init /\ [][Next]_vars /\ Fairness

------------------------------------------------------------------------------
(* Whatever the peers do.                                                   *)

\* The tester's check_logs (test_config.hpp 244-264) takes results in order,
\* with no gap and none twice: the stream is exactly as long as lastApplied
\* says, whatever the peers do to log and commitIndex; and apply_entries (636)
\* never reads past the log, although commitIndex may be past it (630, 1063).
StreamInOrder ==
  /\ Len(applied) = IF mutex = "taken" THEN lastApplied + 1 ELSE lastApplied
  /\ mutex # "free" => lastApplied < commitIndex /\ commitIndex <= Len(log)

------------------------------------------------------------------------------
(* As long as the peers have been prompt.                                   *)

\* A call that waits in the term it was made in is not forgotten, although
\* others overwrite, erase and clear proposal_cvs (1170, 1177, 322): the node
\* still leads, the call's entry is still at its index, and unless the call
\* has been notified it is registered there and its entry is not applied yet.
\* A call that outlives its term has no such promise: woken by
\* handle_pending_sync_props, it waits again if the node leads once more.
Current(c) == c \in waiting /\ res[c].term = currentTerm /\ currentTerm > 0
WaitersKept ==
  prompt => \A c \in Client : Current(c) =>
    /\ role = "Leader"
    /\ res[c].index \in 1..Len(log) /\ log[res[c].index] = res[c].term
    /\ c \notin notified => /\ proposal_cvs[res[c].index] = c
                            /\ lastApplied < res[c].index

\* What propose_sync answers (1179-1193) is true in the term of the call: told
\* of success, the client's own command has been through the state machine;
\* told that the node does not lead, the node has moved on.
AnswersTrue ==
  [][prompt' => \A c \in waiting \ waiting' :
       /\ answer'[c] = "committed" /\ Current(c)
            => res[c].index <= Len(applied) /\ applied[res[c].index] = res[c].term
       /\ answer'[c] = "not_leader" => ~Current(c)]_vars

\* What the comment at 1181 says of that branch, "Command is committed", in
\* whatever term the call returns, of a call made to a node that was run.  The
\* code does not keep it, however prompt the peers are.
SuccessMeansCommitted ==
  [][prompt' => \A c \in waiting \ waiting' :
       answer'[c] = "committed" /\ res[c].term > 0
         => applied[res[c].index] = res[c].term]_vars

\* A leader that becomes a follower tells every call of its term
\* (handle_pending_sync_props at 425, 518, 586, 738, 955): none of them is
\* missing from proposal_cvs at that moment.
StepDownTells ==
  [][prompt' /\ active /\ role = "Leader" /\ role' = "Follower"
       => \A c \in Client : Current(c) => c \in notified']_vars

\* apply_entries blocks in enqueue with the node's mutex held (raft.ipp 91);
\* as long as somebody takes the results, everything committed is streamed.
\* A console node, which nobody serves, stops at its first commit.
CommittedStreamed ==
  \A n \in Index : (served /\ commitIndex >= n) ~> (Len(applied) >= n \/ ~prompt)

\* And a call that is registered when its index is committed returns, however
\* many others are notified, erased or cleared meanwhile (649-653, 1173).
CommittedReturns ==
  \A c \in Client :
    (served /\ Current(c) /\ commitIndex >= res[c].index) ~> (c \notin waiting \/ ~prompt)
==============================================================================
