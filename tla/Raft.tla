--------------------------------- MODULE Raft ---------------------------------
(***************************************************************************)
(* The consensus node of src/src/raft.cpp, in a cluster of such nodes.       *)
(*                                                                         *)
(* Every handler of the code runs under the node's mutex, so each stretch    *)
(* between a lock and the next unlock is one action.  The code does nothing  *)
(* else atomically: a timer expiry, an election and a heartbeat fork         *)
(* detached threads that take the mutex again some time later, and an RPC    *)
(* blocks its thread between the request and the reply.  threads is the bag  *)
(* of those threads, each described by where it stands (pc) and the locals   *)
(* it still needs.  A gRPC call is the thread that makes it: the request it  *)
(* carries reaches the peer once, or never (RpcFail), in any order.          *)
(***************************************************************************)
EXTENDS RaftLog, Bags

CONSTANTS Server,      \* the nodes of the cluster
          Command,     \* what clients propose
          None,        \* votedFor = -1
          MaxTerm,     \* bound: no election beyond this term
          MaxLog,      \* bound: no proposal beyond this log length
          MaxReply,    \* bound: heartbeats answered per peer and leadership
          MaxThreads,  \* bound: threads alive in the whole cluster
          Rerun        \* bound: the nodes that may be run again while they run

ASSUME ServerAssumption == IsFiniteSet(Server) /\ None \notin Server
ASSUME BoundAssumption == /\ MaxTerm \in Nat /\ MaxLog \in Nat
                          /\ MaxReply \in Nat /\ MaxThreads \in Nat
                          /\ Rerun \subseteq Server

VARIABLES currentTerm, votedFor, log,              \* "Persistent State vars"
          commitIndex, applied,                    \* all servers
          nextIndex, matchIndex, replyCounter,     \* leaders
          currentRole, votes, active,
          threads

\* applied is what apply_entries has handed to the ready queue so far;
\* lastApplied is its length.
electVars == <<currentTerm, votedFor, currentRole, votes>>
logVars   == <<log, commitIndex, applied>>
leadVars  == <<nextIndex, matchIndex, replyCounter>>
vars == <<electVars, logVars, leadVars, active, threads>>

Peers(i) == Server \ {i}
InFlight == BagToSet(threads)

------------------------------------------------------------------------------
(* Threads.                                                                 *)

Role == {"Unset", "Follower", "Candidate", "Leader"}
Entry == [term : Nat, command : Command]

VoteRequest == [term : Nat, last_log_term : Nat, last_log_index : Nat]
VoteReply   == [term : Nat, vote_granted : BOOLEAN]
AppendRequest == [term : Nat, prev_log_index : Nat, prev_log_term : Nat,
                  entries : Seq(Entry), leader_commit : Nat]
Conflict == {NoConflict} \cup [conflict_term : Nat, conflict_index : Nat \ {0}]
AppendReply == [term : Nat, success : BOOLEAN, conflict_info : Conflict]

\* What send_entries remembers of its own node across the RPC, lines 687-709.
Sent == [term : Nat, counter : Nat, next : Nat \ {0}, match : Nat,
         logSize : Nat, entries : Nat]

CandidateThread == [pc : {"become_candidate", "request_votes"}, from : Server]
CallThread == [pc : {"ae_call"}, from : Server, to : Server]
VoteThread ==
  [pc : {"vote_call"}, from : Server, to : Server, election_term : Nat]
  \cup [pc : {"vote_request"}, from : Server, to : Server,
        election_term : Nat, req : VoteRequest]
  \cup [pc : {"vote_reply"}, from : Server, to : Server,
        election_term : Nat, reply : VoteReply]
AppendThread ==
  [pc : {"ae_request"}, from : Server, to : Server, sent : Sent,
   req : AppendRequest]
  \cup [pc : {"ae_reply"}, from : Server, to : Server, sent : Sent,
        reply : AppendReply]
Thread == CandidateThread \cup CallThread \cup VoteThread \cup AppendThread

At(pc) == {f \in InFlight : f.pc = pc}

Room(n) == BagCardinality(threads) + n <= MaxThreads
Fork(S) == threads' = threads (+) SetToBag(S)
\* Thread f ends, and the threads of S take its place.
Resume(f, S) == threads' = (threads (-) SetToBag({f})) (+) SetToBag(S)

------------------------------------------------------------------------------
(* The type of the state.                                                   *)

\* Every variable has the type the code declares, every counter is a natural
\* number and every thread is one the code can fork: no handler computes a
\* negative index (the int64_t arithmetic of lines 697, 810-823 and 841).
TypeOK ==
  /\ currentTerm \in [Server -> Nat]
  /\ votedFor \in [Server -> Server \cup {None}]
  /\ log \in [Server -> Seq(Entry)]
  /\ commitIndex \in [Server -> Nat]
  /\ applied \in [Server -> Seq(Entry)]
  /\ nextIndex \in [Server -> [Server -> Nat]]
  /\ matchIndex \in [Server -> [Server -> Nat]]
  /\ replyCounter \in [Server -> [Server -> Nat]]
  /\ currentRole \in [Server -> Role]
  /\ votes \in [Server -> SUBSET Server]
  /\ active \in [Server -> BOOLEAN]
  /\ IsABag(threads)
  /\ InFlight \subseteq Thread

\* Raft::Raft, and start_server/connect_peers: no Run has arrived yet, so
\* currentRole is still unset; an absent key of the unordered_maps reads as 0.
Init ==
  /\ currentTerm = [i \in Server |-> 0]
  /\ votedFor = [i \in Server |-> None]
  /\ log = [i \in Server |-> <<>>]
  /\ commitIndex = [i \in Server |-> 0]
  /\ applied = [i \in Server |-> <<>>]
  /\ nextIndex = [i \in Server |-> [j \in Server |-> 0]]
  /\ matchIndex = [i \in Server |-> [j \in Server |-> 0]]
  /\ replyCounter = [i \in Server |-> [j \in Server |-> 0]]
  /\ currentRole = [i \in Server |-> "Unset"]
  /\ votes = [i \in Server |-> {}]
  /\ active = [i \in Server |-> FALSE]
  /\ threads = EmptyBag

\* Raft::run: from now on the RPC handlers answer and an election timer runs.
\* A console's "r" runs a node again, whatever it is doing.
Run(i) ==
  /\ active[i] => i \in Rerun
  /\ active' = [active EXCEPT ![i] = TRUE]
  /\ currentRole' = [currentRole EXCEPT ![i] = "Follower"]
  /\ UNCHANGED <<currentTerm, votedFor, votes, logVars, leadVars, threads>>

------------------------------------------------------------------------------
(* Elections.                                                               *)

\* start_timer expires on a follower or candidate: a thread is forked that
\* will call become_candidate.  The timer was started by run or by a handler.
ElectionTimeout(i) ==
  /\ active[i]
  /\ currentRole[i] \in {"Follower", "Candidate"}
  /\ currentTerm[i] < MaxTerm
  /\ Room(1)
  /\ Fork({[pc |-> "become_candidate", from |-> i]})
  /\ UNCHANGED <<electVars, logVars, leadVars, active>>

\* become_candidate, whatever the role has become since the timer expired.
BecomeCandidate(f) ==
  LET i == f.from
  IN  /\ f.pc = "become_candidate"
      /\ currentTerm[i] < MaxTerm
      /\ currentRole' = [currentRole EXCEPT ![i] = "Candidate"]
      /\ currentTerm' = [currentTerm EXCEPT ![i] = @ + 1]
      /\ votedFor' = [votedFor EXCEPT ![i] = i]
      /\ votes' = [votes EXCEPT ![i] = {i}]
      /\ Resume(f, {[pc |-> "request_votes", from |-> i]})
      /\ UNCHANGED <<logVars, leadVars, active>>

\* request_votes(currentTerm): the argument is read after the unlock.
RequestVotes(f) ==
  LET i == f.from
  IN  /\ f.pc = "request_votes"
      /\ Room(Cardinality(Peers(i)) - 1)
      /\ Resume(f, {[pc |-> "vote_call", from |-> i, to |-> j,
                     election_term |-> currentTerm[i]] : j \in Peers(i)})
      /\ UNCHANGED <<electVars, logVars, leadVars, active>>

\* One peer's thread builds its RequestVote from the state of that moment.
PrepareVote(f) ==
  LET i == f.from
  IN  /\ f.pc = "vote_call"
      /\ Resume(f, {[pc |-> "vote_request", from |-> i, to |-> f.to,
                     election_term |-> f.election_term,
                     req |-> [term |-> currentTerm[i],
                              last_log_term |-> LastLogTerm(log[i]),
                              last_log_index |-> LastLogIndex(log[i])]]})
      /\ UNCHANGED <<electVars, logVars, leadVars, active>>

\* The vote a node may still give in the request's term.
FreeToVoteForgetful(i, f) == TRUE
FreeToVote(i, f) ==
  \/ f.req.term > currentTerm[i]
  \/ votedFor[i] \in {None, f.from}

\* reply_vote's verdict.
Grants(i, f) ==
  /\ active[i]
  /\ f.req.term >= currentTerm[i]
  /\ FreeToVote(i, f)
  /\ CandidateUpToDate(f.req, log[i])

\* What a newer term in a request or a reply does to a node's term, and what
\* that does to its vote: lines 418-422, 512-515, 729-734, 946-949.
NewerTerm(i, term) == IF term > currentTerm[i] THEN term ELSE currentTerm[i]
VoteAt(i, term) == IF term > currentTerm[i] THEN None ELSE votedFor[i]

\* reply_vote.
ReplyVote(f) ==
  LET i == f.to
      granted == Grants(i, f)
      term == IF active[i] THEN NewerTerm(i, f.req.term) ELSE currentTerm[i]
  IN  /\ f.pc = "vote_request"
      /\ currentTerm' = [currentTerm EXCEPT ![i] = term]
      /\ votedFor' = [votedFor EXCEPT ![i] =
           IF granted THEN f.from ELSE VoteAt(i, term)]
      /\ currentRole' = [currentRole EXCEPT ![i] =
           IF granted \/ term > currentTerm[i] THEN "Follower" ELSE @]
      /\ Resume(f, {[pc |-> "vote_reply", from |-> f.from, to |-> i,
                     election_term |-> f.election_term,
                     reply |-> [term |-> IF active[i] THEN term ELSE 0,
                                vote_granted |-> granted]]})
      /\ UNCHANGED <<votes, logVars, leadVars, active>>

\* votes.size() > peers_.size() / 2.
WinsElection(V) == Cardinality(V) > (Cardinality(Server) - 1) \div 2

\* The reply is one to this very election and not to one given up since.
VoteCountsLate(i, f) == f.reply.vote_granted /\ currentRole[i] = "Candidate"
VoteCounts(i, f) ==
  /\ f.reply.vote_granted
  /\ currentTerm[i] = f.election_term
  /\ currentRole[i] = "Candidate"

\* become_leader, when the votes of V elect node i: the leader's variables.
BecomeLeader(i, V) ==
  IF WinsElection(V)
  THEN /\ currentRole' = [currentRole EXCEPT ![i] = "Leader"]
       /\ nextIndex' = [nextIndex EXCEPT ![i] =
            [j \in Server |-> IF j = i THEN 0 ELSE Len(log[i]) + 1]]
       /\ matchIndex' = [matchIndex EXCEPT ![i] = [j \in Server |-> 0]]
       /\ replyCounter' = [replyCounter EXCEPT ![i] = [j \in Server |-> 0]]
  ELSE UNCHANGED <<currentRole, leadVars>>

\* A vote is counted, lines 448-458.
CountVote(f) ==
  LET i == f.from
      V == votes[i] \cup {f.to}
  IN  /\ f.pc = "vote_reply"
      /\ VoteCounts(i, f)
      /\ votes' = [votes EXCEPT ![i] = V]
      /\ BecomeLeader(i, V)
      /\ Resume(f, {})
      /\ UNCHANGED <<currentTerm, votedFor, logVars, active>>

\* A denial, or a vote for an election given up: lines 416-447.
DropVote(f) ==
  LET i == f.from
      term == IF f.reply.vote_granted THEN currentTerm[i]
              ELSE NewerTerm(i, f.reply.term)
  IN  /\ f.pc = "vote_reply"
      /\ ~VoteCounts(i, f)
      /\ currentTerm' = [currentTerm EXCEPT ![i] = term]
      /\ votedFor' = [votedFor EXCEPT ![i] = VoteAt(i, term)]
      /\ currentRole' = [currentRole EXCEPT ![i] =
           IF term > currentTerm[i] THEN "Follower" ELSE @]
      /\ Resume(f, {})
      /\ UNCHANGED <<votes, logVars, leadVars, active>>

HandleVoteReply(f) == CountVote(f) \/ DropVote(f)

------------------------------------------------------------------------------
(* Replication.                                                             *)

\* propose, and the first half of propose_sync; clients reach a node only
\* after the harness has run it.
Propose(i, c) ==
  /\ active[i]
  /\ currentRole[i] = "Leader"
  /\ Len(log[i]) < MaxLog
  /\ log' = [log EXCEPT ![i] =
       Append(@, [term |-> currentTerm[i], command |-> c])]
  /\ UNCHANGED <<electVars, commitIndex, applied, leadVars, active, threads>>

\* start_timer expires on a leader: send_entries forks a thread per peer.
HeartbeatTimeout(i) ==
  /\ currentRole[i] = "Leader"
  /\ \A j \in Peers(i) : replyCounter[i][j] < MaxReply
  /\ Room(Cardinality(Peers(i)))
  /\ Fork({[pc |-> "ae_call", from |-> i, to |-> j] : j \in Peers(i)})
  /\ UNCHANGED <<electVars, logVars, leadVars, active>>

\* One peer's thread builds its AppendEntries from the state of that moment:
\* the term and the log are the node's, leader or not.  The entry before the
\* first one sent is read without a bounds check.
PrepareEntries(f) ==
  LET i == f.from
      next == nextIndex[i][f.to]
      new == SubSeq(log[i], next, Len(log[i]))
  IN  /\ f.pc = "ae_call"
      /\ \E stale \in 0..MaxTerm :
           Resume(f, {[pc |-> "ae_request", from |-> i, to |-> f.to,
             sent |-> [term |-> currentTerm[i],
                       counter |-> replyCounter[i][f.to] + 1,
                       next |-> next, match |-> matchIndex[i][f.to],
                       logSize |-> Len(log[i]), entries |-> Len(new)],
             req |-> [term |-> currentTerm[i],
                      prev_log_index |-> IF next > 1 THEN next - 1 ELSE 0,
                      prev_log_term |-> IF next > 1
                                        THEN TermAt(log[i], next - 1, stale)
                                        ELSE 0,
                      entries |-> new,
                      leader_commit |-> commitIndex[i]]]})
      /\ UNCHANGED <<electVars, logVars, leadVars, active>>

\* Where an AppendEntries that passed the consistency check takes the commit
\* index: lines 1060-1063.
CommitWithLeader(l, commit, leaderCommit) ==
  IF leaderCommit <= commit THEN commit
  ELSE IF leaderCommit < Len(l) THEN leaderCommit ELSE Len(l)

\* append_entries answers without looking: a node not yet run, or a request
\* of an earlier term.
RefuseEntries(f) ==
  LET i == f.to
  IN  /\ f.pc = "ae_request"
      /\ ~active[i] \/ f.req.term < currentTerm[i]
      /\ Resume(f, {[pc |-> "ae_reply", from |-> f.from, to |-> i,
                     sent |-> f.sent,
                     reply |-> [term |-> IF active[i] THEN currentTerm[i] ELSE 0,
                                success |-> FALSE,
                                conflict_info |-> NoConflict]]})
      /\ UNCHANGED <<electVars, logVars, leadVars, active>>

\* append_entries beyond its early returns: the sender is obeyed as leader of
\* its term, the log is merged when the previous entry agrees.
AcceptEntries(f) ==
  LET i == f.to
      term == NewerTerm(i, f.req.term)
      miss == PrevMismatch(log[i], f.req.prev_log_index, f.req.prev_log_term)
      newLog == IF miss \/ f.req.entries = <<>> THEN log[i]
                ELSE Merge(log[i], f.req.prev_log_index, f.req.entries)
      commit == IF miss THEN commitIndex[i]
                ELSE CommitWithLeader(newLog, commitIndex[i], f.req.leader_commit)
  IN  /\ f.pc = "ae_request"
      /\ active[i] /\ f.req.term >= currentTerm[i]
      /\ currentTerm' = [currentTerm EXCEPT ![i] = term]
      /\ votedFor' = [votedFor EXCEPT ![i] = VoteAt(i, term)]
      /\ currentRole' = [currentRole EXCEPT ![i] = "Follower"]
      /\ log' = [log EXCEPT ![i] = newLog]
      /\ commitIndex' = [commitIndex EXCEPT ![i] = commit]
      /\ applied' = [applied EXCEPT ![i] =
           IF ~miss /\ f.req.leader_commit > commitIndex[i]
           THEN ApplyEntries(@, newLog, commit) ELSE @]
      /\ Resume(f, {[pc |-> "ae_reply", from |-> f.from, to |-> i,
                     sent |-> f.sent,
                     reply |-> [term |-> term, success |-> ~miss,
                                conflict_info |->
                                  IF miss
                                  THEN ConflictInfo(log[i], f.req.prev_log_index)
                                  ELSE NoConflict]]})
      /\ UNCHANGED <<votes, leadVars, active>>

AppendEntries(f) == RefuseEntries(f) \/ AcceptEntries(f)

------------------------------------------------------------------------------
(* The replies to AppendEntries, lines 718-881.                             *)

\* The counter of line 719 lets the reply through.
Fresh(f) == f.sent.counter >= replyCounter[f.from][f.to]

\* The node is the leader that sent the request.
StillLeading(f) ==
  /\ currentRole[f.from] = "Leader"
  /\ f.sent.term = currentTerm[f.from]

NoteReply(f) ==
  replyCounter' = [replyCounter EXCEPT ![f.from][f.to] = f.sent.counter]

\* A reply overtaken by a later one.
SkipReply(f) ==
  /\ f.pc = "ae_reply"
  /\ ~Fresh(f)
  /\ Resume(f, {})
  /\ UNCHANGED <<electVars, logVars, leadVars, active>>

\* The peer knows a higher term: step down.
StepDown(f) ==
  LET i == f.from
  IN  /\ f.pc = "ae_reply"
      /\ Fresh(f)
      /\ f.reply.term > currentTerm[i]
      /\ currentTerm' = [currentTerm EXCEPT ![i] = f.reply.term]
      /\ votedFor' = [votedFor EXCEPT ![i] = None]
      /\ currentRole' = [currentRole EXCEPT ![i] = "Follower"]
      /\ NoteReply(f)
      /\ Resume(f, {})
      /\ UNCHANGED <<votes, logVars, nextIndex, matchIndex, active>>

\* The reply concerns a leadership that is over, or a failure at a place the
\* leader has moved away from: only the counter is noted.
Unmoved(f) == /\ nextIndex[f.from][f.to] = f.sent.next
              /\ matchIndex[f.from][f.to] = f.sent.match
IgnoreReply(f) ==
  /\ f.pc = "ae_reply"
  /\ Fresh(f)
  /\ f.reply.term <= currentTerm[f.from]
  /\ ~StillLeading(f) \/ (~f.reply.success /\ ~Unmoved(f))
  /\ NoteReply(f)
  /\ Resume(f, {})
  /\ UNCHANGED <<electVars, logVars, nextIndex, matchIndex, active>>

\* Where the leader tries next after a failure, lines 777-831.
RetryZeroBased(f, found) ==
  IF f.reply.conflict_info = NoConflict THEN nextIndex[f.from][f.to] - 2
  ELSE IF found # 0 THEN found ELSE f.reply.conflict_info.conflict_index - 1
RetryIndex(f, found) ==
  LET next == nextIndex[f.from][f.to]
      match == matchIndex[f.from][f.to]
  IN  IF f.reply.conflict_info = NoConflict
      THEN IF next > match + 1 THEN next - 1 ELSE next
      ELSE IF found # 0 THEN found + 1 ELSE f.reply.conflict_info.conflict_index

\* The indices the search looks at, lines 784-788 (1-based).
SearchLast(f) == IF f.sent.logSize < f.sent.next - 1
                 THEN f.sent.logSize ELSE f.sent.next - 1

\* The peer's log disagrees: back up.
BackUp(f) ==
  LET i == f.from
  IN  /\ f.pc = "ae_reply"
      /\ Fresh(f)
      /\ f.reply.term <= currentTerm[i]
      /\ ~f.reply.success
      /\ StillLeading(f) /\ Unmoved(f)
      /\ \E found \in SearchResults(log[i], matchIndex[i][f.to],
                                    SearchLast(f) - 1,
                                    f.reply.conflict_info.conflict_term) :
           nextIndex' = [nextIndex EXCEPT ![i][f.to] = RetryIndex(f, found)]
      /\ NoteReply(f)
      /\ Resume(f, {})
      /\ UNCHANGED <<electVars, logVars, matchIndex, active>>

\* The last index a successful reply vouches for, line 841.
Acked(f) == f.sent.next + f.sent.entries - 1

\* The peer holds everything sent: note it, and commit the highest index that
\* a majority now holds.
Acknowledge(f) ==
  LET i == f.from
      last == Acked(f)
      match == [matchIndex[i] EXCEPT ![f.to] = last]
  IN  /\ f.pc = "ae_reply"
      /\ Fresh(f)
      /\ f.reply.term <= currentTerm[i]
      /\ f.reply.success
      /\ StillLeading(f)
      /\ matchIndex' = [matchIndex EXCEPT ![i] = match]
      /\ nextIndex' = [nextIndex EXCEPT ![i][f.to] = last + 1]
      /\ \E stale \in 0..MaxTerm :
         \E n \in NewCommits(log[i], commitIndex[i], last, currentTerm[i],
                             match, Peers(i), stale) :
           /\ commitIndex' = [commitIndex EXCEPT ![i] = n]
           /\ applied' = [applied EXCEPT ![i] =
                IF n > commitIndex[i] THEN ApplyEntries(@, log[i], n) ELSE @]
      /\ NoteReply(f)
      /\ Resume(f, {})
      /\ UNCHANGED <<electVars, log, active>>

HandleAppendReply(f) ==
  SkipReply(f) \/ StepDown(f) \/ IgnoreReply(f) \/ BackUp(f) \/ Acknowledge(f)

\* status not ok: the peer never saw the request, or the reply is lost.
RpcFail(f) ==
  /\ f.pc \in {"vote_request", "vote_reply", "ae_request", "ae_reply"}
  /\ Resume(f, {})
  /\ UNCHANGED <<electVars, logVars, leadVars, active>>

------------------------------------------------------------------------------
ThreadStep(f) ==
  \/ BecomeCandidate(f) \/ RequestVotes(f)
  \/ PrepareVote(f) \/ ReplyVote(f) \/ HandleVoteReply(f)
  \/ PrepareEntries(f) \/ AppendEntries(f) \/ HandleAppendReply(f)
  \/ RpcFail(f)

NodeStep(i) ==
  \/ Run(i) \/ ElectionTimeout(i) \/ HeartbeatTimeout(i)
  \/ \E c \in Command : Propose(i, c)

Next == (\E i \in Server : NodeStep(i)) \/ (\E f \in InFlight : ThreadStep(f))

\* Every schedule of the detached threads.
Spec == Init /\ [][Next]_vars

\* Schedules in which the threads send_entries forks have all built their
\* requests before the node's term or role changes.
SendersPrompt ==
  \A f \in At("ae_call") : /\ currentTerm'[f.from] = currentTerm[f.from]
                           /\ currentRole'[f.from] = currentRole[f.from]
PromptNext == Next /\ SendersPrompt
SpecPrompt == Init /\ [][PromptNext]_vars
==============================================================================
