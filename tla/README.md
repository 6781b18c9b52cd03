# A verification project for the Raft implementation

TLA+ modules for the consensus node of `src/src/raft.cpp` (its elections and
replication, its timers, and what its clients see), for the queue through which it
hands committed entries on, for the harness that starts the nodes and cuts the
network between them, and for the tester that proposes to them; TLC configurations
that check them on small instances; and TLAPS proofs, for all instances, of the
election's safety, the timers, the synchronous proposals and the queue. Paths are relative to the directory that holds `src/` and `tla/`;
line numbers without a file are those of `src/src/raft.cpp`.

## 1. The system

| Component | State | Operations | Talks to |
|---|---|---|---|
| **Consensus node** (`src/src/raft.cpp`, `src/inc/rafty/raft.hpp`) | `currentTerm`, `votedFor`, `log`, `commitIndex`, `lastApplied`, `nextIndex`, `matchIndex`, `replyCounter`, `currentRole`, `votes`, `active`, `timerCounter`, `proposal_cvs`, all under one mutex | `run`, timers, `become_candidate`, `request_votes`, `reply_vote`, `become_leader`, `propose`, `propose_sync`, `send_entries`, `append_entries`, `apply_entries`, `get_state` | peers by gRPC, the ready queue |
| **Ready queue** (`src/inc/toolings/msg_queue.hpp`) | `queue_`, `closed`, two condition variables | `enqueue`, `dequeue`, `try_dequeue`, `close` | the node produces, the applier consumes |
| **Interceptor** (`src/inc/common/utils/net_intercepter.hpp`) | `rank1`, `rank2`, `type`, one copy per process | `Intercept`, `disconnect`, `reconnect`, `setup_rank`, `set_type` | stops the node's own outgoing calls |
| **Node program and wrapper** (`src/app/node.cpp`, `src/inc/toolings/raft_wrapper.hpp`) | tester server, `stop` | start-up, `report_ready`, handlers of the controller's calls, `applier` | controller, node, queue |
| **Controller** (`src/inc/toolings/test_ctrl.hpp`, `src/app/multinode.cpp`) | `ready_nodes`, `nodes`, `node_pids` | spawn, connect, `run`, `kill`, `disconnect`, `reconnect`, queries | every node |
| **Tests** (`src/integration_tests`, `src/unittests`, `src/inc/toolings/test_config.hpp`) | `connected`, `logs` | `check_one_leader`, `check_logs`, `one`, ... | controller |

What is hard in it:

* **Detached threads.** Every timer expiry, every election and every heartbeat
  forks threads that take the mutex again at some later time and read the state of
  *that* time. Between a call and its return any number of terms may pass: no call
  has a deadline.
* **Overtaking.** Heartbeats go out every 25 ms whether or not the previous ones
  have been answered, each from a thread of its own, so requests and replies pass
  each other; `replyCounter` orders them only roughly.
* **Index arithmetic.** Logs are 1-based in the RPCs and 0-based in the vector, and
  the conflict search, the merge, the conflict index and the commit scan are loops
  over mixed indices.
* **Condition variables** shared by producers with different reasons to wait, and
  one operation (`try_dequeue`) that notifies nobody.
* **A cut network that every node computes for itself**, told by one asynchronous
  call per node.
* **Timers that cancel each other.** Starting a timer is itself a detached thread;
  the last to increment `timerCounter` wins, whatever the role is by then.
* **Waiters kept in a map by index.** `propose_sync` registers a condition variable
  in `proposal_cvs`; later calls overwrite it, returning calls erase it, a loss of
  leadership clears the map.
* **A mutex kept across a hand-over.** `apply_entries` waits for the applier with the
  node's mutex held, the applier for the stream, the stream for the tester's handler,
  the handler for a mutex that `one` keeps while the nodes answer it.

Correctness, per component: at most one leader per term, logs that match, nothing
applied that is lost or replaced, one sequence of applied entries (node); no lost
wake-up, no overfull buffer, an item handed over before `enqueue` returns, release
on `close` (queue); always a timer, and in the end the right one (timers); no call
forgotten, no false answer, entries streamed in order (proposals and pipeline); no
circle of waits (tester); the calls stopped are those the test wants stopped, and every
command returns (harness). The individual hazards, with their lines and the
properties aimed at them, are in `PROJECT.json` under `hazards`.

## 2. Modules

| Module | What it is |
|---|---|
| `RaftLog` | pure operators: up-to-date check, consistency check, conflict info, merge, conflict search, commit rule, apply |
| `Raft` | the cluster: state, one action per locked stretch of code, `Spec` and `SpecPrompt` |
| `RaftSafety` | the properties of `Raft`, and the refinement mapping to `ReplicatedLog` |
| `ReplicatedLog` | the abstract specification: one growing sequence, every node a prefix of it |
| `RaftTimer` | the timers of one node: generations, racing starts, expiry by role, `kill` |
| `NodeService` | one node and its clients: `propose`, `propose_sync`, waiters, the apply pipeline |
| `TestConfig` | the tester's `one` and its handler of applied entries |
| `LogLoops` | the loops of the code, one iteration a step, against the operators of `RaftLog` |
| `MessageQueue` | the blocking queue |
| `Harness` | start-up, cut, heal and kill |
| `RaftHistory` | the record of a run (leaders, their logs, who has had what) that the replication proofs say exists |
| `RaftProofs` | theorems of `Raft` under `Spec`: types, votes, elections |
| `ReplicationProofs`, `SafetyProofs` | theorems of `Raft` under `SpecPrompt`: logs, then commitment and the refinement |
| `LoopProofs`, `QueueProofs`, `TimerProofs`, `ServiceProofs`, `HarnessProofs` | theorems of the other components |
| `MCRaft`, `MCRaftDisputed`, `MCLogLoops`, `MCMessageQueue`, `MCHarness` | instances for TLC (`RaftTimer`, `NodeService` and `TestConfig` need only a `.cfg`) |

`Raft` is the cluster with the data; `RaftTimer`, `NodeService` and `TestConfig` each
look at one node or tester in more detail and take the rest as an environment. What they
assume of it differs:

* `RaftTimer` assumes nothing: a peer may make the node a follower at any time.
* `NodeService` assumes nothing of its steps either: the peers may send any
  `AppendEntries` of the node's term or a later one, also one of the very term it leads,
  or one that erases what it has applied; the run `phantom` shows that the code does both.
  But most of what a node promises its clients then fails, so those properties are stated
  as long as `prompt` holds: so far the peers have done what two theorems about `Raft`
  under its `SpecPrompt` say (`LeadersOutlastTheirTerm`, `CommittedStays`): a leader that
  runs is deposed by a later term only, and what is committed stays.
* `TestConfig` assumes that the nodes apply one sequence, which is the theorem
  `ClusterIsReplicatedLog`, again under `SpecPrompt`.

### Raft

The state variables carry the code's names. `applied[i]` is what `apply_entries`
has handed to the queue; its length is `lastApplied`. `currentRole` starts as
`"Unset"` (the constructor does not set it). An absent key of `nextIndex`,
`matchIndex` or `replyCounter` reads as 0, as `operator[]` of the maps does.

`threads` is a bag of threads, each a record of where it stands and the locals it
still needs:

| `pc` | stands at | next action |
|---|---|---|
| `become_candidate` | thread forked by `start_timer` (80-94) | `BecomeCandidate` (267-277) |
| `request_votes` | after the unlock of 277 | `RequestVotes` (296, 391-398): reads `currentTerm` |
| `vote_call` | a peer's thread before its lock (399) | `PrepareVote` (399-406) |
| `vote_request` | request on its way (409) | `ReplyVote` (486-625) at the peer, or `RpcFail` |
| `vote_reply` | reply on its way | `CountVote`, `DropVote` (411-459), or `RpcFail` |
| `ae_call` | a peer's thread before its lock (683) | `PrepareEntries` (683-710) |
| `ae_request` | request on its way (713) | `RefuseEntries`, `AcceptEntries` (925-1080), or `RpcFail` |
| `ae_reply` | reply on its way | `SkipReply`, `StepDown`, `IgnoreReply`, `BackUp`, `Acknowledge` (718-881), or `RpcFail` |

A call is therefore delivered at most once, in any order, after any delay. A timer
expires whenever the role permits, which covers every duration and every
cancellation. Reads past the end of the log vector (689, 856) give any term.
Commands are model values; entries are `[term, command]`.

`Spec` allows every schedule. `SpecPrompt` restricts it in one way: the threads
`send_entries` has forked build their requests before their node's term or role
changes. The run `phantom` shows that without this restriction the replication
properties are false of the code, so they are checked under `SpecPrompt`; the
election properties hold, and are proved, under `Spec`. Everything else about the
schedule (delays of elections, of calls, of replies) is as free in `SpecPrompt`.

### The log algorithms

`Raft` uses operators that say what the loops compute. `LogLoops` runs the loops
themselves, one of them per behaviour (`loop`), on every small input: the conflict
search (783-807), the merge (1030-1057), the conflict index (1006-1021) and the
commit scan (850-871). A slip in an index of the code would show here, and its
consequence for the cluster in the runs of `Raft`.

### MessageQueue

One action per stretch between waits. `pc[t]` is the wait a thread is in,
`notified` the waiting threads that have been woken and have yet to get the mutex;
`Spurious` is the wake-up without a reason that C++ allows. An item is named by its
producer; the buffer's size is chosen at the start (`buffer_size`, 0 for none).

The second wait of `enqueue` (73) asks for an empty queue, not for the item of its
own call to be gone. With two producers on an unbuffered queue, one may have its item
taken, and stay blocked because the other's fills the place before it wakes;
`HandedOff` states the promise with this exception. `node.cpp` has one producer.

### RaftTimer

`pc[t]` is what a detached thread is there to do: take the mutex to start a timer,
be a timer, or do what an expired timer forked. `timerCounter` is compared with a
timer's own number only, so `current` keeps the thread that holds the latest number.
There are no durations; `Expire` may happen at any time, which covers them all.
`HearPeer` stands for the five places that make the node a follower and fork a start
of the election timer (425, 518, 586, 738, 955, each followed by the fork).

The comment at 79, "It must be running election timer", is not true of the code: a
`send_entries` that was forked by a leader starts the heartbeat timer also after the
node has stepped down (899-914). `RightTimer` says this is put right in the end, by
the election that the 25 ms timer starts. `Settles` and `KeepsTrying` are about a
node whose peers have fallen silent (`Quiet`), because a peer can always make it a
follower again.

### NodeService

One node; an entry is its term, since term and index name an entry. The mutex is free
between actions except inside `apply_entries`, where `mutex` says how far the current
entry has come: about to be enqueued, offered, taken by the applier. `AppendEntries`
takes any term from the node's own on, as lines 935-957 do, and any merge of lines
1030-1057: it may cut the log below `commitIndex`, after which `apply_entries` throws and
applies nothing (630). `Run` may come at any time, as the console's `r` does. `Spurious`
is the wake-up without a reason.

`StreamInOrder` holds of all this: whatever the peers send, the tester gets each index
once, in order, and nothing past the log is read. The promises to clients hold only as
long as the history variable `prompt` is true, that is, `PeersPrompt` was true of every
step so far: a leader that runs loses its role together with its term only (so no peer
deposed it within the term, and nobody ran it again), and committed entries stayed as
they were. Without it they are false of the code: a late thread of `send_entries` (687) can make
a leader step down in its own term, and a call of that very term is then refused.

What is promised holds in the term of the call (`Current`). Outside it the code makes
no promise, and the properties say so: a call that is woken by
`handle_pending_sync_props` but gets the mutex only after its node leads again waits
again, registered nowhere; it may be told of success when another entry is committed at
its index; a leader turned candidate by a late `become_candidate` (269) tells nobody; and
a call made before `run`, in term 0, is not told when `run` sets the role. A second
`run` of a leader does the same, which is why it ends `prompt`.

The false success needs no such sleep: the `AppendEntries` that deposes the leader may
itself replace the call's entry and commit its index, and `propose_sync` looks at the
commit index alone (1179). The comment there says "Command is committed"
(`SuccessMeansCommitted`, run `mistaken`).

`CommittedStreamed` and `CommittedReturns` are about a node whose results somebody
takes (`served`). A node started from the console alone has no consumer, and its first
commit leaves it inside `enqueue` with its mutex held.

### TestConfig

The nodes agree on one sequence of `decided` entries; what a node has committed, its
applier has taken and written, and the tester has noted, are counts into it. A round of `one` proposes to every connected node with the tester's mutex held
(437-457 of `test_config.hpp`). `Window` is what lies between `Write` and the end of the handler.
`ProposalsAnswered` shows that the circle of waits (node's mutex, applier, stream,
handler, tester's mutex, node's mutex) closes only through `Overrun`, a node with more
entries on their way than stream and applier hold; gRPC's buffers make that rare, and
nothing in the code excludes it.

### Harness

`fail_type` is the controller's `--fail_type`, handed to every node.

`phase[n]` is how far `main` of node `n` has come: tester server up, readiness
reported, `setup_rank` done, `set_type` done, killed. `pending` holds the calls of the
controller's current command that nodes have yet to treat, one per node and id,
because the interceptor's lock is taken per id. `Hijacked` is the interceptor's
decision for one call. `early` records that a node was told of a cut before its
interceptor was set up: the wrapper reports it ready first (`raft_wrapper.hpp:43`,
`node.cpp:226`), and such a cut is undone. `CutAsAsked` and `OthersUndisturbed` except
it, so they do not catch that flaw, only name it. `kill` waits at most two seconds for
answers and then kills every process.

Two things go wrong without a retry. A node does not look at the status of its
`ReportReady` (`ReportLost`), and the controller then waits in its constructor for good.
A failed call of `run`, `disconnect` or `reconnect` makes the controller exit
(`CallFailed`), while the nodes go on with what they were told. `CommandsReturn` says that
nothing else keeps a command from returning.

## 3. What TLC checks

All passing runs are exhaustive within their bounds.

| Run | Instance | Shows |
|---|---|---|
| `election` | 3 nodes, 2 terms, 3 threads, `Spec` | `TypeOK`, `ElectionSafety`, `OneVotePerTerm`, `TermAndVoteStable` |
| `replication` | 3 nodes, terms 2 to 3 from conflicting logs, 2 entries, 2 answered heartbeats per peer, 2 threads, `PromptNext` | `LogMatching`, `NextIndexInBounds`, `AppliedMatchesLog`, `LeaderCompleteness`, `OnlyHoldersElectable`, `DeposedByLaterTerm`, `CommittedKept`, `ImplementsReplicatedLog` |
| `pipelining` | 3 nodes, 1 term, 2 entries, 3 threads, any node run again, `SpecPrompt` | `MatchIndexSound`, `CommitForward` |
| `log_loops` | logs of 5 entries and 3 terms (the commit scan: 3 entries, 2 terms, 4 peers and every `matchIndex`), batches of 3, every range and index | `SearchCorrect`, `MergeCorrect`, `ConflictCorrect`, `CommitCorrect`, `NothingMissed`, `LoopsEnd` |
| `queue` | 2 producers, 2 consumers, 1 poller, buffers 0, 1 and 2, 3 calls each | `ConsumersAwake`, `ProducersAwake`, `ReturnedMeansTaken`, `HandedOff`, `CloseReleases` |
| `harness` | 3 nodes, failure and partition mode, 3 commands | `CutAsAsked`, `OthersUndisturbed`, `CommandsReturn` |
| `timer` | 4 detached threads at once | `NeverSilent`, `Settles`, `KeepsTrying`, `RightTimer`, `KillQuiets` |
| `service` | 2 synchronous clients, 3 terms, 2 entries, any peers | `StreamInOrder`, `WaitersKept`, `AnswersTrue`, `StepDownTells`, `CommittedStreamed`, `CommittedReturns` |
| `tester` | 2 nodes, a stream of 1, 4 entries, 2 rounds | `ProposalsAnswered` |

Runs that must find a violation:

| Run | What the code does |
|---|---|
| `even` | `votes.size() > peers_.size() / 2` (455): of four nodes, two elect two leaders of one term |
| `phantom` | a late thread of `send_entries` (687) speaks as leader of a term its node does not lead, and entries that were applied are erased |
| `mistaken` | `propose_sync` answers by the commit index alone (1179): a call whose leader was deposed is told of success for the entry another leader committed at its index |

**Bounds.** `MaxThreads` counts threads alive in the whole cluster. Two let a
request of one leader be under way while another thread acts, three allow a late
reply, an overtaking request and an election. `MaxTerm` 2 is two rivals or two
leaders in a row; the third term that the rule of line 856 needs (an entry of an
old term on a majority, then overwritten) is reached by `replication`, whose initial
state is a reachable one: two leaders in a row that each proposed and lost every
request. `MaxLog` 2 has conflicts in and past the first entry, and the loops are
checked on longer logs by their own runs. Four timer threads are a timer, the start of
another, one expired and one more start from a peer. Three terms let a node lead, lose
and lead again while a call of its first leadership still waits; two entries make one
index the last and the other not. A stream of one entry and more than two decided ones let
the tester's circle close. Three nodes leave a link that a command does not name, and
three commands are a run, a cut and its healing; once a node was told of a cut too early,
which the two invariants except for good, `harness` follows the test to the end of its
first command only, and only if that names one node (`Followed` in `MCHarness`; the
module itself has no such bound). `MaxReply` bounds the replies of a peer
noted per leadership before the next heartbeat: with 1, heartbeats sent before the first
reply still overtake each other; 2 (`replication`) lets the counter of line 719 skip a reply.
`Rerun` names the nodes that a console's `r` may run again while they run (the theorems
hold for every `Rerun`). Each property has a mutant in `PROJECT.json`, a plausible slip in
the code it is about, that violates it within these very bounds.

Server and command names are symmetric in `Raft` and only ever compared for
equality, so symmetry is used for safety; `replication` names two servers and uses
none, and neither do the runs with liveness.

Deadlock is not checked: a bounded cluster, a loop that has ended, a queue nobody
calls and a controller without commands may all stop.

**Fairness.** `Raft` has none: all its properties are safety. The loops are
sequential code, so weak fairness of their step. In the queue a woken thread gets
the mutex in the end (weak fairness of `Wake`); nobody has to call or close. In the
harness a started process runs on, a call is answered in the end or fails, and the
controller goes on when it can; nobody has to give a command. A detached timer thread
is scheduled in the end and its time-out comes (weak fairness of everything a thread
does itself); peers, `run` and `kill` owe nothing. In `NodeService` the threads of the
pipeline and a notified client go on; elections, clients and the controller owe nothing.
In `TestConfig` the same holds of appliers; `Handle` and `ProposeAt` are strongly fair
because `one` sleeps between rounds and a node's mutex is free between batches, so a
thread that waits for either gets it in the end.

## 4. What is proved

TLAPS checks these for every value of the constants, under the named assumptions
only (`ServerAssumption`: finitely many servers, `None` not one of them;
`BoundAssumption`; `QueueAssumption`: the kinds of thread are disjoint;
`TimerAssumption`, `ServiceAssumption`: the null values are no threads or clients;
`LoopAssumption`: sequences of entries, natural terms, finitely many peers;
`HarnessAssumption`: the two fail types). `OddCluster` is a hypothesis of the theorems
that need majorities to meet; the run `even` shows why.

Elections:

* `RaftProofs!TypeCorrect`: `Spec => []TypeOK`. `TypeOK` alone is not inductive:
  `PrepareEntries` records `nextIndex` as a positive number, and an absent key reads
  as 0. `NextPresent` adds that a node that leads, or that a thread of `send_entries`
  still belongs to, has an entry for every peer: the entries `become_leader` made stay.
* `RaftProofs!TermAndVoteStability`: `Spec => TermAndVoteStable`, action by action.
* `RaftProofs!VotesUnique`: `Spec => []OneVotePerTerm`. The inductive invariant
  `VoteInv` has four parts. `Unique` is the property, over votes held and votes on
  their way. `Backed` says that a vote given in the voter's current term is the one
  in its `votedFor`, and none is of a later term: this is what lets the next vote be
  given safely. `Ordered` relates `election_term`, read in one thread, to the term in
  the request, read later in another: a granted reply never carries a term beyond its
  candidate's, or before its election, so that a vote counted when
  `currentTerm = election_term` is of that very term. This is the argument that the
  late reads of lines 296 and 402 do no harm. `Won` says a leader holds winning votes.
* `RaftProofs!ElectionIsSafe`: `OddCluster => (Spec => []ElectionSafety)`. Two
  winning sets of an odd cluster meet (`WinnersMeet`), and their common voter voted
  once. For even clusters it is false (`even`).

Replication, all of the form `OddCluster => (SpecPrompt => ...)`:

* `ReplicationProofs!LogsMatch`, `MatchIndexIsSound`, `NextIndexIsInBounds`
  (`LogMatching`, `MatchIndexSound`, `NextIndexInBounds`). None of them is inductive, and
  what is missing is about the past: a late request carries the log of a leader that may
  have lost it since. So the invariant `LogsSound`
  is `TypeInv /\ VoteInv /\ \E h \in History : LogInv(h)`: there is a record `h` of who
  led which term, with how many entries it began, what its log grew to, and how much of it
  each node has had while in that term. `LogInv` ties the state to it: every entry of every
  log was proposed by the leader of its term, and what is before it is what that leader had
  (`LogsTraced`, `TermLogs`); a leader's log is the record's (`LeadersLogs`); a term that
  has been won cannot be won again, since a winning set of nodes is past it or bound to the
  winner (`Settled`); a request is a stretch of its leader's log, and a reply claims no more
  than the peer has had (`Messages`); `matchIndex` and `nextIndex` are what such replies
  allow (`Notes`). The record grows in three steps only (`Founded`, `Extended`, `Noted`: an
  election won, a proposal, a request accepted), and one lemma per action shows that the
  invariant holds of the same or the grown record.
* `SafetyProofs!AppliedIsInLog`, `LeadersAreComplete`, `OnlyHoldersWin`
  (`AppliedMatchesLog`, `LeaderCompleteness`, `OnlyHoldersElectable`) and the action
  properties `CommitsOnlyGrow` (`CommitForward`) and `CommittedStays` (`CommittedKept`). `CommitInv` adds to the record: an entry of
  a leader's own term is `Committed` when a winning set has had it, `Blocked` when a winning
  set has left the term without it, and never both (`Clash`). What a node has had it still
  has, what a later leader was elected without is blocked, and no vote goes to a candidate
  whose log is behind what the voter has had, all unless the entry is blocked
  (`Remembered`, `PassedOn`, `VotesInformed`). What is applied, or announced in a request,
  is the beginning of something committed (`Commits`, `CommitsSent`). The rule of line 856
  (commit only entries of the current term) is what `CountedCommitted` rests on.
* `SafetyProofs!LeadersOutlastTheirTerm` (`DeposedByLaterTerm`): a vote given or an
  `AppendEntries` accepted in the leader's own term would depose it. `SelfVoted` (who leads
  or stands has voted for itself, and no node calls itself) excludes the vote; the sender of
  the request is on record as leader of the term, and a term has one.
* `SafetyProofs!ClusterIsReplicatedLog` (`ImplementsReplicatedLog`): the refinement of
  `ReplicatedLog`. The mapping takes what some foremost node has applied; that there is one
  (`Foremost`) is proved by induction over steps, since each hands entries to one node at
  most (`OneAtATime`). Any two nodes' applied sequences agree as far as both go
  (`SoundAgreed`), so every step is a step of the abstract specification.

The other components:

* `LoopProofs`: `ProbesInside`, `SearchIsCorrect`, `MergeIsCorrect`, `OvertakenIsHarmless`,
  `ConflictIsCorrect`, `CommitIsCorrect`, `NothingIsMissed`, for logs of every length. Each
  loop has an invariant of its own that says what the iterations so far have settled:
  `SearchInv` for the search, how much of the request is known to agree for the merge, that
  the run of equal terms reaches down to the index for the conflict, and that nothing above
  the index can be committed for the scan.
* `QueueProofs`: `NeverOverfull`, `NoConsumerForgotten`, `NoProducerForgotten`
  (until somebody polls) and `ItemsHandedOver`, from one invariant `QueueInv`, the
  conjunction of these, the types and where each kind of thread can wait.
* `TimerProofs!AlwaysTimed`: `Spec => []NeverSilent`, by induction with `TypeOK`, whose
  last conjunct (the latest number belongs to a thread that is still a timer) is what
  makes it inductive: a timer is cancelled only by one that is started, and one that
  expires becomes the thread that starts the next.
* `ServiceProofs!StreamIsInOrder`: `Spec => []StreamInOrder`, with no assumption on the
  peers, from `FlowInv`: types, the ties between `proposal_cvs` and the calls
  (`Registration`), and the property.
* `ServiceProofs!NoWaiterForgotten`, `AnswersAreTrue`, `StepDownIsTold`, all of the form
  `Spec => ...`, with `prompt` in the property. The invariant is `FlowInv /\ (prompt =>
  ServiceInv)`: a step after which `prompt` still holds is one of `PeersPrompt`, which
  `LeadersOutlastTheirTerm` and `CommittedStays` prove of `Raft` under its `SpecPrompt`.
  `ServiceInv` is `FlowInv` and four parts. `WaitersKept` is not inductive: a call notified for no reason drops out of
  it and waits again. `Kept` adds that such a call is still registered as long as its
  entry is not applied; `Busy` (the mutex is kept exactly while something committed is
  unapplied) is why a call that returns and erases its index cannot hurt another that
  waits there; `OwnTerms` (no call is of a later term than the node) is why no step into
  another term has to keep anything; `Streamed` (what was streamed is the committed
  beginning of the log) is what makes a success true.
* `HarnessProofs`: `CutsAreAsAsked` and `OthersAreUndisturbed`, for any number of nodes and
  commands, given at any moment, with calls that fail and reports that are lost. The
  inductive invariant `Told` holds while no node was told too early: a
  prepared node has every id in exactly one of `rank1` and `rank2`, a node not yet prepared
  has been told of no cut and none has returned, and an id is cut off at a node as the
  commands that returned left it, or as the one under way wants it once the node has
  treated it.

Only model-checked: every liveness property (`LoopsEnd`, `HandedOff`, `CloseReleases`,
`CommandsReturn`, `Settles`, `KeepsTrying`, `RightTimer`, `KillQuiets`,
`CommittedStreamed`, `CommittedReturns`, `ProposalsAnswered`), because liveness under
fairness is out of the prover's reach. Every invariant and every action property that a
passing run checks is also proved (`SearchInv` and `OvertakenHarmless` are only proved).
Without `SpecPrompt` the replication properties are false (`phantom`), so no theorem states them under `Spec`.

## 5. What is not modelled

* Durations: how soon a leader is elected, or how often a 25 ms timer disturbs.
* `get_state`: two reads without the mutex. With a step down between them they show a
  leader of a term it never led, so no property of the pair holds; `check_one_leader`
  would fail a correct cluster on it.
* Restart: nothing is written to disk, although `src/inc/rafty/raft.hpp:121` heads three
  fields "Persistent State vars", and no program starts a node again. A node that dies
  is one that never acts again.
* What the applier does after `close` (it spins until the process is killed) and the
  destructor's wait; `Prepare`, which no code calls.
* `try_dequeue` with a producer waiting for space: nobody tells the producer.
  `ProducersAwake` holds until somebody polls; no code calls it, the unit tests
  neither.
* Overflow of the 64-bit counters: terms and indices are naturals.
* gRPC itself, logging, statistics, benchmarks, address generation, and the
  commented-out `src/src/raft copy.cpp`.
* The data race on `ready_nodes` during spawning (`test_ctrl.hpp:112`).

## 6. Plan

Done: the modules of section 2, in the order `RaftLog`, `Raft`, `RaftSafety`,
`ReplicatedLog`, the loops, `MessageQueue`, `Harness`, `RaftTimer`, `NodeService`,
`TestConfig`, and the proofs.

Further modules worth writing: `LogRepair`, one leader and one follower, whose logs
become equal under fairness; `StateProbe`, for `get_state` and `check_one_leader`.

Next proofs: `NodeService`'s `PeersPrompt` is, conjunct by conjunct, what two theorems
state of a node of `Raft`; a refinement mapping from `Raft` with clients to `NodeService`
would make that one theorem. The same goes for `TestConfig` and
`ClusterIsReplicatedLog`.
