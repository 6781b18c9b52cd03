-------------------------------- MODULE LogLoops --------------------------------
(***************************************************************************)
(* The loops over a log in src/src/raft.cpp, one iteration a step, each run  *)
(* by itself on every input: what they leave is compared with the            *)
(* definitions of RaftLog that Raft is built from.                           *)
(*   search    the leader's binary search for the conflict term (783-807)    *)
(*   merge     the follower's erase and append loops (1030-1057)             *)
(*   conflict  the follower's scan for the conflict index (1003-1021)        *)
(*   commit    the leader's scan for an index to commit (850-871)            *)
(* i, left and right count as in the vector, from 0, where the code's do.    *)
(***************************************************************************)
EXTENDS RaftLog

CONSTANTS Logs,          \* the logs the loops run over
          LeaderLogs,    \* those the commit scan runs over, with many inputs each
          Batches,       \* the entries of a request
          Terms,         \* conflict terms, and the leader's term
          Peers          \* the leader's peers

Entries == [term : Nat]
ASSUME LoopAssumption == /\ Logs \subseteq Seq(Entries)
                         /\ LeaderLogs \subseteq Seq(Entries)
                         /\ Batches \subseteq Seq(Entries)
                         /\ Terms \subseteq Nat
                         /\ IsFiniteSet(Peers)

VARIABLES loop,            \* the loop that runs
          arg,             \* its inputs, besides the log
          pc,              \* "compare" and "append" in merge, "run", "done"
          log, i, left, right,
          result           \* lastIndexWithConflictTerm, conflict_index, newCommitIndex
vars == <<loop, arg, pc, log, i, left, right, result>>

\* left starts at matchIndex, right at nextIndex - 2 or the end of the log.
InitSearch ==
  /\ loop = "search" /\ pc = "run"
  /\ \E term \in Terms, first \in 0..Len(log), last \in -1..(Len(log) - 1) :
       /\ arg = [term |-> term, first |-> first, last |-> last]
       /\ left = first /\ right = last
  /\ result = -1 /\ i = 0

\* The consistency check of line 977 has passed, and there are entries.
InitMerge ==
  /\ loop = "merge" /\ pc = "compare"
  /\ \E prev \in 0..Len(log), entries \in Batches :
       /\ entries # <<>>
       /\ arg = [prev |-> prev, entries |-> entries, before |-> log]
  /\ i = 0 /\ left = 0 /\ right = 0 /\ result = 0

\* The follower scans from an entry of its log.
InitConflict ==
  /\ loop = "conflict" /\ pc = "run"
  /\ \E prev \in 1..Len(log) :
       arg = [prev |-> prev] /\ i = prev - 1 /\ result = prev
  /\ left = 0 /\ right = 0

\* The leader scans from what one peer has just acknowledged; matchIndex of
\* that peer was something else before, possibly higher (847-852).  No entry
\* of its log is of a later term than its own.
InitCommit ==
  /\ loop = "commit" /\ pc = "run"
  /\ \E term \in Terms, commit \in 0..Len(log), peer \in Peers,
        was \in 0..Len(log), match \in [Peers -> 0..Len(log)] :
       /\ \A n \in 1..Len(log) : log[n].term <= term
       /\ arg = [term |-> term, commit |-> commit, match |-> match,
                 peer |-> peer, was |-> was]
       /\ i = match[peer] /\ result = commit
  /\ left = 0 /\ right = 0

Init == \/ log \in Logs /\ (InitSearch \/ InitMerge \/ InitConflict)
        \/ log \in LeaderLogs /\ InitCommit

At(l, place) == loop = l /\ pc = place
Done == pc' = "done"

------------------------------------------------------------------------------
(* The leader's binary search.                                              *)

Midpoint(lo, hi) == lo + (hi - lo) \div 2

\* The entry in the middle decides which half stays: the left one only when
\* its term is too high, so that a hit goes on looking for a later one.
BeyondOrHit(term) == term >= arg.term
Beyond(term) == term > arg.term
KeepMid(mid) == left' = mid /\ UNCHANGED right
GoRight(mid) == left' = mid + 1 /\ UNCHANGED right
GoLeft(mid) == right' = mid - 1 /\ UNCHANGED left

SearchStep ==
  LET mid == Midpoint(left, right)
      term == log[mid + 1].term
  IN  /\ At("search", "run") /\ left <= right
      /\ IF Beyond(term) THEN GoLeft(mid) ELSE GoRight(mid)
      /\ result' = IF term = arg.term THEN mid ELSE result
      /\ UNCHANGED <<loop, arg, pc, log, i>>
SearchEnd ==
  /\ At("search", "run") /\ left > right /\ Done
  /\ UNCHANGED <<loop, arg, log, i, left, right, result>>

------------------------------------------------------------------------------
(* The follower's merge.                                                    *)

More == arg.prev + i < Len(log) /\ i < Len(arg.entries)
Differs == log[arg.prev + i + 1].term # arg.entries[i + 1].term

Agree ==
  /\ At("merge", "compare") /\ More /\ ~Differs
  /\ i' = i + 1
  /\ UNCHANGED <<loop, arg, pc, log, left, right, result>>

\* log.erase from the first conflict to the end, and break.
EraseOne == SubSeq(log, 1, arg.prev + i) \o SubSeq(log, arg.prev + i + 2, Len(log))
Erased == SubSeq(log, 1, arg.prev + i)
Erase ==
  /\ At("merge", "compare") /\ More /\ Differs
  /\ log' = Erased
  /\ pc' = "append"
  /\ UNCHANGED <<loop, arg, i, left, right, result>>

LeaveLoop ==
  /\ At("merge", "compare") /\ ~More
  /\ pc' = "append"
  /\ UNCHANGED <<loop, arg, log, i, left, right, result>>

Push ==
  /\ At("merge", "append") /\ i < Len(arg.entries)
  /\ log' = Append(log, arg.entries[i + 1])
  /\ i' = i + 1
  /\ UNCHANGED <<loop, arg, pc, left, right, result>>
MergeEnd ==
  /\ At("merge", "append") /\ i >= Len(arg.entries) /\ Done
  /\ UNCHANGED <<loop, arg, log, i, left, right, result>>

------------------------------------------------------------------------------
(* The two downward scans.                                                  *)

Down == i' = i - 1

\* Line 1010: the run of the term has ended.
Ended(n) == log[n + 1].term # log[arg.prev].term

\* The index reported when the run ends at vector index n, line 1012.
RunStartShort(n) == n + 1
RunStart(n) == n + 2

ConflictStep ==
  /\ At("conflict", "run")
  /\ \/ Ended(i) /\ result' = RunStart(i) /\ Done /\ UNCHANGED i
     \/ ~Ended(i) /\ i = 0 /\ result' = 1 /\ Done /\ UNCHANGED i
     \/ ~Ended(i) /\ i > 0 /\ Down /\ UNCHANGED <<result, pc>>
  /\ UNCHANGED <<loop, arg, log, left, right>>

\* Lines 856-865.
MayCommitOld(n) == Replicated(arg.match, Peers, n)
MayCommitTop(n) == /\ log[n].term = arg.term /\ Replicated(arg.match, Peers, n)
                   /\ n = arg.match[arg.peer]
MayCommit(n) == log[n].term = arg.term /\ Replicated(arg.match, Peers, n)

CommitStep ==
  /\ At("commit", "run")
  /\ \/ i > arg.commit /\ MayCommit(i) /\ result' = i /\ Done /\ UNCHANGED i
     \/ i > arg.commit /\ ~MayCommit(i) /\ Down /\ UNCHANGED <<result, pc>>
     \/ i <= arg.commit /\ Done /\ UNCHANGED <<result, i>>
  /\ UNCHANGED <<loop, arg, log, left, right>>

Next == \/ SearchStep \/ SearchEnd
        \/ Agree \/ Erase \/ LeaveLoop \/ Push \/ MergeEnd
        \/ ConflictStep \/ CommitStep

\* A loop is sequential code: it takes its next step.
Spec == Init /\ [][Next]_vars /\ WF_vars(Next)

------------------------------------------------------------------------------
\* The loop invariant of the search (791-807): every entry of the conflict
\* term is behind, at or before the one recorded, or inside left..right; and
\* every probe of line 794 is inside the vector.
Remaining ==
  \A n \in arg.first..arg.last :
    log[n + 1].term = arg.term => n <= result \/ n \in left..right
SearchInv ==
  loop = "search" =>
    /\ arg.first <= left /\ right <= arg.last
    /\ result # -1 => /\ result \in arg.first..(left - 1)
                      /\ log[result + 1].term = arg.term
    /\ TermsSorted(log, arg.first + 1, arg.last + 1) => Remaining
    /\ left <= right => Midpoint(left, right) + 1 \in 1..Len(log)

\* When the search ends it holds the last entry of the conflict term in the
\* range, or none when there is none; on a log whose terms are not sorted, at
\* least an entry of that term or none.
SearchCorrect ==
  At("search", "done") =>
    result + 1 \in SearchResults(log, arg.first, arg.last, arg.term)

\* What append_entries leaves (1030-1057) is the merge the cluster model uses:
\* everything up to the first conflict is kept, the request's entries are all
\* there, and nothing past them survives a conflict.
MergeCorrect ==
  At("merge", "done") => log = Merge(arg.before, arg.prev, arg.entries)

\* Nothing a request agrees with is erased (1041): one that was overtaken by a
\* longer one of the same leader does not shorten the log.
OvertakenHarmless ==
  At("merge", "done")
  /\ (\A n \in 1..Len(arg.entries) : arg.prev + n <= Len(arg.before)
        => arg.before[arg.prev + n].term = arg.entries[n].term)
    => /\ Len(log) >= Len(arg.before)
       /\ \A n \in 1..Len(arg.before) : log[n] = arg.before[n]

\* The follower reports the first index of the run of the conflicting term
\* (1006-1021).
ConflictCorrect ==
  At("conflict", "done") => result = ConflictInfo(log, arg.prev).conflict_index

\* The leader's scan (854-871) ends at the index the cluster model commits:
\* the highest one up to what was acknowledged that a majority holds with an
\* entry of the leader's term.
CommitCorrect ==
  At("commit", "done") =>
    result \in NewCommits(log, arg.commit, arg.match[arg.peer], arg.term,
                          arg.match, Peers, 0)

\* Starting at the acknowledged index (852) misses nothing: if no index was
\* left uncommitted before this reply, none is after it, whatever the other
\* peers hold and even when the reply takes matchIndex back.
NothingMissed ==
  At("commit", "done")
  /\ Committable(log, arg.commit, Len(log), arg.term,
                 [arg.match EXCEPT ![arg.peer] = arg.was], Peers, 0) = {}
    => Committable(log, result, Len(log), arg.term, arg.match, Peers, 0) = {}

\* Every loop ends (791, 1037, 1048, 1008, 854).
LoopsEnd == <>(pc = "done")
==============================================================================
