------------------------------- MODULE RaftLog -------------------------------
(***************************************************************************)
(* The pure decisions src/raft.cpp takes about a log.  A log is a sequence  *)
(* of entries [term, command]; indices are 1-based, as in the RPCs (the     *)
(* code's vector is 0-based and every access there subtracts one).          *)
(* Each loop of the code is given here by what it computes; LogLoops runs   *)
(* the loops themselves, and LoopProofs proves them equal for every log.    *)
(***************************************************************************)
EXTENDS Integers, Sequences, FiniteSets

\* raft.cpp:404-405, 553-560: an empty log counts as term 0, index 0.
LastLogIndex(l) == Len(l)
LastLogTerm(l) == IF Len(l) = 0 THEN 0 ELSE l[Len(l)].term

\* Plausible slips in the code below, used only to see the properties fail.
UpToDateSkipped(req, l) == TRUE

\* raft.cpp:551-576: is the candidate's log at least as up to date as ours?
CandidateUpToDate(req, l) ==
  \/ req.last_log_term > LastLogTerm(l)
  \/ /\ req.last_log_term = LastLogTerm(l)
     /\ req.last_log_index >= LastLogIndex(l)

\* raft.cpp:977: the consistency check on the entry before the new ones.
PrevMissing(l, prevIndex, prevTerm) == prevIndex > Len(l)
PrevMismatch(l, prevIndex, prevTerm) ==
  /\ prevIndex > 0
  /\ prevIndex <= Len(l) => l[prevIndex].term # prevTerm

\* The entries of l that end at index p and all have the term of l[p].
TermRun(l, p) == {k \in 1..p : \A q \in k..p : l[q].term = l[p].term}

\* conflict_info left unset (proto3 has_conflict_info() is false).
NoConflict == [conflict_term |-> 0, conflict_index |-> 0]

\* raft.cpp:992-1022: what a follower tells the leader when PrevMismatch:
\* one past its log when the log is short, else the first index of the run of
\* the conflicting term.
ConflictInfo(l, p) ==
  IF p > Len(l)
  THEN [conflict_term |-> 0, conflict_index |-> Len(l) + 1]
  ELSE [conflict_term |-> l[p].term,
        conflict_index |-> p - Cardinality(TermRun(l, p)) + 1]

\* The entries of l an AppendEntries keeps: those up to the first one whose
\* term differs from the leader's entry at the same index.
Kept(l, prevIndex, entries) ==
  {k \in 1..Len(l) : \A q \in (prevIndex + 1)..k :
      q - prevIndex <= Len(entries) => l[q].term = entries[q - prevIndex].term}

\* A merge that truncates at prev_log_index whatever follows, and one that
\* appends without looking for entries it already holds.
MergeAppends(l, prevIndex, entries) == l \o entries
MergeTruncating(l, prevIndex, entries) == SubSeq(l, 1, prevIndex) \o entries

\* raft.cpp:1030-1057: erase from the first conflicting entry on, then append
\* what is missing; entries past the leader's last one stay when none conflicts.
Merge(l, prevIndex, entries) ==
  LET keep == Cardinality(Kept(l, prevIndex, entries))
      last == IF prevIndex + Len(entries) > keep
              THEN prevIndex + Len(entries) ELSE keep
  IN  [k \in 1..last |-> IF k <= keep THEN l[k] ELSE entries[k - prevIndex]]

TermsSorted(l, from, to) ==
  \A m, n \in from..to : m <= n => l[m].term <= l[n].term

\* raft.cpp:783-807: the leader's binary search for its last entry of
\* conflict_term among the 1-based indices left+1..right+1; 0 stands for the
\* code's "not found".  On a slice whose terms are not sorted the search may
\* miss entries or stop at any of them.
SearchResults(l, left, right, term) ==
  LET hits == {n \in (left + 1)..(right + 1) : l[n].term = term}
  IN  IF TermsSorted(l, left + 1, right + 1)
      THEN {n \in hits : \A m \in hits : m <= n} \cup {n \in {0} : hits = {}}
      ELSE hits \cup {0}

\* The term the code reads at 1-based index n; past the end of the vector it
\* is whatever the memory holds, stale.
TermAt(l, n, stale) == IF n \in 1..Len(l) THEN l[n].term ELSE stale

\* raft.cpp:858-865: count > (peers_.size() + 1) / 2, the leader itself being
\* counted first; match gives the index up to which each peer holds the log.
Replicated(match, peers, n) ==
  1 + Cardinality({j \in peers : match[j] >= n}) > (Cardinality(peers) + 1) \div 2

\* The indices past commit, up to last, that a leader of the term may commit.
CommittableAgain(l, commit, last, term, match, peers, stale) ==
  {n \in 1..last : /\ TermAt(l, n, stale) = term
                   /\ Replicated(match, peers, n)}
CommittableAnyTerm(l, commit, last, term, match, peers, stale) ==
  {n \in (commit + 1)..last : Replicated(match, peers, n)}
Committable(l, commit, last, term, match, peers, stale) ==
  {n \in (commit + 1)..last : /\ TermAt(l, n, stale) = term
                              /\ Replicated(match, peers, n)}

\* raft.cpp:850-871: the highest of them, else the old commit index.
NewCommits(l, commit, last, term, match, peers, stale) ==
  LET able == Committable(l, commit, last, term, match, peers, stale)
  IN  {n \in able : \A m \in able : m <= n} \cup {n \in {commit} : able = {}}

\* raft.cpp:628-657: hand the entries up to commitIndex to the state machine;
\* the code throws before the loop when the log is shorter.
ApplyEntries(done, l, commit) ==
  IF commit > Len(l) \/ Len(done) >= commit
  THEN done
  ELSE done \o SubSeq(l, Len(done) + 1, commit)
==============================================================================
