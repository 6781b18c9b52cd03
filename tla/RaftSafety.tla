------------------------------ MODULE RaftSafety ------------------------------
(***************************************************************************)
(* What a cluster of the nodes of Raft must guarantee.                       *)
(***************************************************************************)
EXTENDS Raft

Prefix(s, t) == Len(s) <= Len(t) /\ \A n \in 1..Len(s) : s[n] = t[n]
Leading(i) == currentRole[i] = "Leader"

------------------------------------------------------------------------------
(* Under every schedule.                                                    *)

\* become_leader (455): two nodes never both act as leader of one term.  The
\* integration tests' check_one_leader relies on it.
ElectionSafety ==
  \A i, j \in Server :
    Leading(i) /\ Leading(j) /\ currentTerm[i] = currentTerm[j] => i = j

\* <<voter, candidate, term>> for every vote a candidate counts, or that is
\* on its way to one.
Counted ==
  {<<p[1], p[2], currentTerm[p[2]]>> :
     p \in {q \in Server \X Server :
              /\ currentRole[q[2]] \in {"Candidate", "Leader"}
              /\ q[1] \in votes[q[2]]}}
Promised == {<<f.to, f.from, f.reply.term>> :
              f \in {g \in At("vote_reply") : g.reply.vote_granted}}

\* reply_vote (544-587) with request_votes (399-457): whatever the order of
\* replies and however late the threads run, no voter's vote of one term is
\* held by, or on its way to, two candidates.
OneVotePerTerm ==
  \A x, y \in Counted \cup Promised : x[1] = y[1] /\ x[3] = y[3] => x[2] = y[2]

\* No handler lowers a node's term, or moves its vote inside a term.
TermAndVoteStable ==
  [][\A i \in Server :
       /\ currentTerm'[i] >= currentTerm[i]
       /\ currentTerm'[i] = currentTerm[i] /\ votedFor[i] # None
            => votedFor'[i] = votedFor[i]]_vars

------------------------------------------------------------------------------
(* Under the schedules of SpecPrompt.                                       *)

\* append_entries (977-1057): two logs that agree on the term of an entry
\* agree on everything up to it.
LogMatching ==
  \A i, j \in Server :
    \A n \in 1..Len(log[i]) :
      n <= Len(log[j]) /\ log[i][n].term = log[j][n].term
        => \A m \in 1..n : log[i][m] = log[j][m]

\* reply_vote's up-to-date check (551-576) with the commit rule (854-871): a
\* leader's log holds all that any node of its term or an earlier one applied.
LeaderCompleteness ==
  \A i, j \in Server :
    Leading(i) /\ currentTerm[j] <= currentTerm[i] => Prefix(applied[j], log[i])

\* The same, before any election: a node that lacks an entry applied anywhere
\* has no log that a majority would find up to date and could elect now.  The
\* rule of line 856 (commit only entries of the current term) is what it needs.
Electable(i) ==
  WinsElection({j \in Server :
    CandidateUpToDate([last_log_term |-> LastLogTerm(log[i]),
                       last_log_index |-> LastLogIndex(log[i])], log[j])})
OnlyHoldersElectable ==
  \A i \in Server :
    (\E j \in Server : ~Prefix(applied[j], log[i])) => ~Electable(i)

\* append_entries' erase (1041) never reaches an entry already applied, and
\* apply_entries never finds commitIndex past the log (630).
AppliedMatchesLog ==
  \A i \in Server : /\ Len(applied[i]) = commitIndex[i]
                    /\ Prefix(applied[i], log[i])

\* send_entries (841-848): what a leader believes of a peer that has not moved
\* on to a later term is true of the peer's log.
MatchIndexSound ==
  \A i \in Server : \A j \in Peers(i) :
    Leading(i) /\ currentTerm[j] <= currentTerm[i]
      => \A n \in 1..matchIndex[i][j] :
           n <= Len(log[j]) /\ n <= Len(log[i]) /\ log[j][n] = log[i][n]

\* send_entries (689, 820-829): the leader always sends from past what the
\* peer is known to hold, and never reads past its own log.
NextIndexInBounds ==
  \A i \in Server : \A j \in Peers(i) :
    Leading(i) => nextIndex[i][j] \in (matchIndex[i][j] + 1)..(Len(log[i]) + 1)

\* send_entries (847-874): a reply that was overtaken may take matchIndex back,
\* but no reply and no request takes commitIndex or what was applied back.
CommitForward ==
  [][\A i \in Server : /\ commitIndex'[i] >= commitIndex[i]
                       /\ Prefix(applied[i], applied'[i])]_vars

\* append_entries (935-957) makes a node that leads a follower, whatever the
\* term; yet a node that runs and leads is deposed by a later term only, unless
\* somebody runs it again at its console (151).  The calls that wait inside
\* propose_sync rest on it (NodeService).
DeposedByLaterTerm ==
  [][\A i \in Server :
       Leading(i) /\ ~Leading(i)' => currentTerm'[i] > currentTerm[i] \/ Run(i)]_vars

\* append_entries (1030-1063): no merge shortens or changes what the node knows
\* to be committed, and none leaves commitIndex past the log.
CommittedKept ==
  [][\A i \in Server :
       /\ commitIndex'[i] <= Len(log'[i])
       /\ \A n \in 1..commitIndex[i] :
            n <= Len(log'[i]) /\ log'[i][n] = log[i][n]]_vars

\* The cluster implements ReplicatedLog: the entries of the longest applied
\* sequence are the one sequence every state machine sees a prefix of.
Chosen == applied[CHOOSE i \in Server : \A j \in Server :
                                        Len(applied[j]) <= Len(applied[i])]
RL == INSTANCE ReplicatedLog WITH chosen <- Chosen
ImplementsReplicatedLog == RL!Spec
==============================================================================
