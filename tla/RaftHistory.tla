------------------------------ MODULE RaftHistory ------------------------------
(***************************************************************************)
(* What a run of Raft under SpecPrompt has decided so far, and what the state *)
(* says about it: the inductive invariant of the replication proofs.  The     *)
(* code keeps no such record, so the invariant says that there is one: it is  *)
(* a state predicate of the form \E h \in History : ...                       *)
(***************************************************************************)
EXTENDS RaftProofs

\* leader[t] was elected in term t with start[t] entries in its log, which has
\* since grown to log[t]; held[v][t] is the number of entries of that log that
\* node v has had while it was in term t.
History == [leader : [Nat -> Server \cup {None}],
            start  : [Nat -> Nat],
            log    : [Nat -> Seq(Entry)],
            held   : [Server -> [Nat -> Nat]]]

Elected(h, t) == h.leader[t] # None

\* Two sequences begin with the same n entries.
Same(s, t, n) == n <= Len(s) /\ n <= Len(t) /\ \A k \in 1..n : s[k] = t[k]

------------------------------------------------------------------------------
(* Logs, leaders and messages.                                              *)

\* An entry was proposed by the leader of its term, and what comes before it
\* is what that leader had before it.
Traced(h, l) ==
  \A n \in 1..Len(l) : /\ Elected(h, l[n].term) /\ h.start[l[n].term] < n
                       /\ Same(l, h.log[l[n].term], n)

LogsTraced(h) ==
  \A j \in Server : /\ Traced(h, log[j])
                    /\ \A n \in 1..Len(log[j]) : log[j][n].term <= currentTerm[j]

\* A leader's log: what it was elected with is older, the rest is its own.
TermLogs(h) ==
  \A t \in Nat : Elected(h, t) =>
    /\ h.start[t] <= Len(h.log[t])
    /\ Traced(h, h.log[t])
    /\ \A n \in 1..h.start[t] : h.log[t][n].term < t
    /\ \A n \in (h.start[t] + 1)..Len(h.log[t]) : h.log[t][n].term = t

LeadersLogs(h) ==
  \A i \in Server : Leading(i) => /\ h.leader[currentTerm[i]] = i
                                  /\ log[i] = h.log[currentTerm[i]]

\* Nobody else can win the term any more: the winner is no candidate of it,
\* and a winning set of nodes gave their votes of that term to the winner.
Loyal(h, t, v) ==
  /\ currentTerm[v] >= t
  /\ currentTerm[v] = t => votedFor[v] = h.leader[t]
  /\ \A c \in Server : Given(v, c, t) => c = h.leader[t]
Settled(h) ==
  \A t \in Nat : Elected(h, t) =>
    /\ currentTerm[h.leader[t]] >= t
    /\ currentTerm[h.leader[t]] = t => currentRole[h.leader[t]] # "Candidate"
    /\ \E Q \in SUBSET Server : WinsElection(Q) /\ \A v \in Q : Loyal(h, t, v)

\* A node that is in the term still has what it had; a node that has not come
\* to the term has had nothing.
HeldOK(h, v, t) ==
  /\ ~Elected(h, t) \/ currentTerm[v] < t => h.held[v][t] = 0
  /\ Elected(h, t) => h.held[v][t] <= Len(h.log[t])
  /\ v = h.leader[t] => h.held[v][t] = Len(h.log[t])
  /\ currentTerm[v] = t => Same(log[v], h.log[t], h.held[v][t])
Holdings(h) == \A v \in Server : \A t \in Nat : HeldOK(h, v, t)

\* A request carries the end of its leader's log, from some point on.
Last(f) == f.req.prev_log_index + Len(f.req.entries)
RequestOK(h, f) ==
  /\ Elected(h, f.req.term) /\ h.leader[f.req.term] = f.from /\ f.to # f.from
  /\ f.sent.term = f.req.term
  /\ f.sent.next = f.req.prev_log_index + 1
  /\ f.sent.entries = Len(f.req.entries) /\ f.sent.logSize = Last(f)
  /\ f.sent.match <= h.held[f.to][f.req.term]
  /\ f.sent.match = 0 \/ f.sent.match = f.req.prev_log_index
  /\ h.start[f.req.term] <= Last(f) /\ Last(f) <= Len(h.log[f.req.term])
  /\ \A k \in 1..Len(f.req.entries) :
       f.req.entries[k] = h.log[f.req.term][f.req.prev_log_index + k]
  /\ f.req.prev_log_index > 0 =>
       f.req.prev_log_term = h.log[f.req.term][f.req.prev_log_index].term

\* A reply is about such a request; it reports a conflict only to a leader
\* that knows nothing of the peer's log yet.
ReplyOK(h, f) ==
  /\ Elected(h, f.sent.term) /\ h.leader[f.sent.term] = f.from /\ f.to # f.from
  /\ f.sent.logSize = Acked(f) /\ Acked(f) <= Len(h.log[f.sent.term])
  /\ f.reply.success => Acked(f) <= h.held[f.to][f.sent.term]
  /\ f.reply.conflict_info # NoConflict =>
       /\ f.sent.match = 0
       /\ f.reply.conflict_info.conflict_index < f.sent.next

CallOK(f) == Leading(f.from) /\ f.to \in Peers(f.from)

MessageOK(h, f) == /\ f.pc = "ae_call" => CallOK(f)
                   /\ f.pc = "ae_request" => RequestOK(h, f)
                   /\ f.pc = "ae_reply" => ReplyOK(h, f)
Messages(h) == \A f \in InFlight : MessageOK(h, f)

\* What a leader notes of a peer.
Notes(h) ==
  \A i \in Server : \A j \in Peers(i) : Leading(i) =>
    /\ matchIndex[i][j] <= h.held[j][currentTerm[i]]
    /\ matchIndex[i][j] < nextIndex[i][j] /\ nextIndex[i][j] <= Len(log[i]) + 1
    /\ matchIndex[i][j] = 0 \/ nextIndex[i][j] = matchIndex[i][j] + 1

LogInv(h) == /\ LogsTraced(h) /\ TermLogs(h) /\ LeadersLogs(h) /\ Settled(h)
             /\ Holdings(h) /\ Messages(h) /\ Notes(h)

------------------------------------------------------------------------------
(* Commitment.                                                              *)

\* The entries a leader has added itself.
Own(h, t) == (h.start[t] + 1)..Len(h.log[t])

\* A winning set of nodes has had the entry in its own term, or has left the
\* term without it.
Committed(h, t, n) ==
  /\ Elected(h, t) /\ n \in Own(h, t)
  /\ \E Q \in SUBSET Server : WinsElection(Q) /\ \A v \in Q : n <= h.held[v][t]
Blocked(h, t, n) ==
  \E Q \in SUBSET Server :
    WinsElection(Q) /\ \A v \in Q : h.held[v][t] < n /\ t < currentTerm[v]

Has(l, t, n) == n <= Len(l) /\ l[n].term = t
UpTo(l, t, n) == LastLogTerm(l) > t \/ (LastLogTerm(l) = t /\ Len(l) >= n)

\* What a node has had in a term it still has, what a later leader was elected
\* without can no longer be committed, and no vote goes to a candidate without
\* what the voter has had.
Remembered(h) ==
  \A v \in Server : \A t \in Nat : Elected(h, t) =>
    \A n \in Own(h, t) : n <= h.held[v][t] => Has(log[v], t, n) \/ Blocked(h, t, n)
PassedOn(h) ==
  \A t, u \in Nat : t < u /\ Elected(h, t) /\ Elected(h, u) =>
    \A n \in Own(h, t) : \/ n <= h.start[u] /\ h.log[u][n].term = t
                         \/ Blocked(h, t, n)
Informed(h, v, c, u) ==
  \A t \in Nat : t < u /\ Elected(h, t) =>
    \A n \in Own(h, t) : n <= h.held[v][t] => UpTo(log[c], t, n) \/ Blocked(h, t, n)
VotesInformed(h) ==
  \A v, c \in Server :
    currentRole[c] = "Candidate" /\ Given(v, c, currentTerm[c])
      => Informed(h, v, c, currentTerm[c])
AskedWith(f) ==
  f.pc = "vote_request" /\ currentRole[f.from] = "Candidate"
    /\ f.req.term = currentTerm[f.from]
      => /\ f.req.last_log_term = LastLogTerm(log[f.from])
         /\ f.req.last_log_index = LastLogIndex(log[f.from])
VotesAsked == \A f \in InFlight : AskedWith(f)

\* The first c entries of l are the beginning of something committed.
Safe(h, l, c, u) ==
  c = 0 \/ \E t \in 0..u : \E n \in Nat :
              Committed(h, t, n) /\ c <= n /\ Same(l, h.log[t], c)
Commits(h) ==
  \A i \in Server : /\ Len(applied[i]) = commitIndex[i]
                    /\ Same(applied[i], log[i], commitIndex[i])
                    /\ Safe(h, log[i], commitIndex[i], currentTerm[i])
CommitsSent(h) ==
  \A f \in At("ae_request") :
    /\ f.req.leader_commit <= Last(f)
    /\ Safe(h, h.log[f.req.term], f.req.leader_commit, f.req.term)

CommitInv(h) == /\ Remembered(h) /\ PassedOn(h) /\ VotesInformed(h) /\ VotesAsked
                /\ Commits(h) /\ CommitsSent(h)

\* Some node has applied as much as any other.
Foremost == \E i \in Server : \A j \in Server : Len(applied[j]) <= Len(applied[i])

------------------------------------------------------------------------------
(* The record grows with a won election, a proposal and a request accepted.  *)

Extended(h, t, i, l) ==
  [h EXCEPT !.log[t] = l, !.held[i][t] = Len(l)]
Founded(h, t, i, l) ==
  [h EXCEPT !.leader[t] = i, !.start[t] = Len(l), !.log[t] = l, !.held[i][t] = Len(l)]
Noted(h, t, v, n) ==
  IF n > h.held[v][t] THEN [h EXCEPT !.held[v][t] = n] ELSE h
==============================================================================
