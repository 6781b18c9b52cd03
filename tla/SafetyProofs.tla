----------------------------- MODULE SafetyProofs -----------------------------
(***************************************************************************)
(* Commitment in an odd cluster of any size, under the schedules of           *)
(* SpecPrompt: what a node has applied is never taken back, every later       *)
(* leader has it, all nodes apply the same entries, and a leader is deposed   *)
(* by a later term only.                                                      *)
(***************************************************************************)
EXTENDS ReplicationProofs

------------------------------------------------------------------------------
(* A leader's own entries.                                                  *)

LEMMA OwnIs ==
  ASSUME NEW h \in History, NEW t \in Nat, NEW n
  PROVE  n \in Own(h, t) <=> n \in Nat /\ h.start[t] < n /\ n <= Len(h.log[t])
<1>1. h.start[t] \in Nat /\ Len(h.log[t]) \in Nat
  BY RecordTypes
<1> QED
  BY <1>1 DEF Own

LEMMA OwnEntry ==
  ASSUME NEW h \in History, TermLogs(h), NEW t \in Nat, Elected(h, t), NEW n \in Own(h, t)
  PROVE  n \in Nat /\ n \in 1..Len(h.log[t]) /\ h.log[t][n].term = t
<1>1. n \in Nat /\ h.start[t] < n /\ n <= Len(h.log[t])
  BY OwnIs
<1>2. h.start[t] \in Nat /\ Len(h.log[t]) \in Nat
  BY RecordTypes
<1>3. n \in 1..Len(h.log[t])
  BY <1>1, <1>2
<1>4. h.log[t][n].term = t
  BY DEF TermLogs, Own
<1> QED
  BY <1>1, <1>3, <1>4

LEMMA OwnGrows ==
  ASSUME NEW h \in History, NEW k \in History, Grows(h, k), NEW t \in Nat,
         Elected(h, t), NEW n \in Own(h, t)
  PROVE  n \in Own(k, t)
<1>1. n \in Nat /\ h.start[t] < n /\ n <= Len(h.log[t])
  BY OwnIs
<1>2. Len(h.log[t]) \in Nat /\ Len(k.log[t]) \in Nat
  BY RecordTypes
<1>3. k.start[t] = h.start[t] /\ Len(h.log[t]) <= Len(k.log[t])
  BY DEF Grows, Same
<1>4. n <= Len(k.log[t])
  BY <1>1, <1>2, <1>3
<1> QED
  BY <1>1, <1>3, <1>4, OwnIs

\* What a node has had is a leader's.
LEMMA HeldElected ==
  ASSUME NEW h \in History, Holdings(h), NEW v \in Server, NEW t \in Nat,
         NEW n \in Nat, 0 < n, n <= h.held[v][t]
  PROVE  Elected(h, t) /\ n <= Len(h.log[t])
<1>1. HeldOK(h, v, t) /\ h.held[v][t] \in Nat /\ Len(h.log[t]) \in Nat
  BY RecordTypes DEF Holdings
<1>2. Elected(h, t)
  BY <1>1 DEF HeldOK
<1>3. h.held[v][t] <= Len(h.log[t])
  BY <1>1, <1>2 DEF HeldOK
<1> QED
  BY <1>1, <1>2, <1>3

------------------------------------------------------------------------------
(* Committed and blocked.                                                   *)

\* An entry is not both: the two winning sets share a node.
LEMMA Clash ==
  ASSUME OddCluster, NEW h \in History, NEW t \in Nat, NEW n \in Nat,
         Committed(h, t, n), Blocked(h, t, n)
  PROVE  FALSE
<1>1. PICK Q \in SUBSET Server : WinsElection(Q) /\ \A v \in Q : n <= h.held[v][t]
  BY DEF Committed
<1>2. PICK R \in SUBSET Server : WinsElection(R) /\ \A v \in R : h.held[v][t] < n
  BY DEF Blocked
<1>3. PICK v \in Server : v \in Q /\ v \in R
  BY <1>1, <1>2, WinnersMeet
<1>4. h.held[v][t] \in Nat
  BY RecordTypes
<1>5. n <= h.held[v][t] /\ h.held[v][t] < n
  BY <1>1, <1>2, <1>3
<1> QED
  BY <1>4, <1>5

LEMMA CommittedGrows ==
  ASSUME NEW h \in History, NEW k \in History, Grows(h, k), NEW t \in Nat, NEW n \in Nat,
         Committed(h, t, n)
  PROVE  Committed(k, t, n)
<1>1. Elected(h, t) /\ n \in Own(h, t)
  BY DEF Committed
<1>2. Elected(k, t) /\ n \in Own(k, t)
  BY <1>1, ElectedGrows, OwnGrows
<1>3. PICK Q \in SUBSET Server : WinsElection(Q) /\ \A v \in Q : n <= h.held[v][t]
  BY DEF Committed
<1>4. ASSUME NEW v \in Q PROVE n <= k.held[v][t]
  <2>1. v \in Server /\ n <= h.held[v][t]
    BY <1>3
  <2>2. h.held[v][t] \in Nat /\ k.held[v][t] \in Nat /\ h.held[v][t] <= k.held[v][t]
    BY <2>1, RecordTypes DEF Grows
  <2> QED
    BY <2>1, <2>2
<1> QED
  BY <1>2, <1>3, <1>4 DEF Committed

\* A node is given entries of a leader only while it is in the leader's term.
Frozen(h, k) == \A v \in Server : \A t \in Nat :
                  k.held[v][t] = h.held[v][t] \/ currentTerm'[v] = t

LEMMA FrozenHeld ==
  ASSUME Step, NEW h, NEW k, Frozen(h, k), NEW v \in Server, NEW t \in Nat,
         t < currentTerm[v]
  PROVE  k.held[v][t] = h.held[v][t] /\ t < currentTerm'[v]
<1>1. currentTerm[v] \in Nat /\ currentTerm'[v] \in Nat /\ currentTerm[v] <= currentTerm'[v]
  BY StepTypes
<1>2. t < currentTerm'[v] /\ currentTerm'[v] # t
  BY <1>1
<1> QED
  BY <1>2 DEF Frozen

LEMMA BlockedStep ==
  ASSUME Step, NEW h \in History, NEW k \in History, Frozen(h, k), NEW t \in Nat,
         NEW n \in Nat, Blocked(h, t, n)
  PROVE  Blocked(k, t, n)'
<1>1. PICK Q \in SUBSET Server :
        WinsElection(Q) /\ \A v \in Q : h.held[v][t] < n /\ t < currentTerm[v]
  BY DEF Blocked
<1>2. ASSUME NEW v \in Q PROVE k.held[v][t] < n /\ t < currentTerm'[v]
  <2>1. v \in Server /\ h.held[v][t] < n /\ t < currentTerm[v]
    BY <1>1
  <2> QED
    BY <2>1, FrozenHeld
<1>3. \E R \in SUBSET Server :
        WinsElection(R) /\ \A v \in R : k.held[v][t] < n /\ t < currentTerm'[v]
  BY <1>1, <1>2
<1> QED
  BY <1>3 DEF Blocked, WinsElection

------------------------------------------------------------------------------
(* Logs that are up to date.                                                *)

\* The last entry of a log on record.
LEMMA LastEntry ==
  ASSUME NEW h, NEW l \in Seq(Entry), Traced(h, l), l # <<>>
  PROVE  /\ Len(l) \in Nat /\ Len(l) > 0 /\ LastLogTerm(l) \in Nat
         /\ Elected(h, LastLogTerm(l)) /\ h.start[LastLogTerm(l)] < Len(l)
         /\ Same(l, h.log[LastLogTerm(l)], Len(l))
<1>1. Len(l) \in Nat /\ Len(l) # 0
  BY EmptySeq
<1>2. Len(l) \in 1..Len(l) /\ Len(l) > 0
  BY <1>1
<1>3. LastLogTerm(l) = l[Len(l)].term
  BY <1>1 DEF LastLogTerm
<1>4. l[Len(l)].term \in Nat
  BY <1>2, EntryTerm
<1> QED
  BY <1>1, <1>2, <1>3, <1>4 DEF Traced

\* Terms do not fall along a log.
LEMMA HasUpTo ==
  ASSUME NEW h \in History, TermLogs(h), NEW l \in Seq(Entry), Traced(h, l),
         NEW t \in Nat, NEW n \in Nat, 0 < n, Has(l, t, n)
  PROVE  UpTo(l, t, n)
<1> DEFINE w == LastLogTerm(l)
           m == h.log[w]
<1>1. n <= Len(l) /\ l[n].term = t /\ Len(l) \in Nat
  BY DEF Has
<1>2. l # <<>>
  BY <1>1
<1>3. w \in Nat /\ Elected(h, w) /\ Same(l, m, Len(l))
  BY <1>2, LastEntry
<1>4. n \in 1..Len(l) /\ n \in 1..Len(m) /\ l[n] = m[n]
  <2>1. Len(m) \in Nat /\ Len(l) <= Len(m)
    BY <1>3, RecordTypes DEF Same
  <2>2. n \in 1..Len(l)
    BY <1>1
  <2>3. n \in 1..Len(m)
    BY <1>1, <2>1
  <2> QED
    BY <1>3, <2>2, <2>3 DEF Same
<1>5. m[n].term <= w
  <2>1. h.start[w] \in Nat /\ Len(m) \in Nat /\ m \in Seq(Entry)
    BY <1>3, RecordTypes
  <2>2. m[n].term \in Nat
    BY <1>4, <2>1, EntryTerm
  <2>3. n \in 1..h.start[w] \/ n \in (h.start[w] + 1)..Len(m)
    BY <1>4, <2>1
  <2>4. m[n].term < w \/ m[n].term = w
    BY <1>3, <2>3 DEF TermLogs
  <2> QED
    BY <1>3, <2>2, <2>4
<1>6. t <= w
  BY <1>1, <1>4, <1>5
<1> HIDE DEF w
<1>7. w > t \/ (w = t /\ Len(l) >= n)
  BY <1>1, <1>3, <1>6
<1> QED
  BY <1>7 DEF UpTo, w

\* A log at least as up to date as an entry holds it, or the entry can no
\* longer be committed.
LEMMA UpToHas ==
  ASSUME NEW h \in History, TermLogs(h), PassedOn(h), NEW l \in Seq(Entry), Traced(h, l),
         NEW t \in Nat, Elected(h, t), NEW n \in Own(h, t), UpTo(l, t, n)
  PROVE  Has(l, t, n) \/ Blocked(h, t, n)
<1> DEFINE w == LastLogTerm(l)
<1>1. n \in Nat /\ n \in 1..Len(h.log[t]) /\ h.log[t][n].term = t
  BY OwnEntry
<1>2. CASE l = <<>>
  <2>1. w = 0 /\ Len(l) = 0
    BY <1>2 DEF LastLogTerm
  <2> QED
    BY <1>1, <2>1 DEF UpTo
<1>3. CASE l # <<>>
  <2>1. /\ Len(l) \in Nat /\ w \in Nat /\ Elected(h, w) /\ h.start[w] < Len(l)
        /\ Same(l, h.log[w], Len(l)) /\ h.start[w] \in Nat
    BY <1>3, LastEntry, RecordTypes
  <2>2. CASE w = t
    <3>1. n <= Len(l) /\ n \in 1..Len(l)
      BY <1>1, <2>1, <2>2 DEF UpTo
    <3>2. l[n] = h.log[t][n]
      BY <2>1, <2>2, <3>1 DEF Same
    <3> QED
      BY <1>1, <3>1, <3>2 DEF Has
  <2>3. CASE w > t
    <3>1. t < w
      BY <2>1, <2>3
    <3>2. (n <= h.start[w] /\ h.log[w][n].term = t) \/ Blocked(h, t, n)
      BY <2>1, <3>1 DEF PassedOn
    <3>3. n <= h.start[w] => n \in 1..Len(l) /\ n <= Len(l)
      BY <1>1, <2>1
    <3>4. n <= h.start[w] => l[n] = h.log[w][n]
      BY <2>1, <3>3 DEF Same
    <3> QED
      BY <3>2, <3>3, <3>4 DEF Has
  <2> QED
    BY <2>2, <2>3 DEF UpTo
<1> QED
  BY <1>2, <1>3

LEMMA LastTerm ==
  ASSUME NEW l \in Seq(Entry)
  PROVE  LastLogTerm(l) \in Nat /\ Len(l) \in Nat
<1>1. Len(l) \in Nat
  OBVIOUS
<1>2. CASE Len(l) # 0
  <2>1. Len(l) \in 1..Len(l)
    BY <1>1, <1>2
  <2> QED
    BY <1>1, <1>2, <2>1, EntryTerm DEF LastLogTerm
<1> QED
  BY <1>1, <1>2 DEF LastLogTerm

\* The comparison of reply_vote carries over what the voter's log is up to.
LEMMA UpToDate ==
  ASSUME NEW r, NEW l \in Seq(Entry), NEW m \in Seq(Entry), CandidateUpToDate(r, l),
         r.last_log_term = LastLogTerm(m), r.last_log_index = LastLogIndex(m),
         NEW t \in Nat, NEW n \in Nat, UpTo(l, t, n)
  PROVE  UpTo(m, t, n)
<1>1. /\ LastLogTerm(l) \in Nat /\ Len(l) \in Nat
      /\ LastLogTerm(m) \in Nat /\ Len(m) \in Nat
  BY LastTerm
<1>2. \/ LastLogTerm(m) > LastLogTerm(l)
      \/ LastLogTerm(m) = LastLogTerm(l) /\ Len(m) >= Len(l)
  BY DEF CandidateUpToDate, LastLogIndex
<1> QED
  BY <1>1, <1>2 DEF UpTo

------------------------------------------------------------------------------
(* What a step keeps.                                                       *)

\* The record before and after a step.
Advance(h, k) == /\ Step /\ h \in History /\ k \in History /\ Grows(h, k) /\ Frozen(h, k)
                 /\ LogInv(h) /\ LogInv(k)' /\ CommitInv(h)

\* A log grows, or is made the beginning of the log of the leader of the term
\* the node is in then.
LogMove(h, v) ==
  LET u == currentTerm'[v]
  IN  \/ Same(log[v], log'[v], Len(log[v]))
      \/ \E m \in Nat :
           /\ Elected(h, u) /\ h.start[u] <= m /\ Same(log'[v], h.log[u], m)
           /\ \A n \in Nat : Same(log[v], h.log[u], n) => Same(log'[v], h.log[u], n)

\* Entries of earlier terms that a node has had were there before.
LEMMA HeldBefore ==
  ASSUME NEW h, NEW k, Advance(h, k), NEW v \in Server, NEW t \in Nat,
         t < currentTerm'[v], NEW n \in Own(k, t), n <= k.held[v][t]
  PROVE  n \in Nat /\ n <= h.held[v][t] /\ Elected(h, t) /\ n \in Own(h, t)
<1>1. h \in History /\ k \in History /\ Holdings(h) /\ Grows(h, k)
  BY DEF Advance, LogInv
<1>2. n \in Nat /\ k.start[t] < n /\ k.start[t] \in Nat
  BY <1>1, OwnIs, RecordTypes
<1>3. currentTerm'[v] # t
  BY StepTypes DEF Advance
<1>4. n <= h.held[v][t]
  BY <1>3 DEF Advance, Frozen
<1>5. 0 < n
  BY <1>2
<1>6. Elected(h, t) /\ n <= Len(h.log[t])
  BY <1>1, <1>2, <1>4, <1>5, HeldElected
<1>7. h.start[t] < n
  BY <1>1, <1>2, <1>6 DEF Grows
<1> QED
  BY <1>1, <1>2, <1>4, <1>6, <1>7, OwnIs

LEMMA RememberedStep ==
  ASSUME NEW h, NEW k, Advance(h, k), \A v \in Server : LogMove(h, v)
  PROVE  Remembered(k)'
<1>0. /\ Step /\ h \in History /\ k \in History /\ Grows(h, k) /\ Frozen(h, k)
      /\ TermLogs(h) /\ TermLogs(k)' /\ Holdings(k)' /\ Remembered(h) /\ PassedOn(h)
  BY DEF Advance, LogInv, CommitInv
<1> SUFFICES ASSUME NEW v \in Server, NEW t \in Nat, Elected(k, t), NEW n \in Own(k, t),
                    n <= k.held[v][t]
             PROVE  Has(log'[v], t, n) \/ Blocked(k, t, n)'
  BY DEF Remembered, Elected, Own, Has
<1>1. TermLogs(k)
  BY <1>0 DEF TermLogs, Elected, Traced, Same
<1>2. n \in Nat /\ n \in 1..Len(k.log[t]) /\ k.log[t][n].term = t
  BY <1>0, <1>1, OwnEntry
<1>3. /\ currentTerm'[v] \in Nat /\ k.held[v][t] \in Nat
      /\ log[v] \in Seq(Entry) /\ log'[v] \in Seq(Entry)
      /\ Len(log[v]) \in Nat /\ Len(log'[v]) \in Nat
  BY <1>0, StepTypes, RecordTypes
<1>4. /\ currentTerm'[v] < t => k.held[v][t] = 0
      /\ currentTerm'[v] = t => Same(log'[v], k.log[t], k.held[v][t])
  BY <1>0 DEF Holdings, HeldOK
<1>5. ~(currentTerm'[v] < t)
  BY <1>2, <1>3, <1>4
<1>6. CASE currentTerm'[v] = t
  <2>1. n \in 1..k.held[v][t]
    BY <1>2, <1>3
  <2>2. log'[v][n] = k.log[t][n] /\ k.held[v][t] <= Len(log'[v])
    BY <1>4, <1>6, <2>1 DEF Same
  <2>3. n <= Len(log'[v])
    BY <1>2, <1>3, <2>2
  <2> QED
    BY <1>2, <2>2, <2>3 DEF Has
<1>7. CASE t < currentTerm'[v]
  <2> DEFINE u == currentTerm'[v]
  <2>1. n <= h.held[v][t] /\ Elected(h, t) /\ n \in Own(h, t)
    BY <1>7, HeldBefore
  <2>2. CASE Blocked(h, t, n)
    BY <1>0, <1>2, <2>2, BlockedStep
  <2>3. CASE ~Blocked(h, t, n)
    <3>1. Has(log[v], t, n)
      BY <1>0, <2>1, <2>3 DEF Remembered
    <3>2. n <= Len(log[v]) /\ log[v][n].term = t /\ n \in 1..Len(log[v])
      BY <1>2, <1>3, <3>1 DEF Has
    <3>3. CASE Same(log[v], log'[v], Len(log[v]))
      <4>1. log[v][n] = log'[v][n] /\ Len(log[v]) <= Len(log'[v])
        BY <3>2, <3>3 DEF Same
      <4>2. n <= Len(log'[v])
        BY <1>2, <1>3, <3>2, <4>1
      <4> QED
        BY <3>2, <4>1, <4>2 DEF Has
    <3>4. CASE \E m \in Nat : Elected(h, u) /\ h.start[u] <= m /\ Same(log'[v], h.log[u], m)
      <4>1. PICK m \in Nat : Elected(h, u) /\ h.start[u] <= m /\ Same(log'[v], h.log[u], m)
        BY <3>4
      <4>2. n <= h.start[u] /\ h.log[u][n].term = t
        BY <1>0, <1>3, <1>7, <2>1, <2>3, <4>1 DEF PassedOn
      <4>3. h.start[u] \in Nat
        BY <1>0, <1>3, RecordTypes
      <4>4. n \in 1..m
        BY <1>2, <4>1, <4>2, <4>3
      <4>5. log'[v][n] = h.log[u][n] /\ m <= Len(log'[v])
        BY <4>1, <4>4 DEF Same
      <4>6. n <= Len(log'[v])
        BY <1>2, <1>3, <4>4, <4>5
      <4> QED
        BY <4>2, <4>5, <4>6 DEF Has
    <3> QED
      BY <3>3, <3>4 DEF LogMove
  <2> QED
    BY <2>2, <2>3
<1> QED
  BY <1>3, <1>5, <1>6, <1>7

\* What a newly elected leader starts with.
Complete(k, u) ==
  \A t \in Nat : t < u /\ Elected(k, t) =>
    \A n \in Own(k, t) : (n <= k.start[u] /\ k.log[u][n].term = t) \/ Blocked(k, t, n)'

LEMMA PassedOnStep ==
  ASSUME NEW h, NEW k, Advance(h, k),
         \A u \in Nat : Elected(k, u) /\ ~Elected(h, u) => Complete(k, u)
  PROVE  PassedOn(k)'
<1>0. /\ Step /\ h \in History /\ k \in History /\ Grows(h, k) /\ Frozen(h, k)
      /\ Holdings(h) /\ Settled(h) /\ PassedOn(h) /\ TermLogs(h)
  BY DEF Advance, LogInv, CommitInv
<1> SUFFICES ASSUME NEW t \in Nat, NEW u \in Nat, t < u, Elected(k, t), Elected(k, u),
                    NEW n \in Own(k, t)
             PROVE  (n <= k.start[u] /\ k.log[u][n].term = t) \/ Blocked(k, t, n)'
  BY DEF PassedOn, Elected, Own
<1>1. n \in Nat /\ k.start[t] < n /\ n <= Len(k.log[t])
  BY <1>0, OwnIs
<1>2. CASE ~Elected(h, u)
  BY <1>2 DEF Complete
<1>3. CASE Elected(h, u) /\ Elected(h, t) /\ n \in Own(h, t)
  <2>1. (n <= h.start[u] /\ h.log[u][n].term = t) \/ Blocked(h, t, n)
    BY <1>0, <1>3 DEF PassedOn
  <2>2. CASE Blocked(h, t, n)
    BY <1>0, <1>1, <2>2, BlockedStep
  <2>3. CASE n <= h.start[u] /\ h.log[u][n].term = t
    <3>1. k.start[u] = h.start[u] /\ Same(h.log[u], k.log[u], Len(h.log[u]))
      BY <1>0, <1>3 DEF Grows
    <3>2. h.start[u] <= Len(h.log[u])
      BY <1>0, <1>3 DEF TermLogs
    <3>3. h.start[u] \in Nat /\ Len(h.log[u]) \in Nat /\ k.start[t] \in Nat
      BY <1>0, RecordTypes
    <3>4. n \in 1..Len(h.log[u])
      BY <1>1, <2>3, <3>2, <3>3
    <3>5. h.log[u][n] = k.log[u][n]
      BY <3>1, <3>4 DEF Same
    <3> QED
      BY <2>3, <3>1, <3>5
  <2> QED
    BY <2>1, <2>2, <2>3
<1>4. CASE Elected(h, u) /\ ~(Elected(h, t) /\ n \in Own(h, t))
  <2>1. PICK Q \in SUBSET Server : WinsElection(Q) /\ \A v \in Q : currentTerm[v] >= u
    BY <1>0, <1>4 DEF Settled, Loyal
  <2>2. ASSUME NEW v \in Q PROVE k.held[v][t] < n /\ t < currentTerm'[v]
    <3>1. v \in Server /\ currentTerm[v] \in Nat /\ currentTerm[v] >= u
      BY <1>0, <2>1, StepTypes
    <3>2. t < currentTerm[v]
      BY <3>1
    <3>3. k.held[v][t] = h.held[v][t] /\ t < currentTerm'[v]
      BY <1>0, <3>1, <3>2, FrozenHeld
    <3>4. h.held[v][t] \in Nat /\ k.start[t] \in Nat
      BY <1>0, <3>1, RecordTypes
    <3>5. ~(n <= h.held[v][t])
      <4> SUFFICES ASSUME n <= h.held[v][t] PROVE FALSE
        OBVIOUS
      <4>1. 0 < n
        BY <1>1, <3>4
      <4>2. Elected(h, t) /\ n <= Len(h.log[t])
        BY <1>0, <1>1, <3>1, <4>1, HeldElected
      <4>3. h.start[t] < n
        BY <1>0, <1>1, <4>2 DEF Grows
      <4> QED
        BY <1>0, <1>1, <1>4, <4>2, <4>3, OwnIs
    <3> QED
      BY <1>1, <3>3, <3>4, <3>5
  <2>3. \E R \in SUBSET Server :
          WinsElection(R) /\ \A v \in R : k.held[v][t] < n /\ t < currentTerm'[v]
    BY <2>1, <2>2
  <2> QED
    BY <2>3 DEF Blocked, WinsElection
<1> QED
  BY <1>2, <1>3, <1>4

------------------------------------------------------------------------------
(* What voters know.                                                        *)

\* A node that has had an entry finds no log up to date that ends before it.
LEMMA VoterKnows ==
  ASSUME TypeOK, NEW h \in History, LogInv(h), CommitInv(h), NEW v \in Server,
         NEW t \in Nat, Elected(h, t), NEW n \in Own(h, t), n <= h.held[v][t],
         ~Blocked(h, t, n)
  PROVE  n \in Nat /\ Has(log[v], t, n) /\ UpTo(log[v], t, n)
<1>1. TermLogs(h) /\ Traced(h, log[v]) /\ Remembered(h)
  BY DEF LogInv, LogsTraced, CommitInv
<1>2. n \in Nat /\ n \in 1..Len(h.log[t])
  BY <1>1, OwnEntry
<1>3. Has(log[v], t, n)
  BY <1>1 DEF Remembered
<1>4. 0 < n
  BY <1>2
<1>5. log[v] \in Seq(Entry)
  BY NodeTypes
<1> QED
  BY <1>1, <1>2, <1>3, <1>4, <1>5, HasUpTo

\* The fields of a request for a vote.
LEMMA AskedFields ==
  ASSUME TypeOK, Ordered, NEW f \in InFlight, f.pc = "vote_request"
  PROVE  /\ f.from \in Server /\ f.req.term \in Nat
         /\ f.req.term <= currentTerm[f.from]
<1>1. f \in Thread
  BY DEF TypeOK
<1>2. f.from \in Server /\ f.req \in VoteRequest
  BY <1>1, ThreadFields
<1>3. f.req.term \in Nat
  BY <1>2 DEF VoteRequest
<1> QED
  BY <1>2, <1>3 DEF Ordered, TermOrder

\* A vote belongs to a term its candidate has begun.
LEMMA GivenBegun ==
  ASSUME TypeOK, Ordered, NEW v \in Server, NEW c \in Server, NEW u \in Nat,
         Given(v, c, u)
  PROVE  u <= currentTerm[c]
<1>1. currentTerm[c] \in Nat
  BY NodeTypes
<1>2. CASE Holds(v, c, u)
  BY <1>1, <1>2 DEF Holds
<1>3. CASE Comes(v, c, u)
  BY <1>3 DEF Comes, At, Ordered, TermOrder
<1> QED
  BY <1>2, <1>3 DEF Given

\* Whoever has given its vote, now or in this step, knew the candidate's log.
LEMMA VotersKnow ==
  ASSUME Step, NEW h \in History, LogInv(h), CommitInv(h),
         NEW v \in Server, NEW c \in Server, NEW u \in Nat, currentTerm'[c] = u,
         Given(v, c, u)',
         \/ currentRole[c] = "Candidate" /\ currentTerm[c] = u
         \/ currentTerm[c] < u
  PROVE  Informed(h, v, c, u)
<1>0. TypeOK /\ Ordered /\ currentTerm[c] \in Nat
  BY StepTypes DEF Step, TypeInv, VoteInv
<1>1. CASE Given(v, c, u)
  <2>1. u <= currentTerm[c]
    BY <1>0, <1>1, GivenBegun
  <2>2. currentRole[c] = "Candidate" /\ currentTerm[c] = u
    BY <1>0, <2>1
  <2> QED
    BY <1>1, <2>2 DEF CommitInv, VotesInformed
<1>2. CASE v = c
  <2> SUFFICES ASSUME NEW t \in Nat, t < u, Elected(h, t), NEW n \in Own(h, t),
                      n <= h.held[v][t], ~Blocked(h, t, n)
               PROVE  UpTo(log[c], t, n)
    BY DEF Informed
  <2> QED
    BY <1>0, <1>2, VoterKnows
<1>3. CASE AskedFor(v, c, u)
  <2>1. PICK f \in InFlight : /\ f.pc = "vote_request" /\ f.to = v /\ f.from = c
                              /\ f.req.term = u /\ CandidateUpToDate(f.req, log[v])
    BY <1>3 DEF AskedFor, At
  <2>2. u <= currentTerm[c]
    BY <1>0, <2>1, AskedFields
  <2>3. currentRole[c] = "Candidate" /\ currentTerm[c] = u
    BY <1>0, <2>2
  <2>4. /\ f.req.last_log_term = LastLogTerm(log[c])
        /\ f.req.last_log_index = LastLogIndex(log[c])
    BY <2>1, <2>3 DEF CommitInv, VotesAsked, AskedWith
  <2>5. log[v] \in Seq(Entry) /\ log[c] \in Seq(Entry)
    BY <1>0, NodeTypes
  <2> SUFFICES ASSUME NEW t \in Nat, t < u, Elected(h, t), NEW n \in Own(h, t),
                      n <= h.held[v][t], ~Blocked(h, t, n)
               PROVE  UpTo(log[c], t, n)
    BY DEF Informed
  <2>6. n \in Nat /\ UpTo(log[v], t, n)
    BY <1>0, VoterKnows
  <2> QED
    BY <2>1, <2>4, <2>5, <2>6, UpToDate
<1> QED
  BY <1>1, <1>2, <1>3 DEF Step, Moves, GivenNow

\* A candidate's log stays while it is one.
CandidatesKeep == \A c \in Server : currentRole'[c] = "Candidate" => log'[c] = log[c]

LEMMA InformedStep ==
  ASSUME NEW h, NEW k, Advance(h, k), CandidatesKeep
  PROVE  VotesInformed(k)'
<1>0. /\ Step /\ h \in History /\ k \in History /\ Frozen(h, k) /\ LogInv(h) /\ CommitInv(h)
  BY DEF Advance
<1> SUFFICES ASSUME NEW v \in Server, NEW c \in Server, currentRole'[c] = "Candidate",
                    Given(v, c, currentTerm[c])'
             PROVE  Informed(k, v, c, currentTerm[c])'
  BY DEF VotesInformed
<1>1. PICK u : u = currentTerm'[c]
  OBVIOUS
<1>2. u \in Nat /\ currentTerm'[c] \in Nat /\ currentTerm[c] \in Nat
  BY <1>0, <1>1, StepTypes
<1>3. \/ currentRole[c] = "Candidate" /\ currentTerm[c] = u
      \/ currentTerm[c] < u
  <2>1. \/ currentRole[c] = "Candidate" /\ currentTerm'[c] = currentTerm[c]
        \/ currentTerm'[c] > currentTerm[c]
    BY <1>0 DEF Step, Moves, CandidatesNew
  <2> QED
    BY <1>1, <1>2, <2>1
<1>4. Given(v, c, u)'
  BY <1>1 DEF Given, Holds, Comes
<1>5. Informed(h, v, c, u)
  BY <1>0, <1>1, <1>2, <1>3, <1>4, VotersKnow
<1>6. u <= currentTerm'[v] /\ currentTerm'[v] \in Nat
  BY <1>0, <1>2, <1>4, StepTypes DEF Step, VoteInv, Backed
<1>7. log'[c] = log[c]
  BY DEF CandidatesKeep
<1>8. ASSUME NEW t \in Nat, t < u, Elected(k, t), NEW n \in Own(k, t), n <= k.held[v][t]
      PROVE  UpTo(log'[c], t, n) \/ Blocked(k, t, n)'
  <2>1. t < currentTerm'[v]
    BY <1>2, <1>6, <1>8
  <2>2. n \in Nat /\ n <= h.held[v][t] /\ Elected(h, t) /\ n \in Own(h, t)
    BY <1>8, <2>1, HeldBefore
  <2>3. UpTo(log[c], t, n) \/ Blocked(h, t, n)
    BY <1>5, <1>8, <2>2 DEF Informed
  <2>4. Blocked(h, t, n) => Blocked(k, t, n)'
    BY <1>0, <2>2, BlockedStep
  <2> QED
    BY <1>7, <2>3, <2>4
<1> QED
  BY <1>1, <1>8 DEF Informed, Elected, Own, UpTo, LastLogTerm

\* The requests for votes of a step: those that were there, and the new ones.
AllAsked(S) == \A g \in S : AskedWith(g)

LEMMA AskedStep ==
  ASSUME Step, VotesAsked, CandidatesKeep, NEW S, InFlight' \subseteq InFlight \cup S,
         AllAsked(S)'
  PROVE  VotesAsked'
<1> SUFFICES ASSUME NEW f \in InFlight' PROVE AskedWith(f)'
  BY DEF VotesAsked
<1>1. CASE f \in S
  BY <1>1 DEF AllAsked
<1>2. CASE f \in InFlight
  <2> SUFFICES ASSUME f.pc = "vote_request", currentRole'[f.from] = "Candidate",
                      f.req.term = currentTerm'[f.from]
               PROVE  /\ f.req.last_log_term = LastLogTerm(log'[f.from])
                      /\ f.req.last_log_index = LastLogIndex(log'[f.from])
    BY DEF AskedWith, LastLogTerm, LastLogIndex
  <2>1. f.from \in Server /\ f.req.term \in Nat /\ f.req.term <= currentTerm[f.from]
    BY <1>2, AskedFields DEF Step, TypeInv, VoteInv
  <2>2. /\ currentTerm[f.from] \in Nat /\ currentTerm'[f.from] \in Nat
        /\ currentTerm[f.from] <= currentTerm'[f.from]
    BY <2>1, StepTypes
  <2>3. ~(currentTerm'[f.from] > currentTerm[f.from]) /\ f.req.term = currentTerm[f.from]
    BY <2>1, <2>2
  <2>4. currentRole[f.from] = "Candidate"
    BY <2>1, <2>3 DEF Step, Moves, CandidatesNew
  <2>5. log'[f.from] = log[f.from]
    BY <2>1 DEF CandidatesKeep
  <2> QED
    BY <1>2, <2>3, <2>4, <2>5 DEF VotesAsked, AskedWith
<1> QED
  BY <1>1, <1>2

------------------------------------------------------------------------------
(* What is committed.                                                       *)

\* A later leader's log begins with what is committed.
LEMMA CommittedIn ==
  ASSUME OddCluster, NEW h \in History, TermLogs(h), PassedOn(h),
         NEW t \in Nat, NEW n \in Nat, Committed(h, t, n),
         NEW u \in Nat, Elected(h, u), t <= u
  PROVE  Same(h.log[u], h.log[t], n) /\ (t < u => n <= h.start[u])
<1>1. Elected(h, t) /\ n \in Own(h, t)
  BY DEF Committed
<1>2. n \in Nat /\ n \in 1..Len(h.log[t]) /\ n <= Len(h.log[t])
  BY <1>1, OwnEntry, OwnIs
<1>3. h.log[t] \in Seq(Entry) /\ h.log[u] \in Seq(Entry)
  BY RecordTypes
<1>4. CASE t = u
  BY <1>2, <1>3, <1>4, SameSelf
<1>5. CASE t < u
  <2>1. n <= h.start[u] /\ h.log[u][n].term = t
    BY <1>1, <1>2, <1>5, Clash DEF PassedOn
  <2>2. h.start[u] \in Nat /\ Len(h.log[u]) \in Nat /\ h.start[u] <= Len(h.log[u])
    BY RecordTypes DEF TermLogs
  <2>3. n \in 1..Len(h.log[u])
    BY <1>2, <2>1, <2>2
  <2> QED
    BY <2>1, <2>3 DEF TermLogs, Traced
<1> QED
  BY <1>4, <1>5

\* What is safe stays safe on a record that has grown, in every log that begins
\* with it.
LEMMA SafeGrows ==
  ASSUME NEW h \in History, NEW k \in History, Grows(h, k),
         NEW l \in Seq(Entry), NEW m \in Seq(Entry), NEW c \in Nat,
         NEW u \in Nat, NEW w \in Nat, u <= w, Safe(h, l, c, u), Same(m, l, c)
  PROVE  Safe(k, m, c, w)
<1>1. CASE c = 0
  BY <1>1 DEF Safe
<1>2. CASE c # 0
  <2>1. PICK t \in 0..u, n \in Nat : Committed(h, t, n) /\ c <= n /\ Same(l, h.log[t], c)
    BY <1>2 DEF Safe
  <2>2. t \in Nat /\ t \in 0..w
    BY <2>1
  <2>3. Committed(k, t, n) /\ Elected(h, t)
    BY <2>1, <2>2, CommittedGrows DEF Committed
  <2>4. h.log[t] \in Seq(Entry)
    BY <2>2, RecordTypes
  <2>5. c <= c
    OBVIOUS
  <2>6. Same(m, h.log[t], c)
    BY <2>1, <2>4, <2>5, SameTrans
  <2>7. Same(m, k.log[t], c)
    BY <2>2, <2>3, <2>6, SameGrows
  <2> QED
    BY <2>1, <2>2, <2>3, <2>7 DEF Safe
<1> QED
  BY <1>1, <1>2

\* No step takes a committed entry out of a log.
LEMMA MoveKeeps ==
  ASSUME OddCluster, NEW h, NEW k, Advance(h, k), NEW v \in Server, LogMove(h, v)
  PROVE  Same(log'[v], log[v], commitIndex[v])
<1> DEFINE c == commitIndex[v]
           u == currentTerm'[v]
<1>0. Step /\ h \in History /\ TermLogs(h) /\ PassedOn(h) /\ Commits(h) /\ TypeOK
  BY DEF Advance, LogInv, CommitInv, Step, TypeInv
<1>1. /\ currentTerm[v] \in Nat /\ u \in Nat /\ currentTerm[v] <= u
      /\ log[v] \in Seq(Entry) /\ log'[v] \in Seq(Entry) /\ Len(log[v]) \in Nat
      /\ c \in Nat
  BY <1>0, StepTypes, NodeTypes
<1>2. Safe(h, log[v], c, currentTerm[v]) /\ c <= Len(log[v])
  BY <1>0 DEF Commits, Same
<1> HIDE DEF c, u
<1>3. CASE Same(log[v], log'[v], Len(log[v]))
  <2>1. Same(log[v], log'[v], c)
    BY <1>1, <1>2, <1>3, SameLess
  <2> QED
    BY <2>1, SameSym DEF c
<1>4. CASE c = 0
  BY <1>1, <1>4, SameNone DEF c
<1>5. ASSUME c # 0, NEW m \in Nat, Elected(h, u), h.start[u] <= m, Same(log'[v], h.log[u], m),
             \A n \in Nat : Same(log[v], h.log[u], n) => Same(log'[v], h.log[u], n)
      PROVE  Same(log'[v], log[v], c)
  <2>1. PICK t \in 0..currentTerm[v], n \in Nat :
          Committed(h, t, n) /\ c <= n /\ Same(log[v], h.log[t], c)
    BY <1>2, <1>5 DEF Safe
  <2>2. t \in Nat /\ t <= u /\ c <= c /\ n <= n
    BY <1>1, <2>1
  <2>3. h.log[t] \in Seq(Entry) /\ h.log[u] \in Seq(Entry) /\ h.start[u] \in Nat
    BY <1>0, <1>1, <2>2, RecordTypes
  <2>4. Same(h.log[t], log[v], c)
    BY <2>1, SameSym
  <2>5. Same(log'[v], h.log[t], c)
    <3>1. CASE t = u
      BY <1>1, <1>5, <2>1, <3>1
    <3>2. CASE t < u
      <4>1. Same(h.log[u], h.log[t], n) /\ n <= h.start[u]
        BY <1>0, <1>1, <1>5, <2>1, <2>2, <3>2, CommittedIn
      <4>2. c <= m
        BY <1>1, <1>5, <2>1, <2>3, <4>1
      <4>3. Same(log'[v], h.log[u], c)
        BY <1>1, <1>5, <2>3, <4>2, SameLess
      <4> QED
        BY <1>1, <2>1, <2>3, <4>1, <4>3, SameTrans
    <3> QED
      BY <1>1, <2>2, <3>1, <3>2
  <2> QED
    BY <1>1, <2>2, <2>3, <2>4, <2>5, SameTrans
<1> QED
  BY <1>3, <1>4, <1>5 DEF LogMove, c, u

\* The commit index of a node stays, or moves on to something committed.
CommitMove(k, i) ==
  \/ commitIndex'[i] = commitIndex[i] /\ applied'[i] = applied[i]
  \/ /\ commitIndex[i] < commitIndex'[i] /\ commitIndex'[i] <= Len(log'[i])
     /\ applied'[i] = applied[i] \o SubSeq(log'[i], commitIndex[i] + 1, commitIndex'[i])
     /\ Safe(k, log'[i], commitIndex'[i], currentTerm'[i])

\* What apply_entries has handed on when it has gone on to index d.
Handed(a, l, d, b) == /\ Len(a) < d /\ d <= Len(l) /\ Same(a, l, Len(a))
                      /\ b = a \o SubSeq(l, Len(a) + 1, d)

LEMMA AppliedGrows ==
  ASSUME NEW a \in Seq(Entry), NEW l \in Seq(Entry), NEW d \in Nat, NEW b,
         Handed(a, l, d, b)
  PROVE  Len(b) = d /\ Same(b, l, d) /\ Prefix(a, b)
<1> DEFINE c == Len(a)
           s == SubSeq(l, c + 1, d)
<1>0. c < d /\ d <= Len(l) /\ Same(a, l, c) /\ b = a \o s
  BY DEF Handed
<1>1. c \in Nat /\ Len(l) \in Nat
  OBVIOUS
<1>2. \A n \in (c + 1)..d : l[n] \in Entry
  <2>1. \A n \in (c + 1)..d : n \in 1..Len(l)
    BY <1>0, <1>1
  <2> QED
    BY <2>1, ElementOfSeq
<1>3. /\ s \in Seq(Entry) /\ Len(s) = d - c
      /\ \A n \in 1..(d - c) : s[n] = l[c + n]
  <2>1. c + 1 \in Int /\ d \in Int /\ c + 1 <= d
    BY <1>0, <1>1
  <2>2. /\ s \in Seq(Entry) /\ Len(s) = IF c + 1 <= d THEN d - (c + 1) + 1 ELSE 0
        /\ \A n \in 1..(d - (c + 1) + 1) : s[n] = l[c + 1 + n - 1]
    BY <1>2, <2>1, SubSeqProperties
  <2>3. d - (c + 1) + 1 = d - c
    BY <1>1
  <2>4. \A n \in 1..(d - c) : c + 1 + n - 1 = c + n
    BY <1>1
  <2> HIDE DEF s, c
  <2> QED
    BY <2>1, <2>2, <2>3, <2>4
<1> HIDE DEF s
<1>4. /\ Len(b) = c + Len(s)
      /\ \A n \in 1..(c + Len(s)) : b[n] = IF n <= c THEN a[n] ELSE s[n - c]
  BY <1>0, <1>3, ConcatProperties
<1>5. Len(b) = d /\ c + Len(s) = d
  <2> HIDE DEF c
  <2> QED
    BY <1>0, <1>1, <1>3, <1>4
<1>6. ASSUME NEW n \in 1..d PROVE b[n] = l[n]
  <2>1. b[n] = IF n <= c THEN a[n] ELSE s[n - c]
    BY <1>4, <1>5
  <2>2. CASE n <= c
    <3>1. n \in 1..c
      BY <1>1, <2>2
    <3> QED
      BY <1>0, <2>1, <2>2, <3>1 DEF Same
  <2>3. CASE ~(n <= c)
    <3>1. n - c \in 1..(d - c) /\ c + (n - c) = n
      BY <1>1, <2>3
    <3> QED
      BY <1>3, <2>1, <2>3, <3>1
  <2> QED
    BY <2>2, <2>3
<1>7. Same(b, l, d)
  BY <1>0, <1>5, <1>6 DEF Same
<1>8. ASSUME NEW n \in 1..c PROVE a[n] = b[n]
  <2>1. n \in 1..d /\ n <= c
    BY <1>0, <1>1
  <2> QED
    BY <1>4, <1>5, <2>1
<1>9. c <= Len(b)
  BY <1>0, <1>1, <1>5
<1> QED
  BY <1>5, <1>7, <1>8, <1>9 DEF Prefix

CommitsGrow == \A i \in Server : /\ commitIndex'[i] >= commitIndex[i]
                                 /\ Prefix(applied[i], applied'[i])

LEMMA CommitsStep ==
  ASSUME OddCluster, NEW h, NEW k, Advance(h, k),
         \A v \in Server : LogMove(h, v) /\ CommitMove(k, v)
  PROVE  Commits(k)' /\ CommitsGrow
<1>0. /\ Step /\ h \in History /\ k \in History /\ Grows(h, k) /\ Commits(h)
      /\ TypeOK /\ TypeOK'
  BY DEF Advance, CommitInv, Step, TypeInv
<1>1. ASSUME NEW i \in Server
      PROVE  /\ Len(applied'[i]) = commitIndex'[i]
             /\ Same(applied'[i], log'[i], commitIndex'[i])
             /\ Safe(k, log'[i], commitIndex'[i], currentTerm'[i])
             /\ commitIndex'[i] >= commitIndex[i] /\ Prefix(applied[i], applied'[i])
  <2> DEFINE c == commitIndex[i]
             d == commitIndex'[i]
             a == applied[i]
  <2>1. /\ c \in Nat /\ d \in Nat /\ a \in Seq(Entry) /\ Len(a) = c
        /\ log[i] \in Seq(Entry) /\ log'[i] \in Seq(Entry)
        /\ currentTerm[i] \in Nat /\ currentTerm'[i] \in Nat
        /\ currentTerm[i] <= currentTerm'[i]
        /\ Same(a, log[i], c) /\ Safe(h, log[i], c, currentTerm[i])
    BY <1>0, StepTypes DEF TypeOK, Commits
  <2>2. Same(log'[i], log[i], c)
    BY MoveKeeps
  <2>3. Same(log[i], log'[i], c) /\ c <= c
    BY <2>1, <2>2, SameSym
  <2>4. Same(a, log'[i], c)
    BY <2>1, <2>3, SameTrans
  <2>5. CASE d = c /\ applied'[i] = a
    <3>1. Safe(k, log'[i], c, currentTerm'[i])
      BY <1>0, <2>1, <2>2, SafeGrows
    <3>2. Prefix(a, a) /\ c >= c
      BY <2>1 DEF Prefix
    <3> QED
      BY <2>1, <2>4, <2>5, <3>1, <3>2
  <2>6. CASE /\ c < d /\ d <= Len(log'[i])
             /\ applied'[i] = a \o SubSeq(log'[i], c + 1, d)
             /\ Safe(k, log'[i], d, currentTerm'[i])
    <3> HIDE DEF a, c, d
    <3>1. PICK b : b = applied'[i]
      OBVIOUS
    <3>2. Len(b) = d /\ Same(b, log'[i], d) /\ Prefix(a, b)
      <4>1. Handed(a, log'[i], d, b)
        BY <2>1, <2>4, <2>6, <3>1 DEF Handed
      <4>2. a \in Seq(Entry) /\ log'[i] \in Seq(Entry) /\ d \in Nat
        BY <2>1
      <4> QED
        BY <4>1, <4>2, AppliedGrows
    <3>3. d >= c
      BY <2>1, <2>6
    <3> QED
      BY <2>6, <3>1, <3>2, <3>3 DEF a, c, d
  <2> QED
    BY <2>5, <2>6 DEF CommitMove
<1>2. Commits(k)'
  BY <1>1 DEF Commits, Safe, Same, Committed, Elected, Own, WinsElection
<1> QED
  BY <1>1, <1>2 DEF CommitsGrow

\* The requests of a step: those that were there, and the new ones.
SentOK(h, f) ==
  f.pc = "ae_request" => /\ f.req.leader_commit <= Last(f)
                         /\ Safe(h, h.log[f.req.term], f.req.leader_commit, f.req.term)
AllSent(h, S) == \A g \in S : SentOK(h, g)

LEMMA SentStep ==
  ASSUME NEW h, NEW k, Advance(h, k), NEW S, InFlight' \subseteq InFlight \cup S,
         AllSent(k, S)
  PROVE  CommitsSent(k)'
<1>0. /\ Step /\ h \in History /\ k \in History /\ Grows(h, k) /\ Messages(h)
      /\ CommitsSent(h) /\ TypeOK
  BY DEF Advance, LogInv, CommitInv, Step, TypeInv
<1>1. ASSUME NEW f \in InFlight', f.pc = "ae_request" PROVE SentOK(k, f)
  <2>1. CASE f \in S
    BY <2>1 DEF AllSent
  <2>2. CASE f \in InFlight
    <3> DEFINE t == f.req.term
               c == f.req.leader_commit
    <3>1. f \in Thread /\ RequestOK(h, f)
      BY <1>0, <1>1, <2>2 DEF TypeOK, Messages, MessageOK
    <3>2. t \in Nat /\ c \in Nat /\ Elected(h, t) /\ t <= t
      BY <1>1, <3>1, MessageTypes DEF RequestOK
    <3>3. c <= Last(f) /\ Safe(h, h.log[t], c, t)
      BY <1>0, <1>1, <2>2 DEF CommitsSent, At
    <3>4. h.log[t] \in Seq(Entry) /\ k.log[t] \in Seq(Entry) /\ Len(h.log[t]) \in Nat
      BY <1>0, <3>2, RecordTypes
    <3>5. Last(f) \in Nat /\ Last(f) <= Len(h.log[t])
      BY <1>1, <3>1, MessageTypes DEF RequestOK
    <3> HIDE DEF t, c
    <3>6. c <= Len(h.log[t])
      BY <3>2, <3>3, <3>4, <3>5
    <3>7. Same(h.log[t], k.log[t], c)
      BY <1>0, <3>2, <3>4, <3>6, SameLess DEF Grows
    <3>8. Same(k.log[t], h.log[t], c)
      BY <3>7, SameSym
    <3>9. Safe(k, k.log[t], c, t)
      BY <1>0, <3>2, <3>3, <3>4, <3>8, SafeGrows
    <3> QED
      BY <3>3, <3>9 DEF SentOK, t, c
  <2> QED
    BY <2>1, <2>2
<1> QED
  BY <1>1 DEF CommitsSent, At, SentOK, Safe, Same, Committed, Elected, Own, WinsElection,
              Last

------------------------------------------------------------------------------
(* Steps that commit nothing.                                               *)

\* What is shown of the record after a step.
Outcome(k) == k \in History /\ LogInv(k)' /\ CommitInv(k)' /\ CommitsGrow

LEMMA AdvanceKeeps ==
  ASSUME OddCluster, NEW h, NEW k, Advance(h, k),
         \A v \in Server : LogMove(h, v) /\ CommitMove(k, v),
         \A u \in Nat : Elected(k, u) /\ ~Elected(h, u) => Complete(k, u),
         CandidatesKeep,
         NEW S, InFlight' \subseteq InFlight \cup S, AllAsked(S)', AllSent(k, S)
  PROVE  Outcome(k)
<1>1. Remembered(k)' /\ PassedOn(k)'
  BY RememberedStep, PassedOnStep
<1>2. VotesInformed(k)' /\ CommitsSent(k)'
  BY InformedStep, SentStep
<1>3. VotesAsked'
  BY AskedStep DEF Advance, CommitInv
<1>4. Commits(k)' /\ CommitsGrow
  BY CommitsStep
<1> QED
  BY <1>1, <1>2, <1>3, <1>4 DEF Outcome, Advance, CommitInv

LEMMA LogStays ==
  ASSUME Step, NEW h, NEW v \in Server, log'[v] = log[v]
  PROVE  LogMove(h, v)
<1>1. log[v] \in Seq(Entry)
  BY StepTypes
<1>2. Len(log[v]) \in Nat /\ Len(log[v]) <= Len(log[v])
  BY <1>1
<1>3. Same(log[v], log[v], Len(log[v]))
  BY <1>1, <1>2, SameSelf
<1> QED
  BY <1>3 DEF LogMove

\* The record stays.
LEMMA SameAdvance ==
  ASSUME Step, NEW h \in History, LogInv(h), CommitInv(h), LogInv(h)'
  PROVE  Advance(h, h)
  BY GrowsSelf DEF Advance, Frozen

\* A step that leaves the logs and what is applied alone.
LEMMA QuietCommits ==
  ASSUME OddCluster, Step, NEW h \in History, LogInv(h), CommitInv(h), LogInv(h)',
         UNCHANGED logVars,
         NEW S, InFlight' \subseteq InFlight \cup S, AllAsked(S)', AllSent(h, S)
  PROVE  Outcome(h)
<1>1. Advance(h, h)
  BY SameAdvance
<1>2. UNCHANGED <<log, commitIndex, applied>>
  BY DEF logVars
<1>3. \A v \in Server : LogMove(h, v) /\ CommitMove(h, v)
  BY <1>2, LogStays DEF CommitMove
<1>4. CandidatesKeep
  BY <1>2 DEF CandidatesKeep
<1>5. \A u \in Nat : Elected(h, u) /\ ~Elected(h, u) => Complete(h, u)
  OBVIOUS
<1> QED
  BY <1>1, <1>3, <1>4, <1>5, AdvanceKeeps

\* Threads that ask for nothing.
Silent(S) == \A g \in S : g.pc \notin {"vote_request", "ae_request"}

LEMMA SilentFacts ==
  ASSUME NEW h, NEW S, Silent(S)
  PROVE  AllAsked(S)' /\ AllSent(h, S)
  BY DEF Silent, AllAsked, AskedWith, AllSent, SentOK

LEMMA SilentCommits ==
  ASSUME OddCluster, Step, NEW h \in History, LogInv(h), CommitInv(h), LogInv(h)',
         UNCHANGED logVars, NEW S, InFlight' \subseteq InFlight \cup S, Silent(S)
  PROVE  Outcome(h)
  BY SilentFacts, QuietCommits

LEMMA CommitsNode ==
  ASSUME OddCluster, Step, NEW h \in History, LogInv(h), CommitInv(h), NEW i \in Server,
         Run(i) \/ ElectionTimeout(i) \/ HeartbeatTimeout(i)
  PROVE  Outcome(h)
<1>0. IsABag(threads)
  BY DEF Step, TypeInv, TypeOK
<1>1. LogInv(h)' /\ UNCHANGED logVars
  BY LogsNode DEF Run, ElectionTimeout, HeartbeatTimeout
<1>2. CASE Run(i)
  <2>1. InFlight' \subseteq InFlight \cup {} /\ Silent({})
    BY <1>2 DEF Run, InFlight, Silent
  <2> QED
    BY <1>1, <2>1, SilentCommits
<1>3. CASE ElectionTimeout(i)
  <2>1. PICK S : S = {[pc |-> "become_candidate", from |-> i]}
    OBVIOUS
  <2>2. InFlight' \subseteq InFlight \cup S
    BY <1>0, <1>3, <2>1, ForkInFlight DEF ElectionTimeout
  <2>3. Silent(S)
    BY <2>1 DEF Silent
  <2> QED
    BY <1>1, <2>2, <2>3, SilentCommits
<1>4. CASE HeartbeatTimeout(i)
  <2>1. PICK S : S = {[pc |-> "ae_call", from |-> i, to |-> j] : j \in Peers(i)}
    OBVIOUS
  <2>2. InFlight' \subseteq InFlight \cup S
    BY <1>0, <1>4, <2>1, ForkInFlight DEF HeartbeatTimeout
  <2>3. Silent(S)
    BY <2>1 DEF Silent
  <2> QED
    BY <1>1, <2>2, <2>3, SilentCommits
<1> QED
  BY <1>2, <1>3, <1>4

\* The candidate's request says what its log is.
LEMMA CommitsAsk ==
  ASSUME OddCluster, Step, NEW h \in History, LogInv(h), CommitInv(h), LogInv(h)',
         NEW f \in InFlight, PrepareVote(f)
  PROVE  Outcome(h)
<1>0. IsABag(threads) /\ UNCHANGED logVars /\ UNCHANGED log
  BY DEF Step, TypeInv, TypeOK, PrepareVote, logVars
<1>1. PICK g : g = [pc |-> "vote_request", from |-> f.from, to |-> f.to,
                    election_term |-> f.election_term,
                    req |-> [term |-> currentTerm[f.from],
                             last_log_term |-> LastLogTerm(log[f.from]),
                             last_log_index |-> LastLogIndex(log[f.from])]]
  OBVIOUS
<1>2. InFlight' \subseteq InFlight \cup {g}
  BY <1>0, <1>1, ResumeFacts DEF PrepareVote
<1>3. /\ g.pc = "vote_request" /\ g.from = f.from
      /\ g.req.last_log_term = LastLogTerm(log[f.from])
      /\ g.req.last_log_index = LastLogIndex(log[f.from])
  BY <1>1
<1>4. AllAsked({g})'
  BY <1>0, <1>3 DEF AllAsked, AskedWith, LastLogTerm, LastLogIndex
<1>5. AllSent(h, {g})
  BY <1>3 DEF AllSent, SentOK
<1> QED
  BY <1>0, <1>2, <1>4, <1>5, QuietCommits

\* A leader's request carries its own commit index, and all of its log from
\* some point on.
LEMMA CommitsPrepare ==
  ASSUME OddCluster, Step, NEW h \in History, LogInv(h), CommitInv(h), LogInv(h)',
         NEW f \in InFlight, PrepareEntries(f)
  PROVE  Outcome(h)
<1> DEFINE i == f.from
           t == currentTerm[i]
           l == log[i]
<1>0. IsABag(threads) /\ TypeOK /\ f \in Thread /\ UNCHANGED logVars /\ f.pc = "ae_call"
  BY DEF Step, TypeInv, TypeOK, PrepareEntries
<1>1. i \in Server /\ Leading(i)
  BY <1>0, ThreadFields DEF LogInv, Messages, MessageOK, CallOK
<1>2. h.log[t] = l /\ commitIndex[i] <= Len(l) /\ Safe(h, l, commitIndex[i], t)
  BY <1>1 DEF LogInv, LeadersLogs, CommitInv, Commits, Same
<1>3. PICK next, match, count, size, prev, pt, new :
        Resume(f, {[pc |-> "ae_request", from |-> i, to |-> f.to,
             sent |-> [term |-> t, counter |-> count, next |-> next,
                       match |-> match, logSize |-> Len(l), entries |-> size],
             req |-> [term |-> t, prev_log_index |-> prev, prev_log_term |-> pt,
                      entries |-> new, leader_commit |-> commitIndex[i]]]})
  BY Zenon DEF PrepareEntries
<1>4. PICK g : g = [pc |-> "ae_request", from |-> i, to |-> f.to,
             sent |-> [term |-> t, counter |-> count, next |-> next,
                       match |-> match, logSize |-> Len(l), entries |-> size],
             req |-> [term |-> t, prev_log_index |-> prev, prev_log_term |-> pt,
                      entries |-> new, leader_commit |-> commitIndex[i]]]
  OBVIOUS
<1>5. /\ g.pc = "ae_request" /\ g.sent.logSize = Len(l) /\ g.req.term = t
      /\ g.req.leader_commit = commitIndex[i]
  BY <1>4
<1>6. InFlight' \subseteq InFlight \cup {g}
  BY <1>0, <1>3, <1>4, ResumeFacts
<1>7. CASE g \notin InFlight'
  <2>1. InFlight' \subseteq InFlight \cup {} /\ Silent({})
    BY <1>6, <1>7 DEF Silent
  <2> QED
    BY <1>0, <2>1, SilentCommits
<1>8. CASE g \in InFlight'
  <2>1. g.sent.logSize = Last(g)
    BY <1>5, <1>8 DEF LogInv, Messages, MessageOK, RequestOK, Last
  <2>2. AllSent(h, {g})
    BY <1>2, <1>5, <2>1 DEF AllSent, SentOK
  <2>3. AllAsked({g})'
    BY <1>5 DEF AllAsked, AskedWith
  <2> QED
    BY <1>0, <1>6, <2>2, <2>3, QuietCommits
<1> QED
  BY <1>7, <1>8

\* The other threads of an election and of replication.
LEMMA CommitsOther ==
  ASSUME OddCluster, Step, NEW h \in History, LogInv(h), CommitInv(h), LogInv(h)',
         NEW f \in InFlight,
         \/ BecomeCandidate(f) \/ RequestVotes(f) \/ ReplyVote(f) \/ DropVote(f)
         \/ RpcFail(f) \/ SkipReply(f) \/ StepDown(f) \/ IgnoreReply(f)
         \/ RefuseEntries(f) \/ BackUp(f)
  PROVE  Outcome(h)
<1>0. IsABag(threads)
  BY DEF Step, TypeInv, TypeOK
<1>1. UNCHANGED logVars
  BY DEF BecomeCandidate, RequestVotes, ReplyVote, DropVote, RpcFail, SkipReply, StepDown,
         IgnoreReply, RefuseEntries, BackUp
<1>2. CASE DropVote(f) \/ RpcFail(f) \/ SkipReply(f) \/ StepDown(f) \/ IgnoreReply(f)
           \/ BackUp(f)
  <2>1. Resume(f, {})
    BY <1>2 DEF DropVote, RpcFail, SkipReply, StepDown, IgnoreReply, BackUp
  <2>2. InFlight' \subseteq InFlight \cup {} /\ Silent({})
    BY <1>0, <2>1, ResumeFacts DEF Silent
  <2> QED
    BY <1>1, <2>2, SilentCommits
<1>3. CASE BecomeCandidate(f)
  <2>1. PICK S : S = {[pc |-> "request_votes", from |-> f.from]}
    OBVIOUS
  <2>2. InFlight' \subseteq InFlight \cup S
    BY <1>0, <1>3, <2>1, ResumeFacts DEF BecomeCandidate
  <2>3. Silent(S)
    BY <2>1 DEF Silent
  <2> QED
    BY <1>1, <2>2, <2>3, SilentCommits
<1>4. CASE RequestVotes(f)
  <2>1. PICK S : S = {[pc |-> "vote_call", from |-> f.from, to |-> j,
                       election_term |-> currentTerm[f.from]] : j \in Peers(f.from)}
    OBVIOUS
  <2>2. InFlight' \subseteq InFlight \cup S
    BY <1>0, <1>4, <2>1, ResumeFacts DEF RequestVotes
  <2>3. Silent(S)
    BY <2>1 DEF Silent
  <2> QED
    BY <1>1, <2>2, <2>3, SilentCommits
<1>5. CASE ReplyVote(f) \/ RefuseEntries(f)
  <2>1. PICK g : Resume(f, {g}) /\ g.pc \in {"vote_reply", "ae_reply"}
    <3>1. CASE ReplyVote(f)
      <4>1. PICK r : Resume(f, {[pc |-> "vote_reply", from |-> f.from,
               to |-> f.to, election_term |-> f.election_term, reply |-> r]})
        BY <3>1, Zenon DEF ReplyVote
      <4>2. [pc |-> "vote_reply", from |-> f.from, to |-> f.to,
             election_term |-> f.election_term, reply |-> r].pc = "vote_reply"
        OBVIOUS
      <4> QED
        BY <4>1, <4>2, Zenon
    <3>2. CASE RefuseEntries(f)
      <4>1. PICK r : Resume(f, {[pc |-> "ae_reply", from |-> f.from,
                                 to |-> f.to, sent |-> f.sent, reply |-> r]})
        BY <3>2, Zenon DEF RefuseEntries
      <4>2. [pc |-> "ae_reply", from |-> f.from, to |-> f.to,
             sent |-> f.sent, reply |-> r].pc = "ae_reply"
        OBVIOUS
      <4> QED
        BY <4>1, <4>2, Zenon
    <3> QED
      BY <1>5, <3>1, <3>2
  <2>2. InFlight' \subseteq InFlight \cup {g}
    BY <1>0, <2>1, ResumeFacts
  <2>3. Silent({g})
    BY <2>1 DEF Silent
  <2> QED
    BY <1>1, <2>2, <2>3, SilentCommits
<1> QED
  BY <1>2, <1>3, <1>4, <1>5

------------------------------------------------------------------------------
(* A reply acknowledged: the commit rule of send_entries.                   *)

\* A count that commits is a winning set of nodes.
LEMMA ReplicatedWins ==
  ASSUME NEW i \in Server, NEW match, NEW n, Replicated(match, Peers(i), n)
  PROVE  WinsElection({j \in Peers(i) : match[j] >= n} \cup {i})
<1> DEFINE J == {j \in Peers(i) : match[j] >= n}
<1>1. /\ IsFiniteSet(Peers(i)) /\ Cardinality(Peers(i)) = Cardinality(Server) - 1
      /\ Cardinality(Server) \in Nat
  BY ServerAssumption, FS_RemoveElement, FS_CardinalityType DEF Peers
<1>2. J \subseteq Peers(i) /\ i \notin J
  BY DEF Peers
<1>3. IsFiniteSet(J) /\ Cardinality(J) \in Nat
  BY <1>1, <1>2, FS_Subset, FS_CardinalityType
<1>4. Cardinality(J \cup {i}) = Cardinality(J) + 1
  BY <1>2, <1>3, FS_AddElement
<1>5. 1 + Cardinality(J) > (Cardinality(Peers(i)) + 1) \div 2
  BY DEF Replicated
<1> HIDE DEF J
<1>6. Cardinality(J) + 1 > (Cardinality(Server) - 1) \div 2
  BY <1>1, <1>3, <1>5
<1> QED
  BY <1>4, <1>6 DEF WinsElection, J

\* apply_entries, when the log reaches as far as the commit index.
LEMMA ApplyIs ==
  ASSUME NEW a \in Seq(Entry), NEW l \in Seq(Entry), NEW d \in Nat, Len(a) < d, d <= Len(l)
  PROVE  ApplyEntries(a, l, d) = a \o SubSeq(l, Len(a) + 1, d)
<1>1. Len(a) \in Nat /\ Len(l) \in Nat
  OBVIOUS
<1>2. ~(d > Len(l)) /\ ~(Len(a) >= d)
  BY <1>1
<1> QED
  BY <1>2 DEF ApplyEntries

\* What the leader's counting amounts to.
LEMMA CountedCommitted ==
  ASSUME Step, NEW h \in History, LogInv(h), LogInv(h)', NEW i \in Server, Leading(i),
         UNCHANGED <<electVars, log>>, NEW n \in Nat, n \in 1..Len(log[i]),
         log[i][n].term = currentTerm[i], Replicated(matchIndex'[i], Peers(i), n)
  PROVE  Committed(h, currentTerm[i], n)
<1> DEFINE t == currentTerm[i]
           Q == {j \in Peers(i) : matchIndex'[i][j] >= n} \cup {i}
<1>0. TypeOK' /\ t \in Nat /\ Len(log[i]) \in Nat
  BY StepTypes DEF Step, TypeInv
<1>1. h.leader[t] = i /\ h.log[t] = log[i] /\ Elected(h, t)
  BY ServerAssumption DEF LogInv, LeadersLogs, Elected
<1>2. h.start[t] \in Nat
  BY <1>0, RecordTypes
<1>3. n \in Own(h, t)
  <2>1. n \in Nat /\ n <= Len(h.log[t])
    BY <1>0, <1>1
  <2>2. h.start[t] < n
    <3> SUFFICES ASSUME ~(h.start[t] < n) PROVE FALSE
      OBVIOUS
    <3>1. n \in 1..h.start[t]
      BY <1>2
    <3>2. h.log[t][n].term < t
      BY <1>0, <1>1, <3>1 DEF LogInv, TermLogs
    <3> QED
      BY <1>0, <1>1, <3>2
  <2> QED
    BY <1>0, <2>1, <2>2, OwnIs
<1>4. WinsElection(Q) /\ Q \in SUBSET Server
  BY ReplicatedWins DEF Peers
<1>5. ASSUME NEW v \in Q PROVE n <= h.held[v][t]
  <2>0. v \in Server /\ h.held[v][t] \in Nat
    BY <1>0, <1>4, RecordTypes
  <2>1. CASE v = i
    <3>1. h.held[i][t] = Len(h.log[t])
      BY <1>0, <1>1 DEF LogInv, Holdings, HeldOK
    <3> QED
      BY <1>0, <1>1, <2>1, <3>1
  <2>2. CASE v \in Peers(i) /\ matchIndex'[i][v] >= n
    <3>1. Leading(i)' /\ currentTerm'[i] = t
      BY DEF Leading, electVars
    <3>2. matchIndex'[i][v] <= h.held[v][t]
      BY <2>2, <3>1 DEF LogInv, Notes, Peers
    <3>3. matchIndex'[i][v] \in Nat
      BY <1>0, <2>0, NodeTypes DEF TypeOK
    <3> QED
      BY <2>0, <2>2, <3>2, <3>3
  <2> QED
    BY <2>1, <2>2
<1> QED
  BY <1>1, <1>3, <1>4, <1>5 DEF Committed

LEMMA CommitsAcknowledge ==
  ASSUME OddCluster, Step, NEW h \in History, LogInv(h), CommitInv(h),
         NEW f \in InFlight, Acknowledge(f)
  PROVE  Outcome(h)
<1> DEFINE i == f.from
           t == currentTerm[i]
           c == commitIndex[i]
           last == Acked(f)
           match == [matchIndex[i] EXCEPT ![f.to] = last]
<1>0. IsABag(threads) /\ TypeOK /\ TypeOK' /\ f \in Thread
  BY DEF Step, TypeInv, TypeOK
<1>1. LogInv(h)'
  BY LogsAcknowledge
<1>2. /\ UNCHANGED <<electVars, log>> /\ f.pc = "ae_reply" /\ StillLeading(f)
      /\ Resume(f, {}) /\ matchIndex' = [matchIndex EXCEPT ![i] = match]
  BY DEF Acknowledge
<1>3. ReplyOK(h, f) /\ i \in Server /\ Leading(i) /\ last \in Nat
  BY <1>0, <1>2, MessageTypes
  DEF LogInv, Messages, MessageOK, StillLeading, Leading
<1>4. matchIndex'[i] = match
  BY <1>0, <1>2, <1>3 DEF TypeOK
<1>5. /\ t \in Nat /\ log[i] \in Seq(Entry) /\ Len(log[i]) \in Nat /\ c \in Nat
      /\ applied[i] \in Seq(Entry) /\ Len(applied[i]) = c
  BY <1>0, <1>3, NodeTypes DEF TypeOK, CommitInv, Commits
<1>6. h.log[t] = log[i] /\ last <= Len(log[i])
  BY <1>2, <1>3 DEF StillLeading, LogInv, LeadersLogs, ReplyOK
<1>7. PICK stale, n :
        /\ n \in NewCommits(log[i], c, last, t, match, Peers(i), stale)
        /\ commitIndex' = [commitIndex EXCEPT ![i] = n]
        /\ applied' = [applied EXCEPT ![i] =
             IF n > c THEN ApplyEntries(@, log[i], n) ELSE @]
  BY DEF Acknowledge
<1>8. /\ commitIndex'[i] = n
      /\ applied'[i] = IF n > c THEN ApplyEntries(applied[i], log[i], n) ELSE applied[i]
      /\ \A x \in Server : x # i => /\ commitIndex'[x] = commitIndex[x]
                                    /\ applied'[x] = applied[x]
  BY <1>0, <1>3, <1>7 DEF TypeOK
<1> HIDE DEF last, match, c
<1>9. CommitMove(h, i)
  <2>1. n = c \/ n \in Committable(log[i], c, last, t, match, Peers(i), stale)
    BY <1>7 DEF NewCommits
  <2>2. CASE n = c
    <3>1. ~(n > c)
      BY <1>5, <2>2
    <3> QED
      BY <1>8, <2>2, <3>1 DEF CommitMove, c
  <2>3. CASE n \in Committable(log[i], c, last, t, match, Peers(i), stale)
    <3>1. n \in (c + 1)..last /\ TermAt(log[i], n, stale) = t /\ Replicated(match, Peers(i), n)
      BY <2>3 DEF Committable
    <3>2. n \in Nat /\ c < n /\ n > c /\ n <= Len(log[i]) /\ n \in 1..Len(log[i])
      BY <1>3, <1>5, <1>6, <3>1
    <3>3. log[i][n].term = t
      BY <3>1, <3>2 DEF TermAt
    <3>4. Committed(h, t, n)
      BY <1>1, <1>2, <1>3, <1>4, <3>1, <3>2, <3>3, CountedCommitted
    <3>5. Same(log[i], h.log[t], n)
      BY <1>5, <1>6, <3>2, SameSelf
    <3>6. t \in 0..t /\ n <= n
      BY <1>5, <3>2
    <3>7. Safe(h, log[i], n, t)
      BY <3>2, <3>4, <3>5, <3>6 DEF Safe
    <3>8. log'[i] = log[i] /\ currentTerm'[i] = t
      BY <1>2 DEF electVars
    <3>9. ApplyEntries(applied[i], log[i], n) = applied[i] \o SubSeq(log[i], c + 1, n)
      BY <1>5, <3>2, ApplyIs
    <3> QED
      BY <1>8, <3>2, <3>7, <3>8, <3>9 DEF CommitMove, c
  <2> QED
    BY <2>1, <2>2, <2>3
<1>10. \A v \in Server : LogMove(h, v) /\ CommitMove(h, v)
  <2> SUFFICES ASSUME NEW v \in Server PROVE LogMove(h, v) /\ CommitMove(h, v)
    OBVIOUS
  <2>1. LogMove(h, v)
    BY <1>2, LogStays
  <2>2. CommitMove(h, v)
    BY <1>8, <1>9 DEF CommitMove
  <2> QED
    BY <2>1, <2>2
<1>11. InFlight' \subseteq InFlight \cup {} /\ Silent({})
  BY <1>0, <1>2, ResumeFacts DEF Silent
<1>12. AllAsked({})' /\ AllSent(h, {})
  BY <1>11, SilentFacts
<1>13. Advance(h, h) /\ CandidatesKeep
  BY <1>1, <1>2, SameAdvance DEF CandidatesKeep
<1>14. \A u \in Nat : Elected(h, u) /\ ~Elected(h, u) => Complete(h, u)
  OBVIOUS
<1> QED
  BY <1>10, <1>11, <1>12, <1>13, <1>14, AdvanceKeeps

------------------------------------------------------------------------------
(* A won election: the new leader has all that may be committed.            *)

LEMMA WinnerComplete ==
  ASSUME NEW h, NEW k, Advance(h, k), NEW i \in Server, NEW t \in Nat, t = currentTerm[i],
         FoundedAs(h, t, i, log[i], k), currentRole[i] = "Candidate", Leading(i)',
         UNCHANGED <<currentTerm, log>>
  PROVE  Complete(k, t)
<1>0. /\ Step /\ h \in History /\ k \in History /\ LogInv(h) /\ CommitInv(h) /\ Frozen(h, k)
      /\ TermLogs(h) /\ PassedOn(h) /\ Traced(h, log[i]) /\ TypeOK
  BY DEF Advance, LogInv, LogsTraced, CommitInv, Step, TypeInv
<1> SUFFICES ASSUME NEW s \in Nat, s < t, Elected(k, s), NEW n \in Own(k, s)
             PROVE  (n <= k.start[t] /\ k.log[t][n].term = s) \/ Blocked(k, s, n)'
  BY DEF Complete
<1>1. s # t
  OBVIOUS
<1>2. Elected(h, s) /\ n \in Own(h, s)
  BY <1>1 DEF FoundedAs, Elected, Own
<1>3. n \in Nat /\ n \in 1..Len(h.log[s])
  BY <1>0, <1>2, OwnEntry
<1>4. votes'[i] \in SUBSET Server /\ WinsElection(votes'[i])
  BY <1>0 DEF Step, TypeInv, TypeOK, VoteInv, Won, WinsElection
<1>5. ASSUME NEW v \in votes'[i]
      PROVE  v \in Server /\ Informed(h, v, i, t) /\ t <= currentTerm[v]
  <2>1. v \in Server /\ Given(v, i, t)'
    BY <1>4 DEF Given, Holds, Leading
  <2>2. Informed(h, v, i, t)
    BY <1>0, <2>1, VotersKnow
  <2>3. t <= currentTerm'[v]
    BY <1>0, <2>1 DEF Step, VoteInv, Backed
  <2> QED
    BY <2>1, <2>2, <2>3
<1>6. CASE \E v \in votes'[i] : n <= h.held[v][s]
  <2>1. UpTo(log[i], s, n) \/ Blocked(h, s, n)
    BY <1>2, <1>5, <1>6 DEF Informed
  <2>2. log[i] \in Seq(Entry)
    BY <1>0, NodeTypes
  <2>3. Has(log[i], s, n) \/ Blocked(h, s, n)
    BY <1>0, <1>2, <2>1, <2>2, UpToHas
  <2>4. k.start[t] = Len(log[i]) /\ k.log[t] = log[i]
    BY DEF FoundedAs
  <2>5. Blocked(h, s, n) => Blocked(k, s, n)'
    BY <1>0, <1>3, BlockedStep
  <2> QED
    BY <2>3, <2>4, <2>5 DEF Has
<1>7. CASE \A v \in votes'[i] : ~(n <= h.held[v][s])
  <2>1. ASSUME NEW v \in votes'[i] PROVE h.held[v][s] < n /\ s < currentTerm[v]
    <3>1. v \in Server /\ t <= currentTerm[v] /\ ~(n <= h.held[v][s])
      BY <1>5, <1>7
    <3>2. currentTerm[v] \in Nat /\ h.held[v][s] \in Nat
      BY <1>0, <3>1, NodeTypes, RecordTypes
    <3> QED
      BY <1>3, <3>1, <3>2
  <2>2. \E Q \in SUBSET Server :
          WinsElection(Q) /\ \A v \in Q : h.held[v][s] < n /\ s < currentTerm[v]
    BY <1>4, <2>1
  <2>3. Blocked(h, s, n)
    BY <2>2 DEF Blocked
  <2> QED
    BY <1>0, <1>3, <2>3, BlockedStep
<1> QED
  BY <1>6, <1>7

LEMMA CommitsWon ==
  ASSUME OddCluster, Step, NEW h \in History, LogInv(h), CommitInv(h), NEW f \in InFlight,
         Winning(f)
  PROVE  \E k : Outcome(k)
<1>1. PICK i, t, l : i = f.from /\ t = currentTerm[i] /\ l = log[i]
  OBVIOUS
<1>2. PICK k : k = Founded(h, t, i, l)
  OBVIOUS
<1>3. k \in History /\ Grows(h, k) /\ LogInv(k)'
  BY <1>1, <1>2, LogsWon
<1>4. /\ i \in Server /\ currentRole[i] = "Candidate" /\ Leading(i)'
      /\ UNCHANGED <<currentTerm, log, commitIndex, applied>>
      /\ InFlight' \subseteq InFlight \cup {}
  BY <1>1 DEF Winning, logVars
<1>5. t \in Nat /\ l \in Seq(Entry)
  BY <1>1, <1>4, StepTypes
<1>6. FoundedAs(h, t, i, l, k)
  BY <1>2, <1>4, <1>5, FoundedFacts
<1>7. Frozen(h, k)
  <2> SUFFICES ASSUME NEW v \in Server, NEW u \in Nat
               PROVE  k.held[v][u] = h.held[v][u] \/ currentTerm'[v] = u
    BY DEF Frozen
  <2>1. <<v, u>> # <<i, t>> => k.held[v][u] = h.held[v][u]
    BY <1>6 DEF FoundedAs
  <2> QED
    BY <1>1, <1>4, <2>1
<1>8. Advance(h, k)
  BY <1>3, <1>7 DEF Advance
<1>9. \A v \in Server : LogMove(h, v) /\ CommitMove(k, v)
  BY <1>4, LogStays DEF CommitMove
<1>10. \A u \in Nat : Elected(k, u) /\ ~Elected(h, u) => Complete(k, u)
  <2>1. Complete(k, t)
    <3>1. UNCHANGED <<currentTerm, log>>
      BY <1>4
    <3> QED
      BY <1>1, <1>4, <1>5, <1>6, <1>8, <3>1, WinnerComplete
  <2> QED
    BY <1>6, <2>1 DEF FoundedAs, Elected
<1>11. CandidatesKeep /\ Silent({})
  BY <1>4 DEF CandidatesKeep, Silent
<1>12. AllAsked({})' /\ AllSent(k, {})
  BY <1>11, SilentFacts
<1>13. Outcome(k)
  BY <1>4, <1>8, <1>9, <1>10, <1>11, <1>12, AdvanceKeeps
<1> QED
  BY <1>13

------------------------------------------------------------------------------
(* A proposal, and a request accepted.                                      *)

LEMMA CommitsPropose ==
  ASSUME OddCluster, Step, NEW h \in History, LogInv(h), CommitInv(h), NEW i \in Server,
         NEW c \in Command, Propose(i, c)
  PROVE  \E k : Outcome(k)
<1>0. TypeOK
  BY DEF Step, TypeInv
<1>1. PICK t, l : t = currentTerm[i] /\ l = log'[i]
  OBVIOUS
<1>2. PICK k : k = Extended(h, t, i, l)
  OBVIOUS
<1>3. k \in History /\ Grows(h, k) /\ LogInv(k)'
  BY <1>1, <1>2, LogsPropose
<1>4. /\ Leading(i) /\ log' = [log EXCEPT ![i] = Append(@, [term |-> t, command |-> c])]
      /\ UNCHANGED <<currentTerm, currentRole, commitIndex, applied, threads>>
  BY <1>1 DEF Propose, Leading, electVars
<1>5. /\ t \in Nat /\ l \in Seq(Entry) /\ log[i] \in Seq(Entry)
  BY <1>1, StepTypes
<1>6. ExtendedAs(h, t, i, l, k)
  BY <1>2, <1>5, ExtendedFacts
<1>7. Frozen(h, k)
  <2> SUFFICES ASSUME NEW v \in Server, NEW u \in Nat
               PROVE  k.held[v][u] = h.held[v][u] \/ currentTerm'[v] = u
    BY DEF Frozen
  <2>1. <<v, u>> # <<i, t>> => k.held[v][u] = h.held[v][u]
    BY <1>6 DEF ExtendedAs
  <2> QED
    BY <1>1, <1>4, <2>1
<1>8. Advance(h, k)
  BY <1>3, <1>7 DEF Advance
<1>9. \A v \in Server : LogMove(h, v)
  <2>1. ASSUME NEW v \in Server, v # i PROVE LogMove(h, v)
    <3>1. log'[v] = log[v]
      BY <1>0, <1>4, <2>1 DEF TypeOK
    <3> QED
      BY <3>1, LogStays
  <2>2. LogMove(h, i)
    <3>1. PICK e : e = [term |-> t, command |-> c]
      OBVIOUS
    <3>2. e \in Entry
      BY <1>5, <3>1 DEF Entry
    <3>3. log'[i] = Append(log[i], e)
      BY <1>0, <1>4, <3>1 DEF TypeOK
    <3>4. Same(log[i], log'[i], Len(log[i]))
      BY <1>5, <3>2, <3>3, AppendSame
    <3> QED
      BY <3>4 DEF LogMove
  <2> QED
    BY <2>1, <2>2
<1>10. \A v \in Server : LogMove(h, v) /\ CommitMove(k, v)
  BY <1>4, <1>9 DEF CommitMove
<1>11. \A u \in Nat : Elected(k, u) /\ ~Elected(h, u) => Complete(k, u)
  BY <1>6 DEF ExtendedAs, Elected
<1>12. CandidatesKeep
  <2> SUFFICES ASSUME NEW v \in Server, currentRole'[v] = "Candidate" PROVE log'[v] = log[v]
    BY DEF CandidatesKeep
  <2>1. v # i
    BY <1>4 DEF Leading
  <2> QED
    BY <1>0, <1>4, <2>1 DEF TypeOK
<1>13. InFlight' \subseteq InFlight \cup {} /\ Silent({})
  BY <1>4 DEF InFlight, Silent
<1>14. AllAsked({})' /\ AllSent(k, {})
  BY <1>13, SilentFacts
<1>15. Outcome(k)
  BY <1>8, <1>10, <1>11, <1>12, <1>13, <1>14, AdvanceKeeps
<1> QED
  BY <1>15

\* A request takes the node's commit index to the leader's, which the entries
\* sent with it reach.
LEMMA AcceptCommits ==
  ASSUME Step, NEW h \in History, NEW k \in History, Grows(h, k), LogInv(h), CommitInv(h),
         NEW f \in InFlight, AcceptEntries(f), Accepted(h, f), NEW v \in Server
  PROVE  CommitMove(k, v)
<1> DEFINE i == f.to
           t == f.req.term
           c == commitIndex[i]
           d == f.req.leader_commit
           l == log'[i]
<1>0. TypeOK /\ f \in Thread /\ f.pc = "ae_request" /\ i \in Server /\ t \in Nat
  BY DEF Accepted, Step, TypeInv
<1>1. /\ d \in Nat /\ Last(f) \in Nat /\ c \in Nat /\ l \in Seq(Entry) /\ Len(l) \in Nat
      /\ applied[i] \in Seq(Entry) /\ Len(applied[i]) = c
  BY <1>0, MessageTypes, NodeTypes, StepTypes DEF CommitInv, Commits, TypeOK
<1> DEFINE new == IF Missed(f) \/ f.req.entries = <<>> THEN log[i]
                  ELSE Merge(log[i], f.req.prev_log_index, f.req.entries)
           commit == IF Missed(f) THEN c ELSE CommitWithLeader(new, c, d)
<1>2. /\ log' = [log EXCEPT ![i] = new]
      /\ commitIndex' = [commitIndex EXCEPT ![i] = commit]
      /\ applied' = [applied EXCEPT ![i] =
           IF ~Missed(f) /\ d > c THEN ApplyEntries(@, new, commit) ELSE @]
  BY DEF AcceptEntries, Missed
<1> HIDE DEF new
<1>3. l = new
  BY <1>0, <1>2 DEF TypeOK
<1>4. /\ commitIndex'[i] = commit
      /\ applied'[i] = IF ~Missed(f) /\ d > c THEN ApplyEntries(applied[i], l, commit)
                       ELSE applied[i]
      /\ v # i => commitIndex'[v] = commitIndex[v] /\ applied'[v] = applied[v]
  <2> HIDE DEF commit, c, d
  <2> QED
    BY <1>0, <1>2, <1>3 DEF TypeOK
<1>5. CASE v # i
  BY <1>4, <1>5 DEF CommitMove
<1>6. CASE v = i /\ (Missed(f) \/ ~(d > c))
  <2>1. commit = c
    <3>1. ~Missed(f) => d <= c
      BY <1>1, <1>6
    <3> QED
      BY <3>1 DEF CommitWithLeader
  <2> HIDE DEF commit
  <2> QED
    BY <1>4, <1>6, <2>1 DEF CommitMove
<1>7. CASE v = i /\ ~Missed(f) /\ d > c
  <2>1. /\ Same(l, h.log[t], Last(f)) /\ currentTerm'[i] = t
    BY <1>7 DEF Accepted
  <2>2. d <= Last(f) /\ Safe(h, h.log[t], d, t)
    BY <1>0 DEF CommitInv, CommitsSent, At
  <2>3. Last(f) <= Len(l) /\ h.log[t] \in Seq(Entry)
    BY <1>0, <2>1, RecordTypes DEF Same
  <2> HIDE DEF d, c, l
  <2>4. d <= Len(l) /\ c < d /\ ~(d <= c)
    BY <1>1, <1>7, <2>2, <2>3
  <2>5. commit = d
    <3>1. commit = CommitWithLeader(l, c, d)
      BY <1>3, <1>7
    <3> QED
      BY <1>1, <2>4, <3>1 DEF CommitWithLeader
  <2>6. Same(l, h.log[t], d)
    BY <1>1, <2>1, <2>2, <2>3, SameLess
  <2>7. t <= t
    BY <1>0
  <2>8. Safe(k, l, d, t)
    BY <1>0, <1>1, <2>2, <2>3, <2>6, <2>7, SafeGrows
  <2>9. ApplyEntries(applied[i], l, d) = applied[i] \o SubSeq(l, c + 1, d)
    BY <1>1, <2>4, ApplyIs
  <2> HIDE DEF commit
  <2>10. commitIndex'[i] = d /\ applied'[i] = applied[i] \o SubSeq(l, c + 1, d)
    BY <1>4, <1>7, <2>5, <2>9
  <2> QED
    BY <1>7, <2>1, <2>4, <2>8, <2>10 DEF CommitMove, c, l
<1> QED
  BY <1>5, <1>6, <1>7

LEMMA CommitsAccept ==
  ASSUME OddCluster, Step, NEW h \in History, LogInv(h), CommitInv(h), NEW f \in InFlight,
         AcceptEntries(f)
  PROVE  \E k : Outcome(k)
<1> DEFINE i == f.to
           t == f.req.term
<1>0. TypeOK /\ Accepted(h, f)
  BY AcceptFacts DEF Step, TypeInv
<1>1. /\ i \in Server /\ t \in Nat /\ Last(f) \in Nat /\ RequestOK(h, f) /\ Elected(h, t)
      /\ currentTerm'[i] = t /\ currentRole'[i] = "Follower"
      /\ \A x \in Server : x # i => log'[x] = log[x]
  BY <1>0 DEF Accepted
<1>2. PICK k : k = AcceptRecord(h, f)
  OBVIOUS
<1>3. k \in History /\ Grows(h, k) /\ LogInv(k)'
  BY <1>2, LogsAccept
<1>4. /\ k.leader = h.leader
      /\ \A v \in Server : \A u \in Nat : <<v, u>> # <<i, t>> => k.held[v][u] = h.held[v][u]
  <2>1. CASE Missed(f)
    BY <1>2, <2>1 DEF AcceptRecord
  <2>2. CASE ~Missed(f)
    <3>1. k = Noted(h, t, i, Last(f))
      BY <1>2, <2>2 DEF AcceptRecord
    <3>2. NotedAs(h, t, i, Last(f), k)
      BY <1>1, <3>1, NotedFacts
    <3> QED
      BY <3>2 DEF NotedAs
  <2> QED
    BY <2>1, <2>2
<1>5. Frozen(h, k)
  <2> SUFFICES ASSUME NEW v \in Server, NEW u \in Nat
               PROVE  k.held[v][u] = h.held[v][u] \/ currentTerm'[v] = u
    BY DEF Frozen
  <2> QED
    BY <1>1, <1>4
<1>6. Advance(h, k)
  BY <1>3, <1>5 DEF Advance
<1>7. LogMove(h, i)
  <2>1. CASE log'[i] = log[i]
    BY <1>1, <2>1, LogStays
  <2>2. CASE log'[i] # log[i]
    <3>1. Same(log'[i], h.log[t], Last(f))
      BY <1>0, <2>2 DEF Accepted
    <3>2. h.start[t] <= Last(f)
      BY <1>1 DEF RequestOK
    <3>3. \A n \in Nat : Same(log[i], h.log[t], n) => Same(log'[i], h.log[t], n)
      BY <1>0, AcceptKeeps
    <3> QED
      BY <1>1, <3>1, <3>2, <3>3 DEF LogMove
  <2> QED
    BY <2>1, <2>2
<1>8. \A v \in Server : LogMove(h, v) /\ CommitMove(k, v)
  <2> SUFFICES ASSUME NEW v \in Server PROVE LogMove(h, v) /\ CommitMove(k, v)
    OBVIOUS
  <2>1. CommitMove(k, v)
    BY <1>0, <1>3, AcceptCommits
  <2>2. LogMove(h, v)
    BY <1>1, <1>7, LogStays
  <2> QED
    BY <2>1, <2>2
<1>9. \A u \in Nat : Elected(k, u) /\ ~Elected(h, u) => Complete(k, u)
  BY <1>4 DEF Elected
<1>10. CandidatesKeep
  BY <1>1 DEF CandidatesKeep
<1>11. PICK g : Answered(f, g)
  BY <1>0, AcceptAnswer
<1>12. InFlight' \subseteq InFlight \cup {g} /\ Silent({g})
  BY <1>11 DEF Answered, Silent
<1>13. AllAsked({g})' /\ AllSent(k, {g})
  BY <1>12, SilentFacts
<1>14. Outcome(k)
  BY <1>6, <1>8, <1>9, <1>10, <1>12, <1>13, AdvanceKeeps
<1> QED
  BY <1>14

------------------------------------------------------------------------------
(* Every step.                                                              *)

LEMMA CommitsThread ==
  ASSUME OddCluster, Step, NEW h \in History, LogInv(h), CommitInv(h), NEW f \in InFlight,
         ThreadStep(f)
  PROVE  \E k : Outcome(k)
<1>1. CASE Winning(f)
  BY <1>1, CommitsWon
<1>2. CASE AcceptEntries(f)
  BY <1>2, CommitsAccept
<1>3. CASE ~Recorded(f)
  <2>0. LogInv(h)'
    BY <1>3, LogsThread
  <2>1. CASE CountVote(f)
    <3>1. UNCHANGED logVars /\ InFlight' \subseteq InFlight \cup {} /\ Silent({})
      BY <1>3, <2>1, CountVoteCases DEF Recorded, Silent
    <3>2. Outcome(h)
      BY <2>0, <3>1, SilentCommits
    <3> QED
      BY <3>2
  <2>2. CASE PrepareVote(f)
    BY <2>0, <2>2, CommitsAsk
  <2>3. CASE PrepareEntries(f)
    BY <2>0, <2>3, CommitsPrepare
  <2>4. CASE Acknowledge(f)
    BY <2>4, CommitsAcknowledge
  <2>5. CASE \/ BecomeCandidate(f) \/ RequestVotes(f) \/ ReplyVote(f) \/ DropVote(f)
             \/ RpcFail(f) \/ SkipReply(f) \/ StepDown(f) \/ IgnoreReply(f)
             \/ RefuseEntries(f) \/ BackUp(f)
    <3>1. Outcome(h)
      BY <2>0, <2>5, CommitsOther
    <3> QED
      BY <3>1
  <2> QED
    BY <1>3, <2>1, <2>2, <2>3, <2>4, <2>5
    DEF ThreadStep, HandleVoteReply, AppendEntries, HandleAppendReply, Recorded
<1> QED
  BY <1>1, <1>2, <1>3 DEF Recorded

LEMMA CommitsNext ==
  ASSUME OddCluster, Step, [PromptNext]_vars, NEW h \in History, LogInv(h), CommitInv(h)
  PROVE  \E k : Outcome(k)
<1>1. CASE UNCHANGED vars
  <2>1. UNCHANGED logVars /\ InFlight' \subseteq InFlight \cup {} /\ Silent({})
    BY <1>1 DEF vars, InFlight, Silent
  <2>2. LogInv(h)'
    BY <1>1, LogsStutter
  <2>3. Outcome(h)
    BY <2>1, <2>2, SilentCommits
  <2> QED
    BY <2>3
<1>2. ASSUME NEW i \in Server, NodeStep(i) PROVE \E k : Outcome(k)
  <2>1. CASE Run(i) \/ ElectionTimeout(i) \/ HeartbeatTimeout(i)
    BY <2>1, CommitsNode
  <2>2. CASE \E c \in Command : Propose(i, c)
    BY <2>2, CommitsPropose
  <2> QED
    BY <1>2, <2>1, <2>2 DEF NodeStep
<1>3. ASSUME NEW f \in InFlight, ThreadStep(f) PROVE \E k : Outcome(k)
  BY <1>3, CommitsThread
<1> QED
  BY <1>1, <1>2, <1>3 DEF PromptNext, Next

LEMMA CommitInit == Init => CommitInv(Empty)
<1> SUFFICES ASSUME Init PROVE CommitInv(Empty)
  OBVIOUS
<1>1. InFlight = {}
  BY DEF Init, EmptyBag, SetToBag, InFlight, BagToSet
<1>2. \A i \in Server : /\ currentRole[i] = "Unset" /\ log[i] = <<>>
                        /\ commitIndex[i] = 0 /\ applied[i] = <<>>
  BY DEF Init
<1>3. Remembered(Empty) /\ PassedOn(Empty)
  BY EmptyFacts DEF Remembered, PassedOn
<1>4. VotesInformed(Empty)
  BY <1>2 DEF VotesInformed
<1>5. VotesAsked /\ CommitsSent(Empty)
  BY <1>1 DEF VotesAsked, CommitsSent, At
<1>6. Commits(Empty)
  <2> SUFFICES ASSUME NEW i \in Server
               PROVE  /\ Len(applied[i]) = commitIndex[i]
                      /\ Same(applied[i], log[i], commitIndex[i])
                      /\ Safe(Empty, log[i], commitIndex[i], currentTerm[i])
    BY DEF Commits
  <2>1. Same(<<>>, <<>>, 0)
    BY DEF Same
  <2> QED
    BY <1>2, <2>1 DEF Safe
<1> QED
  BY <1>3, <1>4, <1>5, <1>6 DEF CommitInv

\* The inductive invariant of what is applied.
Sound == TypeInv /\ VoteInv /\ \E h \in History : LogInv(h) /\ CommitInv(h)

LEMMA SoundStep ==
  ASSUME OddCluster, Sound, [PromptNext]_vars
  PROVE  Sound' /\ CommitsGrow
<1>1. Step
  BY StepFacts DEF Sound
<1>2. PICK h \in History : LogInv(h) /\ CommitInv(h)
  BY DEF Sound
<1>3. PICK k : Outcome(k)
  BY <1>1, <1>2, CommitsNext
<1>4. k \in History /\ LogInv(k)' /\ CommitInv(k)' /\ CommitsGrow
  BY <1>3 DEF Outcome
<1>5. (\E x \in History : LogInv(x) /\ CommitInv(x))'
  BY <1>4 DEF History, Entry
<1>6. (TypeInv /\ VoteInv)'
  BY <1>1 DEF Step
<1> QED
  BY <1>4, <1>5, <1>6 DEF Sound

LEMMA SoundInvariant == OddCluster => (SpecPrompt => []Sound)
<1> SUFFICES ASSUME OddCluster PROVE SpecPrompt => []Sound
  OBVIOUS
<1>1. Init => Sound
  BY TypeInit, VoteInit, LogInit, CommitInit, EmptyFacts DEF Sound
<1>2. Sound /\ [PromptNext]_vars => Sound'
  BY SoundStep
<1> QED
  BY <1>1, <1>2, PTL DEF SpecPrompt

------------------------------------------------------------------------------
(* What follows.                                                            *)

LEMMA SoundTypes ==
  ASSUME Sound, NEW i \in Server
  PROVE  /\ log[i] \in Seq(Entry) /\ Len(log[i]) \in Nat
         /\ applied[i] \in Seq(Entry) /\ Len(applied[i]) \in Nat
         /\ commitIndex[i] \in Nat /\ currentTerm[i] \in Nat
  BY NodeTypes DEF Sound, TypeInv, TypeOK

\* What was applied is a prefix of the log it was applied from.
LEMMA AppliedIs ==
  ASSUME Sound, NEW h \in History, CommitInv(h), NEW i \in Server
  PROVE  /\ Len(applied[i]) = commitIndex[i] /\ Prefix(applied[i], log[i])
         /\ Same(applied[i], log[i], commitIndex[i])
  BY DEF CommitInv, Commits, Same, Prefix

\* append_entries' erase (raft.cpp:1041) never reaches an entry already applied,
\* and apply_entries never finds commitIndex past the log (630).
THEOREM AppliedIsInLog == OddCluster => (SpecPrompt => []AppliedMatchesLog)
<1>1. Sound => AppliedMatchesLog
  <2> SUFFICES ASSUME Sound, NEW i \in Server
               PROVE  Len(applied[i]) = commitIndex[i] /\ Prefix(applied[i], log[i])
    BY DEF AppliedMatchesLog
  <2>1. PICK h \in History : LogInv(h) /\ CommitInv(h)
    BY DEF Sound
  <2> QED
    BY <2>1, AppliedIs
<1> QED
  BY <1>1, SoundInvariant, PTL

\* No reply and no request takes commitIndex, or what was handed to the state
\* machine, back (send_entries, raft.cpp:847-874; append_entries, 1060-1063).
THEOREM CommitsOnlyGrow == OddCluster => (SpecPrompt => CommitForward)
<1> SUFFICES ASSUME OddCluster PROVE SpecPrompt => CommitForward
  OBVIOUS
<1>1. Sound /\ [PromptNext]_vars => [CommitsGrow]_vars
  BY SoundStep
<1>2. SpecPrompt => []Sound
  BY SoundInvariant
<1> QED
  BY <1>1, <1>2, PTL DEF SpecPrompt, CommitForward, CommitsGrow

------------------------------------------------------------------------------
(* Who has what was applied.                                                *)

\* What a node has applied is the beginning of something committed.
FromTerm(h, j, t, n) ==
  /\ t <= currentTerm[j] /\ Committed(h, t, n)
  /\ commitIndex[j] <= n /\ Same(applied[j], h.log[t], commitIndex[j])

LEMMA AppliedFrom ==
  ASSUME Sound, NEW h \in History, CommitInv(h), NEW j \in Server, applied[j] # <<>>
  PROVE  \E t, n \in Nat : FromTerm(h, j, t, n)
<1> DEFINE c == commitIndex[j]
<1>1. /\ log[j] \in Seq(Entry) /\ applied[j] \in Seq(Entry) /\ c \in Nat
      /\ currentTerm[j] \in Nat
  BY SoundTypes
<1>2. Len(applied[j]) = c /\ Same(applied[j], log[j], c) /\ Safe(h, log[j], c, currentTerm[j])
  BY DEF CommitInv, Commits
<1>3. c # 0
  BY <1>1, <1>2, EmptySeq
<1>4. PICK t \in 0..currentTerm[j], n \in Nat :
        Committed(h, t, n) /\ c <= n /\ Same(log[j], h.log[t], c)
  BY <1>2, <1>3 DEF Safe
<1>5. t \in Nat /\ t <= currentTerm[j] /\ c <= c
  BY <1>1, <1>4
<1>6. h.log[t] \in Seq(Entry)
  BY <1>5, RecordTypes
<1> HIDE DEF c
<1>7. Same(applied[j], h.log[t], c)
  BY <1>1, <1>2, <1>4, <1>5, <1>6, SameTrans
<1> QED
  BY <1>4, <1>5, <1>7 DEF FromTerm, c

\* A log that begins with what is committed begins with what was applied.
LEMMA AppliedWithin ==
  ASSUME Sound, NEW h \in History, CommitInv(h), NEW j \in Server, NEW t \in Nat,
         NEW n \in Nat, FromTerm(h, j, t, n), NEW l \in Seq(Entry), Same(l, h.log[t], n)
  PROVE  Same(applied[j], l, Len(applied[j])) /\ Prefix(applied[j], l)
<1> DEFINE c == commitIndex[j]
<1>1. applied[j] \in Seq(Entry) /\ c \in Nat /\ Len(applied[j]) = c /\ h.log[t] \in Seq(Entry)
  BY SoundTypes, AppliedIs, RecordTypes
<1>2. c <= n /\ Same(applied[j], h.log[t], c)
  BY DEF FromTerm
<1>3. Same(h.log[t], l, n)
  BY SameSym
<1> HIDE DEF c
<1>4. Same(applied[j], l, c)
  BY <1>1, <1>2, <1>3, SameTrans
<1>5. Same(applied[j], l, Len(applied[j]))
  BY <1>1, <1>4
<1> QED
  BY <1>5 DEF Same, Prefix

LEMMA NothingApplied ==
  ASSUME NEW s, s = <<>>, NEW l \in Seq(Entry)
  PROVE  Prefix(s, l)
  BY DEF Prefix

\* Every leader has all that any node of its term or an earlier one has applied
\* (reply_vote's up-to-date check, raft.cpp:551-576, with the commit rule of
\* 854-871).
THEOREM LeadersAreComplete == OddCluster => (SpecPrompt => []LeaderCompleteness)
<1> SUFFICES ASSUME OddCluster PROVE SpecPrompt => []LeaderCompleteness
  OBVIOUS
<1>1. Sound => LeaderCompleteness
  <2> SUFFICES ASSUME Sound, NEW i \in Server, NEW j \in Server, Leading(i),
                      currentTerm[j] <= currentTerm[i]
               PROVE  Prefix(applied[j], log[i])
    BY DEF LeaderCompleteness
  <2>1. PICK h \in History : LogInv(h) /\ CommitInv(h)
    BY DEF Sound
  <2>2. PICK u : u = currentTerm[i]
    OBVIOUS
  <2>3. /\ u \in Nat /\ currentTerm[j] \in Nat /\ currentTerm[j] <= u
        /\ log[i] \in Seq(Entry)
    BY <2>2, SoundTypes
  <2>4. Elected(h, u) /\ log[i] = h.log[u] /\ TermLogs(h) /\ PassedOn(h)
    BY <2>1, <2>2, ServerAssumption DEF LogInv, LeadersLogs, Elected, CommitInv
  <2>5. CASE applied[j] = <<>>
    BY <2>3, <2>5, NothingApplied
  <2>6. CASE applied[j] # <<>>
    <3>1. PICK t, n \in Nat : FromTerm(h, j, t, n)
      BY <2>1, <2>6, AppliedFrom
    <3>2. Committed(h, t, n) /\ t <= currentTerm[j]
      BY <3>1 DEF FromTerm
    <3>3. t <= u
      BY <2>3, <3>2
    <3>4. Same(log[i], h.log[t], n)
      BY <2>3, <2>4, <3>2, <3>3, CommittedIn
    <3> QED
      BY <2>1, <2>3, <3>1, <3>4, AppliedWithin
  <2> QED
    BY <2>5, <2>6
<1>2. SpecPrompt => []Sound
  BY SoundInvariant
<1> QED
  BY <1>1, <1>2, PTL

\* A node that lacks an entry applied anywhere has no log that a winning set of
\* nodes would find up to date: whoever held the entry would refuse it
\* (reply_vote, raft.cpp:551-576; the commit rule of line 856).
THEOREM OnlyHoldersWin == OddCluster => (SpecPrompt => []OnlyHoldersElectable)
<1> SUFFICES ASSUME OddCluster PROVE SpecPrompt => []OnlyHoldersElectable
  OBVIOUS
<1>1. Sound => OnlyHoldersElectable
  <2> SUFFICES ASSUME Sound, NEW i \in Server, NEW j \in Server, Electable(i)
               PROVE  Prefix(applied[j], log[i])
    BY DEF OnlyHoldersElectable
  <2>1. PICK h \in History : LogInv(h) /\ CommitInv(h)
    BY DEF Sound
  <2>2. TypeOK /\ log[i] \in Seq(Entry) /\ TermLogs(h) /\ PassedOn(h) /\ Traced(h, log[i])
    BY <2>1, SoundTypes DEF Sound, TypeInv, LogInv, LogsTraced, CommitInv
  <2>3. CASE applied[j] = <<>>
    BY <2>2, <2>3, NothingApplied
  <2>4. CASE applied[j] # <<>>
    <3>1. PICK t, n \in Nat : FromTerm(h, j, t, n)
      BY <2>1, <2>4, AppliedFrom
    <3>2. Committed(h, t, n) /\ Elected(h, t) /\ n \in Own(h, t)
      BY <3>1 DEF FromTerm, Committed
    <3>3. ~Blocked(h, t, n)
      BY <3>2, Clash
    <3>4. PICK r : r = [last_log_term |-> LastLogTerm(log[i]),
                        last_log_index |-> LastLogIndex(log[i])]
      OBVIOUS
    <3>5. PICK V : V = {v \in Server : CandidateUpToDate(r, log[v])}
      OBVIOUS
    <3>6. WinsElection(V) /\ V \in SUBSET Server
      BY <3>4, <3>5 DEF Electable
    <3>7. PICK Q \in SUBSET Server : WinsElection(Q) /\ \A v \in Q : n <= h.held[v][t]
      BY <3>2 DEF Committed
    <3>8. PICK v \in Server : v \in V /\ v \in Q
      BY <3>6, <3>7, WinnersMeet
    <3>9. CandidateUpToDate(r, log[v]) /\ n <= h.held[v][t] /\ log[v] \in Seq(Entry)
      BY <3>5, <3>7, <3>8, SoundTypes
    <3>10. UpTo(log[v], t, n)
      BY <2>1, <2>2, <3>2, <3>3, <3>9, VoterKnows
    <3>11. r.last_log_term = LastLogTerm(log[i]) /\ r.last_log_index = LastLogIndex(log[i])
      BY <3>4
    <3>12. UpTo(log[i], t, n)
      BY <2>2, <3>9, <3>10, <3>11, UpToDate
    <3>13. Has(log[i], t, n)
      BY <2>2, <3>2, <3>3, <3>12, UpToHas
    <3>14. n \in 1..Len(log[i]) /\ log[i][n].term = t
      <4>1. n \in 1..Len(h.log[t])
        BY <2>2, <3>2, OwnEntry
      <4> QED
        BY <2>2, <3>13, <4>1 DEF Has
    <3>15. Same(log[i], h.log[t], n)
      BY <2>2, <3>14 DEF Traced
    <3> QED
      BY <2>1, <2>2, <3>1, <3>15, AppliedWithin
  <2> QED
    BY <2>3, <2>4
<1>2. SpecPrompt => []Sound
  BY SoundInvariant
<1> QED
  BY <1>1, <1>2, PTL

------------------------------------------------------------------------------
(* One sequence for all.                                                    *)

\* Two nodes have applied the same entries, as far as both have come.
Agreed == \A i, j \in Server :
            Len(applied[i]) <= Len(applied[j]) => Prefix(applied[i], applied[j])

LEMMA BothWithin ==
  ASSUME NEW a \in Seq(Entry), NEW b \in Seq(Entry), NEW l \in Seq(Entry),
         Same(a, l, Len(a)), Same(b, l, Len(b)), Len(a) <= Len(b)
  PROVE  Prefix(a, b)
<1>1. Len(a) \in Nat /\ Len(b) \in Nat
  OBVIOUS
<1>2. ASSUME NEW n \in 1..Len(a) PROVE a[n] = b[n]
  <2>1. n \in 1..Len(b)
    BY <1>1
  <2> QED
    BY <2>1 DEF Same
<1> QED
  BY <1>2 DEF Prefix

LEMMA SoundAgreed == ASSUME OddCluster, Sound PROVE Agreed
<1> SUFFICES ASSUME NEW i \in Server, NEW j \in Server, Len(applied[i]) <= Len(applied[j])
             PROVE  Prefix(applied[i], applied[j])
  BY DEF Agreed
<1>1. PICK h \in History : LogInv(h) /\ CommitInv(h)
  BY DEF Sound
<1>2. TermLogs(h) /\ PassedOn(h)
  BY <1>1 DEF LogInv, CommitInv
<1>3. /\ applied[i] \in Seq(Entry) /\ applied[j] \in Seq(Entry)
      /\ Len(applied[i]) \in Nat /\ Len(applied[j]) \in Nat
  BY SoundTypes
<1>4. CASE applied[i] = <<>>
  BY <1>3, <1>4, NothingApplied
<1>5. CASE applied[i] # <<>>
  <2>1. applied[j] # <<>>
    <3>1. Len(applied[i]) # 0
      BY <1>3, <1>5, EmptySeq
    <3>2. Len(applied[j]) # 0
      BY <1>3, <3>1
    <3> QED
      BY <3>2
  <2>2. PICK t, n \in Nat : FromTerm(h, i, t, n)
    BY <1>1, <1>5, AppliedFrom
  <2>3. PICK u, m \in Nat : FromTerm(h, j, u, m)
    BY <1>1, <2>1, AppliedFrom
  <2>4. Committed(h, t, n) /\ Committed(h, u, m) /\ Elected(h, t) /\ Elected(h, u)
    BY <2>2, <2>3 DEF FromTerm, Committed
  <2>5. h.log[t] \in Seq(Entry) /\ h.log[u] \in Seq(Entry)
    BY RecordTypes
  <2>6. t <= t /\ u <= u /\ (t <= u \/ u <= t)
    OBVIOUS
  <2>7. Same(h.log[t], h.log[t], n) /\ Same(h.log[u], h.log[u], m)
    BY <1>2, <2>4, <2>6, CommittedIn
  <2>8. CASE t <= u
    <3>1. Same(h.log[u], h.log[t], n)
      BY <1>2, <2>4, <2>8, CommittedIn
    <3>2. Same(applied[i], h.log[u], Len(applied[i]))
      BY <1>1, <2>2, <2>5, <3>1, AppliedWithin
    <3>3. Same(applied[j], h.log[u], Len(applied[j]))
      BY <1>1, <2>3, <2>5, <2>7, AppliedWithin
    <3> QED
      BY <1>3, <2>5, <3>2, <3>3, BothWithin
  <2>9. CASE u <= t
    <3>1. Same(h.log[t], h.log[u], m)
      BY <1>2, <2>4, <2>9, CommittedIn
    <3>2. Same(applied[j], h.log[t], Len(applied[j]))
      BY <1>1, <2>3, <2>5, <3>1, AppliedWithin
    <3>3. Same(applied[i], h.log[t], Len(applied[i]))
      BY <1>1, <2>2, <2>5, <2>7, AppliedWithin
    <3> QED
      BY <1>3, <2>5, <3>2, <3>3, BothWithin
  <2> QED
    BY <2>6, <2>8, <2>9
<1> QED
  BY <1>4, <1>5

\* A step hands entries to one state machine at most.
OneGrows == \E i \in Server : \A j \in Server \ {i} : applied'[j] = applied[j]

LEMMA OneAtATime ==
  ASSUME TypeOK, NEW m \in Server, [Next]_vars
  PROVE  OneGrows
<1>1. CASE applied' = applied
  BY <1>1 DEF OneGrows
<1>2. ASSUME NEW i \in Server, NodeStep(i) PROVE OneGrows
  <2>1. applied' = applied
    BY <1>2 DEF NodeStep, Run, ElectionTimeout, HeartbeatTimeout, Propose, logVars
  <2> QED
    BY <1>1, <2>1
<1>3. ASSUME NEW f \in InFlight, ThreadStep(f) PROVE OneGrows
  <2>0. f \in Thread /\ applied \in [Server -> Seq(Entry)]
    BY DEF TypeOK
  <2>1. CASE AcceptEntries(f)
    <3>1. f.pc = "ae_request"
      BY <2>1 DEF AcceptEntries
    <3>2. f.to \in Server
      BY <2>0, <3>1, MessageTypes
    <3>3. PICK s : applied' = [applied EXCEPT ![f.to] = s]
      BY <2>1 DEF AcceptEntries
    <3>4. \A j \in Server \ {f.to} : applied'[j] = applied[j]
      BY <2>0, <3>3
    <3> QED
      BY <3>2, <3>4 DEF OneGrows
  <2>2. CASE Acknowledge(f)
    <3>1. f.pc = "ae_reply"
      BY <2>2 DEF Acknowledge
    <3>2. f.from \in Server
      BY <2>0, <3>1, MessageTypes
    <3>3. PICK s : applied' = [applied EXCEPT ![f.from] = s]
      BY <2>2 DEF Acknowledge
    <3>4. \A j \in Server \ {f.from} : applied'[j] = applied[j]
      BY <2>0, <3>3
    <3> QED
      BY <3>2, <3>4 DEF OneGrows
  <2>3. CASE \/ BecomeCandidate(f) \/ RequestVotes(f) \/ PrepareVote(f) \/ ReplyVote(f)
             \/ CountVote(f) \/ DropVote(f) \/ RpcFail(f)
    <3>1. applied' = applied
      BY <2>3 DEF BecomeCandidate, RequestVotes, PrepareVote, ReplyVote, CountVote, DropVote,
                  RpcFail, logVars
    <3> QED
      BY <1>1, <3>1
  <2>4. CASE \/ PrepareEntries(f) \/ RefuseEntries(f) \/ SkipReply(f) \/ StepDown(f)
             \/ IgnoreReply(f) \/ BackUp(f)
    <3>1. applied' = applied
      BY <2>4 DEF PrepareEntries, RefuseEntries, SkipReply, StepDown, IgnoreReply, BackUp, logVars
    <3> QED
      BY <1>1, <3>1
  <2> QED
    BY <1>3, <2>1, <2>2, <2>3, <2>4
    DEF ThreadStep, HandleVoteReply, AppendEntries, HandleAppendReply
<1>4. CASE UNCHANGED vars
  BY <1>1, <1>4 DEF vars, logVars
<1> QED
  BY <1>2, <1>3, <1>4 DEF Next

\* Nobody has applied more than node m.
Ahead(m) == m \in Server /\ \A j \in Server : Len(applied[j]) <= Len(applied[m])

LEMMA ForemostInit == OddCluster /\ Init => Foremost
<1> SUFFICES ASSUME OddCluster, Init PROVE Foremost
  OBVIOUS
<1>1. Server # {}
  <2> SUFFICES ASSUME Server = {} PROVE FALSE
    OBVIOUS
  <2>1. Cardinality(Server) = 0
    BY FS_EmptySet
  <2> QED
    BY <2>1 DEF OddCluster
<1>2. PICK i \in Server : TRUE
  BY <1>1
<1>3. \A j \in Server : applied[j] = <<>>
  BY DEF Init
<1>4. \A j \in Server : Len(applied[j]) <= Len(applied[i])
  BY <1>3
<1> QED
  BY <1>4 DEF Foremost

LEMMA ForemostStep ==
  ASSUME Sound, Sound', Foremost, CommitsGrow, OneGrows
  PROVE  Foremost'
<1>1. PICK m \in Server : \A j \in Server : Len(applied[j]) <= Len(applied[m])
  BY DEF Foremost
<1>2. PICK i \in Server : \A j \in Server \ {i} : applied'[j] = applied[j]
  BY DEF OneGrows
<1>3. \A j \in Server : Len(applied[j]) \in Nat /\ Len(applied'[j]) \in Nat
  <2>1. applied \in [Server -> Seq(Entry)] /\ applied' \in [Server -> Seq(Entry)]
    BY DEF Sound, TypeInv, TypeOK, Entry
  <2>2. \A j \in Server : applied[j] \in Seq(Entry) /\ applied'[j] \in Seq(Entry)
    BY <2>1
  <2> QED
    BY <2>2
<1>4. Len(applied[i]) <= Len(applied'[i])
  BY DEF CommitsGrow, Prefix
<1>5. \A j \in Server : j # i => Len(applied'[j]) = Len(applied[j])
  BY <1>2
<1>6. \/ \A j \in Server : Len(applied'[j]) <= Len(applied'[i])
      \/ \A j \in Server : Len(applied'[j]) <= Len(applied'[m])
  <2> DEFINE a(j) == Len(applied[j])
             b(j) == Len(applied'[j])
  <2>1. \A j \in Server : a(j) \in Nat /\ b(j) \in Nat /\ a(j) <= a(m) /\ (j # i => b(j) = a(j))
    BY <1>1, <1>3, <1>5
  <2>2. a(i) <= b(i)
    BY <1>4
  <2> HIDE DEF a, b
  <2>3. CASE b(i) <= b(m)
    <3>1. ASSUME NEW j \in Server PROVE b(j) <= b(m)
      <4>1. a(m) <= b(m)
        BY <2>1, <2>2
      <4> QED
        BY <2>1, <2>3, <4>1
    <3> QED
      BY <3>1 DEF b
  <2>4. CASE ~(b(i) <= b(m))
    <3>1. ASSUME NEW j \in Server PROVE b(j) <= b(i)
      <4>1. m # i /\ b(m) = a(m) /\ b(m) <= b(i)
        BY <2>1, <2>4
      <4> QED
        BY <2>1, <4>1
    <3> QED
      BY <3>1 DEF b
  <2> QED
    BY <2>3, <2>4
<1> QED
  BY <1>6 DEF Foremost

\* The sequence chosen is what some such node has applied.
Chooses == \E m : Ahead(m) /\ Chosen = applied[m]

LEMMA ChosenIs == Foremost => Chooses
<1> SUFFICES ASSUME Foremost PROVE Chooses
  OBVIOUS
<1>1. PICK m : m = CHOOSE i \in Server : \A j \in Server : Len(applied[j]) <= Len(applied[i])
  OBVIOUS
<1>2. m \in Server /\ \A j \in Server : Len(applied[j]) <= Len(applied[m])
  BY <1>1 DEF Foremost
<1> QED
  BY <1>1, <1>2 DEF Ahead, Chosen, Chooses

\* The inductive invariant of the refinement.
Coherent == Sound /\ Foremost

LEMMA CoherentStep ==
  ASSUME OddCluster, Coherent, [PromptNext]_vars
  PROVE  Coherent' /\ CommitsGrow /\ OneGrows
<1>1. Sound /\ Foremost /\ TypeOK
  BY DEF Coherent, Sound, TypeInv
<1>2. Sound' /\ CommitsGrow
  BY <1>1, SoundStep
<1>3. PICK m \in Server : TRUE
  BY <1>1 DEF Foremost
<1>4. [Next]_vars
  BY DEF PromptNext
<1>5. OneGrows
  BY <1>1, <1>3, <1>4, OneAtATime
<1>6. Foremost'
  BY <1>1, <1>2, <1>5, ForemostStep
<1> QED
  BY <1>2, <1>5, <1>6 DEF Coherent

LEMMA PrefixTrans ==
  ASSUME NEW E, NEW a \in Seq(E), NEW b \in Seq(E), NEW c \in Seq(E), Prefix(a, b), Prefix(b, c)
  PROVE  Prefix(a, c)
<1>1. Len(a) \in Nat /\ Len(b) \in Nat /\ Len(c) \in Nat /\ Len(a) <= Len(b) /\ Len(b) <= Len(c)
  BY DEF Prefix
<1>2. ASSUME NEW n \in 1..Len(a) PROVE n \in 1..Len(b) /\ a[n] = c[n]
  <2>1. n \in 1..Len(b)
    BY <1>1
  <2> QED
    BY <2>1 DEF Prefix
<1>3. Len(a) <= Len(c)
  BY <1>1
<1> QED
  BY <1>2, <1>3 DEF Prefix

\* A step that hands entries to one node is one of the abstract specification.
LEMMA Refines ==
  ASSUME Agreed, Agreed', Chooses, Chooses', CommitsGrow, OneGrows,
         applied \in [Server -> Seq(Entry)], applied' \in [Server -> Seq(Entry)]
  PROVE  RL!Next
<1>1. PICK m : Ahead(m) /\ Chosen = applied[m]
  BY DEF Chooses
<1>2. PICK w : Ahead(w)' /\ Chosen' = applied'[w]
  BY DEF Chooses
<1>3. PICK i \in Server : \A j \in Server \ {i} : applied'[j] = applied[j]
  BY DEF OneGrows
<1>4. /\ m \in Server /\ \A j \in Server : Len(applied[j]) <= Len(applied[m])
      /\ w \in Server /\ \A j \in Server : Len(applied'[j]) <= Len(applied'[w])
  BY <1>1, <1>2 DEF Ahead
<1>5. \A j \in Server : Prefix(applied[j], applied'[j]) /\ Prefix(applied'[j], applied'[w])
  BY <1>4 DEF CommitsGrow, Agreed
<1>6. \A j \in Server : applied[j] \in Seq(Entry) /\ applied'[j] \in Seq(Entry)
  OBVIOUS
<1>7. Prefix(applied[m], applied'[w])
  <2>1. Prefix(applied[m], applied'[m]) /\ Prefix(applied'[m], applied'[w])
    BY <1>4, <1>5
  <2> QED
    BY <1>4, <1>6, <2>1, PrefixTrans
<1>8. Len(applied'[w]) > Len(applied[m]) => w = i
  <2> SUFFICES ASSUME w # i PROVE ~(Len(applied'[w]) > Len(applied[m]))
    OBVIOUS
  <2>1. applied'[w] = applied[w] /\ Len(applied[w]) <= Len(applied[m])
    BY <1>3, <1>4
  <2>2. Len(applied[w]) \in Nat /\ Len(applied[m]) \in Nat
    BY <1>4, <1>6
  <2> QED
    BY <2>1, <2>2
<1>9. RL!Apply(i)
  <2>1. RL!IsPrefix(Chosen, Chosen')
    BY <1>1, <1>2, <1>7 DEF Prefix, RL!IsPrefix
  <2>2. RL!IsPrefix(applied[i], applied'[i]) /\ RL!IsPrefix(applied'[i], Chosen')
    BY <1>2, <1>5 DEF Prefix, RL!IsPrefix
  <2>3. Len(Chosen') > Len(Chosen) => Chosen' = applied'[i]
    BY <1>1, <1>2, <1>8
  <2> QED
    BY <1>3, <2>1, <2>2, <2>3 DEF RL!Apply
<1> QED
  BY <1>9 DEF RL!Next

\* The cluster implements the replicated log of ReplicatedLog: the state
\* machines behind the ready queues are all handed one sequence, entry by entry
\* in order and none twice (apply_entries, raft.cpp:626-667).
THEOREM ClusterIsReplicatedLog == OddCluster => (SpecPrompt => ImplementsReplicatedLog)
<1> SUFFICES ASSUME OddCluster PROVE SpecPrompt => ImplementsReplicatedLog
  OBVIOUS
<1>1. Init => Coherent /\ RL!Init
  <2> SUFFICES ASSUME Init PROVE Coherent /\ RL!Init
    OBVIOUS
  <2>1. Coherent
    BY TypeInit, VoteInit, LogInit, CommitInit, EmptyFacts, ForemostInit DEF Sound, Coherent
  <2>2. applied = [i \in Server |-> <<>>]
    BY DEF Init
  <2>3. PICK m : Ahead(m) /\ Chosen = applied[m]
    BY <2>1, ChosenIs DEF Coherent, Chooses
  <2>4. Chosen = <<>>
    BY <2>2, <2>3 DEF Ahead
  <2> QED
    BY <2>1, <2>2, <2>4 DEF RL!Init
<1>2. Coherent => Agreed /\ Chooses
  BY SoundAgreed, ChosenIs DEF Coherent
<1>3. Coherent' => Agreed' /\ Chooses'
  BY <1>2, PTL
<1>4. Coherent /\ [PromptNext]_vars => Coherent' /\ RL!Next
  <2> SUFFICES ASSUME Coherent, [PromptNext]_vars PROVE Coherent' /\ RL!Next
    OBVIOUS
  <2>1. Coherent' /\ CommitsGrow /\ OneGrows
    BY CoherentStep
  <2>2. Sound /\ Sound'
    BY <2>1 DEF Coherent
  <2>3. Agreed /\ Agreed' /\ Chooses /\ Chooses'
    BY <1>2, <1>3, <2>1
  <2>4. applied \in [Server -> Seq(Entry)] /\ applied' \in [Server -> Seq(Entry)]
    BY <2>2 DEF Sound, TypeInv, TypeOK, Entry
  <2>5. RL!Next
    BY <2>1, <2>3, <2>4, Refines
  <2> QED
    BY <2>1, <2>5
<1>5. Coherent /\ [PromptNext]_vars => Coherent' /\ [RL!Next]_<<Chosen, applied>>
  BY <1>4
<1> QED
  BY <1>1, <1>5, PTL DEF SpecPrompt, ImplementsReplicatedLog, RL!Spec
------------------------------------------------------------------------------
(* What the calls that wait on a node rest on (module NodeService).          *)

\* What AppliedMatchesLog says, with the types.
Anchored == \A i \in Server : /\ Len(applied[i]) = commitIndex[i]
                              /\ Prefix(applied[i], log[i])
                              /\ Len(log[i]) \in Nat /\ commitIndex[i] \in Nat

\* No merge of append_entries (raft.cpp:1030-1063) shortens or changes what a
\* node knows to be committed, and none leaves commitIndex past the log.
THEOREM CommittedStays == OddCluster => (SpecPrompt => CommittedKept)
<1> SUFFICES ASSUME OddCluster PROVE SpecPrompt => CommittedKept
  OBVIOUS
<1> DEFINE Stays(i) == /\ commitIndex'[i] <= Len(log'[i])
                       /\ \A n \in 1..commitIndex[i] :
                            n <= Len(log'[i]) /\ log'[i][n] = log[i][n]
<1>1. Sound => Anchored
  BY AppliedIs, SoundTypes DEF Sound, Anchored
<1>2. Sound' => Anchored'
  BY <1>1, PTL
<1>3. Sound /\ [PromptNext]_vars => [\A i \in Server : Stays(i)]_vars
  <2> SUFFICES ASSUME Sound, [PromptNext]_vars, NEW i \in Server PROVE Stays(i)
    OBVIOUS
  <2>1. Sound' /\ CommitsGrow
    BY SoundStep
  <2>2. Prefix(applied[i], applied'[i])
    BY <2>1 DEF CommitsGrow
  <2> QED
    BY <1>1, <1>2, <2>1, <2>2 DEF Prefix, Anchored
<1>4. SpecPrompt => []Sound
  BY SoundInvariant
<1> QED
  BY <1>3, <1>4, PTL DEF SpecPrompt, CommittedKept

\* A candidate or leader has given its own vote to itself, and asks others only.
AsksOthers == \A f \in InFlight : f.pc \in {"vote_call", "vote_request"} => f.to # f.from
OwnVote == \A i \in Server : currentRole[i] \in {"Candidate", "Leader"} => votedFor[i] = i
SelfVoted == OwnVote /\ AsksOthers

LEMMA AsksKept ==
  ASSUME AsksOthers, NEW S, InFlight' \subseteq InFlight \cup S,
         \A g \in S : g.pc \in {"vote_call", "vote_request"} => g.to # g.from
  PROVE  AsksOthers'
  BY DEF AsksOthers

LEMMA SelfNode ==
  ASSUME TypeOK, SelfVoted, NEW i \in Server, NodeStep(i)
  PROVE  SelfVoted'
<1> USE DEF SelfVoted
<1>0. IsABag(threads) /\ currentRole \in [Server -> Role]
  BY DEF TypeOK
<1>1. OwnVote'
  <2>1. UNCHANGED votedFor
    BY DEF NodeStep, Run, ElectionTimeout, HeartbeatTimeout, Propose, electVars
  <2>2. \A j \in Server : currentRole'[j] \in {currentRole[j], "Follower"}
    BY <1>0 DEF NodeStep, Run, ElectionTimeout, HeartbeatTimeout, Propose, electVars
  <2> QED
    BY <2>1, <2>2 DEF OwnVote
<1>2. CASE Run(i) \/ \E c \in Command : Propose(i, c)
  <2>1. InFlight' = InFlight
    BY <1>2 DEF Run, Propose, InFlight
  <2> QED
    BY <1>1, <2>1 DEF AsksOthers
<1>3. CASE ElectionTimeout(i)
  <2>1. PICK S : S = {[pc |-> "become_candidate", from |-> i]}
    OBVIOUS
  <2>2. InFlight' \subseteq InFlight \cup S
    BY <1>0, <1>3, <2>1, ForkInFlight DEF ElectionTimeout
  <2> QED
    BY <1>1, <2>1, <2>2, AsksKept
<1>4. CASE HeartbeatTimeout(i)
  <2>1. PICK S : S = {[pc |-> "ae_call", from |-> i, to |-> j] : j \in Peers(i)}
    OBVIOUS
  <2>2. InFlight' \subseteq InFlight \cup S
    BY <1>0, <1>4, <2>1, ForkInFlight DEF HeartbeatTimeout
  <2> QED
    BY <1>1, <2>1, <2>2, AsksKept
<1> QED
  BY <1>2, <1>3, <1>4 DEF NodeStep

\* No thread but a candidate's asks for votes.
LEMMA SelfThreads ==
  ASSUME TypeOK, AsksOthers, NEW f \in InFlight, ThreadStep(f)
  PROVE  AsksOthers'
<1>0. IsABag(threads)
  BY DEF TypeOK
<1>1. CASE RequestVotes(f)
  <2>1. PICK S : S = {[pc |-> "vote_call", from |-> f.from, to |-> j,
                       election_term |-> currentTerm[f.from]] : j \in Peers(f.from)}
    OBVIOUS
  <2>2. InFlight' \subseteq InFlight \cup S
    BY <1>0, <1>1, <2>1, ResumeFacts DEF RequestVotes
  <2> QED
    BY <2>1, <2>2, AsksKept DEF Peers
<1>2. CASE PrepareVote(f)
  <2>1. PICK g : g = [pc |-> "vote_request", from |-> f.from, to |-> f.to,
                     election_term |-> f.election_term,
                     req |-> [term |-> currentTerm[f.from],
                              last_log_term |-> LastLogTerm(log[f.from]),
                              last_log_index |-> LastLogIndex(log[f.from])]]
    OBVIOUS
  <2>2. InFlight' \subseteq InFlight \cup {g}
    BY <1>0, <1>2, <2>1, ResumeFacts DEF PrepareVote
  <2>3. g.to # g.from
    BY <1>2, <2>1 DEF AsksOthers, PrepareVote
  <2> QED
    BY <2>2, <2>3 DEF AsksOthers
<1>3. ASSUME NEW S, Resume(f, S), \A g \in S : g.pc \notin {"vote_call", "vote_request"}
      PROVE  AsksOthers'
  BY <1>0, <1>3, ResumeFacts, AsksKept
<1>4. CASE BecomeCandidate(f) \/ ReplyVote(f)
  BY <1>3, <1>4 DEF BecomeCandidate, ReplyVote
<1>5. CASE PrepareEntries(f) \/ AppendEntries(f)
  <2>1. CASE PrepareEntries(f)
    <3>1. PICK sent, req : Resume(f, {[pc |-> "ae_request", from |-> f.from, to |-> f.to,
                                       sent |-> sent, req |-> req]})
      BY <2>1, Zenon DEF PrepareEntries
    <3> QED
      BY <1>3, <3>1
  <2>2. CASE AppendEntries(f)
    <3>1. PICK reply : Resume(f, {[pc |-> "ae_reply", from |-> f.from, to |-> f.to,
                                   sent |-> f.sent, reply |-> reply]})
      BY <2>2, Zenon DEF AppendEntries, RefuseEntries, AcceptEntries
    <3> QED
      BY <1>3, <3>1
  <2> QED
    BY <1>5, <2>1, <2>2
<1>6. CASE HandleVoteReply(f) \/ HandleAppendReply(f) \/ RpcFail(f)
  <2>1. Resume(f, {})
    BY <1>6 DEF HandleVoteReply, CountVote, DropVote, HandleAppendReply, SkipReply,
                StepDown, IgnoreReply, BackUp, Acknowledge, RpcFail
  <2> QED
    BY <1>3, <2>1
<1> QED
  BY <1>1, <1>2, <1>4, <1>5, <1>6 DEF ThreadStep

LEMMA SelfRoles ==
  ASSUME TypeOK, OwnVote, NEW f \in InFlight, ThreadStep(f)
  PROVE  OwnVote'
<1>0. /\ f \in Thread /\ f.from \in Server
      /\ f.pc \notin {"become_candidate", "request_votes"} => f.to \in Server
      /\ currentRole \in [Server -> Role] /\ currentTerm \in [Server -> Nat]
      /\ votedFor \in [Server -> Server \cup {None}]
  BY ThreadFields DEF TypeOK
\* One node's role and vote change: it has its own vote, or is a follower.
<1>1. ASSUME NEW i \in Server, NEW r, NEW v,
             currentRole' = [currentRole EXCEPT ![i] = r],
             votedFor' = [votedFor EXCEPT ![i] = v],
             r \in {"Candidate", "Leader"} => v = i
      PROVE  OwnVote'
  BY <1>0, <1>1 DEF OwnVote
<1>2. CASE BecomeCandidate(f)
  BY <1>0, <1>1, <1>2 DEF BecomeCandidate
<1>3. CASE ReplyVote(f)
  <2> DEFINE i == f.to
             term == IF active[i] THEN NewerTerm(i, f.req.term) ELSE currentTerm[i]
             r == IF Grants(i, f) \/ term > currentTerm[i] THEN "Follower" ELSE currentRole[i]
             v == IF Grants(i, f) THEN f.from ELSE VoteAt(i, term)
  <2>1. /\ i \in Server /\ currentRole' = [currentRole EXCEPT ![i] = r]
        /\ votedFor' = [votedFor EXCEPT ![i] = v]
    BY <1>0, <1>3 DEF ReplyVote
  <2>2. r \in {"Candidate", "Leader"} => v = i
    BY <2>1 DEF OwnVote, VoteAt
  <2> QED
    BY <1>1, <2>1, <2>2
<1>4. CASE CountVote(f)
  <2>1. UNCHANGED votedFor
    BY <1>4 DEF CountVote
  <2>2. \A j \in Server : currentRole'[j] \in {"Candidate", "Leader"}
                             => currentRole[j] \in {"Candidate", "Leader"}
    BY <1>0, <1>4 DEF CountVote, VoteCounts, BecomeLeader
  <2> QED
    BY <2>1, <2>2 DEF OwnVote
<1>5. CASE DropVote(f)
  <2> DEFINE i == f.from
             term == IF f.reply.vote_granted THEN currentTerm[i] ELSE NewerTerm(i, f.reply.term)
             r == IF term > currentTerm[i] THEN "Follower" ELSE currentRole[i]
             v == VoteAt(i, term)
  <2>1. /\ i \in Server /\ currentRole' = [currentRole EXCEPT ![i] = r]
        /\ votedFor' = [votedFor EXCEPT ![i] = v]
    BY <1>0, <1>5 DEF DropVote
  <2>2. r \in {"Candidate", "Leader"} => v = i
    BY <2>1 DEF OwnVote, VoteAt
  <2> QED
    BY <1>1, <2>1, <2>2
<1>6. CASE AcceptEntries(f)
  BY <1>0, <1>1, <1>6 DEF AcceptEntries
<1>7. CASE StepDown(f)
  BY <1>0, <1>1, <1>7 DEF StepDown
<1>8. CASE UNCHANGED electVars
  BY <1>8 DEF electVars, OwnVote
<1> QED
  BY <1>2, <1>3, <1>4, <1>5, <1>6, <1>7, <1>8
  DEF ThreadStep, RequestVotes, PrepareVote, HandleVoteReply, PrepareEntries, AppendEntries,
      RefuseEntries, HandleAppendReply, SkipReply, IgnoreReply, BackUp, Acknowledge, RpcFail

LEMMA SelfStep == TypeOK /\ SelfVoted /\ [Next]_vars => SelfVoted'
<1> SUFFICES ASSUME TypeOK, SelfVoted, [Next]_vars PROVE SelfVoted'
  OBVIOUS
<1>1. CASE UNCHANGED vars
  BY <1>1 DEF vars, electVars, SelfVoted, OwnVote, AsksOthers, InFlight
<1> QED
  BY <1>1, SelfNode, SelfThreads, SelfRoles DEF SelfVoted, Next

LEMMA SelfInit == Init => SelfVoted
<1> SUFFICES ASSUME Init PROVE SelfVoted
  OBVIOUS
<1>1. InFlight = {}
  BY DEF Init, EmptyBag, SetToBag, InFlight, BagToSet
<1> QED
  BY <1>1 DEF Init, SelfVoted, OwnVote, AsksOthers

\* A leader that is deposed without a new term, by a vote or a request.
LEMMA Deposed ==
  ASSUME Sound, SelfVoted, Next, NEW i \in Server, Leading(i), ~Leading(i)', ~Run(i)
  PROVE  currentTerm'[i] > currentTerm[i]
<1>0. /\ currentRole \in [Server -> Role] /\ currentTerm \in [Server -> Nat]
      /\ \A f \in InFlight : f \in Thread
      /\ votedFor[i] = i /\ i # None
  BY ServerAssumption DEF Sound, TypeInv, TypeOK, SelfVoted, OwnVote, Leading
<1>1. currentRole'[i] # currentRole[i]
  BY DEF Leading
<1>2. ASSUME NEW j \in Server, NodeStep(j) PROVE FALSE
  <2>1. currentRole'[i] = currentRole[i]
    BY <1>0, <1>2 DEF NodeStep, Run, ElectionTimeout, HeartbeatTimeout, Propose, electVars
  <2> QED
    BY <1>1, <2>1
<1>3. ASSUME NEW f \in InFlight, ThreadStep(f)
      PROVE  currentTerm'[i] > currentTerm[i]
  <2>0. /\ f.from \in Server
        /\ f.pc \notin {"become_candidate", "request_votes"} => f.to \in Server
    BY <1>0, ThreadFields
  <2>1. CASE BecomeCandidate(f)
    BY <1>0, <1>1, <2>0, <2>1 DEF BecomeCandidate
  <2>2. CASE ReplyVote(f)
    <3>1. f.pc = "vote_request" /\ f.to \in Server /\ f.req.term \in Nat /\ f.to # f.from
      BY <1>0, <2>0, <2>2, ThreadFields DEF ReplyVote, VoteRequest, SelfVoted, AsksOthers
    <3>2. i = f.to
      BY <1>0, <1>1, <2>2, <3>1 DEF ReplyVote
    <3>3. Grants(i, f) => f.req.term > currentTerm[i] /\ active[i]
      BY <1>0, <3>1, <3>2 DEF Grants, FreeToVote
    <3> QED
      BY <1>0, <1>1, <2>2, <3>1, <3>2, <3>3 DEF ReplyVote, NewerTerm
  <2>3. CASE CountVote(f)
    BY <1>0, <2>0, <2>3 DEF CountVote, VoteCounts, BecomeLeader, Leading
  <2>4. CASE DropVote(f)
    BY <1>0, <1>1, <2>0, <2>4 DEF DropVote, NewerTerm
  <2>5. CASE AcceptEntries(f)
    <3>1. f.pc = "ae_request" /\ f.to \in Server /\ f.req.term \in Nat
      BY <1>0, <2>0, <2>5, ThreadFields DEF AcceptEntries, AppendRequest
    <3>2. i = f.to
      BY <1>0, <1>1, <2>5, <3>1 DEF AcceptEntries
    <3>3. PICK h \in History : LogInv(h)
      BY DEF Sound
    <3>4. h.leader[f.req.term] = f.from /\ f.to # f.from
      BY <3>1, <3>3 DEF LogInv, Messages, MessageOK, RequestOK
    <3>5. h.leader[currentTerm[i]] = i
      BY <3>3 DEF LogInv, LeadersLogs
    <3>6. f.req.term >= currentTerm[i] /\ currentTerm'[i] = NewerTerm(i, f.req.term)
      BY <1>0, <2>5, <3>2 DEF AcceptEntries
    <3>7. f.req.term # currentTerm[i] /\ currentTerm[i] \in Nat
      BY <1>0, <3>2, <3>4, <3>5
    <3> QED
      BY <3>1, <3>6, <3>7 DEF NewerTerm
  <2>6. CASE StepDown(f)
    BY <1>0, <1>1, <2>0, <2>6 DEF StepDown
  <2>7. CASE UNCHANGED electVars
    BY <1>1, <2>7 DEF electVars
  <2> QED
    BY <1>3, <2>1, <2>2, <2>3, <2>4, <2>5, <2>6, <2>7
    DEF ThreadStep, RequestVotes, PrepareVote, HandleVoteReply, PrepareEntries, AppendEntries,
        RefuseEntries, HandleAppendReply, SkipReply, IgnoreReply, BackUp, Acknowledge, RpcFail
<1> QED
  BY <1>2, <1>3 DEF Next

\* append_entries (raft.cpp:935-957) makes a leader a follower in any term, yet
\* only a later term, or a second run at the console, ever deposes one.
THEOREM LeadersOutlastTheirTerm == OddCluster => (SpecPrompt => DeposedByLaterTerm)
<1> SUFFICES ASSUME OddCluster PROVE SpecPrompt => DeposedByLaterTerm
  OBVIOUS
<1> DEFINE A == \A i \in Server :
       Leading(i) /\ ~Leading(i)' => currentTerm'[i] > currentTerm[i] \/ Run(i)
<1>1. Sound /\ SelfVoted /\ [PromptNext]_vars => SelfVoted' /\ [A]_vars
  <2>1. Sound /\ SelfVoted /\ [PromptNext]_vars => SelfVoted'
    BY SelfStep DEF Sound, TypeInv, PromptNext
  <2>2. Sound /\ SelfVoted /\ PromptNext => A
    BY Deposed DEF PromptNext
  <2> QED
    BY <2>1, <2>2
<1>2. SpecPrompt => []Sound
  BY SoundInvariant
<1> QED
  BY <1>1, <1>2, SelfInit, PTL DEF SpecPrompt, DeposedByLaterTerm
==============================================================================
