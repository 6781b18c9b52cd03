--------------------------- MODULE ReplicationProofs ---------------------------
(***************************************************************************)
(* Replication in an odd cluster of any size, under the schedules of          *)
(* SpecPrompt: logs match, what a leader notes of its peers is true and in    *)
(* bounds.  Each step is shown to extend the record of RaftHistory.           *)
(***************************************************************************)
EXTENDS RaftHistory

------------------------------------------------------------------------------
(* Beginnings of sequences.                                                 *)

LEMMA SameTrans ==
  ASSUME NEW E, NEW a \in Seq(E), NEW b \in Seq(E), NEW c \in Seq(E),
         NEW n \in Nat, NEW m \in Nat, n <= m, Same(a, b, n), Same(b, c, m)
  PROVE  Same(a, c, n)
<1>1. \A k \in 1..n : k \in 1..m
  OBVIOUS
<1>2. n <= Len(c)
  BY DEF Same
<1> QED
  BY <1>1, <1>2 DEF Same

LEMMA SameSym ==
  ASSUME NEW a, NEW b, NEW n, Same(a, b, n)
  PROVE  Same(b, a, n)
  BY DEF Same

LEMMA SameLess ==
  ASSUME NEW E, NEW a \in Seq(E), NEW b \in Seq(E), NEW n \in Nat, NEW m \in Nat,
         n <= m, Same(a, b, m)
  PROVE  Same(a, b, n)
  BY DEF Same

LEMMA SameSelf ==
  ASSUME NEW E, NEW a \in Seq(E), NEW n \in Nat, n <= Len(a)
  PROVE  Same(a, a, n)
  BY DEF Same

LEMMA SameNone ==
  ASSUME NEW E, NEW a \in Seq(E), NEW b \in Seq(E)
  PROVE  Same(a, b, 0)
  BY DEF Same

\* What an appended sequence keeps.
LEMMA AppendSame ==
  ASSUME NEW E, NEW s \in Seq(E), NEW e \in E
  PROVE  /\ Append(s, e) \in Seq(E) /\ Len(Append(s, e)) = Len(s) + 1
         /\ Append(s, e)[Len(s) + 1] = e
         /\ Same(s, Append(s, e), Len(s))
<1>1. /\ Append(s, e) \in Seq(E) /\ Len(Append(s, e)) = Len(s) + 1
      /\ \A k \in 1..Len(s) : Append(s, e)[k] = s[k]
      /\ Append(s, e)[Len(s) + 1] = e
  BY AppendProperties
<1> QED
  BY <1>1 DEF Same

------------------------------------------------------------------------------
(* The record.                                                              *)

HistoryFacts(h) == /\ h.leader \in [Nat -> Server \cup {None}]
                   /\ h.start \in [Nat -> Nat]
                   /\ h.log \in [Nat -> Seq(Entry)]
                   /\ h.held \in [Server -> [Nat -> Nat]]

LEMMA HistoryFields ==
  ASSUME NEW h \in History
  PROVE  HistoryFacts(h)
  BY DEF History, HistoryFacts

LEMMA HistoryOf ==
  ASSUME NEW a, NEW b, NEW c, NEW d,
         HistoryFacts([leader |-> a, start |-> b, log |-> c, held |-> d])
  PROVE  [leader |-> a, start |-> b, log |-> c, held |-> d] \in History
  BY DEF History, HistoryFacts

\* What is on record stays, and more may come.
Grows(h, k) ==
  /\ \A t \in Nat : Elected(h, t) =>
       /\ k.leader[t] = h.leader[t] /\ k.start[t] = h.start[t]
       /\ Same(h.log[t], k.log[t], Len(h.log[t]))
  /\ \A v \in Server : \A t \in Nat : h.held[v][t] <= k.held[v][t]

LEMMA GrowsSelf ==
  ASSUME NEW h \in History
  PROVE  Grows(h, h)
<1>1. HistoryFacts(h)
  BY HistoryFields
<1>2. ASSUME NEW t \in Nat
      PROVE  Same(h.log[t], h.log[t], Len(h.log[t]))
  <2>1. h.log[t] \in Seq(Entry)
    BY <1>1 DEF HistoryFacts
  <2>2. Len(h.log[t]) \in Nat
    BY <2>1
  <2> QED
    BY <2>2 DEF Same
<1>3. ASSUME NEW v \in Server, NEW t \in Nat
      PROVE  h.held[v][t] <= h.held[v][t]
  <2>1. h.held[v] \in [Nat -> Nat]
    BY <1>1 DEF HistoryFacts
  <2>2. h.held[v][t] \in Nat
    BY <2>1
  <2> QED
    BY <2>2
<1> QED
  BY <1>2, <1>3 DEF Grows

\* A beginning of a log on record is one of the log it has grown to.
LEMMA SameGrows ==
  ASSUME NEW h \in History, NEW k \in History, Grows(h, k), NEW l \in Seq(Entry),
         NEW t \in Nat, Elected(h, t), NEW n \in Nat, Same(l, h.log[t], n)
  PROVE  Same(l, k.log[t], n)
<1>1. h.log[t] \in Seq(Entry) /\ k.log[t] \in Seq(Entry)
  BY HistoryFields DEF HistoryFacts
<1>2. Same(h.log[t], k.log[t], Len(h.log[t])) /\ n <= Len(h.log[t])
  BY DEF Grows, Same
<1>3. Len(h.log[t]) \in Nat
  BY <1>1
<1> QED
  BY <1>1, <1>2, <1>3, SameTrans

LEMMA ElectedGrows ==
  ASSUME NEW h \in History, NEW k, Grows(h, k), NEW t \in Nat, Elected(h, t)
  PROVE  Elected(k, t)
  BY DEF Grows, Elected

LEMMA EntryTerm ==
  ASSUME NEW l \in Seq(Entry), NEW n \in 1..Len(l)
  PROVE  l[n].term \in Nat
<1>1. l[n] \in Entry
  BY ElementOfSeq
<1> QED
  BY <1>1 DEF Entry

LEMMA TracedGrows ==
  ASSUME NEW h \in History, NEW k \in History, Grows(h, k), NEW l \in Seq(Entry),
         Traced(h, l)
  PROVE  Traced(k, l)
<1> SUFFICES ASSUME NEW n \in 1..Len(l)
             PROVE  /\ Elected(k, l[n].term) /\ k.start[l[n].term] < n
                    /\ Same(l, k.log[l[n].term], n)
  BY DEF Traced
<1>1. l[n].term \in Nat /\ n \in Nat
  BY EntryTerm
<1>2. /\ Elected(h, l[n].term) /\ h.start[l[n].term] < n
      /\ Same(l, h.log[l[n].term], n)
  BY DEF Traced
<1>3. Elected(k, l[n].term) /\ k.start[l[n].term] = h.start[l[n].term]
  BY <1>1, <1>2, ElectedGrows DEF Grows
<1>4. Same(l, k.log[l[n].term], n)
  BY <1>1, <1>2, SameGrows
<1> QED
  BY <1>2, <1>3, <1>4

\* Two logs on the same record that agree on a term agree up to it.
LEMMA TracedAgree ==
  ASSUME NEW h, NEW l \in Seq(Entry), NEW m \in Seq(Entry),
         Traced(h, l), Traced(h, m),
         NEW n \in Nat, n > 0 => n <= Len(l) /\ n <= Len(m) /\ l[n].term = m[n].term
  PROVE  Same(l, m, n)
<1>1. CASE n = 0
  BY <1>1, SameNone
<1>2. CASE n > 0
  <2>1. n \in 1..Len(l) /\ n \in 1..Len(m)
    BY <1>2
  <2>2. Same(l, h.log[l[n].term], n) /\ Same(m, h.log[m[n].term], n)
    BY <2>1 DEF Traced
  <2> QED
    BY <1>2, <2>1, <2>2 DEF Same
<1> QED
  BY <1>1, <1>2

\* A beginning of a log on record is on record.
LEMMA TracedBeginning ==
  ASSUME NEW h \in History, NEW l \in Seq(Entry), NEW m \in Seq(Entry),
         Traced(h, m), Same(l, m, Len(l))
  PROVE  Traced(h, l)
<1> SUFFICES ASSUME NEW n \in 1..Len(l)
             PROVE  /\ Elected(h, l[n].term) /\ h.start[l[n].term] < n
                    /\ Same(l, h.log[l[n].term], n)
  BY DEF Traced
<1>1. n \in 1..Len(m) /\ n \in Nat /\ n <= Len(l) /\ Len(l) \in Nat /\ l[n] = m[n]
  BY DEF Same
<1>2. /\ Elected(h, m[n].term) /\ h.start[m[n].term] < n
      /\ Same(m, h.log[m[n].term], n)
  BY <1>1 DEF Traced
<1>3. m[n].term \in Nat
  BY <1>1, EntryTerm
<1>4. h.log[m[n].term] \in Seq(Entry)
  BY <1>3, HistoryFields DEF HistoryFacts
<1>5. Same(l, m, n)
  BY <1>1, SameLess
<1>6. Same(l, h.log[m[n].term], n)
  BY <1>1, <1>2, <1>4, <1>5, SameTrans
<1> QED
  BY <1>1, <1>2, <1>6

\* The types of what is on record.
LEMMA RecordTypes ==
  ASSUME NEW h \in History, NEW t \in Nat
  PROVE  /\ h.leader[t] \in Server \cup {None} /\ h.start[t] \in Nat
         /\ h.log[t] \in Seq(Entry) /\ Len(h.log[t]) \in Nat
         /\ Elected(h, t) => h.leader[t] \in Server
         /\ \A v \in Server : h.held[v][t] \in Nat
<1>1. HistoryFacts(h)
  BY HistoryFields
<1>2. h.log[t] \in Seq(Entry)
  BY <1>1 DEF HistoryFacts
<1>3. Len(h.log[t]) \in Nat
  BY <1>2
<1>4. ASSUME NEW v \in Server PROVE h.held[v][t] \in Nat
  <2>1. h.held[v] \in [Nat -> Nat]
    BY <1>1 DEF HistoryFacts
  <2> QED
    BY <2>1
<1> QED
  BY <1>1, <1>2, <1>3, <1>4 DEF HistoryFacts, Elected

------------------------------------------------------------------------------
(* What every step keeps of what is on record.                              *)

Step == /\ TypeInv /\ TypeInv' /\ VoteInv /\ VoteInv'
        /\ Stable /\ Moves /\ SendersPrompt

LEMMA StepFacts == TypeInv /\ VoteInv /\ [PromptNext]_vars => Step
<1> SUFFICES ASSUME TypeInv, VoteInv, [PromptNext]_vars PROVE Step
  OBVIOUS
<1>1. [Next]_vars
  BY DEF PromptNext
<1>2. SendersPrompt
  BY DEF PromptNext, SendersPrompt, vars, electVars
<1> QED
  BY <1>1, <1>2, TypeStep, VoteStep, StableStep DEF Step

\* The types of a node's state, now and next.
LEMMA NodeTypes ==
  ASSUME TypeOK, NEW v \in Server
  PROVE  /\ currentTerm[v] \in Nat /\ log[v] \in Seq(Entry) /\ Len(log[v]) \in Nat
         /\ commitIndex[v] \in Nat
         /\ \A j \in Server : nextIndex[v][j] \in Nat /\ matchIndex[v][j] \in Nat
<1>1. log[v] \in Seq(Entry)
  BY DEF TypeOK
<1>2. Len(log[v]) \in Nat
  BY <1>1
<1>3. ASSUME NEW j \in Server PROVE nextIndex[v][j] \in Nat /\ matchIndex[v][j] \in Nat
  <2>1. nextIndex[v] \in [Server -> Nat] /\ matchIndex[v] \in [Server -> Nat]
    BY DEF TypeOK
  <2> QED
    BY <2>1
<1> QED
  BY <1>1, <1>2, <1>3 DEF TypeOK

LEMMA StepTypes ==
  ASSUME Step, NEW v \in Server
  PROVE  /\ currentTerm[v] \in Nat /\ currentTerm'[v] \in Nat
         /\ currentTerm[v] <= currentTerm'[v]
         /\ log[v] \in Seq(Entry) /\ log'[v] \in Seq(Entry)
         /\ Len(log[v]) \in Nat /\ Len(log'[v]) \in Nat
<1>1. TypeOK /\ TypeOK' /\ Stable
  BY DEF Step, TypeInv
<1>2. log[v] \in Seq(Entry) /\ log'[v] \in Seq(Entry)
  BY <1>1 DEF TypeOK
<1>3. Len(log[v]) \in Nat /\ Len(log'[v]) \in Nat
  BY <1>2
<1>4. currentTerm[v] \in Nat /\ currentTerm'[v] \in Nat
  BY <1>1 DEF TypeOK
<1>5. currentTerm[v] <= currentTerm'[v]
  BY <1>1, <1>4 DEF Stable
<1> QED
  BY <1>2, <1>3, <1>4, <1>5

\* A settled term stays settled.
LEMMA LoyalStep ==
  ASSUME Step, NEW h \in History, NEW t \in Nat, Elected(h, t),
         NEW v \in Server, Loyal(h, t, v)
  PROVE  Loyal(h, t, v)'
<1>1. /\ currentTerm[v] \in Nat /\ currentTerm'[v] \in Nat
      /\ currentTerm[v] <= currentTerm'[v]
  BY StepTypes
<1>2. h.leader[t] \in Server /\ h.leader[t] # None
  BY RecordTypes DEF Elected
<1>3. currentTerm[v] >= t /\ (currentTerm[v] = t => votedFor[v] = h.leader[t])
  BY DEF Loyal
<1>4. currentTerm'[v] >= t
  BY <1>1, <1>3
<1>5. currentTerm'[v] = t => votedFor'[v] = h.leader[t]
  <2> SUFFICES ASSUME currentTerm'[v] = t PROVE votedFor'[v] = h.leader[t]
    OBVIOUS
  <2>1. currentTerm[v] = t
    BY <1>1, <1>3
  <2>2. votedFor[v] = h.leader[t]
    BY <1>3, <2>1
  <2> QED
    BY <1>2, <2>1, <2>2 DEF Step, Stable
<1>6. ASSUME NEW c \in Server, Given(v, c, t)' PROVE c = h.leader[t]
  <2>1. CASE Given(v, c, t)
    BY <2>1 DEF Loyal
  <2>2. CASE currentTerm'[v] = t
    BY <1>5, <1>6, <2>2 DEF Step, VoteInv, Backed
  <2> QED
    BY <1>6, <2>1, <2>2 DEF Step, Moves, GivenNow
<1> QED
  BY <1>4, <1>5, <1>6 DEF Loyal

SettledAt(h, t) ==
  /\ currentTerm[h.leader[t]] >= t
  /\ currentTerm[h.leader[t]] = t => currentRole[h.leader[t]] # "Candidate"
  /\ \E Q \in SUBSET Server : WinsElection(Q) /\ \A v \in Q : Loyal(h, t, v)

LEMMA SettledStep ==
  ASSUME Step, NEW h \in History, NEW t \in Nat, Elected(h, t), SettledAt(h, t)
  PROVE  SettledAt(h, t)'
<1> DEFINE i == h.leader[t]
<1>1. i \in Server
  BY RecordTypes
<1>2. /\ currentTerm[i] \in Nat /\ currentTerm'[i] \in Nat
      /\ currentTerm[i] <= currentTerm'[i] /\ currentTerm[i] >= t
  BY <1>1, StepTypes DEF SettledAt
<1>3. currentTerm'[i] = t => currentRole'[i] # "Candidate"
  <2> SUFFICES ASSUME currentTerm'[i] = t, currentRole'[i] = "Candidate" PROVE FALSE
    OBVIOUS
  <2>1. currentTerm[i] = t /\ ~(currentTerm'[i] > currentTerm[i])
    BY <1>2
  <2>2. currentRole[i] # "Candidate"
    BY <2>1 DEF SettledAt
  <2> QED
    BY <1>1, <2>1, <2>2 DEF Step, Moves, CandidatesNew
<1>4. PICK Q \in SUBSET Server : WinsElection(Q) /\ \A v \in Q : Loyal(h, t, v)
  BY DEF SettledAt
<1>5. \A v \in Q : Loyal(h, t, v)'
  <2> SUFFICES ASSUME NEW v \in Q PROVE Loyal(h, t, v)'
    OBVIOUS
  <2>1. v \in Server /\ Loyal(h, t, v)
    BY <1>4
  <2> QED
    BY <2>1, LoyalStep
<1>6. \E R \in SUBSET Server : WinsElection(R) /\ \A v \in R : Loyal(h, t, v)'
  BY <1>4, <1>5
<1>7. currentTerm'[i] >= t
  BY <1>2
<1> QED
  BY <1>3, <1>6, <1>7 DEF SettledAt, WinsElection

\* It stays settled on a record that has grown.
LEMMA SettledGrows ==
  ASSUME NEW h \in History, NEW k \in History, Grows(h, k), NEW t \in Nat,
         Elected(h, t), SettledAt(h, t)'
  PROVE  SettledAt(k, t)'
  BY DEF Grows, SettledAt, Loyal

LEMMA SettledIs ==
  ASSUME NEW h
  PROVE  Settled(h) <=> \A t \in Nat : Elected(h, t) => SettledAt(h, t)
  BY DEF Settled, SettledAt

------------------------------------------------------------------------------
(* The messages.                                                            *)

\* The fields of a request, a reply and what the sender remembers.
LEMMA MessageTypes ==
  ASSUME NEW f \in Thread
  PROVE  /\ f.pc = "ae_request" => f.from \in Server /\ f.to \in Server
              /\ f.req.term \in Nat
              /\ f.req.prev_log_index \in Nat /\ f.req.prev_log_term \in Nat
              /\ f.req.entries \in Seq(Entry) /\ Len(f.req.entries) \in Nat
              /\ f.req.leader_commit \in Nat /\ Last(f) \in Nat
         /\ f.pc = "ae_reply" => f.from \in Server /\ f.to \in Server
              /\ f.reply.term \in Nat /\ f.reply.conflict_info \in Conflict
         /\ f.pc \in {"ae_request", "ae_reply"} =>
              /\ f.sent.term \in Nat /\ f.sent.next \in Nat \ {0}
              /\ f.sent.match \in Nat /\ f.sent.logSize \in Nat
              /\ f.sent.entries \in Nat /\ Acked(f) \in Nat
<1>1. f.pc = "ae_request" => f.from \in Server /\ f.to \in Server
              /\ f.req \in AppendRequest
  BY ThreadFields
<1>2. f.pc = "ae_reply" => f.from \in Server /\ f.to \in Server
              /\ f.reply \in AppendReply
  BY ThreadFields
<1>3. f.pc \in {"ae_request", "ae_reply"} => f.sent \in Sent
  BY ThreadFields
<1>4. f.pc = "ae_request" => /\ f.req.term \in Nat
              /\ f.req.prev_log_index \in Nat /\ f.req.prev_log_term \in Nat
              /\ f.req.entries \in Seq(Entry) /\ f.req.leader_commit \in Nat
  BY <1>1 DEF AppendRequest
<1>5. f.pc = "ae_request" => Len(f.req.entries) \in Nat
  BY <1>4
<1>6. f.pc = "ae_request" => Last(f) \in Nat
  BY <1>4, <1>5 DEF Last
<1>7. f.pc \in {"ae_request", "ae_reply"} =>
              /\ f.sent.term \in Nat /\ f.sent.next \in Nat \ {0}
              /\ f.sent.match \in Nat /\ f.sent.logSize \in Nat
              /\ f.sent.entries \in Nat
  BY <1>3 DEF Sent
<1>8. f.pc \in {"ae_request", "ae_reply"} => Acked(f) \in Nat
  BY <1>7 DEF Acked
<1> QED
  BY <1>1, <1>2, <1>4, <1>5, <1>6, <1>7, <1>8 DEF AppendReply

LEMMA RequestGrows ==
  ASSUME NEW h \in History, NEW k \in History, Grows(h, k), NEW f \in Thread,
         f.pc = "ae_request", RequestOK(h, f)
  PROVE  RequestOK(k, f)
<1> DEFINE t == f.req.term
           p == f.req.prev_log_index
<1>1. /\ t \in Nat /\ p \in Nat /\ Len(f.req.entries) \in Nat /\ f.to \in Server
      /\ f.sent.match \in Nat /\ Last(f) = p + Len(f.req.entries)
  BY MessageTypes DEF Last
<1>2. /\ h.log[t] \in Seq(Entry) /\ k.log[t] \in Seq(Entry) /\ Len(h.log[t]) \in Nat
      /\ Len(k.log[t]) \in Nat /\ h.held[f.to][t] \in Nat /\ k.held[f.to][t] \in Nat
  BY <1>1, RecordTypes
<1>3. /\ Elected(h, t) /\ Last(f) <= Len(h.log[t]) /\ f.sent.match <= h.held[f.to][t]
      /\ h.start[t] <= Last(f)
      /\ \A n \in 1..Len(f.req.entries) : f.req.entries[n] = h.log[t][p + n]
      /\ p > 0 => f.req.prev_log_term = h.log[t][p].term
  BY DEF RequestOK
<1>a. /\ p \in Nat /\ Len(f.req.entries) \in Nat /\ Len(h.log[t]) \in Nat
      /\ p + Len(f.req.entries) <= Len(h.log[t])
  BY <1>1, <1>2, <1>3
<1>4. /\ k.leader[t] = h.leader[t] /\ k.start[t] = h.start[t]
      /\ Len(h.log[t]) <= Len(k.log[t])
      /\ \A n \in 1..Len(h.log[t]) : h.log[t][n] = k.log[t][n]
      /\ h.held[f.to][t] <= k.held[f.to][t]
  BY <1>1, <1>3 DEF Grows, Same
<1>5. \A n \in 1..Len(f.req.entries) : f.req.entries[n] = k.log[t][p + n]
  <2> SUFFICES ASSUME NEW n \in 1..Len(f.req.entries)
               PROVE  f.req.entries[n] = k.log[t][p + n]
    OBVIOUS
  <2>1. p + n \in 1..Len(h.log[t])
    <3> HIDE DEF p, t
    <3> QED
      BY <1>a
  <2> QED
    BY <1>3, <1>4, <2>1
<1>6. p > 0 => f.req.prev_log_term = k.log[t][p].term
  <2> SUFFICES ASSUME p > 0 PROVE f.req.prev_log_term = k.log[t][p].term
    OBVIOUS
  <2>1. p \in 1..Len(h.log[t])
    BY <1>a
  <2> QED
    BY <1>3, <1>4, <2>1
<1>7. f.sent.match <= k.held[f.to][t] /\ Last(f) <= Len(k.log[t])
  <2>1. f.sent.match <= h.held[f.to][t] /\ h.held[f.to][t] <= k.held[f.to][t]
    BY <1>3, <1>4
  <2>2. p + Len(f.req.entries) <= Len(h.log[t]) /\ Len(h.log[t]) <= Len(k.log[t])
    BY <1>4, <1>a
  <2>3. f.sent.match <= k.held[f.to][t]
    BY <1>1, <1>2, <2>1
  <2>4. p + Len(f.req.entries) <= Len(k.log[t])
    <3>1. Len(k.log[t]) \in Nat
      BY <1>2
    <3> HIDE DEF p, t
    <3> QED
      BY <1>a, <2>2, <3>1
  <2> QED
    BY <1>1, <2>3, <2>4
<1>8. Elected(k, t) /\ k.leader[t] = f.from
  BY <1>3, <1>4 DEF Elected, RequestOK
<1> QED
  BY <1>3, <1>4, <1>5, <1>6, <1>7, <1>8 DEF RequestOK

LEMMA ReplyGrows ==
  ASSUME NEW h \in History, NEW k \in History, Grows(h, k), NEW f \in Thread,
         f.pc = "ae_reply", ReplyOK(h, f)
  PROVE  ReplyOK(k, f)
<1> DEFINE t == f.sent.term
<1>1. t \in Nat /\ f.to \in Server /\ Acked(f) \in Nat
  BY MessageTypes
<1>2. /\ Len(h.log[t]) \in Nat /\ Len(k.log[t]) \in Nat
      /\ h.held[f.to][t] \in Nat /\ k.held[f.to][t] \in Nat
  BY <1>1, RecordTypes
<1>3. /\ Elected(h, t) /\ Acked(f) <= Len(h.log[t])
      /\ f.reply.success => Acked(f) <= h.held[f.to][t]
  BY DEF ReplyOK
<1>4. /\ k.leader[t] = h.leader[t] /\ Len(h.log[t]) <= Len(k.log[t])
      /\ h.held[f.to][t] <= k.held[f.to][t]
  BY <1>1, <1>3 DEF Grows, Same
<1>5. Acked(f) <= Len(k.log[t]) /\ (f.reply.success => Acked(f) <= k.held[f.to][t])
  BY <1>1, <1>2, <1>3, <1>4
<1> QED
  BY <1>4, <1>5 DEF ReplyOK, Elected

\* The messages of a step: those that were there, and the new ones.
AllOK(h, S) == \A g \in S : MessageOK(h, g)

LEMMA MessagesStep ==
  ASSUME Step, NEW h \in History, NEW k \in History, Grows(h, k), Messages(h),
         NEW S, InFlight' \subseteq InFlight \cup S, AllOK(k, S)'
  PROVE  Messages(k)'
<1> SUFFICES ASSUME NEW f \in InFlight' PROVE MessageOK(k, f)'
  BY DEF Messages
<1>1. CASE f \in S
  BY <1>1 DEF AllOK
<1>2. CASE f \in InFlight
  <2>1. f \in Thread /\ MessageOK(h, f)
    BY <1>2 DEF Step, TypeInv, TypeOK, Messages
  <2>2. f.pc = "ae_call" => CallOK(f)'
    BY <1>2, <2>1 DEF MessageOK, CallOK, Step, SendersPrompt, At, Leading, Peers
  <2>3. f.pc = "ae_request" => RequestOK(k, f)
    BY <2>1, RequestGrows DEF MessageOK
  <2>4. f.pc = "ae_reply" => ReplyOK(k, f)
    BY <2>1, ReplyGrows DEF MessageOK
  <2> QED
    BY <2>2, <2>3, <2>4 DEF MessageOK, RequestOK, ReplyOK, Elected, Last, Acked
<1> QED
  BY <1>1, <1>2

------------------------------------------------------------------------------
(* Steps that add nothing to the record.                                    *)

\* A log that is unchanged is still on record, and its terms are old.
LEMMA TracedStep ==
  ASSUME Step, NEW h \in History, NEW k \in History, Grows(h, k), LogsTraced(h),
         NEW v \in Server, log'[v] = log[v]
  PROVE  /\ Traced(k, log'[v])
         /\ \A n \in 1..Len(log'[v]) : log'[v][n].term <= currentTerm'[v]
<1>1. /\ currentTerm[v] \in Nat /\ currentTerm'[v] \in Nat
      /\ currentTerm[v] <= currentTerm'[v] /\ log[v] \in Seq(Entry)
  BY StepTypes
<1>2. Traced(k, log[v])
  BY <1>1, TracedGrows DEF LogsTraced
<1>3. ASSUME NEW n \in 1..Len(log[v]) PROVE log[v][n].term <= currentTerm'[v]
  <2>1. log[v][n].term \in Nat
    BY <1>1, EntryTerm
  <2>2. log[v][n].term <= currentTerm[v]
    BY DEF LogsTraced
  <2> QED
    BY <1>1, <2>1, <2>2
<1> QED
  BY <1>2, <1>3

\* What a node has had, when its log stays.
LEMMA HeldStep ==
  ASSUME Step, NEW h \in History, Holdings(h), NEW v \in Server, NEW t \in Nat,
         log'[v] = log[v]
  PROVE  HeldOK(h, v, t)'
<1>1. /\ currentTerm[v] \in Nat /\ currentTerm'[v] \in Nat
      /\ currentTerm[v] <= currentTerm'[v] /\ log[v] \in Seq(Entry)
  BY StepTypes
<1>2. HeldOK(h, v, t)
  BY DEF Holdings
<1>3. currentTerm'[v] < t => currentTerm[v] < t
  BY <1>1
<1>4. currentTerm'[v] = t => Same(log[v], h.log[t], h.held[v][t])
  <2> SUFFICES ASSUME currentTerm'[v] = t PROVE Same(log[v], h.log[t], h.held[v][t])
    OBVIOUS
  <2>1. CASE currentTerm[v] = t
    BY <1>2, <2>1 DEF HeldOK
  <2>2. CASE currentTerm[v] < t
    <3>1. h.held[v][t] = 0
      BY <1>2, <2>2 DEF HeldOK
    <3>2. h.log[t] \in Seq(Entry)
      BY RecordTypes
    <3> QED
      BY <1>1, <3>1, <3>2, SameNone
  <2> QED
    BY <1>1, <2>1, <2>2
<1> QED
  BY <1>2, <1>3, <1>4 DEF HeldOK, Elected, Same

LEMMA NotesKept ==
  ASSUME NEW h, Notes(h), LeadersStay, UNCHANGED <<log, nextIndex, matchIndex>>
  PROVE  Notes(h)'
  BY DEF Notes, LeadersStay, Leading, Peers

LEMMA QuietLogs ==
  ASSUME Step, NEW h \in History, LogInv(h), UNCHANGED log, LeadersStay,
         NEW S, InFlight' \subseteq InFlight \cup S, AllOK(h, S)',
         Notes(h)'
  PROVE  LogInv(h)'
<1>1. Grows(h, h)
  BY GrowsSelf
<1>2. LogsTraced(h)'
  BY <1>1, TracedStep DEF LogInv, LogsTraced, Traced, Elected, Same
<1>3. TermLogs(h)'
  BY DEF LogInv, TermLogs, Traced, Elected, Same
<1>4. LeadersLogs(h)'
  BY DEF LogInv, LeadersLogs, LeadersStay
<1>5. Settled(h)'
  <2>1. ASSUME NEW t \in Nat, Elected(h, t) PROVE SettledAt(h, t)'
    BY <2>1, SettledIs, SettledStep DEF LogInv
  <2> QED
    BY <2>1 DEF Settled, SettledAt, Elected
<1>6. Holdings(h)'
  BY HeldStep DEF LogInv, Holdings
<1>7. Messages(h)'
  BY <1>1, MessagesStep DEF LogInv
<1> QED
  BY <1>2, <1>3, <1>4, <1>5, <1>6, <1>7 DEF LogInv

Unrelated(S) == \A g \in S : g.pc \notin {"ae_call", "ae_request", "ae_reply"}

\* A step that sends nothing of replication, and leaves logs and notes alone.
LEMMA QuietThreads ==
  ASSUME Step, NEW h \in History, LogInv(h), LeadersStay,
         UNCHANGED <<log, nextIndex, matchIndex>>,
         NEW S, InFlight' \subseteq InFlight \cup S,
         Unrelated(S)
  PROVE  LogInv(h)'
<1>1. AllOK(h, S)'
  BY DEF AllOK, Unrelated, MessageOK
<1>2. Notes(h)'
  BY NotesKept DEF LogInv
<1> QED
  BY <1>1, <1>2, QuietLogs

LEMMA LogsNode ==
  ASSUME Step, NEW h \in History, LogInv(h), NEW i \in Server,
         Run(i) \/ ElectionTimeout(i) \/ HeartbeatTimeout(i)
  PROVE  LogInv(h)'
<1>0. TypeOK /\ IsABag(threads)
  BY DEF Step, TypeInv, TypeOK
<1>1. LeadersStay
  BY VoteNode DEF NodeStep, Step, TypeInv
<1>2. UNCHANGED <<log, nextIndex, matchIndex>>
  BY DEF Run, ElectionTimeout, HeartbeatTimeout, logVars, leadVars
<1>3. CASE Run(i)
  <2>1. InFlight' \subseteq InFlight \cup {}
    BY <1>3 DEF Run, InFlight
  <2>e. Unrelated({})
    BY DEF Unrelated
  <2> QED
    BY <1>1, <1>2, <2>1, <2>e, QuietThreads
<1>4. CASE ElectionTimeout(i)
  <2> DEFINE S == {[pc |-> "become_candidate", from |-> i]}
  <2>1. InFlight' \subseteq InFlight \cup S
    BY <1>0, <1>4, ForkInFlight DEF ElectionTimeout
  <2>2. Unrelated(S)
    BY DEF Unrelated
  <2> HIDE DEF S
  <2> QED
    BY <1>1, <1>2, <2>1, <2>2, QuietThreads
<1>5. CASE HeartbeatTimeout(i)
  <2> DEFINE S == {[pc |-> "ae_call", from |-> i, to |-> j] : j \in Peers(i)}
  <2>1. InFlight' \subseteq InFlight \cup S
    BY <1>0, <1>5, ForkInFlight DEF HeartbeatTimeout
  <2>2. Leading(i)'
    BY <1>5 DEF HeartbeatTimeout, electVars, Leading
  <2>3. \A g \in S : g.pc = "ae_call" /\ g.from = i /\ g.to \in Peers(i)
    OBVIOUS
  <2> HIDE DEF S
  <2>4. AllOK(h, S)'
    BY <2>2, <2>3 DEF AllOK, MessageOK, CallOK, Leading, Peers
  <2>5. Notes(h)'
    BY <1>1, <1>2, NotesKept DEF LogInv
  <2> QED
    BY <1>1, <1>2, <2>1, <2>4, <2>5, QuietLogs
<1> QED
  BY <1>3, <1>4, <1>5

\* The threads of an election, and those whose reply changes nothing.
LEMMA LogsElection ==
  ASSUME Step, NEW h \in History, LogInv(h), NEW f \in InFlight,
         \/ BecomeCandidate(f) \/ RequestVotes(f) \/ PrepareVote(f)
         \/ ReplyVote(f) \/ DropVote(f) \/ RpcFail(f)
         \/ SkipReply(f) \/ StepDown(f) \/ IgnoreReply(f)
  PROVE  LogInv(h)'
<1>0. IsABag(threads) /\ TypeOK'
  BY DEF Step, TypeInv, TypeOK
<1>1. LeadersStay
  BY VoteCandidate, VoteReplied, VoteOther DEF Step, TypeInv, HandleAppendReply
<1>2. UNCHANGED <<log, nextIndex, matchIndex>>
  BY DEF BecomeCandidate, RequestVotes, PrepareVote, ReplyVote, DropVote, RpcFail,
         SkipReply, StepDown, IgnoreReply, logVars, leadVars
<1>3. CASE DropVote(f) \/ RpcFail(f) \/ SkipReply(f) \/ StepDown(f) \/ IgnoreReply(f)
  <2>1. Resume(f, {})
    BY <1>3 DEF DropVote, RpcFail, SkipReply, StepDown, IgnoreReply
  <2>2. InFlight' \subseteq InFlight \cup {}
    BY <1>0, <2>1, ResumeFacts
  <2>e. Unrelated({})
    BY DEF Unrelated
  <2> QED
    BY <1>1, <1>2, <2>2, <2>e, QuietThreads
<1>4. CASE BecomeCandidate(f)
  <2> DEFINE S == {[pc |-> "request_votes", from |-> f.from]}
  <2>1. InFlight' \subseteq InFlight \cup S
    BY <1>0, <1>4, ResumeFacts DEF BecomeCandidate
  <2>2. Unrelated(S)
    BY DEF Unrelated
  <2> HIDE DEF S
  <2> QED
    BY <1>1, <1>2, <2>1, <2>2, QuietThreads
<1>5. CASE RequestVotes(f)
  <2> DEFINE S == {[pc |-> "vote_call", from |-> f.from, to |-> j,
                    election_term |-> currentTerm[f.from]] : j \in Peers(f.from)}
  <2>1. PICK T : T = S
    OBVIOUS
  <2>2. InFlight' \subseteq InFlight \cup T
    BY <1>0, <1>5, <2>1, ResumeFacts DEF RequestVotes
  <2>3. Unrelated(T)
    BY <2>1 DEF Unrelated
  <2> HIDE DEF S
  <2> QED
    BY <1>1, <1>2, <2>2, <2>3, QuietThreads
<1>6. CASE PrepareVote(f) \/ ReplyVote(f)
  <2>1. PICK g : Resume(f, {g}) /\ g.pc \in {"vote_request", "vote_reply"}
    <3>1. CASE PrepareVote(f)
      <4>1. PICK r : Resume(f, {[pc |-> "vote_request", from |-> f.from,
               to |-> f.to, election_term |-> f.election_term, req |-> r]})
        BY <3>1, Zenon DEF PrepareVote
      <4>2. [pc |-> "vote_request", from |-> f.from, to |-> f.to,
             election_term |-> f.election_term, req |-> r].pc = "vote_request"
        OBVIOUS
      <4> QED
        BY <4>1, <4>2, Zenon
    <3>2. CASE ReplyVote(f)
      <4>1. PICK r : Resume(f, {[pc |-> "vote_reply", from |-> f.from,
               to |-> f.to, election_term |-> f.election_term, reply |-> r]})
        BY <3>2, Zenon DEF ReplyVote
      <4>2. [pc |-> "vote_reply", from |-> f.from, to |-> f.to,
             election_term |-> f.election_term, reply |-> r].pc = "vote_reply"
        OBVIOUS
      <4> QED
        BY <4>1, <4>2, Zenon
    <3> QED
      BY <1>6, <3>1, <3>2
  <2>2. InFlight' \subseteq InFlight \cup {g}
    BY <1>0, <2>1, ResumeFacts
  <2>3. Unrelated({g})
    BY <2>1 DEF Unrelated
  <2> QED
    BY <1>1, <1>2, <2>2, <2>3, QuietThreads
<1> QED
  BY <1>3, <1>4, <1>5, <1>6

\* send_entries builds a request from the leader's own log: it is the leader
\* still, and nextIndex is in bounds.
LEMMA LogsPrepare ==
  ASSUME Step, NEW h \in History, LogInv(h), NEW f \in InFlight, PrepareEntries(f)
  PROVE  LogInv(h)'
<1> DEFINE i == f.from
           j == f.to
           t == currentTerm[i]
           next == nextIndex[i][j]
           l == log[i]
           new == SubSeq(l, next, Len(l))
<1>0. IsABag(threads) /\ TypeOK' /\ TypeOK /\ f \in Thread
  BY DEF Step, TypeInv, TypeOK
<1>1. LeadersStay
  BY <1>0, VoteOther DEF Step, TypeInv
<1>2. UNCHANGED <<log, nextIndex, matchIndex>> /\ f.pc = "ae_call"
  BY DEF PrepareEntries, logVars, leadVars
<1>3. i \in Server /\ j \in Peers(i) /\ j \in Server /\ j # i /\ Leading(i)
  BY <1>0, <1>2, ThreadFields DEF LogInv, Messages, MessageOK, CallOK, Peers
<1>4. /\ t \in Nat /\ l \in Seq(Entry) /\ Len(l) \in Nat
      /\ next \in Nat /\ matchIndex[i][j] \in Nat
  BY <1>0, <1>3, NodeTypes
<1>5. h.leader[t] = i /\ l = h.log[t] /\ Elected(h, t)
  BY <1>3, ServerAssumption DEF LogInv, LeadersLogs, Elected
<1>6. /\ matchIndex[i][j] <= h.held[j][t]
      /\ matchIndex[i][j] < next /\ next <= Len(l) + 1
      /\ matchIndex[i][j] = 0 \/ next = matchIndex[i][j] + 1
  BY <1>3 DEF LogInv, Notes
<1>7. h.start[t] \in Nat /\ h.start[t] <= Len(l)
  BY <1>4, <1>5, RecordTypes DEF LogInv, TermLogs
<1>8. next >= 1 /\ next \in 1..(Len(l) + 1)
  BY <1>4, <1>6
<1>9. /\ new \in Seq(Entry) /\ Len(new) = Len(l) - next + 1
      /\ \A n \in 1..Len(new) : new[n] = l[next + n - 1]
  <2> HIDE DEF next, l
  <2>1. next \in Int /\ Len(l) \in Int /\ \A n \in next..Len(l) : l[n] \in Entry
    <3>1. \A n \in next..Len(l) : n \in 1..Len(l)
      BY <1>4, <1>8
    <3> QED
      BY <1>4, <3>1, ElementOfSeq
  <2>2. /\ new \in Seq(Entry)
        /\ Len(new) = IF next <= Len(l) THEN Len(l) - next + 1 ELSE 0
        /\ \A n \in 1..(Len(l) - next + 1) : new[n] = l[next + n - 1]
    BY <2>1, SubSeqProperties
  <2>3. Len(new) = Len(l) - next + 1
    <3> HIDE DEF new
    <3> QED
      BY <1>4, <1>8, <2>2
  <2> QED
    BY <2>2, <2>3
<1> DEFINE prev == IF next > 1 THEN next - 1 ELSE 0
<1>10. prev = next - 1 /\ prev \in Nat /\ prev + Len(new) = Len(l)
       /\ (prev > 0 => prev \in 1..Len(l))
  <2>1. Len(new) = Len(l) - next + 1
    BY <1>9
  <2> HIDE DEF next, l, new
  <2> QED
    BY <1>4, <1>8, <2>1
<1>11. PICK stale \in 0..MaxTerm :
         Resume(f, {[pc |-> "ae_request", from |-> i, to |-> f.to,
             sent |-> [term |-> currentTerm[i],
                       counter |-> replyCounter[i][f.to] + 1,
                       next |-> next, match |-> matchIndex[i][f.to],
                       logSize |-> Len(log[i]), entries |-> Len(new)],
             req |-> [term |-> currentTerm[i],
                      prev_log_index |-> IF next > 1 THEN next - 1 ELSE 0,
                      prev_log_term |-> IF next > 1
                                        THEN TermAt(log[i], next - 1, stale)
                                        ELSE 0,
                      entries |-> new,
                      leader_commit |-> commitIndex[i]]]})
  BY DEF PrepareEntries
<1> DEFINE pt == IF next > 1 THEN TermAt(log[i], next - 1, stale) ELSE 0
<1>12. prev > 0 => pt = l[prev].term
  BY <1>4, <1>8, <1>10 DEF TermAt
<1>13. PICK g : g = [pc |-> "ae_request", from |-> i, to |-> f.to,
             sent |-> [term |-> t, counter |-> replyCounter[i][f.to] + 1,
                       next |-> next, match |-> matchIndex[i][f.to],
                       logSize |-> Len(l), entries |-> Len(new)],
             req |-> [term |-> t, prev_log_index |-> prev, prev_log_term |-> pt,
                      entries |-> new, leader_commit |-> commitIndex[i]]]
  OBVIOUS
<1>14. Resume(f, {g})
  BY <1>11, <1>13
<1>15. /\ g.pc = "ae_request" /\ g.from = i /\ g.to = j
       /\ g.sent.term = t /\ g.sent.next = next /\ g.sent.match = matchIndex[i][j]
       /\ g.sent.logSize = Len(l) /\ g.sent.entries = Len(new)
       /\ g.req.term = t /\ g.req.prev_log_index = prev /\ g.req.prev_log_term = pt
       /\ g.req.entries = new
  BY <1>13
<1> HIDE DEF i, j, t, next, l, new, prev, pt
<1>16. InFlight' \subseteq InFlight \cup {g}
  BY <1>0, <1>14, ResumeFacts
<1>17. \A n \in 1..Len(new) : new[n] = h.log[t][prev + n]
  <2> SUFFICES ASSUME NEW n \in 1..Len(new) PROVE new[n] = h.log[t][prev + n]
    OBVIOUS
  <2>1. next + n - 1 = prev + n
    BY <1>4, <1>10
  <2> QED
    BY <1>5, <1>9, <2>1
<1>18. Last(g) = Len(l)
  BY <1>10, <1>15 DEF Last
<1>19. next = prev + 1 /\ (matchIndex[i][j] = 0 \/ matchIndex[i][j] = prev)
  BY <1>4, <1>6, <1>10
<1>20. Len(l) <= Len(h.log[t])
  BY <1>4, <1>5
<1>21. RequestOK(h, g)
  BY <1>3, <1>5, <1>6, <1>7, <1>12, <1>15, <1>17, <1>18, <1>19, <1>20 DEF RequestOK
<1>22. AllOK(h, {g})'
  BY <1>15, <1>21 DEF AllOK, MessageOK, RequestOK, Elected, Last
<1>23. Notes(h)'
  BY <1>1, <1>2, NotesKept DEF LogInv
<1> QED
  BY <1>1, <1>2, <1>16, <1>22, <1>23, QuietLogs

LEMMA AckedLast ==
  ASSUME NEW h, NEW f \in Thread, f.pc = "ae_request", RequestOK(h, f)
  PROVE  Acked(f) = Last(f)
<1>1. f.req.prev_log_index \in Nat /\ Len(f.req.entries) \in Nat
  BY MessageTypes
<1>2. f.sent.next = f.req.prev_log_index + 1 /\ f.sent.entries = Len(f.req.entries)
  BY DEF RequestOK
<1> QED
  BY <1>1, <1>2 DEF Acked, Last

\* append_entries answers a request of an earlier term without looking at it.
LEMMA LogsRefuse ==
  ASSUME Step, NEW h \in History, LogInv(h), NEW f \in InFlight, RefuseEntries(f)
  PROVE  LogInv(h)'
<1>0. IsABag(threads) /\ TypeOK' /\ TypeOK /\ f \in Thread
  BY DEF Step, TypeInv, TypeOK
<1>1. LeadersStay
  BY <1>0, VoteOther DEF Step, TypeInv, AppendEntries
<1>2. UNCHANGED <<log, nextIndex, matchIndex>> /\ f.pc = "ae_request"
  BY DEF RefuseEntries, logVars, leadVars
<1>3. RequestOK(h, f)
  BY <1>2 DEF LogInv, Messages, MessageOK
<1>4. PICK r : Resume(f, {[pc |-> "ae_reply", from |-> f.from, to |-> f.to,
                           sent |-> f.sent,
                           reply |-> [term |-> r, success |-> FALSE,
                                      conflict_info |-> NoConflict]]})
  BY DEF RefuseEntries
<1>5. PICK g : g = [pc |-> "ae_reply", from |-> f.from, to |-> f.to,
                    sent |-> f.sent,
                    reply |-> [term |-> r, success |-> FALSE,
                               conflict_info |-> NoConflict]]
  OBVIOUS
<1>6. /\ g.pc = "ae_reply" /\ g.from = f.from /\ g.to = f.to /\ g.sent = f.sent
      /\ g.reply.success = FALSE /\ g.reply.conflict_info = NoConflict
  BY <1>5
<1>7. InFlight' \subseteq InFlight \cup {g}
  BY <1>0, <1>4, <1>5, ResumeFacts
<1>8. Acked(f) = Last(f)
  BY <1>0, <1>2, <1>3, AckedLast
<1>9. ReplyOK(h, g)
  BY <1>3, <1>6, <1>8 DEF RequestOK, ReplyOK, Acked
<1>10. AllOK(h, {g})'
  BY <1>6, <1>9 DEF AllOK, MessageOK, ReplyOK, Elected, Acked
<1>11. Notes(h)'
  BY <1>1, <1>2, NotesKept DEF LogInv
<1> QED
  BY <1>1, <1>2, <1>7, <1>10, <1>11, QuietLogs

------------------------------------------------------------------------------
(* What a leader notes of its peers.                                        *)

NoteOK(h, i, j) ==
  /\ matchIndex[i][j] <= h.held[j][currentTerm[i]]
  /\ matchIndex[i][j] < nextIndex[i][j] /\ nextIndex[i][j] <= Len(log[i]) + 1
  /\ matchIndex[i][j] = 0 \/ nextIndex[i][j] = matchIndex[i][j] + 1

\* One note changes.
LEMMA NoteMoved ==
  ASSUME NEW h, Notes(h), NEW i \in Server, NEW j \in Server,
         UNCHANGED <<electVars, log>>,
         \A x, y \in Server : <<x, y>> # <<i, j>> =>
           nextIndex'[x][y] = nextIndex[x][y] /\ matchIndex'[x][y] = matchIndex[x][y],
         NoteOK(h, i, j)'
  PROVE  Notes(h)'
<1> SUFFICES ASSUME NEW x \in Server, NEW y \in Peers(x), Leading(x)'
             PROVE  NoteOK(h, x, y)'
  BY DEF Notes, NoteOK
<1>1. CASE x = i /\ y = j
  BY <1>1
<1>2. CASE <<x, y>> # <<i, j>>
  <2>1. y \in Server /\ Leading(x)
    BY DEF Peers, Leading, electVars
  <2>2. NoteOK(h, x, y)
    BY <2>1 DEF Notes, NoteOK
  <2>3. nextIndex'[x][y] = nextIndex[x][y] /\ matchIndex'[x][y] = matchIndex[x][y]
    BY <1>2, <2>1
  <2> QED
    BY <2>2, <2>3 DEF NoteOK, electVars
<1> QED
  BY <1>1, <1>2

\* A failure: the leader backs up, never to what the peer is known to hold,
\* and never past where it was.
LEMMA LogsBackUp ==
  ASSUME Step, NEW h \in History, LogInv(h), NEW f \in InFlight, BackUp(f)
  PROVE  LogInv(h)'
<1> DEFINE i == f.from
           j == f.to
<1>0. IsABag(threads) /\ TypeOK' /\ TypeOK /\ f \in Thread
  BY DEF Step, TypeInv, TypeOK
<1>1. LeadersStay
  BY <1>0, VoteOther DEF Step, TypeInv, HandleAppendReply
<1>2. /\ UNCHANGED <<electVars, log, matchIndex>> /\ f.pc = "ae_reply"
      /\ StillLeading(f) /\ Unmoved(f) /\ Resume(f, {})
  BY DEF BackUp, logVars
<1>3. ReplyOK(h, f)
  BY <1>2 DEF LogInv, Messages, MessageOK
<1>4. i \in Server /\ j \in Server /\ j # i /\ j \in Peers(i) /\ Leading(i)
  BY <1>0, <1>2, <1>3, MessageTypes DEF ReplyOK, Peers, StillLeading, Leading
<1>5. PICK found \in SearchResults(log[i], matchIndex[i][j], SearchLast(f) - 1,
                                   f.reply.conflict_info.conflict_term) :
         nextIndex' = [nextIndex EXCEPT ![i][j] = RetryIndex(f, found)]
  BY DEF BackUp
<1> DEFINE next == nextIndex[i][j]
           match == matchIndex[i][j]
           new == RetryIndex(f, found)
<1>6. /\ next \in Nat /\ match \in Nat /\ Len(log[i]) \in Nat
  BY <1>0, <1>4, NodeTypes
<1>7. NoteOK(h, i, j)
  BY <1>4 DEF LogInv, Notes, NoteOK
<1>8. match < next /\ next <= Len(log[i]) + 1 /\ (match = 0 \/ next = match + 1)
  BY <1>7 DEF NoteOK
<1>9. f.sent.next = next /\ f.sent.match = match
  BY <1>2 DEF Unmoved
<1>10. f.sent.logSize \in Nat
  BY <1>0, <1>2, MessageTypes
<1>11. new \in Nat /\ match < new /\ new <= next /\ (match = 0 \/ new = match + 1)
  <2>1. CASE f.reply.conflict_info = NoConflict
    <3>1. new = IF next > match + 1 THEN next - 1 ELSE next
      BY <2>1 DEF RetryIndex
    <3> HIDE DEF next, match, new
    <3> QED
      BY <1>6, <1>8, <3>1
  <2>2. CASE f.reply.conflict_info # NoConflict
    <3>1. match = 0 /\ f.reply.conflict_info.conflict_index < next
      BY <1>3, <1>9, <2>2 DEF ReplyOK
    <3>2. f.reply.conflict_info.conflict_index \in Nat \ {0}
      <4>1. f.reply.conflict_info \in Conflict
        BY <1>0, <1>2, MessageTypes
      <4> QED
        BY <2>2, <4>1 DEF Conflict
    <3>3. CASE found = 0
      <4>1. new = f.reply.conflict_info.conflict_index
        BY <2>2, <3>3 DEF RetryIndex
      <4> HIDE DEF next, match, new
      <4> QED
        BY <1>6, <3>1, <3>2, <4>1
    <3>4. CASE found # 0
      <4>1. new = found + 1
        BY <2>2, <3>4 DEF RetryIndex
      <4>2. SearchLast(f) \in Int /\ SearchLast(f) <= next - 1
        BY <1>6, <1>9, <1>10 DEF SearchLast
      <4>3. found \in (match + 1)..(SearchLast(f) - 1 + 1)
        BY <1>5, <3>4 DEF SearchResults
      <4> HIDE DEF next, match, new
      <4> QED
        BY <1>6, <3>1, <4>1, <4>2, <4>3
    <3> QED
      BY <3>3, <3>4
  <2> QED
    BY <2>1, <2>2
<1>12. /\ nextIndex'[i][j] = new
       /\ \A x, y \in Server : <<x, y>> # <<i, j>> => nextIndex'[x][y] = nextIndex[x][y]
  BY <1>0, <1>4, <1>5 DEF TypeOK
<1> HIDE DEF new
<1>13. NoteOK(h, i, j)'
  <2>1. new <= Len(log[i]) + 1
    <3> HIDE DEF next, match
    <3> QED
      BY <1>6, <1>8, <1>11
  <2> QED
    BY <1>2, <1>7, <1>11, <1>12, <2>1 DEF NoteOK, electVars
<1>14. Notes(h)'
  BY <1>2, <1>4, <1>12, <1>13, NoteMoved DEF LogInv
<1>15. InFlight' \subseteq InFlight \cup {} /\ AllOK(h, {})'
  BY <1>0, <1>2, ResumeFacts DEF AllOK
<1> QED
  BY <1>1, <1>2, <1>14, <1>15, QuietLogs

\* A success: the peer has had everything sent.
LEMMA LogsAcknowledge ==
  ASSUME Step, NEW h \in History, LogInv(h), NEW f \in InFlight, Acknowledge(f)
  PROVE  LogInv(h)'
<1> DEFINE i == f.from
           j == f.to
           last == Acked(f)
<1>0. IsABag(threads) /\ TypeOK' /\ TypeOK /\ f \in Thread
  BY DEF Step, TypeInv, TypeOK
<1>1. LeadersStay
  BY <1>0, VoteOther DEF Step, TypeInv, HandleAppendReply
<1>2. /\ UNCHANGED <<electVars, log>> /\ f.pc = "ae_reply"
      /\ StillLeading(f) /\ f.reply.success /\ Resume(f, {})
      /\ matchIndex' = [matchIndex EXCEPT ![i] = [matchIndex[i] EXCEPT ![j] = last]]
      /\ nextIndex' = [nextIndex EXCEPT ![i][j] = last + 1]
  BY DEF Acknowledge
<1>3. ReplyOK(h, f)
  BY <1>2 DEF LogInv, Messages, MessageOK
<1>4. i \in Server /\ j \in Server /\ j # i /\ j \in Peers(i) /\ Leading(i)
  BY <1>0, <1>2, <1>3, MessageTypes DEF ReplyOK, Peers, StillLeading, Leading
<1>5. last \in Nat /\ Len(log[i]) \in Nat
  BY <1>0, <1>2, <1>4, MessageTypes, NodeTypes
<1>6. f.sent.term = currentTerm[i] /\ log[i] = h.log[currentTerm[i]]
  BY <1>2, <1>4 DEF StillLeading, LogInv, LeadersLogs
<1>7. last <= Len(log[i]) /\ last <= h.held[j][currentTerm[i]]
  BY <1>2, <1>3, <1>6 DEF ReplyOK
<1> HIDE DEF last
<1>8. /\ nextIndex'[i][j] = last + 1 /\ matchIndex'[i][j] = last
      /\ \A x, y \in Server : <<x, y>> # <<i, j>> =>
           nextIndex'[x][y] = nextIndex[x][y] /\ matchIndex'[x][y] = matchIndex[x][y]
  <2> DEFINE m == [matchIndex[i] EXCEPT ![j] = last]
  <2>0. matchIndex \in [Server -> [Server -> Nat]] /\ matchIndex[i] \in [Server -> Nat]
    BY <1>0, <1>4 DEF TypeOK
  <2>1. m[j] = last /\ \A y \in Server : y # j => m[y] = matchIndex[i][y]
    BY <1>4, <2>0
  <2>2. matchIndex' = [matchIndex EXCEPT ![i] = m]
    BY <1>2
  <2> HIDE DEF m
  <2>3. matchIndex'[i] = m /\ \A x \in Server : x # i => matchIndex'[x] = matchIndex[x]
    BY <1>4, <2>0, <2>2
  <2>4. matchIndex'[i][j] = last
    BY <2>1, <2>3
  <2>5. \A x, y \in Server : <<x, y>> # <<i, j>> => matchIndex'[x][y] = matchIndex[x][y]
    BY <2>1, <2>3
  <2>6. /\ nextIndex'[i][j] = last + 1
        /\ \A x, y \in Server : <<x, y>> # <<i, j>> => nextIndex'[x][y] = nextIndex[x][y]
    <3> DEFINE e == last + 1
    <3>1. nextIndex' = [nextIndex EXCEPT ![i][j] = e]
      BY <1>2
    <3> HIDE DEF e
    <3>2. /\ nextIndex'[i][j] = e
          /\ \A x, y \in Server : <<x, y>> # <<i, j>> => nextIndex'[x][y] = nextIndex[x][y]
      BY <1>0, <1>4, <3>1 DEF TypeOK
    <3> QED
      BY <3>2 DEF e
  <2> QED
    BY <2>4, <2>5, <2>6
<1>9. last < last + 1 /\ last + 1 <= Len(log[i]) + 1
  BY <1>5, <1>7
<1>10. NoteOK(h, i, j)'
  BY <1>2, <1>7, <1>8, <1>9 DEF NoteOK, electVars
<1>11. Notes(h)'
  BY <1>2, <1>4, <1>8, <1>10, NoteMoved DEF LogInv
<1>12. InFlight' \subseteq InFlight \cup {} /\ AllOK(h, {})'
  BY <1>0, <1>2, ResumeFacts DEF AllOK
<1> QED
  BY <1>1, <1>2, <1>11, <1>12, QuietLogs

------------------------------------------------------------------------------
(* A won election: the record gets the leader of a new term.                *)

\* What Founded puts on record.
FoundedAs(h, t, i, l, k) ==
  /\ k \in History
  /\ k.leader[t] = i /\ k.start[t] = Len(l) /\ k.log[t] = l /\ k.held[i][t] = Len(l)
  /\ \A u \in Nat : u # t => /\ k.leader[u] = h.leader[u]
                             /\ k.start[u] = h.start[u] /\ k.log[u] = h.log[u]
  /\ \A v \in Server : \A u \in Nat :
       <<v, u>> # <<i, t>> => k.held[v][u] = h.held[v][u]

LEMMA FoundedFacts ==
  ASSUME NEW h \in History, NEW t \in Nat, NEW i \in Server, NEW l \in Seq(Entry)
  PROVE  FoundedAs(h, t, i, l, Founded(h, t, i, l))
<1>0. PICK k : k = Founded(h, t, i, l)
  OBVIOUS
<1>1. HistoryFacts(h) /\ Len(l) \in Nat
  BY HistoryFields
<1> DEFINE a == [h.leader EXCEPT ![t] = i]
           b == [h.start EXCEPT ![t] = Len(l)]
           c == [h.log EXCEPT ![t] = l]
           d == [h.held EXCEPT ![i][t] = Len(l)]
           r == [leader |-> a, start |-> b, log |-> c, held |-> d]
<1>2. h = [leader |-> h.leader, start |-> h.start, log |-> h.log, held |-> h.held]
  BY DEF History
<1>3. k = r
  BY <1>0, <1>2 DEF Founded
<1>4. /\ a \in [Nat -> Server \cup {None}] /\ a[t] = i
      /\ \A u \in Nat : u # t => a[u] = h.leader[u]
  BY <1>1 DEF HistoryFacts
<1>5. /\ b \in [Nat -> Nat] /\ b[t] = Len(l)
      /\ \A u \in Nat : u # t => b[u] = h.start[u]
  BY <1>1 DEF HistoryFacts
<1>6. /\ c \in [Nat -> Seq(Entry)] /\ c[t] = l
      /\ \A u \in Nat : u # t => c[u] = h.log[u]
  BY <1>1 DEF HistoryFacts
<1>7. /\ d \in [Server -> [Nat -> Nat]] /\ d[i][t] = Len(l)
      /\ \A v \in Server : \A u \in Nat : <<v, u>> # <<i, t>> => d[v][u] = h.held[v][u]
  BY <1>1 DEF HistoryFacts
<1> HIDE DEF a, b, c, d
<1>8. r.leader = a /\ r.start = b /\ r.log = c /\ r.held = d
  OBVIOUS
<1>9. HistoryFacts(r)
  BY <1>4, <1>5, <1>6, <1>7, <1>8 DEF HistoryFacts
<1>10. r \in History
  BY <1>9, HistoryOf
<1> HIDE DEF r
<1>11. k \in History /\ k.leader = a /\ k.start = b /\ k.log = c /\ k.held = d
  BY <1>3, <1>8, <1>10
<1>12. FoundedAs(h, t, i, l, k)
  BY <1>4, <1>5, <1>6, <1>7, <1>11 DEF FoundedAs
<1> QED
  BY <1>0, <1>12

ExtendedAs(h, t, i, l, k) ==
  /\ k \in History /\ k.leader = h.leader /\ k.start = h.start
  /\ k.log[t] = l /\ k.held[i][t] = Len(l)
  /\ \A u \in Nat : u # t => k.log[u] = h.log[u]
  /\ \A v \in Server : \A u \in Nat :
       <<v, u>> # <<i, t>> => k.held[v][u] = h.held[v][u]

LEMMA ExtendedFacts ==
  ASSUME NEW h \in History, NEW t \in Nat, NEW i \in Server, NEW l \in Seq(Entry)
  PROVE  ExtendedAs(h, t, i, l, Extended(h, t, i, l))
<1>0. PICK k : k = Extended(h, t, i, l)
  OBVIOUS
<1>1. HistoryFacts(h) /\ Len(l) \in Nat
  BY HistoryFields
<1> DEFINE c == [h.log EXCEPT ![t] = l]
           d == [h.held EXCEPT ![i][t] = Len(l)]
           r == [leader |-> h.leader, start |-> h.start, log |-> c, held |-> d]
<1>2. h = [leader |-> h.leader, start |-> h.start, log |-> h.log, held |-> h.held]
  BY DEF History
<1>3. k = r
  BY <1>0, <1>2 DEF Extended
<1>6. /\ c \in [Nat -> Seq(Entry)] /\ c[t] = l
      /\ \A u \in Nat : u # t => c[u] = h.log[u]
  BY <1>1 DEF HistoryFacts
<1>7. /\ d \in [Server -> [Nat -> Nat]] /\ d[i][t] = Len(l)
      /\ \A v \in Server : \A u \in Nat : <<v, u>> # <<i, t>> => d[v][u] = h.held[v][u]
  BY <1>1 DEF HistoryFacts
<1> HIDE DEF c, d
<1>8. r.leader = h.leader /\ r.start = h.start /\ r.log = c /\ r.held = d
  OBVIOUS
<1>9. HistoryFacts(r)
  BY <1>1, <1>6, <1>7, <1>8 DEF HistoryFacts
<1>10. r \in History
  BY <1>9, HistoryOf
<1> HIDE DEF r
<1>11. k \in History /\ k.leader = h.leader /\ k.start = h.start /\ k.log = c /\ k.held = d
  BY <1>3, <1>8, <1>10
<1>12. ExtendedAs(h, t, i, l, k)
  BY <1>6, <1>7, <1>11 DEF ExtendedAs
<1> QED
  BY <1>0, <1>12

NotedAs(h, t, v, n, k) ==
  /\ k \in History /\ k.leader = h.leader /\ k.start = h.start /\ k.log = h.log
  /\ k.held[v][t] \in {n, h.held[v][t]}
  /\ n <= k.held[v][t] /\ h.held[v][t] <= k.held[v][t]
  /\ \A w \in Server : \A u \in Nat :
       <<w, u>> # <<v, t>> => k.held[w][u] = h.held[w][u]

LEMMA NotedFacts ==
  ASSUME NEW h \in History, NEW t \in Nat, NEW v \in Server, NEW n \in Nat
  PROVE  NotedAs(h, t, v, n, Noted(h, t, v, n))
<1> DEFINE k == Noted(h, t, v, n)
<1>1. HistoryFacts(h) /\ h.held[v][t] \in Nat
  BY HistoryFields, RecordTypes
<1>2. CASE ~(n > h.held[v][t])
  <2>1. k = h /\ n <= h.held[v][t] /\ h.held[v][t] <= h.held[v][t]
    BY <1>1, <1>2 DEF Noted
  <2> HIDE DEF k
  <2>2. NotedAs(h, t, v, n, k)
    BY <2>1 DEF NotedAs
  <2> QED
    BY <2>2 DEF k
<1>3. CASE n > h.held[v][t]
  <2> DEFINE d == [h.held EXCEPT ![v][t] = n]
             r == [leader |-> h.leader, start |-> h.start, log |-> h.log, held |-> d]
  <2>2. h = [leader |-> h.leader, start |-> h.start, log |-> h.log, held |-> h.held]
    BY DEF History
  <2>3. k = r
    BY <1>3, <2>2 DEF Noted
  <2>7. /\ d \in [Server -> [Nat -> Nat]] /\ d[v][t] = n
        /\ \A w \in Server : \A u \in Nat : <<w, u>> # <<v, t>> => d[w][u] = h.held[w][u]
    BY <1>1 DEF HistoryFacts
  <2> HIDE DEF d
  <2>8. r.leader = h.leader /\ r.start = h.start /\ r.log = h.log /\ r.held = d
    OBVIOUS
  <2>9. HistoryFacts(r)
    BY <1>1, <2>7, <2>8 DEF HistoryFacts
  <2>10. r \in History
    BY <2>9, HistoryOf
  <2>11. n <= n /\ h.held[v][t] <= n
    BY <1>1, <1>3
  <2> HIDE DEF r
  <2>12. /\ k \in History /\ k.leader = h.leader /\ k.start = h.start
         /\ k.log = h.log /\ k.held = d
    BY <2>3, <2>8, <2>10
  <2> HIDE DEF k
  <2>13. NotedAs(h, t, v, n, k)
    BY <2>7, <2>11, <2>12 DEF NotedAs
  <2> QED
    BY <2>13 DEF k
<1> QED
  BY <1>2, <1>3

\* A term is won once.
LEMMA WonOnce ==
  ASSUME OddCluster, Step, NEW h \in History, LogInv(h), NEW i \in Server,
         currentRole[i] = "Candidate", Leading(i)', currentTerm'[i] = currentTerm[i]
  PROVE  ~Elected(h, currentTerm[i])
<1> DEFINE t == currentTerm[i]
<1> SUFFICES ASSUME Elected(h, t) PROVE FALSE
  OBVIOUS
<1>1. t \in Nat
  BY StepTypes
<1>2. SettledAt(h, t) /\ SettledAt(h, t)'
  BY <1>1, SettledIs, SettledStep DEF LogInv
<1>3. PICK Q \in SUBSET Server : WinsElection(Q) /\ \A v \in Q : Loyal(h, t, v)'
  BY <1>2 DEF SettledAt, WinsElection
<1>4. votes'[i] \in SUBSET Server /\ WinsElection(votes'[i])
  BY DEF Step, TypeInv, TypeOK, VoteInv, Won, WinsElection
<1>5. PICK v \in Server : v \in Q /\ v \in votes'[i]
  BY <1>3, <1>4, WinnersMeet
<1>6. Given(v, i, t)'
  BY <1>5 DEF Given, Holds, Leading
<1>7. i = h.leader[t]
  BY <1>3, <1>5, <1>6 DEF Loyal
<1> QED
  BY <1>2, <1>7 DEF SettledAt

LEMMA WonSettled ==
  ASSUME Step, NEW k, NEW i \in Server, NEW t \in Nat, Leading(i)', currentTerm'[i] = t,
         k.leader[t] = i
  PROVE  SettledAt(k, t)'
<1>1. currentTerm'[i] >= t /\ currentRole'[i] # "Candidate"
  BY DEF Leading
<1>2. votes'[i] \in SUBSET Server /\ WinsElection(votes'[i])
  BY DEF Step, TypeInv, TypeOK, VoteInv, Won, WinsElection
<1>3. ASSUME NEW v \in votes'[i] PROVE Loyal(k, t, v)'
  <2>1. v \in Server
    BY <1>2
  <2>2. Given(v, i, t)'
    BY DEF Given, Holds, Leading
  <2>3. t <= currentTerm'[v] /\ (t = currentTerm'[v] => votedFor'[v] = i)
    BY <2>1, <2>2 DEF Step, VoteInv, Backed
  <2>4. currentTerm'[v] \in Nat
    BY <2>1, StepTypes
  <2>5. currentTerm'[v] >= t
    BY <2>3, <2>4
  <2>6. \A c \in Server : Given(v, c, t)' => c = i
    BY <2>1, <2>2 DEF Step, VoteInv, Unique
  <2> QED
    BY <2>3, <2>5, <2>6 DEF Loyal
<1>4. \E Q \in SUBSET Server : WinsElection(Q) /\ \A v \in Q : Loyal(k, t, v)'
  BY <1>2, <1>3
<1> QED
  BY <1>1, <1>4 DEF SettledAt, WinsElection

\* What CountVote does when the vote decides the election.
Winning(f) ==
  LET i == f.from
  IN  /\ i \in Server /\ currentRole[i] = "Candidate" /\ Leading(i)'
      /\ UNCHANGED <<currentTerm, votedFor, logVars>>
      /\ \A x \in Server : x # i => currentRole'[x] = currentRole[x]
      /\ \A x, y \in Server : x # i => /\ nextIndex'[x][y] = nextIndex[x][y]
                                       /\ matchIndex'[x][y] = matchIndex[x][y]
      /\ \A y \in Peers(i) : nextIndex'[i][y] = Len(log[i]) + 1 /\ matchIndex'[i][y] = 0
      /\ InFlight' \subseteq InFlight

LEMMA CountVoteCases ==
  ASSUME Step, NEW f \in InFlight, CountVote(f)
  PROVE  \/ Winning(f)
         \/ /\ UNCHANGED <<currentTerm, currentRole, logVars, leadVars>>
            /\ InFlight' \subseteq InFlight
<1> DEFINE i == f.from
           V == votes[i] \cup {f.to}
<1>0. IsABag(threads) /\ TypeOK /\ f \in Thread /\ i \in Server
  BY ThreadFields DEF Step, TypeInv, TypeOK
<1>1. /\ UNCHANGED <<currentTerm, votedFor, logVars>> /\ currentRole[i] = "Candidate"
      /\ BecomeLeader(i, V) /\ Resume(f, {})
  BY DEF CountVote, VoteCounts
<1>2. InFlight' \subseteq InFlight
  BY <1>0, <1>1, ResumeFacts
<1>3. CASE ~WinsElection(V)
  BY <1>1, <1>2, <1>3 DEF BecomeLeader
<1>4. CASE WinsElection(V)
  <2> DEFINE n == [y \in Server |-> IF y = i THEN 0 ELSE Len(log[i]) + 1]
             z == [y \in Server |-> 0]
  <2>1. /\ currentRole' = [currentRole EXCEPT ![i] = "Leader"]
        /\ nextIndex' = [nextIndex EXCEPT ![i] = n]
        /\ matchIndex' = [matchIndex EXCEPT ![i] = z]
    BY <1>1, <1>4 DEF BecomeLeader
  <2>2. \A y \in Peers(i) : n[y] = Len(log[i]) + 1 /\ z[y] = 0
    BY DEF Peers
  <2> HIDE DEF n, z
  <2>3. /\ currentRole'[i] = "Leader" /\ nextIndex'[i] = n /\ matchIndex'[i] = z
        /\ \A x \in Server : x # i => /\ currentRole'[x] = currentRole[x]
                                      /\ nextIndex'[x] = nextIndex[x]
                                      /\ matchIndex'[x] = matchIndex[x]
    BY <1>0, <2>1 DEF TypeOK
  <2>4. Winning(f)
    BY <1>0, <1>1, <1>2, <2>2, <2>3 DEF Winning, Leading
  <2> QED
    BY <2>4
<1> QED
  BY <1>3, <1>4

\* The new leader's log is on record as it stands.
LEMMA LogsWon ==
  ASSUME OddCluster, Step, NEW h \in History, LogInv(h), NEW f \in InFlight, Winning(f),
         NEW k, k = Founded(h, currentTerm[f.from], f.from, log[f.from])
  PROVE  k \in History /\ Grows(h, k) /\ LogInv(k)' /\ ~Elected(h, currentTerm[f.from])
<1> DEFINE i == f.from
           t == currentTerm[i]
           l == log[i]
<1>1. /\ i \in Server /\ currentRole[i] = "Candidate" /\ Leading(i)'
      /\ UNCHANGED <<currentTerm, votedFor, log>>
      /\ \A x \in Server : x # i => currentRole'[x] = currentRole[x]
      /\ \A x, y \in Server : x # i => /\ nextIndex'[x][y] = nextIndex[x][y]
                                       /\ matchIndex'[x][y] = matchIndex[x][y]
      /\ \A y \in Peers(i) : nextIndex'[i][y] = Len(l) + 1 /\ matchIndex'[i][y] = 0
      /\ InFlight' \subseteq InFlight
  BY DEF Winning, logVars
<1>2. t \in Nat /\ l \in Seq(Entry) /\ Len(l) \in Nat
  BY <1>1, StepTypes
<1>3. ~Elected(h, t)
  <2>1. currentTerm'[i] = currentTerm[i]
    BY <1>1
  <2> QED
    BY <1>1, <2>1, WonOnce
<1>4. k = Founded(h, t, i, l)
  OBVIOUS
<1> HIDE DEF t, l
<1>5. /\ k \in History
      /\ k.leader[t] = i /\ k.start[t] = Len(l) /\ k.log[t] = l
      /\ k.held[i][t] = Len(l)
      /\ \A u \in Nat : u # t => /\ k.leader[u] = h.leader[u]
                                 /\ k.start[u] = h.start[u] /\ k.log[u] = h.log[u]
      /\ \A v \in Server : \A u \in Nat :
           <<v, u>> # <<i, t>> => k.held[v][u] = h.held[v][u]
  <2>1. FoundedAs(h, t, i, l, k)
    BY <1>1, <1>2, <1>4, FoundedFacts
  <2> QED
    BY <2>1 DEF FoundedAs
<1>6. \A u \in Nat : Elected(h, u) => u # t
  BY <1>3
<1>7. \A v \in Server : h.held[v][t] = 0
  BY <1>2, <1>3 DEF LogInv, Holdings, HeldOK
<1>8. Grows(h, k)
  <2>1. ASSUME NEW u \in Nat, Elected(h, u)
        PROVE  /\ k.leader[u] = h.leader[u] /\ k.start[u] = h.start[u]
               /\ Same(h.log[u], k.log[u], Len(h.log[u]))
    <3>1. k.leader[u] = h.leader[u] /\ k.start[u] = h.start[u] /\ k.log[u] = h.log[u]
      BY <1>5, <1>6, <2>1
    <3>2. h.log[u] \in Seq(Entry) /\ Len(h.log[u]) \in Nat
      BY RecordTypes
    <3>3. Len(h.log[u]) <= Len(h.log[u])
      BY <3>2
    <3> QED
      BY <3>1, <3>2, <3>3, SameSelf
  <2>2. ASSUME NEW v \in Server, NEW u \in Nat PROVE h.held[v][u] <= k.held[v][u]
    <3>1. h.held[v][u] \in Nat /\ k.held[v][u] \in Nat
      BY <1>5, RecordTypes
    <3>2. CASE <<v, u>> = <<i, t>>
      BY <1>7, <3>1, <3>2
    <3>3. CASE <<v, u>> # <<i, t>>
      BY <1>5, <3>1, <3>3
    <3> QED
      BY <3>2, <3>3
  <2> QED
    BY <2>1, <2>2 DEF Grows
<1>9. LogsTraced(k)'
  <2>1. ASSUME NEW x \in Server
        PROVE  /\ Traced(k, log'[x])
               /\ \A n \in 1..Len(log'[x]) : log'[x][n].term <= currentTerm'[x]
    <3>1. log'[x] = log[x] /\ LogsTraced(h)
      BY <1>1 DEF LogInv
    <3> QED
      BY <1>5, <1>8, <3>1, TracedStep
  <2> QED
    BY <2>1 DEF LogsTraced, Traced, Elected, Same
<1>10. TermLogs(k)
  <2> SUFFICES ASSUME NEW u \in Nat, Elected(k, u)
               PROVE  /\ k.start[u] <= Len(k.log[u]) /\ Traced(k, k.log[u])
                      /\ \A n \in 1..k.start[u] : k.log[u][n].term < u
                      /\ \A n \in (k.start[u] + 1)..Len(k.log[u]) : k.log[u][n].term = u
    BY DEF TermLogs
  <2>1. CASE u # t
    <3>1. /\ Elected(h, u) /\ k.log[u] = h.log[u] /\ k.start[u] = h.start[u]
          /\ h.log[u] \in Seq(Entry)
      BY <1>5, <2>1, RecordTypes DEF Elected
    <3>2. Traced(k, h.log[u])
      BY <1>5, <1>8, <3>1, TracedGrows DEF LogInv, TermLogs
    <3> QED
      BY <3>1, <3>2 DEF LogInv, TermLogs
  <2>2. CASE u = t
    <3>1. Traced(h, l) /\ \A n \in 1..Len(l) : l[n].term <= t
      BY <1>1 DEF LogInv, LogsTraced, l, t
    <3>2. Traced(k, l)
      BY <1>2, <1>5, <1>8, <3>1, TracedGrows
    <3>3. ASSUME NEW n \in 1..Len(l) PROVE l[n].term < t
      <4>1. l[n].term \in Nat /\ l[n].term <= t
        BY <1>2, <3>1, EntryTerm
      <4>2. Elected(h, l[n].term)
        BY <3>1 DEF Traced
      <4>3. l[n].term # t
        BY <1>3, <4>2
      <4> QED
        BY <1>2, <4>1, <4>3
    <3>4. Len(l) <= Len(l) /\ (Len(l) + 1)..Len(l) = {}
      BY <1>2
    <3> QED
      BY <1>5, <2>2, <3>2, <3>3, <3>4
  <2> QED
    BY <2>1, <2>2
<1>11. LeadersLogs(k)'
  <2> SUFFICES ASSUME NEW x \in Server, Leading(x)'
               PROVE  k.leader[currentTerm[x]] = x /\ log[x] = k.log[currentTerm[x]]
    BY <1>1 DEF LeadersLogs
  <2>1. CASE x = i
    BY <1>5, <2>1 DEF t, l
  <2>2. CASE x # i
    <3>1. Leading(x)
      BY <1>1, <2>2 DEF Leading
    <3>2. h.leader[currentTerm[x]] = x /\ log[x] = h.log[currentTerm[x]]
      BY <3>1 DEF LogInv, LeadersLogs
    <3>3. currentTerm[x] \in Nat /\ Elected(h, currentTerm[x])
      BY <3>2, StepTypes, ServerAssumption DEF Elected
    <3> QED
      BY <1>5, <1>6, <3>2, <3>3
  <2> QED
    BY <2>1, <2>2
<1>12. Settled(k)'
  <2>1. ASSUME NEW u \in Nat, Elected(k, u) PROVE SettledAt(k, u)'
    <3>1. CASE u = t
      <4>1. currentTerm'[i] = t
        BY <1>1 DEF t
      <4> QED
        <5>1. i \in Server /\ Leading(i)' /\ k.leader[t] = i
          BY <1>1, <1>5
        <5> QED
          BY <1>2, <3>1, <4>1, <5>1, WonSettled
    <3>2. CASE u # t
      <4>1. Elected(h, u)
        BY <1>5, <2>1, <3>2 DEF Elected
      <4>2. SettledAt(h, u)'
        BY <4>1, SettledIs, SettledStep DEF LogInv
      <4> QED
        BY <1>5, <1>8, <4>1, <4>2, SettledGrows
    <3> QED
      BY <3>1, <3>2
  <2> QED
    BY <2>1 DEF Settled, SettledAt, Elected
<1>13. Holdings(k)'
  <2> SUFFICES ASSUME NEW v \in Server, NEW u \in Nat PROVE HeldOK(k, v, u)'
    BY DEF Holdings
  <2>1. CASE u # t
    <3>1. HeldOK(h, v, u)'
      BY <1>1, HeldStep DEF LogInv
    <3>2. k.held[v][u] = h.held[v][u] /\ k.leader[u] = h.leader[u] /\ k.log[u] = h.log[u]
      BY <1>5, <2>1
    <3> QED
      BY <3>1, <3>2 DEF HeldOK, Elected
  <2>2. CASE u = t /\ v = i
    <3>1. currentTerm'[i] = t /\ log'[i] = l
      BY <1>1 DEF t, l
    <3>2. ~(currentTerm'[i] < t) /\ Elected(k, t) /\ Len(l) <= Len(l)
      BY <1>1, <1>2, <1>5, <3>1, ServerAssumption DEF Elected
    <3>3. Same(l, l, Len(l))
      BY <1>2, <3>2, SameSelf
    <3> QED
      BY <1>5, <2>2, <3>1, <3>2, <3>3 DEF HeldOK, Elected
  <2>3. CASE u = t /\ v # i
    <3>1. k.held[v][t] = 0
      BY <1>2, <1>5, <1>7, <2>3
    <3>2. log'[v] \in Seq(Entry)
      BY StepTypes
    <3>3. Same(log'[v], l, 0) /\ 0 <= Len(l)
      BY <1>2, <3>2, SameNone
    <3> QED
      BY <1>5, <2>3, <3>1, <3>3 DEF HeldOK, Elected
  <2> QED
    BY <2>1, <2>2, <2>3
<1>14. Messages(k)'
  <2>1. InFlight' \subseteq InFlight \cup {} /\ AllOK(k, {})'
    BY <1>1 DEF AllOK
  <2> QED
    BY <1>5, <1>8, <2>1, MessagesStep DEF LogInv
<1>15. Notes(k)'
  <2> SUFFICES ASSUME NEW x \in Server, NEW y \in Peers(x), Leading(x)'
               PROVE  NoteOK(k, x, y)'
    BY DEF Notes, NoteOK
  <2>0. y \in Server
    BY DEF Peers
  <2>1. CASE x = i
    <3>1. currentTerm'[x] = t /\ log'[x] = l /\ nextIndex'[x][y] = Len(l) + 1
          /\ matchIndex'[x][y] = 0
      BY <1>1, <2>1 DEF t, l
    <3>2. k.held[y][t] \in Nat
      BY <1>2, <1>5, <2>0, RecordTypes
    <3>3. 0 <= k.held[y][t] /\ 0 < Len(l) + 1 /\ Len(l) + 1 <= Len(l) + 1
      BY <1>2, <3>2
    <3> QED
      BY <3>1, <3>3 DEF NoteOK
  <2>2. CASE x # i
    <3>1. Leading(x)
      BY <1>1, <2>2 DEF Leading
    <3>2. NoteOK(h, x, y)
      BY <3>1 DEF LogInv, Notes, NoteOK
    <3>3. currentTerm[x] \in Nat /\ matchIndex[x][y] \in Nat
      BY <2>0, NodeTypes DEF Step, TypeInv
    <3>4. h.held[y][currentTerm[x]] \in Nat /\ k.held[y][currentTerm[x]] \in Nat
          /\ h.held[y][currentTerm[x]] <= k.held[y][currentTerm[x]]
      BY <1>5, <1>8, <2>0, <3>3, RecordTypes DEF Grows
    <3>5. matchIndex[x][y] <= k.held[y][currentTerm[x]]
      BY <3>2, <3>3, <3>4 DEF NoteOK
    <3>6. nextIndex'[x][y] = nextIndex[x][y] /\ matchIndex'[x][y] = matchIndex[x][y]
      BY <1>1, <2>0, <2>2
    <3> QED
      BY <1>1, <3>2, <3>5, <3>6 DEF NoteOK
  <2> QED
    BY <2>1, <2>2
<1>16. TermLogs(k)'
  BY <1>10 DEF TermLogs, Traced, Elected, Same
<1>17. LogInv(k)'
  BY <1>9, <1>11, <1>12, <1>13, <1>14, <1>15, <1>16 DEF LogInv
<1> QED
  BY <1>3, <1>5, <1>8, <1>17 DEF t

------------------------------------------------------------------------------
(* A proposal: the leader's log grows, and so does its record.              *)

LEMMA LogsPropose ==
  ASSUME Step, NEW h \in History, LogInv(h), NEW i \in Server, NEW c \in Command,
         Propose(i, c), NEW k, k = Extended(h, currentTerm[i], i, log'[i])
  PROVE  k \in History /\ Grows(h, k) /\ LogInv(k)'
<1> DEFINE t == currentTerm[i]
           e == [term |-> t, command |-> c]
           l == Append(log[i], e)
<1>0. TypeOK /\ IsABag(threads)
  BY DEF Step, TypeInv, TypeOK
<1>1. /\ Leading(i) /\ log' = [log EXCEPT ![i] = l]
      /\ UNCHANGED <<electVars, leadVars, threads>>
  BY DEF Propose, Leading
<1>2. t \in Nat /\ log[i] \in Seq(Entry) /\ Len(log[i]) \in Nat
  BY StepTypes
<1>3. e \in Entry /\ e.term = t
  BY <1>2 DEF Entry
<1> HIDE DEF e
<1>4. /\ l \in Seq(Entry) /\ Len(l) = Len(log[i]) + 1 /\ l[Len(log[i]) + 1] = e
      /\ Same(log[i], l, Len(log[i]))
  BY <1>2, <1>3, AppendSame
<1> HIDE DEF l, t
<1>5. log'[i] = l /\ \A x \in Server : x # i => log'[x] = log[x]
  BY <1>0, <1>1 DEF TypeOK
<1>6. /\ UNCHANGED <<currentTerm, votedFor, currentRole, votes, nextIndex, matchIndex>>
      /\ InFlight' = InFlight
  BY <1>1 DEF electVars, leadVars, InFlight
<1>7. h.leader[t] = i /\ h.log[t] = log[i] /\ Elected(h, t)
  BY <1>1, ServerAssumption DEF LogInv, LeadersLogs, Elected, t
<1>8. Len(l) \in Nat /\ Len(log[i]) <= Len(l)
  BY <1>2, <1>4
<1>9. k = Extended(h, t, i, l)
  BY <1>5 DEF t
<1>10. /\ k \in History /\ k.leader = h.leader /\ k.start = h.start
       /\ k.log[t] = l /\ k.held[i][t] = Len(l)
       /\ \A u \in Nat : u # t => k.log[u] = h.log[u]
       /\ \A v \in Server : \A u \in Nat :
            <<v, u>> # <<i, t>> => k.held[v][u] = h.held[v][u]
  <2>1. ExtendedAs(h, t, i, l, k)
    BY <1>2, <1>4, <1>9, ExtendedFacts
  <2> QED
    BY <2>1 DEF ExtendedAs
<1>11. h.held[i][t] = Len(log[i])
  BY <1>2, <1>7 DEF LogInv, Holdings, HeldOK
<1>12. Grows(h, k)
  <2>1. ASSUME NEW u \in Nat, Elected(h, u)
        PROVE  /\ k.leader[u] = h.leader[u] /\ k.start[u] = h.start[u]
               /\ Same(h.log[u], k.log[u], Len(h.log[u]))
    <3>1. CASE u = t
      BY <1>4, <1>7, <1>10, <3>1
    <3>2. CASE u # t
      <4>1. h.log[u] \in Seq(Entry) /\ Len(h.log[u]) \in Nat
        BY RecordTypes
      <4>2. Len(h.log[u]) <= Len(h.log[u])
        BY <4>1
      <4> QED
        BY <1>10, <3>2, <4>1, <4>2, SameSelf
    <3> QED
      BY <3>1, <3>2
  <2>2. ASSUME NEW v \in Server, NEW u \in Nat PROVE h.held[v][u] <= k.held[v][u]
    <3>1. h.held[v][u] \in Nat /\ k.held[v][u] \in Nat
      BY <1>10, RecordTypes
    <3>2. CASE <<v, u>> = <<i, t>>
      BY <1>8, <1>10, <1>11, <3>2
    <3>3. CASE <<v, u>> # <<i, t>>
      BY <1>10, <3>1, <3>3
    <3> QED
      BY <3>2, <3>3
  <2> QED
    BY <2>1, <2>2 DEF Grows
<1>13. Traced(k, l) /\ \A n \in 1..Len(l) : l[n].term <= t
  <2>1. Traced(k, log[i]) /\ \A n \in 1..Len(log[i]) : log[i][n].term <= t
    BY <1>2, <1>10, <1>12, TracedGrows DEF LogInv, LogsTraced, t
  <2> SUFFICES ASSUME NEW n \in 1..Len(l)
               PROVE  /\ Elected(k, l[n].term) /\ k.start[l[n].term] < n
                      /\ Same(l, k.log[l[n].term], n) /\ l[n].term <= t
    BY DEF Traced
  <2>2. CASE n \in 1..Len(log[i])
    <3>1. l[n] = log[i][n] /\ n \in Nat /\ n <= Len(log[i])
      BY <1>4, <2>2 DEF Same
    <3>2. log[i][n].term \in Nat
      BY <1>2, <2>2, EntryTerm
    <3>3. k.log[log[i][n].term] \in Seq(Entry)
      BY <1>10, <3>2, RecordTypes
    <3>4. Same(l, log[i], n)
      BY <1>2, <1>4, <3>1, SameLess, SameSym
    <3>5. Same(log[i], k.log[log[i][n].term], n)
      BY <2>1, <2>2 DEF Traced
    <3>6. n <= n
      BY <3>1
    <3>7. Same(l, k.log[log[i][n].term], n)
      BY <1>2, <1>4, <3>1, <3>3, <3>4, <3>5, <3>6, SameTrans
    <3> QED
      BY <2>1, <2>2, <3>1, <3>7 DEF Traced
  <2>3. CASE n = Len(l)
    <3>1. l[n].term = t
      BY <1>3, <1>4, <2>3
    <3>2. k.start[t] \in Nat /\ k.start[t] <= Len(log[i])
      BY <1>2, <1>7, <1>10, RecordTypes DEF LogInv, TermLogs
    <3>3. k.start[t] < n /\ n \in Nat /\ n <= Len(l) /\ t <= t
      BY <1>2, <1>4, <1>8, <2>3, <3>2
    <3>4. Same(l, l, n)
      BY <1>4, <3>3, SameSelf
    <3> QED
      BY <1>7, <1>10, <3>1, <3>3, <3>4 DEF Elected
  <2> QED
    BY <1>2, <1>4, <2>2, <2>3
<1>14. LogsTraced(k)'
  <2>1. ASSUME NEW x \in Server
        PROVE  /\ Traced(k, log'[x])
               /\ \A n \in 1..Len(log'[x]) : log'[x][n].term <= currentTerm'[x]
    <3>1. CASE x = i
      BY <1>5, <1>6, <1>13, <3>1 DEF t
    <3>2. CASE x # i
      <4>1. log'[x] = log[x] /\ LogsTraced(h)
        BY <1>5, <3>2 DEF LogInv
      <4> QED
        BY <1>10, <1>12, <4>1, TracedStep
    <3> QED
      BY <3>1, <3>2
  <2> QED
    BY <2>1 DEF LogsTraced, Traced, Elected, Same
<1>15. TermLogs(k)
  <2> SUFFICES ASSUME NEW u \in Nat, Elected(k, u)
               PROVE  /\ k.start[u] <= Len(k.log[u]) /\ Traced(k, k.log[u])
                      /\ \A n \in 1..k.start[u] : k.log[u][n].term < u
                      /\ \A n \in (k.start[u] + 1)..Len(k.log[u]) : k.log[u][n].term = u
    BY DEF TermLogs
  <2>0. Elected(h, u)
    BY <1>10 DEF Elected
  <2>1. CASE u # t
    <3>1. /\ k.log[u] = h.log[u] /\ k.start[u] = h.start[u]
          /\ h.log[u] \in Seq(Entry)
      BY <1>10, <2>1, RecordTypes
    <3>2. Traced(k, h.log[u])
      BY <1>10, <1>12, <2>0, <3>1, TracedGrows DEF LogInv, TermLogs
    <3> QED
      BY <2>0, <3>1, <3>2 DEF LogInv, TermLogs
  <2>2. CASE u = t
    <3> DEFINE s == h.start[t]
    <3>1. /\ s \in Nat /\ s <= Len(log[i])
          /\ \A n \in 1..s : log[i][n].term < t
          /\ \A n \in (s + 1)..Len(log[i]) : log[i][n].term = t
      BY <1>2, <1>7, RecordTypes DEF LogInv, TermLogs
    <3> HIDE DEF s
    <3>2. s <= Len(l)
      BY <1>2, <1>8, <3>1
    <3>3. ASSUME NEW n \in 1..s PROVE l[n].term < t
      <4>1. n \in 1..Len(log[i])
        BY <1>2, <3>1
      <4>2. l[n] = log[i][n]
        BY <1>4, <4>1 DEF Same
      <4> QED
        BY <3>1, <4>2
    <3>4. ASSUME NEW n \in (s + 1)..Len(l) PROVE l[n].term = t
      <4>1. CASE n = Len(log[i]) + 1
        BY <1>3, <1>4, <4>1
      <4>2. CASE n # Len(log[i]) + 1
        <5>1. n \in (s + 1)..Len(log[i]) /\ n \in 1..Len(log[i])
          BY <1>2, <1>4, <3>1, <4>2
        <5>2. l[n] = log[i][n]
          BY <1>4, <5>1 DEF Same
        <5> QED
          BY <3>1, <5>1, <5>2
      <4> QED
        BY <4>1, <4>2
    <3> QED
      BY <1>10, <1>13, <2>2, <3>2, <3>3, <3>4 DEF s
  <2> QED
    BY <2>1, <2>2
<1>16. LeadersLogs(k)'
  <2> SUFFICES ASSUME NEW x \in Server, Leading(x)'
               PROVE  k.leader[currentTerm[x]] = x /\ log'[x] = k.log[currentTerm[x]]
    BY <1>6 DEF LeadersLogs
  <2>1. CASE x = i
    BY <1>5, <1>7, <1>10, <2>1 DEF t
  <2>2. CASE x # i
    <3>1. h.leader[currentTerm[x]] = x /\ log[x] = h.log[currentTerm[x]]
      BY <1>6 DEF LogInv, LeadersLogs, Leading
    <3>2. currentTerm[x] \in Nat /\ currentTerm[x] # t
      BY <1>7, <2>2, <3>1, StepTypes
    <3> QED
      BY <1>5, <1>10, <2>2, <3>1, <3>2
  <2> QED
    BY <2>1, <2>2
<1>17. Settled(k)'
  <2>1. ASSUME NEW u \in Nat, Elected(k, u) PROVE SettledAt(k, u)'
    <3>1. Elected(h, u)
      BY <1>10, <2>1 DEF Elected
    <3>2. SettledAt(h, u)'
      BY <3>1, SettledIs, SettledStep DEF LogInv
    <3> QED
      BY <1>10, <1>12, <3>1, <3>2, SettledGrows
  <2> QED
    BY <2>1 DEF Settled, SettledAt, Elected
<1>18. Holdings(k)'
  <2> SUFFICES ASSUME NEW v \in Server, NEW u \in Nat PROVE HeldOK(k, v, u)'
    BY DEF Holdings
  <2>1. CASE v = i /\ u = t
    <3>1. currentTerm'[i] = t /\ log'[i] = l /\ ~(currentTerm'[i] < t)
      BY <1>2, <1>5, <1>6 DEF t
    <3>2. Elected(k, t) /\ Len(l) <= Len(l)
      BY <1>7, <1>8, <1>10 DEF Elected
    <3>3. Same(l, l, Len(l))
      BY <1>4, <1>8, <3>2, SameSelf
    <3> QED
      BY <1>10, <2>1, <3>1, <3>2, <3>3 DEF HeldOK, Elected
  <2>2. CASE v = i /\ u # t
    <3>1. k.held[v][u] = h.held[v][u] /\ k.leader[u] = h.leader[u] /\ k.log[u] = h.log[u]
      BY <1>10, <2>2
    <3>2. HeldOK(h, v, u)
      BY DEF LogInv, Holdings
    <3>3. currentTerm'[v] = currentTerm[v] /\ currentTerm'[v] # u
      BY <1>6, <2>2 DEF t
    <3> QED
      BY <3>1, <3>2, <3>3 DEF HeldOK, Elected
  <2>3. CASE v # i
    <3>1. HeldOK(h, v, u)'
      BY <1>5, <2>3, HeldStep DEF LogInv
    <3>2. k.held[v][u] = h.held[v][u] /\ k.leader[u] = h.leader[u]
      BY <1>10, <2>3
    <3>3. CASE u # t
      <4>1. k.log[u] = h.log[u]
        BY <1>10, <3>3
      <4> QED
        BY <3>1, <3>2, <4>1 DEF HeldOK, Elected
    <3>4. CASE u = t
      <4>1. /\ h.held[v][t] \in Nat /\ h.held[v][t] <= Len(log[i])
        BY <1>2, <1>7, RecordTypes DEF LogInv, Holdings, HeldOK
      <4>2. h.held[v][t] <= Len(k.log[t])
        BY <1>2, <1>8, <1>10, <4>1
      <4>3. log'[v] \in Seq(Entry)
        BY StepTypes
      <4>4. currentTerm'[v] = t => Same(log'[v], k.log[t], h.held[v][t])
        <5> SUFFICES ASSUME currentTerm'[v] = t
                     PROVE  Same(log'[v], k.log[t], h.held[v][t])
          OBVIOUS
        <5>1. Same(log'[v], h.log[t], h.held[v][t])
          BY <3>1, <3>4 DEF HeldOK
        <5> QED
          BY <1>2, <1>7, <1>10, <1>12, <4>1, <4>3, <5>1, SameGrows
      <4>5. v # k.leader[t]
        BY <1>7, <1>10, <2>3
      <4> QED
        BY <3>1, <3>2, <3>4, <4>2, <4>4, <4>5 DEF HeldOK, Elected
    <3> QED
      BY <3>3, <3>4
  <2> QED
    BY <2>1, <2>2, <2>3
<1>19. Messages(k)'
  <2>1. InFlight' \subseteq InFlight \cup {} /\ AllOK(k, {})'
    BY <1>6 DEF AllOK
  <2> QED
    BY <1>10, <1>12, <2>1, MessagesStep DEF LogInv
<1>20. Notes(k)'
  <2> SUFFICES ASSUME NEW x \in Server, NEW y \in Peers(x), Leading(x)'
               PROVE  NoteOK(k, x, y)'
    BY DEF Notes, NoteOK
  <2>0. y \in Server /\ Leading(x)
    BY <1>6 DEF Peers, Leading
  <2>1. NoteOK(h, x, y)
    BY <2>0 DEF LogInv, Notes, NoteOK
  <2>2. /\ currentTerm[x] \in Nat /\ matchIndex[x][y] \in Nat /\ nextIndex[x][y] \in Nat
        /\ Len(log[x]) \in Nat
    BY <1>0, <2>0, NodeTypes
  <2>3. h.held[y][currentTerm[x]] \in Nat /\ k.held[y][currentTerm[x]] \in Nat
        /\ h.held[y][currentTerm[x]] <= k.held[y][currentTerm[x]]
    BY <1>10, <1>12, <2>0, <2>2, RecordTypes DEF Grows
  <2>4. matchIndex[x][y] <= k.held[y][currentTerm[x]]
    BY <2>1, <2>2, <2>3 DEF NoteOK
  <2>5. Len(log'[x]) \in Nat /\ Len(log[x]) <= Len(log'[x])
    BY <1>5, <1>8, <2>2
  <2>6. nextIndex[x][y] <= Len(log'[x]) + 1
    BY <2>1, <2>2, <2>5 DEF NoteOK
  <2> QED
    BY <1>6, <2>1, <2>4, <2>6 DEF NoteOK
<1>21. TermLogs(k)'
  BY <1>15 DEF TermLogs, Traced, Elected, Same
<1>22. LogInv(k)'
  BY <1>14, <1>16, <1>17, <1>18, <1>19, <1>20, <1>21 DEF LogInv
<1> QED
  BY <1>10, <1>12, <1>22

------------------------------------------------------------------------------
(* A request accepted.                                                      *)

LEMMA Interval ==
  ASSUME NEW n \in Nat
  PROVE  IsFiniteSet(1..n) /\ Cardinality(1..n) = n
<1>1. IsFiniteSet(1..n) /\ Cardinality(1..n) = IF 1 > n THEN 0 ELSE n - 1 + 1
  BY FS_Interval
<1> QED
  BY <1>1

LEMMA SeqOf ==
  ASSUME NEW E, NEW n \in Nat, NEW r \in [1..n -> E]
  PROVE  r \in Seq(E) /\ Len(r) = n
<1>1. \E j \in Nat : r \in [1..j -> E]
  OBVIOUS
<1>2. r \in UNION {[1..j -> E] : j \in Nat}
  BY <1>1, Zenon
<1>3. r \in Seq(E)
  BY <1>2, SeqDef, Zenon
<1> QED
  BY <1>3, LenProperties

\* Kept is the beginning of the log of its own length.
LEMMA KeptInterval ==
  ASSUME NEW l \in Seq(Entry), NEW entries \in Seq(Entry), NEW p \in 0..Len(l)
  PROVE  /\ Cardinality(Kept(l, p, entries)) \in p..Len(l)
         /\ \A k \in 1..Len(l) : k \in Kept(l, p, entries)
                                 <=> k <= Cardinality(Kept(l, p, entries))
<1> DEFINE K == Kept(l, p, entries)
<1>1. Len(l) \in Nat /\ p \in Nat /\ p <= Len(l)
  OBVIOUS
<1>2. IsFiniteSet(1..Len(l)) /\ Cardinality(1..Len(l)) = Len(l)
      /\ IsFiniteSet(1..p) /\ Cardinality(1..p) = p
  BY <1>1, Interval
<1>3. K \subseteq 1..Len(l) /\ 1..p \subseteq K
  BY <1>1 DEF Kept
<1>4. IsFiniteSet(K) /\ Cardinality(K) \in Nat /\ Cardinality(K) <= Len(l)
      /\ p <= Cardinality(K)
  BY <1>2, <1>3, FS_Subset, FS_CardinalityType
<1>5. ASSUME NEW k \in 1..Len(l), k \in K PROVE k <= Cardinality(K)
  <2>1. 1..k \subseteq K
    BY <1>1, <1>5 DEF Kept
  <2>2. IsFiniteSet(1..k) /\ Cardinality(1..k) = k
    BY <1>1, FS_Interval
  <2>3. Cardinality(1..k) <= Cardinality(K)
    BY <1>4, <2>1, FS_Subset
  <2> QED
    BY <2>2, <2>3
<1>6. ASSUME NEW k \in 1..Len(l), k \notin K PROVE ~(k <= Cardinality(K))
  <2>1. K \subseteq 1..(k - 1)
    <3> SUFFICES ASSUME NEW m \in K, m >= k PROVE FALSE
      BY <1>1, <1>3
    <3>1. m \in 1..Len(l) /\ k..m \subseteq Int /\ \A q \in (p + 1)..k : q \in (p + 1)..m
      BY <1>1, <1>3
    <3>2. \A q \in (p + 1)..m : q - p <= Len(entries) => l[q].term = entries[q - p].term
      BY DEF Kept
    <3>3. \A q \in (p + 1)..k : q - p <= Len(entries) => l[q].term = entries[q - p].term
      BY <3>1, <3>2
    <3> QED
      BY <1>6, <3>3 DEF Kept
  <2>2. IsFiniteSet(1..(k - 1)) /\ Cardinality(1..(k - 1)) = k - 1
    <3>1. k - 1 \in Nat
      BY <1>1
    <3> QED
      BY <3>1, Interval
  <2>3. Cardinality(K) <= k - 1
    BY <2>1, <2>2, FS_Subset
  <2> QED
    BY <1>1, <1>4, <2>3
<1> QED
  BY <1>1, <1>4, <1>5, <1>6

\* A merge with a piece of a leader's log that the consistency check has let
\* through: nothing changes, or the log becomes the leader's up to the last
\* entry sent.
LEMMA MergeIs ==
  ASSUME NEW h, NEW l \in Seq(Entry), NEW m \in Seq(Entry), Traced(h, l), Traced(h, m),
         NEW p \in Nat, p <= Len(l), p > 0 => l[p].term = m[p].term,
         NEW entries \in Seq(Entry), p + Len(entries) <= Len(m),
         \A n \in 1..Len(entries) : entries[n] = m[p + n]
  PROVE  \/ /\ Same(l, m, p + Len(entries)) /\ Merge(l, p, entries) = l
         \/ /\ Merge(l, p, entries) \in Seq(Entry)
            /\ Len(Merge(l, p, entries)) = p + Len(entries)
            /\ Same(Merge(l, p, entries), m, p + Len(entries))
            /\ ~Same(l, m, p + Len(entries))
<1> DEFINE keep == Cardinality(Kept(l, p, entries))
           end == p + Len(entries)
           last == IF end > keep THEN end ELSE keep
           r == Merge(l, p, entries)
<1>1. /\ Len(l) \in Nat /\ Len(m) \in Nat /\ Len(entries) \in Nat /\ p \in 0..Len(l)
      /\ end \in Nat /\ end <= Len(m)
  OBVIOUS
<1>2. /\ keep \in p..Len(l)
      /\ \A k \in 1..Len(l) : k \in Kept(l, p, entries) <=> k <= keep
  BY <1>1, KeptInterval
<1>3. r = [k \in 1..last |-> IF k <= keep THEN l[k] ELSE entries[k - p]]
  BY DEF Merge
<1> HIDE DEF keep, r
<1>4. keep \in Nat /\ last \in Nat
  BY <1>1, <1>2
<1>5. CASE Same(l, m, end)
  <2>1. end <= Len(l) /\ \A k \in 1..end : l[k] = m[k]
    BY <1>5 DEF Same
  <2>2. ASSUME NEW k \in 1..Len(l) PROVE k \in Kept(l, p, entries)
    <3>1. ASSUME NEW q \in (p + 1)..k, q - p <= Len(entries)
          PROVE  l[q].term = entries[q - p].term
      <4>1. q \in 1..end /\ q - p \in 1..Len(entries) /\ p + (q - p) = q
        BY <1>1, <3>1
      <4>2. l[q] = m[q] /\ entries[q - p] = m[q]
        BY <2>1, <4>1
      <4> QED
        BY <4>2
    <3> QED
      BY <3>1 DEF Kept
  <2>3. keep = Len(l)
    <3>1. CASE Len(l) = 0
      BY <1>1, <1>2, <3>1
    <3>2. CASE Len(l) # 0
      <4>1. Len(l) \in 1..Len(l)
        BY <1>1, <3>2
      <4>2. Len(l) <= keep
        BY <1>2, <2>2, <4>1
      <4> QED
        BY <1>1, <1>2, <1>4, <4>2
    <3> QED
      BY <3>1, <3>2
  <2>4. last = Len(l)
    BY <1>1, <2>1, <2>3
  <2>5. r = [k \in 1..Len(l) |-> l[k]]
    BY <1>1, <1>3, <2>3, <2>4
  <2>6. r = l
    BY <1>1, <2>5
  <2> QED
    BY <1>5, <2>6 DEF r
<1>6. CASE ~Same(l, m, end)
  <2>1. ASSUME NEW b \in Nat, b <= keep, b <= end, b >= p PROVE Same(l, m, b)
    <3>1. CASE b = p
      BY <1>1, <3>1, TracedAgree
    <3>2. CASE b # p
      <4>1. b \in 1..Len(l) /\ b \in (p + 1)..b /\ b - p \in 1..Len(entries)
            /\ b <= Len(l) /\ b <= Len(m) /\ p + (b - p) = b
        BY <1>1, <1>2, <2>1, <3>2
      <4>2. b \in Kept(l, p, entries)
        BY <1>2, <2>1, <4>1
      <4>3. b - p <= Len(entries) => l[b].term = entries[b - p].term
        BY <4>1, <4>2 DEF Kept
      <4>4. l[b].term = m[b].term
        <5>1. entries[b - p] = m[p + (b - p)]
          BY <4>1
        <5>2. b - p <= Len(entries)
          BY <1>1, <2>1, <4>1
        <5> QED
          BY <4>1, <4>3, <5>1, <5>2
      <4> QED
        BY <4>1, <4>4, TracedAgree
    <3> QED
      BY <3>1, <3>2
  <2>2. keep < end
    <3> SUFFICES ASSUME end <= keep PROVE FALSE
      BY <1>1, <1>4
    <3>1. Same(l, m, end)
      BY <1>1, <2>1
    <3> QED
      BY <1>6, <3>1
  <2>3. last = end
    BY <1>1, <1>4, <2>2
  <2>4. r = [k \in 1..end |-> IF k <= keep THEN l[k] ELSE entries[k - p]]
    BY <1>3, <2>3
  <2>5. Same(l, m, keep)
    <3>1. keep <= keep /\ keep <= end /\ keep >= p
      BY <1>1, <1>2, <1>4, <2>2
    <3> QED
      BY <1>4, <2>1, <3>1
  <2>6. ASSUME NEW k \in 1..end PROVE r[k] = m[k] /\ m[k] \in Entry
    <3>0. k \in 1..Len(m) /\ m[k] \in Entry
      BY <1>1, ElementOfSeq
    <3>1. CASE k <= keep
      <4>1. k \in 1..keep
        BY <1>1, <1>4, <3>1
      <4> QED
        BY <2>4, <2>5, <3>0, <3>1, <4>1 DEF Same
    <3>2. CASE ~(k <= keep)
      <4>1. k - p \in 1..Len(entries) /\ p + (k - p) = k
        BY <1>1, <1>2, <3>2
      <4> QED
        BY <2>4, <3>0, <3>2, <4>1
    <3> QED
      BY <3>1, <3>2
  <2>7. DOMAIN r = 1..end
    BY <2>4
  <2>8. r \in [1..end -> Entry]
    BY <2>4, <2>6
  <2>9. r \in Seq(Entry) /\ Len(r) = end
    <3> HIDE DEF end
    <3> QED
      BY <1>1, <2>8, SeqOf
  <2>10. Same(r, m, end)
    BY <1>1, <2>6, <2>9 DEF Same
  <2> QED
    BY <1>6, <2>9, <2>10 DEF r
<1> QED
  BY <1>5, <1>6

Missed(f) == PrevMismatch(log[f.to], f.req.prev_log_index, f.req.prev_log_term)

\* What accepting a request does to the node and to its log.
Accepted(h, f) ==
  LET i == f.to
      t == f.req.term
  IN  /\ f \in Thread /\ f.pc = "ae_request" /\ i \in Server /\ t \in Nat
      /\ RequestOK(h, f) /\ Elected(h, t) /\ i # h.leader[t] /\ Last(f) \in Nat
      /\ currentTerm[i] <= t /\ currentTerm'[i] = t /\ currentRole'[i] = "Follower"
      /\ \A x \in Server : x # i => /\ currentTerm'[x] = currentTerm[x]
                                    /\ currentRole'[x] = currentRole[x]
                                    /\ log'[x] = log[x]
      /\ UNCHANGED leadVars
      /\ Missed(f) => log'[i] = log[i]
      /\ ~Missed(f) =>
           /\ Same(log'[i], h.log[t], Last(f))
           /\ \/ log'[i] = log[i]
              \/ Len(log'[i]) = Last(f) /\ ~Same(log[i], h.log[t], Last(f))

LEMMA AcceptFacts ==
  ASSUME Step, NEW h \in History, LogInv(h), NEW f \in InFlight, AcceptEntries(f)
  PROVE  Accepted(h, f)
<1> DEFINE i == f.to
           t == f.req.term
           l == log[i]
           m == h.log[t]
           p == f.req.prev_log_index
           entries == f.req.entries
<1>0. TypeOK /\ f \in Thread /\ f.pc = "ae_request"
  BY DEF Step, TypeInv, TypeOK, AcceptEntries
<1>1. /\ i \in Server /\ t \in Nat /\ p \in Nat /\ entries \in Seq(Entry)
      /\ Len(entries) \in Nat /\ f.req.prev_log_term \in Nat /\ Last(f) \in Nat
  BY <1>0, MessageTypes
<1>2. RequestOK(h, f)
  BY <1>0 DEF LogInv, Messages, MessageOK
<1>3. Elected(h, t) /\ i # h.leader[t]
  BY <1>2 DEF RequestOK
<1>4. /\ currentTerm[i] \in Nat /\ l \in Seq(Entry) /\ Len(l) \in Nat
      /\ m \in Seq(Entry) /\ Len(m) \in Nat
  BY <1>1, StepTypes, RecordTypes
<1> DEFINE newLog == IF Missed(f) \/ entries = <<>> THEN l ELSE Merge(l, p, entries)
<1>5. /\ f.req.term >= currentTerm[i]
      /\ currentTerm' = [currentTerm EXCEPT ![i] = NewerTerm(i, f.req.term)]
      /\ currentRole' = [currentRole EXCEPT ![i] = "Follower"]
      /\ log' = [log EXCEPT ![i] = newLog]
      /\ UNCHANGED leadVars
  BY DEF AcceptEntries, Missed
<1>6. currentTerm[i] <= t /\ NewerTerm(i, f.req.term) = t
  BY <1>1, <1>4, <1>5 DEF NewerTerm
<1> HIDE DEF newLog
<1>7. /\ currentTerm'[i] = t /\ currentRole'[i] = "Follower" /\ log'[i] = newLog
      /\ \A x \in Server : x # i => /\ currentTerm'[x] = currentTerm[x]
                                    /\ currentRole'[x] = currentRole[x]
                                    /\ log'[x] = log[x]
  BY <1>0, <1>1, <1>5, <1>6 DEF TypeOK
<1>8. Missed(f) => newLog = l
  BY DEF newLog
<1>9. ASSUME ~Missed(f)
      PROVE  /\ Same(newLog, m, Last(f))
             /\ newLog = l \/ (Len(newLog) = Last(f) /\ ~Same(l, m, Last(f)))
  <2>1. /\ Last(f) = p + Len(entries) /\ p + Len(entries) <= Len(m)
        /\ \A n \in 1..Len(entries) : entries[n] = m[p + n]
        /\ p > 0 => f.req.prev_log_term = m[p].term
    BY <1>2 DEF RequestOK, Last
  <2>2. p <= Len(l) /\ (p > 0 => l[p].term = m[p].term)
    BY <1>1, <1>4, <1>9, <2>1 DEF Missed, PrevMismatch
  <2>3. Traced(h, l) /\ Traced(h, m)
    BY <1>1, <1>3 DEF LogInv, LogsTraced, TermLogs
  <2>4. CASE entries = <<>>
    <3>1. Last(f) = p /\ newLog = l /\ p <= Len(m)
      BY <1>1, <1>4, <2>1, <2>4 DEF newLog
    <3>2. p > 0 => p <= Len(l) /\ p <= Len(m) /\ l[p].term = m[p].term
      BY <2>2, <3>1
    <3>3. Same(l, m, p)
      BY <1>1, <1>4, <2>3, <3>2, TracedAgree
    <3> QED
      BY <3>1, <3>3
  <2>5. CASE entries # <<>>
    <3>1. newLog = Merge(l, p, entries)
      BY <1>9, <2>5 DEF newLog
    <3> HIDE DEF l, m, p, entries
    <3>2. \/ Same(l, m, p + Len(entries)) /\ Merge(l, p, entries) = l
          \/ /\ Merge(l, p, entries) \in Seq(Entry)
             /\ Len(Merge(l, p, entries)) = p + Len(entries)
             /\ Same(Merge(l, p, entries), m, p + Len(entries))
             /\ ~Same(l, m, p + Len(entries))
      BY <1>1, <1>4, <2>1, <2>2, <2>3, MergeIs
    <3> QED
      BY <2>1, <3>1, <3>2
  <2> QED
    BY <2>4, <2>5
<1> QED
  BY <1>0, <1>1, <1>2, <1>3, <1>5, <1>6, <1>7, <1>8, <1>9 DEF Accepted

\* A beginning of the leader's log that the node has had is still there.
LEMMA AcceptKeeps ==
  ASSUME Step, NEW h \in History, NEW f, Accepted(h, f), NEW n \in Nat,
         Same(log[f.to], h.log[f.req.term], n)
  PROVE  Same(log'[f.to], h.log[f.req.term], n)
<1> DEFINE i == f.to
           m == h.log[f.req.term]
<1>1. log[i] \in Seq(Entry) /\ log'[i] \in Seq(Entry) /\ m \in Seq(Entry) /\ Last(f) \in Nat
  BY StepTypes, RecordTypes DEF Accepted
<1>2. CASE log'[i] = log[i]
  BY <1>2
<1>3. CASE log'[i] # log[i]
  <2>1. Same(log'[i], m, Last(f)) /\ ~Same(log[i], m, Last(f))
    BY <1>3 DEF Accepted
  <2>2. n <= Last(f)
    <3> SUFFICES ASSUME Last(f) <= n PROVE FALSE
      BY <1>1
    <3> HIDE DEF m
    <3> QED
      BY <1>1, <2>1, SameLess DEF m
  <2> QED
    BY <1>1, <2>1, <2>2, SameLess
<1> QED
  BY <1>2, <1>3

\* The record after a request: the node has had what was sent.
AcceptRecord(h, f) == IF Missed(f) THEN h ELSE Noted(h, f.req.term, f.to, Last(f))

\* The thread that carries the reply.
Answered(f, g) ==
  /\ InFlight' \subseteq InFlight \cup {g}
  /\ g.pc = "ae_reply" /\ g.from = f.from /\ g.to = f.to /\ g.sent = f.sent
  /\ g.reply.success = ~Missed(f)
  /\ g.reply.conflict_info = IF Missed(f)
                             THEN ConflictInfo(log[f.to], f.req.prev_log_index)
                             ELSE NoConflict

LEMMA AcceptAnswer ==
  ASSUME TypeOK, NEW f \in InFlight, AcceptEntries(f)
  PROVE  \E g : Answered(f, g)
<1> DEFINE c == IF Missed(f) THEN ConflictInfo(log[f.to], f.req.prev_log_index)
                ELSE NoConflict
<1>1. PICK r : Resume(f, {[pc |-> "ae_reply", from |-> f.from, to |-> f.to,
                           sent |-> f.sent,
                           reply |-> [term |-> r, success |-> ~Missed(f),
                                      conflict_info |-> c]]})
  BY DEF AcceptEntries, Missed
<1>2. PICK g : g = [pc |-> "ae_reply", from |-> f.from, to |-> f.to,
                    sent |-> f.sent,
                    reply |-> [term |-> r, success |-> ~Missed(f),
                               conflict_info |-> c]]
  OBVIOUS
<1>3. IsABag(threads)
  BY DEF TypeOK
<1>4. InFlight' \subseteq InFlight \cup {g}
  BY <1>1, <1>2, <1>3, ResumeFacts
<1> QED
  BY <1>2, <1>4 DEF Answered

\* A conflict is reported only to a leader that knows nothing of this log, and
\* at or before the previous entry.
LEMMA ConflictBelow ==
  ASSUME NEW l \in Seq(Entry), NEW p \in Nat, NEW q, PrevMismatch(l, p, q)
  PROVE  ConflictInfo(l, p).conflict_index <= p
<1>1. p > 0 /\ Len(l) \in Nat
  BY DEF PrevMismatch
<1>2. CASE p > Len(l)
  BY <1>1, <1>2 DEF ConflictInfo
<1>3. CASE p <= Len(l)
  <2>1. p \in TermRun(l, p) /\ TermRun(l, p) \subseteq 1..p
    BY <1>1 DEF TermRun
  <2>2. IsFiniteSet(TermRun(l, p)) /\ Cardinality(TermRun(l, p)) \in Nat
    BY <2>1, Interval, FS_Subset, FS_CardinalityType
  <2>3. Cardinality(TermRun(l, p)) # 0
    BY <2>1, <2>2, FS_EmptySet
  <2>4. ~(p > Len(l))
    BY <1>1, <1>3
  <2>5. ConflictInfo(l, p).conflict_index = p - Cardinality(TermRun(l, p)) + 1
    BY <2>4 DEF ConflictInfo
  <2> QED
    BY <2>2, <2>3, <2>5
<1> QED
  BY <1>1, <1>2, <1>3

LEMMA MissedMatch ==
  ASSUME Step, NEW h \in History, LogInv(h), NEW f \in InFlight, Accepted(h, f), Missed(f)
  PROVE  f.sent.match = 0
<1> DEFINE i == f.to
           t == f.req.term
           p == f.req.prev_log_index
<1>1. /\ f \in Thread /\ f.pc = "ae_request" /\ i \in Server /\ t \in Nat
      /\ RequestOK(h, f) /\ currentTerm[i] <= t
  BY DEF Accepted
<1>2. p \in Nat /\ f.sent.match \in Nat /\ p > 0
  BY <1>1, MessageTypes DEF Missed, PrevMismatch
<1>3. h.held[i][t] \in Nat /\ currentTerm[i] \in Nat
  BY <1>1, RecordTypes, StepTypes
<1> SUFFICES ASSUME f.sent.match # 0 PROVE FALSE
  OBVIOUS
<1>4. f.sent.match = p /\ p <= h.held[i][t]
  BY <1>1 DEF RequestOK
<1>5. HeldOK(h, i, t)
  BY <1>1 DEF LogInv, Holdings
<1>6. ~(currentTerm[i] < t)
  BY <1>2, <1>3, <1>4, <1>5 DEF HeldOK
<1>7. currentTerm[i] = t
  BY <1>1, <1>3, <1>6
<1>8. Same(log[i], h.log[t], h.held[i][t])
  BY <1>5, <1>7 DEF HeldOK
<1>9. p \in 1..h.held[i][t]
  BY <1>2, <1>3, <1>4
<1>10. log[i][p] = h.log[t][p] /\ h.held[i][t] <= Len(log[i])
  BY <1>8, <1>9 DEF Same
<1>11. f.req.prev_log_term = h.log[t][p].term
  BY <1>1, <1>2 DEF RequestOK
<1>12. Len(log[i]) \in Nat
  BY <1>1, StepTypes
<1>13. p <= Len(log[i])
  BY <1>2, <1>3, <1>4, <1>10, <1>12
<1> QED
  BY <1>10, <1>11, <1>13 DEF Missed, PrevMismatch

LEMMA AcceptMissed ==
  ASSUME Step, NEW h \in History, LogInv(h), NEW f \in InFlight, AcceptEntries(f),
         Missed(f)
  PROVE  LogInv(h)'
<1>0. TypeOK /\ TypeOK'
  BY DEF Step, TypeInv
<1>1. LeadersStay
  BY <1>0, VoteOther DEF Step, AppendEntries
<1>2. Accepted(h, f)
  BY AcceptFacts
<1>3. UNCHANGED <<log, nextIndex, matchIndex>>
  <2>1. UNCHANGED <<nextIndex, matchIndex>> /\ \A x \in Server : log'[x] = log[x]
    BY <1>2 DEF Accepted, leadVars
  <2>2. log \in [Server -> Seq(Entry)] /\ log' \in [Server -> Seq(Entry)]
    BY <1>0 DEF TypeOK
  <2> QED
    BY <2>1, <2>2
<1>4. PICK g : Answered(f, g)
  BY <1>0, AcceptAnswer
<1>5. f \in Thread /\ f.pc = "ae_request" /\ RequestOK(h, f) /\ f.to \in Server
  BY <1>2 DEF Accepted
<1>6. Acked(f) = Last(f)
  BY <1>5, AckedLast
<1>7. f.sent.match = 0
  BY <1>2, MissedMatch
<1>8. g.reply.conflict_info.conflict_index < g.sent.next
  <2> DEFINE p == f.req.prev_log_index
  <2>1. /\ g.reply.conflict_info = ConflictInfo(log[f.to], p)
        /\ g.sent.next = p + 1 /\ log[f.to] \in Seq(Entry)
    BY <1>4, <1>5, StepTypes DEF Answered, RequestOK
  <2>2. p \in Nat
    BY <1>5, MessageTypes
  <2>3. ConflictInfo(log[f.to], p).conflict_index <= p
    BY <2>1, <2>2, ConflictBelow DEF Missed
  <2>4. p > 0
    BY DEF Missed, PrevMismatch
  <2>5. ConflictInfo(log[f.to], p) \in Conflict
    BY <2>1, <2>2, <2>4, ConflictInfoType
  <2>6. ConflictInfo(log[f.to], p).conflict_index \in Nat
    BY <2>5 DEF Conflict, NoConflict
  <2> HIDE DEF p
  <2> QED
    BY <2>1, <2>2, <2>3, <2>6
<1>9. ReplyOK(h, g)
  <2>1. /\ g.pc = "ae_reply" /\ g.from = f.from /\ g.to = f.to /\ g.sent = f.sent
        /\ ~g.reply.success
    BY <1>4 DEF Answered
  <2> QED
    BY <1>5, <1>6, <1>7, <1>8, <2>1 DEF RequestOK, ReplyOK, Acked
<1>10. AllOK(h, {g})'
  BY <1>4, <1>9 DEF AllOK, MessageOK, ReplyOK, Elected, Acked, Answered
<1>11. InFlight' \subseteq InFlight \cup {g}
  BY <1>4 DEF Answered
<1>12. Notes(h)'
  BY <1>1, <1>3, NotesKept DEF LogInv
<1> QED
  BY <1>1, <1>3, <1>10, <1>11, <1>12, QuietLogs

LEMMA AcceptNoted ==
  ASSUME Step, NEW h \in History, LogInv(h), NEW f \in InFlight, AcceptEntries(f),
         ~Missed(f), NEW k, k = Noted(h, f.req.term, f.to, Last(f))
  PROVE  k \in History /\ Grows(h, k) /\ LogInv(k)'
<1> DEFINE i == f.to
           t == f.req.term
           n == Last(f)
<1>0. TypeOK /\ TypeOK'
  BY DEF Step, TypeInv
<1>1. Accepted(h, f)
  BY AcceptFacts
<1>2. /\ f \in Thread /\ f.pc = "ae_request" /\ i \in Server /\ t \in Nat
      /\ RequestOK(h, f) /\ Elected(h, t) /\ i # h.leader[t] /\ n \in Nat
      /\ currentTerm[i] <= t /\ currentTerm'[i] = t /\ currentRole'[i] = "Follower"
      /\ \A x \in Server : x # i => /\ currentTerm'[x] = currentTerm[x]
                                    /\ currentRole'[x] = currentRole[x]
                                    /\ log'[x] = log[x]
      /\ UNCHANGED leadVars
  BY <1>1 DEF Accepted
<1>3. /\ Same(log'[i], h.log[t], n)
      /\ log'[i] = log[i] \/ Len(log'[i]) = n
  BY <1>1 DEF Accepted
<1>4. /\ currentTerm[i] \in Nat /\ log[i] \in Seq(Entry) /\ log'[i] \in Seq(Entry)
      /\ h.log[t] \in Seq(Entry) /\ Len(h.log[t]) \in Nat /\ h.held[i][t] \in Nat
  BY <1>2, StepTypes, RecordTypes
<1>5. /\ k \in History /\ k.leader = h.leader /\ k.start = h.start /\ k.log = h.log
      /\ k.held[i][t] \in {n, h.held[i][t]}
      /\ n <= k.held[i][t] /\ h.held[i][t] <= k.held[i][t]
      /\ \A w \in Server : \A u \in Nat :
           <<w, u>> # <<i, t>> => k.held[w][u] = h.held[w][u]
  <2>1. NotedAs(h, t, i, n, k)
    BY <1>2, NotedFacts
  <2> QED
    BY <2>1 DEF NotedAs
<1> HIDE DEF n
<1>6. Grows(h, k)
  <2>1. ASSUME NEW u \in Nat, Elected(h, u)
        PROVE  Same(h.log[u], k.log[u], Len(h.log[u]))
    BY <1>5, <2>1, GrowsSelf DEF Grows
  <2>2. ASSUME NEW v \in Server, NEW u \in Nat PROVE h.held[v][u] <= k.held[v][u]
    <3>1. h.held[v][u] \in Nat
      BY RecordTypes
    <3>2. CASE <<v, u>> = <<i, t>>
      BY <1>5, <3>2
    <3>3. CASE <<v, u>> # <<i, t>>
      BY <1>5, <3>1, <3>3
    <3> QED
      BY <3>2, <3>3
  <2> QED
    BY <1>5, <2>1, <2>2 DEF Grows
<1>7. ASSUME NEW l PROVE Traced(h, l) <=> Traced(k, l)
  BY <1>5 DEF Traced, Elected
<1>8. Traced(h, log'[i]) /\ \A q \in 1..Len(log'[i]) : log'[i][q].term <= t
  <2>1. CASE log'[i] = log[i]
    <3>1. Traced(h, log[i]) /\ \A q \in 1..Len(log[i]) : log[i][q].term <= currentTerm[i]
      BY <1>2 DEF LogInv, LogsTraced
    <3>2. \A q \in 1..Len(log[i]) : log[i][q].term \in Nat
      BY <1>4, EntryTerm
    <3>3. \A q \in 1..Len(log[i]) : log[i][q].term <= t
      BY <1>2, <1>4, <3>1, <3>2
    <3> QED
      BY <2>1, <3>1, <3>3
  <2>2. CASE Len(log'[i]) = n
    <3>1. Traced(h, log'[i])
      BY <1>2, <1>3, <1>4, <2>2, TracedBeginning DEF LogInv, TermLogs
    <3>2. ASSUME NEW q \in 1..Len(log'[i]) PROVE log'[i][q].term <= t
      <4>1. log'[i][q] = h.log[t][q] /\ q \in 1..Len(h.log[t])
        BY <1>2, <1>3, <1>4, <2>2 DEF Same
      <4>2. h.log[t][q].term <= t
        <5>1. /\ h.start[t] \in Nat
              /\ \A j \in 1..h.start[t] : h.log[t][j].term < t
              /\ \A j \in (h.start[t] + 1)..Len(h.log[t]) : h.log[t][j].term = t
          BY <1>2, RecordTypes DEF LogInv, TermLogs
        <5>2. q \in 1..h.start[t] \/ q \in (h.start[t] + 1)..Len(h.log[t])
          BY <1>4, <4>1, <5>1
        <5>3. h.log[t][q].term \in Nat
          BY <1>4, <4>1, EntryTerm
        <5>4. h.log[t][q].term < t \/ h.log[t][q].term = t
          BY <5>1, <5>2
        <5> QED
          BY <1>2, <5>3, <5>4
      <4> QED
        BY <4>1, <4>2
    <3> QED
      BY <3>1, <3>2
  <2> QED
    BY <1>3, <2>1, <2>2
<1>9. LogsTraced(k)'
  <2>1. ASSUME NEW x \in Server
        PROVE  /\ Traced(k, log'[x])
               /\ \A q \in 1..Len(log'[x]) : log'[x][q].term <= currentTerm'[x]
    <3>1. CASE x = i
      BY <1>2, <1>7, <1>8, <3>1
    <3>2. CASE x # i
      <4>1. log'[x] = log[x] /\ LogsTraced(h)
        BY <1>2, <3>2 DEF LogInv
      <4> QED
        BY <1>5, <1>6, <4>1, TracedStep
    <3> QED
      BY <3>1, <3>2
  <2> QED
    BY <2>1 DEF LogsTraced, Traced, Elected, Same
<1>10. TermLogs(k)
  BY <1>5, <1>7 DEF LogInv, TermLogs, Elected
<1>11. LeadersLogs(k)'
  <2> SUFFICES ASSUME NEW x \in Server, Leading(x)'
               PROVE  k.leader[currentTerm'[x]] = x /\ log'[x] = k.log[currentTerm'[x]]
    BY DEF LeadersLogs
  <2>1. x # i
    BY <1>2 DEF Leading
  <2>2. Leading(x) /\ currentTerm'[x] = currentTerm[x] /\ log'[x] = log[x]
    BY <1>2, <2>1 DEF Leading
  <2> QED
    BY <1>5, <2>2 DEF LogInv, LeadersLogs
<1>12. Settled(k)'
  <2>1. ASSUME NEW u \in Nat, Elected(k, u) PROVE SettledAt(k, u)'
    <3>1. Elected(h, u)
      BY <1>5, <2>1 DEF Elected
    <3>2. SettledAt(h, u)'
      BY <3>1, SettledIs, SettledStep DEF LogInv
    <3> QED
      BY <1>5, <1>6, <3>1, <3>2, SettledGrows
  <2> QED
    BY <2>1 DEF Settled, SettledAt, Elected
<1>13. Holdings(k)'
  <2> SUFFICES ASSUME NEW v \in Server, NEW u \in Nat PROVE HeldOK(k, v, u)'
    BY DEF Holdings
  <2>1. CASE v = i /\ u = t
    <3>1. HeldOK(h, i, t)
      BY <1>2 DEF LogInv, Holdings
    <3>2. ~(currentTerm'[i] < t)
      BY <1>2
    <3>3. n <= Len(h.log[t]) /\ h.held[i][t] <= Len(h.log[t])
      BY <1>2, <3>1 DEF RequestOK, HeldOK, n
    <3>4. Same(log'[i], h.log[t], h.held[i][t])
      <4>1. CASE currentTerm[i] = t
        BY <1>1, <1>4, <3>1, <4>1, AcceptKeeps DEF HeldOK
      <4>2. CASE currentTerm[i] < t
        BY <1>4, <3>1, <4>2, SameNone DEF HeldOK
      <4> QED
        BY <1>2, <1>4, <4>1, <4>2
    <3>5. Same(log'[i], h.log[t], k.held[i][t]) /\ k.held[i][t] <= Len(h.log[t])
      BY <1>3, <1>5, <3>3, <3>4
    <3>6. Elected(k, t) /\ i # k.leader[t]
      BY <1>2, <1>5 DEF Elected
    <3> QED
      BY <1>2, <1>5, <2>1, <3>2, <3>5, <3>6 DEF HeldOK, Elected
  <2>2. CASE v = i /\ u # t
    <3>1. HeldOK(h, i, u)
      BY <1>2 DEF LogInv, Holdings
    <3>2. k.held[i][u] = h.held[i][u]
      BY <1>2, <1>5, <2>2
    <3>3. currentTerm'[i] < u => currentTerm[i] < u
      BY <1>2, <1>4
    <3>4. currentTerm'[i] # u
      BY <1>2, <2>2
    <3> QED
      BY <1>5, <2>2, <3>1, <3>2, <3>3, <3>4 DEF HeldOK, Elected
  <2>3. CASE v # i
    <3>1. HeldOK(h, v, u)'
      BY <1>2, <2>3, HeldStep DEF LogInv
    <3>2. k.held[v][u] = h.held[v][u]
      BY <1>5, <2>3
    <3> QED
      BY <1>5, <3>1, <3>2 DEF HeldOK, Elected
  <2> QED
    BY <2>1, <2>2, <2>3
<1>14. PICK g : Answered(f, g)
  BY <1>0, AcceptAnswer
<1>15. /\ g.pc = "ae_reply" /\ g.from = f.from /\ g.to = f.to /\ g.sent = f.sent
       /\ g.reply.success /\ g.reply.conflict_info = NoConflict
       /\ InFlight' \subseteq InFlight \cup {g}
  BY <1>14 DEF Answered
<1>16. Acked(f) = n
  BY <1>2, AckedLast DEF n
<1>17. ReplyOK(k, g)
  <2>1. RequestOK(k, f)
    BY <1>2, <1>5, <1>6, RequestGrows
  <2>2. /\ Elected(k, f.req.term) /\ k.leader[f.req.term] = f.from /\ f.to # f.from
        /\ f.sent.term = f.req.term /\ f.sent.logSize = Last(f)
        /\ Last(f) <= Len(k.log[f.req.term])
    BY <2>1 DEF RequestOK
  <2>3. Acked(g) = Last(f)
    BY <1>15, <1>16 DEF Acked, n
  <2>4. Last(f) <= k.held[f.to][f.req.term]
    BY <1>5 DEF n, i, t
  <2> QED
    BY <1>15, <2>2, <2>3, <2>4 DEF ReplyOK
<1>18. AllOK(k, {g})'
  BY <1>15, <1>17 DEF AllOK, MessageOK, ReplyOK, Elected, Acked
<1>19. Messages(k)'
  BY <1>5, <1>6, <1>15, <1>18, MessagesStep DEF LogInv
<1>20. Notes(k)'
  <2> SUFFICES ASSUME NEW x \in Server, NEW y \in Peers(x), Leading(x)'
               PROVE  NoteOK(k, x, y)'
    BY DEF Notes, NoteOK
  <2>1. x # i /\ y \in Server
    BY <1>2 DEF Leading, Peers
  <2>2. /\ Leading(x) /\ currentTerm'[x] = currentTerm[x] /\ log'[x] = log[x]
        /\ nextIndex'[x][y] = nextIndex[x][y] /\ matchIndex'[x][y] = matchIndex[x][y]
    BY <1>2, <2>1 DEF Leading, leadVars
  <2>3. NoteOK(h, x, y)
    BY <2>2 DEF LogInv, Notes, NoteOK
  <2>4. currentTerm[x] \in Nat /\ matchIndex[x][y] \in Nat
    BY <1>0, <2>1, NodeTypes
  <2>5. h.held[y][currentTerm[x]] \in Nat /\ k.held[y][currentTerm[x]] \in Nat
        /\ h.held[y][currentTerm[x]] <= k.held[y][currentTerm[x]]
    BY <1>5, <1>6, <2>1, <2>4, RecordTypes DEF Grows
  <2>6. matchIndex[x][y] <= k.held[y][currentTerm[x]]
    BY <2>3, <2>4, <2>5 DEF NoteOK
  <2> QED
    BY <2>2, <2>3, <2>6 DEF NoteOK
<1>21. TermLogs(k)'
  BY <1>10 DEF TermLogs, Traced, Elected, Same
<1>22. LogInv(k)'
  BY <1>9, <1>11, <1>12, <1>13, <1>19, <1>20, <1>21 DEF LogInv
<1> QED
  BY <1>5, <1>6, <1>22

LEMMA LogsAccept ==
  ASSUME Step, NEW h \in History, LogInv(h), NEW f \in InFlight, AcceptEntries(f),
         NEW k, k = AcceptRecord(h, f)
  PROVE  k \in History /\ Grows(h, k) /\ LogInv(k)'
  BY AcceptMissed, AcceptNoted, GrowsSelf DEF AcceptRecord

------------------------------------------------------------------------------
(* Every step.                                                              *)

\* Everything but a won election, a proposal and a request accepted leaves the
\* record as it is.
Recorded(f) == (CountVote(f) /\ Winning(f)) \/ AcceptEntries(f)

LEMMA LogsThread ==
  ASSUME Step, NEW h \in History, LogInv(h), NEW f \in InFlight, ThreadStep(f),
         ~Recorded(f)
  PROVE  LogInv(h)'
<1>1. CASE CountVote(f)
  <2>1. /\ UNCHANGED <<currentTerm, currentRole, logVars, leadVars>>
        /\ InFlight' \subseteq InFlight
    BY <1>1, CountVoteCases DEF Recorded
  <2>2. LeadersStay /\ UNCHANGED <<log, nextIndex, matchIndex>>
    BY <2>1 DEF LeadersStay, Leading, logVars, leadVars
  <2>3. InFlight' \subseteq InFlight \cup {} /\ Unrelated({})
    BY <2>1 DEF Unrelated
  <2> QED
    BY <2>2, <2>3, QuietThreads
<1>2. CASE BecomeCandidate(f) \/ RequestVotes(f) \/ PrepareVote(f) \/ ReplyVote(f)
           \/ DropVote(f) \/ RpcFail(f) \/ SkipReply(f) \/ StepDown(f) \/ IgnoreReply(f)
  BY <1>2, LogsElection
<1>3. CASE PrepareEntries(f) \/ RefuseEntries(f) \/ BackUp(f) \/ Acknowledge(f)
  BY <1>3, LogsPrepare, LogsRefuse, LogsBackUp, LogsAcknowledge
<1> QED
  BY <1>1, <1>2, <1>3
  DEF ThreadStep, HandleVoteReply, AppendEntries, HandleAppendReply, Recorded

LEMMA LogsStutter ==
  ASSUME Step, NEW h \in History, LogInv(h), UNCHANGED vars
  PROVE  LogInv(h)'
<1>1. LeadersStay /\ UNCHANGED <<log, nextIndex, matchIndex>>
  BY DEF vars, electVars, logVars, leadVars, LeadersStay, Leading
<1>2. InFlight' \subseteq InFlight \cup {} /\ Unrelated({})
  BY DEF vars, InFlight, Unrelated
<1> QED
  BY <1>1, <1>2, QuietThreads

LEMMA LogStep ==
  ASSUME OddCluster, Step, [PromptNext]_vars, NEW h \in History, LogInv(h)
  PROVE  \E k \in History : LogInv(k)'
<1>1. CASE UNCHANGED vars
  BY <1>1, LogsStutter
<1>2. ASSUME NEW i \in Server, NodeStep(i) PROVE \E k \in History : LogInv(k)'
  <2>1. CASE Run(i) \/ ElectionTimeout(i) \/ HeartbeatTimeout(i)
    BY <2>1, LogsNode
  <2>2. ASSUME NEW c \in Command, Propose(i, c) PROVE \E k \in History : LogInv(k)'
    <3>1. PICK k : k = Extended(h, currentTerm[i], i, log'[i])
      OBVIOUS
    <3> QED
      BY <2>2, <3>1, LogsPropose
  <2> QED
    BY <1>2, <2>1, <2>2 DEF NodeStep
<1>3. ASSUME NEW f \in InFlight, ThreadStep(f) PROVE \E k \in History : LogInv(k)'
  <2>1. CASE ~Recorded(f)
    BY <1>3, <2>1, LogsThread
  <2>2. CASE Winning(f)
    <3>1. PICK k : k = Founded(h, currentTerm[f.from], f.from, log[f.from])
      OBVIOUS
    <3> QED
      BY <2>2, <3>1, LogsWon
  <2>3. CASE AcceptEntries(f)
    <3>1. PICK k : k = AcceptRecord(h, f)
      OBVIOUS
    <3> QED
      BY <2>3, <3>1, LogsAccept
  <2> QED
    BY <2>1, <2>2, <2>3 DEF Recorded
<1> QED
  BY <1>1, <1>2, <1>3 DEF PromptNext, Next

Empty == [leader |-> [t \in Nat |-> None], start |-> [t \in Nat |-> 0],
          log |-> [t \in Nat |-> <<>>], held |-> [v \in Server |-> [t \in Nat |-> 0]]]

LEMMA EmptyFacts ==
  /\ Empty \in History
  /\ \A t \in Nat : ~Elected(Empty, t) /\ \A v \in Server : Empty.held[v][t] = 0
<1>1. <<>> \in Seq(Entry)
  BY EmptySeq
<1>2. HistoryFacts(Empty)
  BY <1>1 DEF HistoryFacts, Empty
<1>3. Empty \in History
  BY <1>2, HistoryOf DEF Empty
<1> QED
  BY <1>3 DEF Elected, Empty

LEMMA LogInit == Init => LogInv(Empty)
<1> SUFFICES ASSUME Init PROVE LogInv(Empty)
  OBVIOUS
<1>1. InFlight = {}
  BY DEF Init, EmptyBag, SetToBag, InFlight, BagToSet
<1>2. \A i \in Server : currentRole[i] = "Unset" /\ log[i] = <<>>
  BY DEF Init
<1>3. LogsTraced(Empty)
  BY <1>2 DEF LogsTraced, Traced
<1>4. TermLogs(Empty) /\ Settled(Empty)
  BY EmptyFacts DEF TermLogs, Settled
<1>5. LeadersLogs(Empty) /\ Notes(Empty)
  BY <1>2 DEF LeadersLogs, Notes, Leading
<1>6. Messages(Empty)
  BY <1>1 DEF Messages
<1>7. Holdings(Empty)
  <2> SUFFICES ASSUME NEW v \in Server, NEW t \in Nat PROVE HeldOK(Empty, v, t)
    BY DEF Holdings
  <2>1. Empty.held[v][t] = 0 /\ ~Elected(Empty, t) /\ Empty.log[t] = <<>>
        /\ v # Empty.leader[t]
    BY EmptyFacts, ServerAssumption DEF Empty
  <2>2. Same(log[v], <<>>, 0)
    BY <1>2 DEF Same
  <2> QED
    BY <2>1, <2>2 DEF HeldOK
<1> QED
  BY <1>3, <1>4, <1>5, <1>6, <1>7 DEF LogInv

\* The inductive invariant of the logs.
LogsSound == TypeInv /\ VoteInv /\ \E h \in History : LogInv(h)

LEMMA LogsInvariant == OddCluster => (SpecPrompt => []LogsSound)
<1> SUFFICES ASSUME OddCluster PROVE SpecPrompt => []LogsSound
  OBVIOUS
<1>1. Init => LogsSound
  BY TypeInit, VoteInit, LogInit, EmptyFacts DEF LogsSound
<1>2. LogsSound /\ [PromptNext]_vars => LogsSound'
  <2> SUFFICES ASSUME LogsSound, [PromptNext]_vars PROVE LogsSound'
    OBVIOUS
  <2>1. Step
    BY StepFacts DEF LogsSound
  <2>2. PICK h \in History : LogInv(h)
    BY DEF LogsSound
  <2>3. \E k \in History : LogInv(k)'
    BY <2>1, <2>2, LogStep
  <2>4. (\E k \in History : LogInv(k))'
    BY <2>3 DEF History, Entry
  <2>5. (TypeInv /\ VoteInv)'
    BY <2>1 DEF Step
  <2> QED
    BY <2>4, <2>5 DEF LogsSound
<1> QED
  BY <1>1, <1>2, PTL DEF SpecPrompt

------------------------------------------------------------------------------
\* Two logs that agree on the term of an entry agree on everything up to it
\* (append_entries, raft.cpp:977-1057): each is what the leader of that term
\* had.
THEOREM LogsMatch == OddCluster => (SpecPrompt => []LogMatching)
<1>1. LogsSound => LogMatching
  <2> SUFFICES ASSUME LogsSound, NEW i \in Server, NEW j \in Server,
                      NEW n \in 1..Len(log[i]), n <= Len(log[j]),
                      log[i][n].term = log[j][n].term
               PROVE  \A m \in 1..n : log[i][m] = log[j][m]
    BY DEF LogMatching
  <2>1. PICK h \in History : LogInv(h)
    BY DEF LogsSound
  <2>2. log[i] \in Seq(Entry) /\ log[j] \in Seq(Entry) /\ n \in Nat /\ n <= Len(log[i])
    BY NodeTypes DEF LogsSound, TypeInv
  <2>3. Traced(h, log[i]) /\ Traced(h, log[j])
    BY <2>1 DEF LogInv, LogsTraced
  <2>4. Same(log[i], log[j], n)
    BY <2>2, <2>3, TracedAgree
  <2> QED
    BY <2>4 DEF Same
<1> QED
  BY <1>1, LogsInvariant, PTL

\* What a leader believes of a peer that has not moved on to a later term is
\* true of the peer's log (send_entries, raft.cpp:841-848).
THEOREM MatchIndexIsSound == OddCluster => (SpecPrompt => []MatchIndexSound)
<1>1. LogsSound => MatchIndexSound
  <2> SUFFICES ASSUME LogsSound, NEW i \in Server, NEW j \in Peers(i), Leading(i),
                      currentTerm[j] <= currentTerm[i], NEW n \in 1..matchIndex[i][j]
               PROVE  n <= Len(log[j]) /\ n <= Len(log[i]) /\ log[j][n] = log[i][n]
    BY DEF MatchIndexSound
  <2> DEFINE t == currentTerm[i]
  <2>1. PICK h \in History : LogInv(h)
    BY DEF LogsSound
  <2>2. /\ j \in Server /\ t \in Nat /\ currentTerm[j] \in Nat /\ matchIndex[i][j] \in Nat
        /\ Len(log[i]) \in Nat /\ Len(log[j]) \in Nat
    BY NodeTypes DEF LogsSound, TypeInv, Peers
  <2>3. h.held[j][t] \in Nat /\ matchIndex[i][j] <= h.held[j][t] /\ HeldOK(h, j, t)
    BY <2>1, <2>2, RecordTypes DEF LogInv, Notes, Holdings
  <2>4. n \in 1..h.held[j][t] /\ h.held[j][t] # 0
    BY <2>2, <2>3
  <2>5. ~(currentTerm[j] < t)
    BY <2>3, <2>4 DEF HeldOK
  <2>6. currentTerm[j] = t
    BY <2>2, <2>5
  <2>7. Same(log[j], h.log[t], h.held[j][t]) /\ log[i] = h.log[t]
    BY <2>1, <2>3, <2>6 DEF HeldOK, LogInv, LeadersLogs
  <2>8. log[j][n] = log[i][n] /\ h.held[j][t] <= Len(log[j]) /\ h.held[j][t] <= Len(log[i])
    BY <2>4, <2>7 DEF Same
  <2> HIDE DEF t
  <2> QED
    BY <2>2, <2>3, <2>4, <2>8
<1> QED
  BY <1>1, LogsInvariant, PTL

\* The leader always sends from past what the peer is known to hold, and never
\* reads past its own log (send_entries, raft.cpp:689, 820-829).
THEOREM NextIndexIsInBounds == OddCluster => (SpecPrompt => []NextIndexInBounds)
<1>1. LogsSound => NextIndexInBounds
  <2> SUFFICES ASSUME LogsSound, NEW i \in Server, NEW j \in Peers(i), Leading(i)
               PROVE  nextIndex[i][j] \in (matchIndex[i][j] + 1)..(Len(log[i]) + 1)
    BY DEF NextIndexInBounds
  <2>1. PICK h \in History : LogInv(h)
    BY DEF LogsSound
  <2>2. /\ matchIndex[i][j] \in Nat /\ nextIndex[i][j] \in Nat /\ Len(log[i]) \in Nat
    BY NodeTypes DEF LogsSound, TypeInv, Peers
  <2>3. matchIndex[i][j] < nextIndex[i][j] /\ nextIndex[i][j] <= Len(log[i]) + 1
    BY <2>1 DEF LogInv, Notes
  <2> QED
    BY <2>2, <2>3
<1> QED
  BY <1>1, LogsInvariant, PTL
==============================================================================
