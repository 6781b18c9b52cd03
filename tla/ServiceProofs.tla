----------------------------- MODULE ServiceProofs -----------------------------
(***************************************************************************)
(* Proofs about a node and its clients (module NodeService), for any number   *)
(* of clients, terms and entries.  Whatever its peers do, results are          *)
(* streamed in order.  As long as they do what Raft proves of them under      *)
(* SpecPrompt, no call is forgotten in its own term and none is answered      *)
(* falsely there.                                                             *)
(***************************************************************************)
EXTENDS NodeService, SequenceTheorems, TLAPS

------------------------------------------------------------------------------
(* Under Spec.                                                              *)

\* Whoever is in proposal_cvs waits there for the index of its call: what a
\* notification wakes is a waiter, and the type of notified rests on it.
Registration ==
  /\ \A c \in waiting : res[c].index \in Index
  /\ \A i \in Index : \A c \in Client :
       proposal_cvs[i] = c => c \in waiting /\ res[c].index = i

FlowInv == TypeOK /\ Registration /\ StreamInOrder

LEMMA Joined ==
  ASSUME NEW S, NEW a \in Seq(S), NEW b \in Seq(S)
  PROVE  /\ a \o b \in Seq(S) /\ Len(a \o b) = Len(a) + Len(b)
         /\ \A i \in 1..Len(a) : (a \o b)[i] = a[i]
  BY ConcatProperties

\* The log after AppendEntries has replaced everything behind entry k.
LEMMA Replaced ==
  ASSUME NEW S, NEW s \in Seq(S), NEW k \in 0..Len(s), NEW j \in Nat,
         NEW new \in [1..j -> S]
  PROVE  LET r == SubSeq(s, 1, k) \o new
         IN  r \in Seq(S) /\ Len(r) = k + j /\ \A i \in 1..k : r[i] = s[i]
<1> DEFINE a == SubSeq(s, 1, k)
<1>1. a \in Seq(S) /\ Len(a) = k /\ \A i \in 1..k : a[i] = s[i]
  BY SubSeqProperties
<1>2. new \in Seq(S) /\ Len(new) = j
  OBVIOUS
<1>3. a \o new \in Seq(S) /\ Len(a \o new) = k + j /\ \A i \in 1..k : (a \o new)[i] = a[i]
  <2> HIDE DEF a
  <2>1. Len(a) = k
    BY <1>1
  <2> QED
    BY <1>1, <1>2, <2>1, Joined
<1> QED
  BY <1>1, <1>3

LEMMA Appended ==
  ASSUME NEW S, NEW s \in Seq(S), NEW e \in S
  PROVE  /\ Append(s, e) \in Seq(S) /\ Len(Append(s, e)) = Len(s) + 1
         /\ \A i \in 1..Len(s) : Append(s, e)[i] = s[i]
         /\ Append(s, e)[Len(s) + 1] = e
  BY AppendProperties

LEMMA FlowInit == Init => FlowInv
<1> SUFFICES ASSUME Init PROVE FlowInv
  OBVIOUS
<1>1. TypeOK
  <2>1. log \in Seq(0..MaxTerm) /\ applied \in Seq(0..MaxTerm) /\ Len(log) = 0
    BY EmptySeq DEF Init
  <2>2. res \in [Client -> [index : 0..MaxLog, term : 0..MaxTerm]]
    BY ServiceAssumption DEF Init, NoRes
  <2>3. proposal_cvs \in [Index -> Client \cup {NoClient}]
    BY DEF Init
  <2>4. answer \in [Client -> {"none", "committed", "not_leader"}]
    BY DEF Init
  <2>5. /\ role \in {"Leader", "Follower", "Candidate"}
        /\ active \in BOOLEAN /\ served \in BOOLEAN
        /\ mutex = "free" /\ waiting = {} /\ notified = {}
        /\ currentTerm = 0 /\ commitIndex = 0 /\ lastApplied = 0
    BY DEF Init
  <2> QED
    BY <2>1, <2>2, <2>3, <2>4, <2>5, ServiceAssumption DEF TypeOK
<1>2. StreamInOrder
  BY EmptySeq DEF Init, StreamInOrder
<1>3. Registration
  BY ServiceAssumption DEF Init, Registration
<1> QED
  BY <1>1, <1>2, <1>3 DEF FlowInv


LEMMA FlowPropose ==
  ASSUME FlowInv, Propose
  PROVE  FlowInv'
<1>1. /\ UNCHANGED <<node, commitIndex, pipe, calls>> /\ log' = Append(log, currentTerm)
      /\ Len(log) < MaxLog
  BY DEF Propose
<1>2. log' \in Seq(0..MaxTerm) /\ Len(log') = Len(log) + 1
  BY <1>1, Appended DEF FlowInv, TypeOK
<1> QED
  BY <1>1, <1>2, ServiceAssumption
     DEF FlowInv, TypeOK, node, pipe, calls, Registration, StreamInOrder

\* Clients: the pipe is left alone, and the log at most extended.
LEMMA FlowClients ==
  ASSUME FlowInv, NEW c \in Client, ProposeSync(c) \/ Wake(c) \/ Spurious(c)
  PROVE  FlowInv'
<1> USE ServiceAssumption DEF FlowInv, TypeOK, Index
<1>1. /\ UNCHANGED <<node, commitIndex, pipe>>
      /\ log' \in Seq(0..MaxTerm) /\ Len(log') <= MaxLog /\ Len(log') >= Len(log)
  <2>1. log' = log \/ (Len(log) < MaxLog /\ log' = Append(log, currentTerm))
    BY DEF ProposeSync, Wake, Spurious, store
  <2>2. Append(log, currentTerm) \in Seq(0..MaxTerm) /\ Len(Append(log, currentTerm)) = Len(log) + 1
    BY Appended
  <2>3. UNCHANGED <<node, commitIndex, pipe>>
    BY DEF ProposeSync, Wake, Spurious, store
  <2>4. CASE log' = log
    BY <2>3, <2>4
  <2>5. CASE Len(log) < MaxLog /\ log' = Append(log, currentTerm)
    BY <2>2, <2>3, <2>5
  <2> QED
    BY <2>1, <2>4, <2>5
<1>2. StreamInOrder'
  BY <1>1 DEF pipe, StreamInOrder
<1>3. CASE Spurious(c)
  <2>1. /\ UNCHANGED <<proposal_cvs, waiting, res, answer>>
        /\ notified' \subseteq waiting
    BY <1>3 DEF Spurious
  <2> QED
    BY <1>1, <1>2, <2>1 DEF node, pipe, Registration
<1>4. CASE ProposeSync(c)
  <2> DEFINE n == Len(log) + 1
  <2>1. CASE role = "Leader" /\ commitIndex <= Len(log)
    <3>1. /\ c \notin waiting /\ waiting' = waiting \cup {c} /\ n \in Index
          /\ res' = [res EXCEPT ![c] = [index |-> n, term |-> currentTerm]]
          /\ proposal_cvs' = [proposal_cvs EXCEPT ![n] = c]
          /\ answer' = [answer EXCEPT ![c] = "none"] /\ notified' = notified
      BY <1>4, <2>1 DEF ProposeSync
    <3>2. TypeOK'
      BY <1>1, <3>1 DEF node, pipe
    <3>3. Registration'
      BY <3>1 DEF Registration
    <3> QED
      BY <1>2, <3>2, <3>3
  <2>2. CASE ~(role = "Leader" /\ commitIndex <= Len(log))
    <3>a. /\ UNCHANGED <<res, waiting, notified>>
          /\ \/ answer' = [answer EXCEPT ![c] = "committed"]
             \/ answer' = [answer EXCEPT ![c] = "not_leader"]
          /\ \/ proposal_cvs' = proposal_cvs
             \/ Len(log) < MaxLog /\ proposal_cvs' = [proposal_cvs EXCEPT ![n] = NoClient]
      BY <1>4, <2>2 DEF ProposeSync
    <3>b. answer' \in [Client -> {"none", "committed", "not_leader"}]
      BY <3>a
    <3>1. /\ UNCHANGED <<res, waiting, notified>>
          /\ answer' \in [Client -> {"none", "committed", "not_leader"}]
          /\ \/ proposal_cvs' = proposal_cvs
             \/ n \in Index /\ proposal_cvs' = [proposal_cvs EXCEPT ![n] = NoClient]
      BY <3>a, <3>b
    <3>2. CASE proposal_cvs' = proposal_cvs
      BY <1>1, <1>2, <3>1, <3>2 DEF node, pipe, Registration
    <3>3. CASE n \in Index /\ proposal_cvs' = [proposal_cvs EXCEPT ![n] = NoClient]
      <4>1. proposal_cvs' \in [Index -> Client \cup {NoClient}]
        BY <3>3
      <4>2. TypeOK'
        BY <1>1, <3>1, <4>1 DEF node, pipe
      <4>3. Registration'
        BY <3>1, <3>3 DEF Registration
      <4> QED
        BY <1>2, <4>2, <4>3
    <3> QED
      BY <3>1, <3>2, <3>3
  <2> QED
    BY <2>1, <2>2
<1>5. CASE Wake(c)
  <2>1. /\ notified' = notified \ {c} /\ c \in waiting
        /\ \/ UNCHANGED <<proposal_cvs, waiting, res, answer>>
           \/ /\ proposal_cvs' = [proposal_cvs EXCEPT ![res[c].index] = NoClient]
              /\ waiting' = waiting \ {c} /\ res' = [res EXCEPT ![c] = NoRes]
              /\ answer' \in [Client -> {"none", "committed", "not_leader"}]
    BY <1>5 DEF Wake
  <2>2. CASE UNCHANGED <<proposal_cvs, waiting, res, answer>>
    BY <1>1, <1>2, <2>1, <2>2 DEF node, pipe, Registration
  <2>3. CASE ~UNCHANGED <<proposal_cvs, waiting, res, answer>>
    <3>1. /\ proposal_cvs' = [proposal_cvs EXCEPT ![res[c].index] = NoClient]
          /\ waiting' = waiting \ {c} /\ res' = [res EXCEPT ![c] = NoRes]
          /\ answer' \in [Client -> {"none", "committed", "not_leader"}]
      BY <2>1, <2>3
    <3>a. res' \in [Client -> [index : 0..MaxLog, term : 0..MaxTerm]]
      BY <3>1 DEF NoRes
    <3>b. proposal_cvs' \in [Index -> Client \cup {NoClient}]
      BY <2>1, <3>1 DEF Registration
    <3>c. notified' \subseteq waiting' /\ waiting' \subseteq Client
      BY <2>1, <3>1
    <3>2. TypeOK'
      BY <1>1, <3>1, <3>a, <3>b, <3>c DEF node, pipe
    <3>3. Registration'
      BY <2>1, <3>1 DEF Registration
    <3> QED
      BY <1>2, <3>2, <3>3
  <2> QED
    BY <2>2, <2>3
<1> QED
  BY <1>3, <1>4, <1>5

\* What HandlePending leaves in place.
LEMMA PendingHandled ==
  ASSUME FlowInv, HandlePending, UNCHANGED <<waiting, res>>
  PROVE  /\ proposal_cvs' \in [Index -> Client \cup {NoClient}]
         /\ notified' \subseteq waiting /\ Registration'
<1>1. CASE role = "Leader"
  <2>1. Registered \subseteq waiting
    BY DEF Registered, Registration, FlowInv
  <2> QED
    BY <1>1, <2>1, ServiceAssumption DEF HandlePending, FlowInv, TypeOK, Registration
<1>2. CASE role # "Leader"
  BY <1>2 DEF HandlePending, FlowInv, TypeOK, Registration
<1> QED
  BY <1>1, <1>2

\* Run, BecomeCandidate, BecomeLeader and StepDown touch neither log nor pipe.
LEMMA FlowRole ==
  ASSUME FlowInv,
         \/ Run \/ BecomeCandidate \/ BecomeLeader
         \/ \E t \in Term : StepDown(t)
  PROVE  FlowInv'
<1> USE ServiceAssumption DEF FlowInv, TypeOK
<1>1. UNCHANGED <<store, pipe, waiting, res, answer>>
  BY DEF Run, BecomeCandidate, BecomeLeader, StepDown, calls
<1>2. StreamInOrder'
  BY <1>1 DEF store, pipe, StreamInOrder
<1>3. CASE Run \/ BecomeCandidate \/ BecomeLeader
  <2>1. UNCHANGED calls /\ role' \in {"Leader", "Follower", "Candidate"}
    BY <1>3 DEF Run, BecomeCandidate, BecomeLeader
  <2>2. currentTerm' \in 0..MaxTerm
    BY <1>3 DEF Run, BecomeCandidate, BecomeLeader
  <2>3. active' \in BOOLEAN
    BY <1>3 DEF Run, BecomeCandidate, BecomeLeader
  <2> QED
    BY <1>1, <1>2, <2>1, <2>2, <2>3 DEF store, pipe, calls, Registration
<1>4. ASSUME NEW t \in Term, StepDown(t) PROVE FlowInv'
  <2>1. HandlePending /\ currentTerm' = t /\ role' = "Follower" /\ active' = active
    BY <1>4 DEF StepDown
  <2> QED
    BY <1>1, <1>2, <2>1, PendingHandled DEF store, pipe, Term
<1> QED
  BY <1>3, <1>4

\* What apply_entries makes of the new commit index n when it is called.
LEMMA FlowCommit ==
  ASSUME FlowInv, mutex = "free", NEW n \in 0..MaxLog, CommitTo(n),
         log' \in Seq(0..MaxTerm)
  PROVE  /\ StreamInOrder' /\ commitIndex' = n
         /\ mutex' \in {"free", "enqueue"}
         /\ mutex' = "enqueue" <=> lastApplied < n /\ n <= Len(log')
         /\ UNCHANGED <<lastApplied, applied, served>>
  BY DEF FlowInv, TypeOK, CommitTo, StreamInOrder

\* What an accepted request leaves: a shorter log and a lower commit index
\* are possible, a hand-over past the log is not.
LEMMA MergeShape ==
  ASSUME TypeOK, NEW t \in Term, AppendEntries(t)
  PROVE  /\ mutex = "free" /\ active /\ t >= currentTerm /\ HandlePending
         /\ currentTerm' = t /\ role' = "Follower"
         /\ UNCHANGED <<active, waiting, res, answer>>
         /\ log' \in Seq(0..MaxTerm) /\ Len(log') <= MaxLog
         /\ \/ UNCHANGED <<commitIndex, pipe>>
            \/ \E n \in 0..Len(log') : CommitTo(n) /\ (n > commitIndex \/ n = Len(log'))
<1> USE ServiceAssumption DEF TypeOK
<1>1. /\ mutex = "free" /\ active /\ t >= currentTerm /\ HandlePending
      /\ currentTerm' = t /\ role' = "Follower"
      /\ UNCHANGED <<active, waiting, res, answer>>
  BY DEF AppendEntries, Unlocked
<1>2. CASE UNCHANGED <<store, pipe>>
  BY <1>1, <1>2 DEF store
<1>3. CASE ~UNCHANGED <<store, pipe>>
  <2>1. PICK k \in 0..Len(log) : \E m \in 0..MaxLog - k : \E new \in [1..m -> 1..t] :
          /\ log' = Merged(k, new)
          /\ \/ UNCHANGED <<commitIndex, pipe>>
             \/ \E n \in commitIndex + 1..MaxLog : CommitTo(IF n < k + m THEN n ELSE k + m)
    BY <1>3 DEF AppendEntries
  <2>m. PICK m \in 0..MaxLog - k : \E new \in [1..m -> 1..t] :
          /\ log' = Merged(k, new)
          /\ \/ UNCHANGED <<commitIndex, pipe>>
             \/ \E n \in commitIndex + 1..MaxLog : CommitTo(IF n < k + m THEN n ELSE k + m)
    BY <2>1
  <2>2. PICK new \in [1..m -> 1..t] :
          /\ log' = Merged(k, new)
          /\ \/ UNCHANGED <<commitIndex, pipe>>
             \/ \E n \in commitIndex + 1..MaxLog : CommitTo(IF n < k + m THEN n ELSE k + m)
    BY <2>m
  <2>3. new \in [1..m -> 0..MaxTerm] /\ m \in Nat
    BY DEF Term
  <2>4. log' \in Seq(0..MaxTerm) /\ Len(log') = k + m /\ k + m <= MaxLog
    <3>1. log' = SubSeq(log, 1, k) \o new
      BY <2>2 DEF Merged
    <3>2. SubSeq(log, 1, k) \o new \in Seq(0..MaxTerm) /\ Len(SubSeq(log, 1, k) \o new) = k + m
      <4>1. log \in Seq(0..MaxTerm) /\ k \in 0..Len(log) /\ m \in Nat
        BY <2>3
      <4>2. ASSUME NEW S, log \in Seq(S), new \in [1..m -> S]
            PROVE  SubSeq(log, 1, k) \o new \in Seq(S) /\ Len(SubSeq(log, 1, k) \o new) = k + m
        BY ONLY <4>1, <4>2, Replaced
      <4> QED
        BY ONLY <2>3, <4>1, <4>2
    <3> QED
      BY <3>1, <3>2
  <2>5. ASSUME NEW n \in commitIndex + 1..MaxLog
        PROVE  LET l == IF n < k + m THEN n ELSE k + m
               IN  l \in 0..Len(log') /\ (l > commitIndex \/ l = Len(log'))
    BY <2>4
  <2> QED
    BY <1>1, <2>2, <2>4, <2>5
<1> QED
  BY <1>2, <1>3

LEMMA FlowAppendEntries ==
  ASSUME FlowInv, NEW t \in Term, AppendEntries(t)
  PROVE  FlowInv'
<1> USE ServiceAssumption DEF FlowInv, TypeOK
<1>1. /\ mutex = "free" /\ HandlePending
      /\ currentTerm' = t /\ role' = "Follower"
      /\ UNCHANGED <<active, waiting, res, answer>>
      /\ log' \in Seq(0..MaxTerm) /\ Len(log') <= MaxLog
      /\ \/ UNCHANGED <<commitIndex, pipe>>
         \/ \E n \in 0..Len(log') : CommitTo(n)
  BY MergeShape
<1>2. /\ proposal_cvs' \in [Index -> Client \cup {NoClient}]
      /\ notified' \subseteq waiting /\ Registration'
  BY <1>1, PendingHandled
<1>3. CASE UNCHANGED <<commitIndex, pipe>>
  BY <1>1, <1>2, <1>3 DEF pipe, StreamInOrder, Term
<1>4. ASSUME NEW n \in 0..Len(log'), CommitTo(n) PROVE FlowInv'
  <2>1. n \in 0..MaxLog
    BY <1>1
  <2>2. /\ StreamInOrder' /\ commitIndex' = n /\ mutex' \in {"free", "enqueue"}
        /\ UNCHANGED <<lastApplied, applied, served>>
    BY <1>1, <1>4, <2>1, FlowCommit
  <2> QED
    BY <1>1, <1>2, <2>1, <2>2 DEF Term
<1> QED
  BY <1>1, <1>3, <1>4

LEMMA FlowAdvanceCommit ==
  ASSUME FlowInv, NEW n \in Index, AdvanceCommit(n)
  PROVE  FlowInv'
<1> USE ServiceAssumption DEF FlowInv, TypeOK
<1>1. mutex = "free" /\ CommitTo(n) /\ n \in 0..MaxLog /\ UNCHANGED <<node, log, calls>>
  BY DEF AdvanceCommit, Unlocked, Index
<1>2. log' \in Seq(0..MaxTerm)
  BY <1>1
<1>3. /\ StreamInOrder' /\ commitIndex' = n /\ mutex' \in {"free", "enqueue"}
      /\ UNCHANGED <<lastApplied, applied, served>>
  BY <1>1, <1>2, FlowCommit
<1> QED
  BY <1>1, <1>3 DEF node, calls, Registration

LEMMA FlowPipe ==
  ASSUME FlowInv, Enqueue \/ Applier \/ Serve
  PROVE  FlowInv'
<1> USE ServiceAssumption DEF FlowInv, TypeOK
<1>1. /\ UNCHANGED <<node, store, lastApplied, calls>> /\ served' \in BOOLEAN
      /\ (mutex = "free" <=> mutex' = "free")
      /\ mutex' \in {"free", "enqueue", "offered", "taken"}
  BY DEF Enqueue, Applier, Serve
<1>2. Registration'
  BY <1>1 DEF calls, Registration
<1>3. CASE Applier
  <2> DEFINE e == log[lastApplied + 1]
  <2>1. /\ mutex = "offered" /\ mutex' = "taken" /\ applied' = Append(applied, e)
        /\ lastApplied + 1 \in 1..Len(log) /\ e \in 0..MaxTerm
        /\ Len(applied) = lastApplied
    BY <1>3, ElementOfSeq DEF Applier, StreamInOrder
  <2>2. applied' \in Seq(0..MaxTerm) /\ Len(applied') = lastApplied + 1
    BY <2>1, Appended
  <2>3. TypeOK'
    BY <1>1, <2>2 DEF node, store, calls
  <2>4. StreamInOrder'
    BY <1>1, <2>1, <2>2 DEF store, StreamInOrder
  <2> QED
    BY <1>2, <2>3, <2>4
<1>4. CASE Enqueue \/ Serve
  <2>1. applied' = applied /\ (mutex = "taken" <=> mutex' = "taken")
    BY <1>4 DEF Enqueue, Serve
  <2> QED
    BY <1>1, <1>2, <2>1 DEF node, store, calls, StreamInOrder
<1> QED
  BY <1>3, <1>4

LEMMA FlowApplied ==
  ASSUME FlowInv, Applied
  PROVE  /\ FlowInv' /\ mutex = "taken"
         /\ lastApplied' = lastApplied + 1 /\ lastApplied' <= commitIndex
         /\ lastApplied' \in Index
         /\ mutex' = IF lastApplied' < commitIndex THEN "enqueue" ELSE "free"
         /\ notified' = notified \cup ({proposal_cvs[lastApplied']} \ {NoClient})
         /\ UNCHANGED <<node, store, applied, served, proposal_cvs, waiting, res, answer>>
<1> USE ServiceAssumption DEF FlowInv, TypeOK
<1>1. /\ mutex = "taken" /\ lastApplied' = lastApplied + 1 /\ lastApplied' <= commitIndex
      /\ mutex' = IF lastApplied' < commitIndex THEN "enqueue" ELSE "free"
      /\ UNCHANGED <<node, store, applied, served, proposal_cvs, waiting, res, answer>>
  BY DEF Applied, StreamInOrder
<1>2. lastApplied' \in Index
  BY <1>1 DEF Index
<1>3. /\ notified' = notified \cup ({proposal_cvs[lastApplied']} \ {NoClient})
      /\ notified' \subseteq waiting
  <2>1. notified' = notified \cup ({proposal_cvs[lastApplied']} \ {NoClient})
    BY DEF Applied
  <2>2. proposal_cvs[lastApplied'] # NoClient => proposal_cvs[lastApplied'] \in waiting
    BY <1>2 DEF Registration
  <2> QED
    BY <2>1, <2>2
<1>4. TypeOK' /\ Registration'
  BY <1>1, <1>2, <1>3 DEF node, store, Registration, Index
<1>5. StreamInOrder'
  BY <1>1 DEF node, store, StreamInOrder
<1> QED
  BY <1>1, <1>2, <1>3, <1>4, <1>5

LEMMA FlowStep == FlowInv /\ [Next]_vars => FlowInv'
<1> SUFFICES ASSUME FlowInv, [Next]_vars PROVE FlowInv'
  OBVIOUS
<1>1. CASE UNCHANGED vars
  BY <1>1 DEF vars, node, store, pipe, calls, FlowInv, TypeOK, Registration, StreamInOrder
<1>2. CASE Next
  BY <1>2, FlowRole, FlowAppendEntries, FlowAdvanceCommit, FlowPipe, FlowApplied,
     FlowPropose, FlowClients DEF Next, Step
<1> QED
  BY <1>1, <1>2

\* Whatever the peers send, results are handed to the tester one by one, with
\* no gap and none twice, and apply_entries (626-667) stays inside the log.
THEOREM StreamIsInOrder == Spec => []StreamInOrder
<1>1. FlowInv => StreamInOrder
  BY DEF FlowInv
<1> QED
  BY <1>1, FlowInit, FlowStep, PTL DEF Spec

------------------------------------------------------------------------------
(* As long as the peers have been prompt.                                   *)

\* The mutex is kept exactly while something committed is not applied, and no
\* more is committed than the log has.
Busy ==
  /\ mutex # "free" <=> lastApplied < commitIndex
  /\ lastApplied <= commitIndex /\ commitIndex <= Len(log)

\* No call is of a later term; before run there is no term at all.
OwnTerms ==
  /\ ~active => currentTerm = 0
  /\ \A c \in waiting : res[c].term <= currentTerm

\* WaitersKept alone says nothing of a call that was notified for no reason
\* and will wait again; such a call is still registered.
Kept ==
  \A c \in Client : Current(c) =>
    /\ role = "Leader"
    /\ res[c].index \in 1..Len(log) /\ log[res[c].index] = res[c].term
    /\ lastApplied < res[c].index => proposal_cvs[res[c].index] = c
    /\ c \notin notified => lastApplied < res[c].index

\* What was streamed is still what the log holds.
Streamed == \A i \in 1..Len(applied) : applied[i] = log[i]

ServiceInv == FlowInv /\ Busy /\ OwnTerms /\ Kept /\ Streamed

LEMMA ServiceInit == Init => ServiceInv
<1> SUFFICES ASSUME Init PROVE ServiceInv
  OBVIOUS
<1>1. log = <<>> /\ Len(log) = 0 /\ Len(applied) = 0
  BY EmptySeq DEF Init
<1>2. Busy /\ OwnTerms /\ Kept /\ Streamed
  BY <1>1 DEF Init, Busy, OwnTerms, Kept, Current, Streamed
<1> QED
  BY <1>2, FlowInit DEF ServiceInv

\* The stream is no longer than the commit index.
LEMMA StreamCommitted ==
  ASSUME ServiceInv
  PROVE  \A i \in 1..Len(applied) : i \in 1..commitIndex /\ i \in 1..Len(log)
  BY DEF ServiceInv, FlowInv, TypeOK, Busy, StreamInOrder

\* Appending an entry of the current term, with or without a waiter.
LEMMA KeepPropose ==
  ASSUME ServiceInv, FlowInv', Propose
  PROVE  ServiceInv'
<1> USE ServiceAssumption DEF ServiceInv, FlowInv, TypeOK
<1>1. /\ Len(log') = Len(log) + 1
      /\ \A i \in 1..Len(log) : log'[i] = log[i]
  BY Appended DEF Propose
<1>2. Busy' /\ OwnTerms'
  BY <1>1 DEF Propose, node, pipe, calls, Busy, OwnTerms
<1>3. Kept'
  BY <1>1 DEF Propose, node, pipe, calls, Kept, Current
<1>4. Streamed'
  BY <1>1, StreamCommitted DEF Propose, pipe, Busy, Streamed
<1> QED
  BY <1>2, <1>3, <1>4

LEMMA KeepProposeSync ==
  ASSUME ServiceInv, FlowInv', NEW c \in Client, ProposeSync(c)
  PROVE  ServiceInv'
<1> USE ServiceAssumption DEF ServiceInv, FlowInv, TypeOK, Index
<1>1. CASE role # "Leader"
  <2>1. UNCHANGED <<node, store, pipe, proposal_cvs, waiting, notified, res>>
    BY <1>1 DEF ProposeSync, store
  <2> QED
    BY <2>1 DEF node, store, pipe, Busy, OwnTerms, Kept, Current, Streamed
<1>2. CASE role = "Leader"
  <2> DEFINE n == Len(log) + 1
  <2>a. commitIndex <= Len(log) /\ ~(commitIndex > Len(log))
    BY DEF Busy
  <2>1. /\ Len(log') = n /\ n \in Index
        /\ (\A i \in 1..Len(log) : log'[i] = log[i]) /\ log'[n] = currentTerm
    <3>1. log' = Append(log, currentTerm) /\ Len(log) < MaxLog
      BY <1>2 DEF ProposeSync
    <3> QED
      BY <3>1, Appended
  <2>2. /\ c \notin waiting /\ waiting' = waiting \cup {c}
        /\ res' = [res EXCEPT ![c] = [index |-> n, term |-> currentTerm]]
        /\ proposal_cvs' = [proposal_cvs EXCEPT ![n] = c]
        /\ UNCHANGED <<node, commitIndex, pipe, notified>>
    BY <1>2, <2>a DEF ProposeSync
  <2>3. Busy' /\ OwnTerms'
    BY <1>2, <2>1, <2>2 DEF node, pipe, Busy, OwnTerms
  <2>4. Kept'
    <3> SUFFICES ASSUME NEW d \in Client, Current(d)'
                 PROVE  /\ role' = "Leader"
                        /\ res'[d].index \in 1..Len(log') /\ log'[res'[d].index] = res'[d].term
                        /\ lastApplied' < res'[d].index => proposal_cvs'[res'[d].index] = d
                        /\ d \notin notified' => lastApplied' < res'[d].index
      BY DEF Kept
    <3>1. UNCHANGED <<role, lastApplied, notified, currentTerm>> /\ lastApplied < n
      BY <2>2 DEF node, pipe, Busy
    <3>2. CASE d = c
      BY <1>2, <2>1, <2>2, <3>1, <3>2
    <3>3. CASE d # c
      <4>1. res'[d] = res[d] /\ Current(d)
        BY <2>2, <3>1, <3>3 DEF Current
      <4>a. res[d].index \in 1..Len(log)
        BY <4>1 DEF Kept
      <4>2. /\ res[d].index \in 1..Len(log) /\ res[d].index # n
            /\ res[d].index \in Index /\ res[d].index \in 1..n
        <5>1. Len(log) \in Nat /\ Len(log) <= MaxLog /\ MaxLog \in Nat
          OBVIOUS
        <5> QED
          BY ONLY <4>a, <5>1 DEF Index
      <4>3. log'[res[d].index] = log[res[d].index] /\ proposal_cvs'[res[d].index] = proposal_cvs[res[d].index]
        BY <2>1, <2>2, <4>2
      <4>4. res[d].index \in 1..Len(log')
        BY <2>1, <4>2
      <4> QED
        BY <1>2, <3>1, <4>1, <4>3, <4>4 DEF Kept
    <3> QED
      BY <3>2, <3>3
  <2>5. Streamed'
    <3>1. \A i \in 1..Len(applied) : i \in 1..Len(log)
      BY StreamCommitted
    <3> QED
      BY <2>1, <2>2, <3>1 DEF pipe, Streamed
  <2> QED
    BY <2>3, <2>4, <2>5
<1> QED
  BY <1>1, <1>2

\* A call that returns erases its index.  Should another call of this term
\* wait there, that one's entry is applied and it has been notified.
LEMMA KeepWake ==
  ASSUME ServiceInv, FlowInv', NEW c \in Client, Wake(c)
  PROVE  ServiceInv'
<1> USE ServiceAssumption DEF ServiceInv, FlowInv, TypeOK, Index
<1>1. /\ mutex = "free" /\ c \in waiting /\ notified' = notified \ {c}
      /\ UNCHANGED <<node, store, pipe>>
  BY DEF Wake, Unlocked
<1>2. Busy' /\ Streamed'
  BY <1>1 DEF node, store, pipe, Busy, Streamed
<1>3. CASE ~Released(c)
  <2>1. UNCHANGED <<proposal_cvs, waiting, res, answer>>
    BY <1>3 DEF Wake
  <2>2. OwnTerms'
    BY <1>1, <2>1 DEF node, store, pipe, OwnTerms
  <2>3. Kept'
    BY <1>1, <1>3, <2>1 DEF node, store, pipe, Kept, Current, Released, Busy
  <2> QED
    BY <1>2, <2>2, <2>3
<1>4. CASE Released(c)
  <2>1. /\ proposal_cvs' = [proposal_cvs EXCEPT ![res[c].index] = NoClient]
        /\ waiting' = waiting \ {c} /\ res' = [res EXCEPT ![c] = NoRes]
    BY <1>4 DEF Wake
  <2>2. OwnTerms'
    BY <1>1, <2>1 DEF node, OwnTerms
  <2>3. Kept'
    <3> SUFFICES ASSUME NEW d \in Client, Current(d)'
                 PROVE  /\ role' = "Leader"
                        /\ res'[d].index \in 1..Len(log') /\ log'[res'[d].index] = res'[d].term
                        /\ lastApplied' < res'[d].index => proposal_cvs'[res'[d].index] = d
                        /\ d \notin notified' => lastApplied' < res'[d].index
      BY DEF Kept
    <3>1. d # c /\ res'[d] = res[d] /\ Current(d)
      BY <1>1, <2>1 DEF Current, node
    <3>2. res[c].index \in Index
      BY <1>1 DEF Registration
    <3>3. lastApplied < res[d].index => res[c].index # res[d].index
      BY <1>1, <1>4, <3>1, <3>2 DEF Released, Busy, Kept
    <3> QED
      BY <1>1, <2>1, <3>1, <3>2, <3>3 DEF node, store, pipe, Kept
  <2> QED
    BY <1>2, <2>2, <2>3
<1> QED
  BY <1>3, <1>4

LEMMA KeepSpurious ==
  ASSUME ServiceInv, FlowInv', NEW c \in Client, Spurious(c)
  PROVE  ServiceInv'
<1> USE DEF ServiceInv, FlowInv, TypeOK
<1>1. Busy' /\ OwnTerms' /\ Streamed'
  BY DEF Spurious, node, store, pipe, Busy, OwnTerms, Streamed
<1>2. Kept'
  BY DEF Spurious, node, store, pipe, Kept, Current
<1> QED
  BY <1>1, <1>2

\* No call is of the term the node moves to, or of one that it has lost.
LEMMA KeepRole ==
  ASSUME ServiceInv, FlowInv', PeersPrompt,
         \/ Run \/ BecomeCandidate \/ BecomeLeader
         \/ \E t \in Term : StepDown(t)
  PROVE  ServiceInv'
<1> USE ServiceAssumption DEF ServiceInv, FlowInv, TypeOK
<1>1. UNCHANGED <<store, pipe, waiting, res, answer>>
  BY DEF Run, BecomeCandidate, BecomeLeader, StepDown, calls
<1>2. Busy' /\ Streamed'
  BY <1>1 DEF store, pipe, Busy, Streamed
<1>3. CASE Run
  <2>1. active' = TRUE /\ currentTerm' = currentTerm /\ role' # "Leader"
    BY <1>3 DEF Run
  <2>2. ~active \/ role # "Leader"
    BY <2>1 DEF PeersPrompt
  <2>3. \A c \in Client : ~Current(c)
    BY <2>2 DEF OwnTerms, Kept, Current
  <2> QED
    BY <1>1, <1>2, <2>1, <2>3 DEF OwnTerms, Kept, Current
<1>4. CASE BecomeLeader
  BY <1>1, <1>2, <1>4 DEF BecomeLeader, OwnTerms, Kept, Current
<1>5. CASE BecomeCandidate \/ \E t \in Term : StepDown(t)
  <2>1. active /\ active' = active /\ currentTerm' > currentTerm
    BY <1>5 DEF BecomeCandidate, StepDown, Term
  <2>2. OwnTerms'
    BY <1>1, <2>1 DEF OwnTerms
  <2>3. Kept'
    BY <1>1, <2>1 DEF OwnTerms, Kept, Current
  <2> QED
    BY <1>2, <2>2, <2>3
<1> QED
  BY <1>3, <1>4, <1>5

\* A leader hears of another one only in a later term, so that no call of the
\* new term waits here; and the entries behind the stream stay.
LEMMA KeepAppendEntries ==
  ASSUME ServiceInv, FlowInv', NEW t \in Term, AppendEntries(t), PeersPrompt
  PROVE  ServiceInv'
<1> USE ServiceAssumption DEF ServiceInv, FlowInv, TypeOK
<1>1. /\ mutex = "free" /\ active /\ active' = active /\ t >= currentTerm
      /\ currentTerm' = t /\ role' = "Follower"
      /\ UNCHANGED <<waiting, res>>
      /\ \/ UNCHANGED <<commitIndex, pipe>>
         \/ \E n \in 0..Len(log') : CommitTo(n) /\ (n > commitIndex \/ n = Len(log'))
  BY MergeShape
<1>2. /\ role = "Leader" => t > currentTerm
      /\ commitIndex' <= Len(log') /\ commitIndex <= Len(log')
      /\ \A i \in 1..commitIndex : log'[i] = log[i]
  BY <1>1 DEF PeersPrompt
<1>3. Busy' /\ applied' = applied
  <2>1. CASE UNCHANGED <<commitIndex, pipe>>
    BY <1>2, <2>1 DEF pipe, Busy
  <2>2. ASSUME NEW n \in 0..Len(log'), CommitTo(n), n > commitIndex \/ n = Len(log')
        PROVE  Busy' /\ applied' = applied
    <3>1. n >= commitIndex
      BY <1>2, <2>2
    <3> QED
      BY <1>1, <1>2, <2>2, <3>1 DEF CommitTo, Busy
  <2> QED
    BY <1>1, <2>1, <2>2
<1>4. OwnTerms'
  BY <1>1 DEF OwnTerms, Term
<1>5. Kept'
  BY <1>1, <1>2 DEF OwnTerms, Kept, Current, Term
<1>6. Streamed'
  BY <1>2, <1>3, StreamCommitted DEF Streamed
<1> QED
  BY <1>3, <1>4, <1>5, <1>6

LEMMA KeepAdvanceCommit ==
  ASSUME ServiceInv, FlowInv', NEW n \in Index, AdvanceCommit(n), PeersPrompt
  PROVE  ServiceInv'
<1> USE ServiceAssumption DEF ServiceInv, FlowInv, TypeOK
<1>1. /\ mutex = "free" /\ n > commitIndex /\ commitIndex' = n /\ n <= Len(log)
      /\ mutex' = IF n > lastApplied THEN "enqueue" ELSE "free"
      /\ UNCHANGED <<lastApplied, applied, node, log, calls>>
  BY DEF AdvanceCommit, CommitTo, Unlocked, PeersPrompt
<1>2. Busy' /\ OwnTerms'
  BY <1>1 DEF node, calls, Busy, OwnTerms, Index
<1>3. Kept' /\ Streamed'
  BY <1>1 DEF node, calls, Kept, Current, Streamed
<1> QED
  BY <1>2, <1>3

\* enqueue, the applier and the controller leave calls and log alone.
LEMMA KeepPipe ==
  ASSUME ServiceInv, FlowInv', Enqueue \/ Applier \/ Serve
  PROVE  ServiceInv'
<1> USE ServiceAssumption DEF ServiceInv, FlowInv, TypeOK
<1>1. /\ UNCHANGED <<node, store, lastApplied, calls>>
      /\ (mutex = "free" <=> mutex' = "free")
  BY DEF Enqueue, Applier, Serve
<1>2. Busy' /\ OwnTerms' /\ Kept'
  BY <1>1 DEF node, store, calls, Busy, OwnTerms, Kept, Current
<1>3. CASE Applier
  <2> DEFINE e == log[lastApplied + 1]
  <2>1. /\ applied' = Append(applied, e) /\ e \in 0..MaxTerm
        /\ Len(applied) = lastApplied
    BY <1>3, ElementOfSeq DEF Applier, StreamInOrder
  <2>2. /\ Len(applied') = lastApplied + 1
        /\ \A i \in 1..lastApplied : applied'[i] = applied[i]
        /\ applied'[lastApplied + 1] = e
    BY <2>1, Appended
  <2>3. \A i \in 1..lastApplied + 1 : applied'[i] = log[i]
    <3>1. \A i \in 1..lastApplied : applied[i] = log[i]
      BY <2>1 DEF Streamed
    <3>2. \A i \in 1..lastApplied + 1 : i \in 1..lastApplied \/ i = lastApplied + 1
      OBVIOUS
    <3> QED
      BY <2>2, <3>1, <3>2
  <2>4. Streamed'
    BY <1>1, <2>2, <2>3 DEF store, Streamed
  <2> QED
    BY <1>2, <2>4
<1>4. CASE Enqueue \/ Serve
  <2>1. applied' = applied
    BY <1>4 DEF Enqueue, Serve
  <2> QED
    BY <1>1, <1>2, <2>1 DEF store, Streamed
<1> QED
  BY <1>3, <1>4

\* The waiter of the entry just applied is the one its index holds.
LEMMA KeepApplied ==
  ASSUME ServiceInv, FlowInv', Applied
  PROVE  ServiceInv'
<1> USE ServiceAssumption DEF ServiceInv, FlowInv, TypeOK
<1>1. /\ mutex = "taken" /\ lastApplied' = lastApplied + 1 /\ lastApplied' <= commitIndex
      /\ lastApplied' \in Index
      /\ mutex' = IF lastApplied' < commitIndex THEN "enqueue" ELSE "free"
      /\ notified' = notified \cup ({proposal_cvs[lastApplied']} \ {NoClient})
      /\ UNCHANGED <<node, store, applied, served, proposal_cvs, waiting, res, answer>>
  BY FlowApplied
<1>2. OwnTerms' /\ Busy' /\ Streamed'
  BY <1>1 DEF node, store, OwnTerms, Busy, Streamed
<1>3. Kept'
  BY <1>1 DEF node, store, Kept, Current, Index
<1> QED
  BY <1>2, <1>3

LEMMA Prompted ==
  ASSUME Next, prompt'
  PROVE  prompt /\ PeersPrompt
  BY DEF Next, Watched

LEMMA ServiceStep ==
  ASSUME ServiceInv, Next, prompt'
  PROVE  ServiceInv'
<1>1. FlowInv'
  BY FlowStep DEF ServiceInv
<1>2. Step /\ PeersPrompt
  BY Prompted DEF Next
<1> QED
  BY <1>1, <1>2, KeepRole, KeepAppendEntries, KeepAdvanceCommit, KeepPipe, KeepApplied,
     KeepPropose, KeepProposeSync, KeepWake, KeepSpurious DEF Step

PromptInv == FlowInv /\ (prompt => ServiceInv)

LEMMA PromptStep == PromptInv /\ [Next]_vars => PromptInv'
<1> SUFFICES ASSUME PromptInv, [Next]_vars PROVE PromptInv'
  OBVIOUS
<1>1. FlowInv'
  BY FlowStep DEF PromptInv
<1>2. CASE UNCHANGED vars
  <2>1. ServiceInv => ServiceInv'
    BY <1>1, <1>2 DEF vars, node, store, pipe, calls, ServiceInv, Busy, OwnTerms,
                      Kept, Current, Streamed
  <2>2. prompt' = prompt
    BY <1>2 DEF vars
  <2> QED
    BY <1>1, <2>1, <2>2 DEF PromptInv
<1>3. CASE Next
  <2>1. ASSUME prompt' PROVE ServiceInv'
    BY <1>3, <2>1, Prompted, ServiceStep DEF PromptInv
  <2> QED
    BY <1>1, <2>1 DEF PromptInv
<1> QED
  BY <1>2, <1>3

LEMMA PromptInvariant == Spec => []PromptInv
<1>1. Init => PromptInv
  BY ServiceInit DEF PromptInv, ServiceInv
<1> QED
  BY <1>1, PromptStep, PTL DEF Spec

\* However many calls overwrite, erase and clear each other's condition
\* variables, a call that waits in its own term is registered or notified.
THEOREM NoWaiterForgotten == Spec => []WaitersKept
<1>1. PromptInv => WaitersKept
  BY DEF PromptInv, ServiceInv, Kept, WaitersKept
<1> QED
  BY <1>1, PromptInvariant, PTL

\* propose_sync tells the truth in the term of the call: the argument that
\* commitIndex >= proposalIndex (1179) is about the client's own entry, and
\* that the mutex, once free, leaves nothing committed unapplied.
THEOREM AnswersAreTrue == Spec => AnswersTrue
<1> DEFINE A == prompt' => \A c \in waiting \ waiting' :
       /\ answer'[c] = "committed" /\ Current(c)
            => res[c].index <= Len(applied) /\ applied[res[c].index] = res[c].term
       /\ answer'[c] = "not_leader" => ~Current(c)
<1>1. PromptInv /\ [Next]_vars => [A]_vars
  <2> SUFFICES ASSUME PromptInv, Next, prompt', NEW c \in waiting \ waiting'
               PROVE  /\ answer'[c] = "committed" /\ Current(c)
                           => /\ res[c].index <= Len(applied)
                              /\ applied[res[c].index] = res[c].term
                      /\ answer'[c] = "not_leader" => ~Current(c)
    OBVIOUS
  <2>0. ServiceInv /\ Step
    BY Prompted DEF PromptInv, Next
  <2>1. c \in Client /\ Wake(c) /\ Released(c)
    BY <2>0 DEF ServiceInv, FlowInv, TypeOK, Step, Run, BecomeCandidate,
           BecomeLeader, StepDown, AppendEntries, AdvanceCommit, Enqueue, Applier,
           Applied, Serve, Propose, ProposeSync, Wake, Spurious, calls
  <2>2. /\ mutex = "free" /\ lastApplied = commitIndex /\ Len(applied) = lastApplied
        /\ res[c].index \in 1..MaxLog
    BY <2>0, <2>1 DEF Wake, Unlocked, ServiceInv, FlowInv, TypeOK, Busy, StreamInOrder,
                Registration, Index
  <2>3. answer'[c] = IF commitIndex >= res[c].index THEN "committed" ELSE "not_leader"
    BY <2>0, <2>1 DEF Wake, ServiceInv, FlowInv, TypeOK
  <2>4. CASE commitIndex >= res[c].index
    <3>1. answer'[c] # "not_leader" /\ res[c].index \in 1..Len(applied)
      BY <2>0, <2>2, <2>3, <2>4 DEF ServiceInv, FlowInv, TypeOK
    <3> QED
      BY <2>0, <2>1, <3>1 DEF ServiceInv, Kept, Streamed
  <2>5. CASE ~(commitIndex >= res[c].index)
    BY <2>0, <2>1, <2>3, <2>5 DEF Released, ServiceInv, Kept
  <2> QED
    BY <2>4, <2>5
<1> QED
  BY <1>1, PromptInvariant, PTL DEF Spec, AnswersTrue

\* Every call of its term is told when a leader becomes a follower: it is
\* still in proposal_cvs when handle_pending_sync_props goes through it.
THEOREM StepDownIsTold == Spec => StepDownTells
<1> DEFINE A == prompt' /\ active /\ role = "Leader" /\ role' = "Follower"
                  => \A c \in Client : Current(c) => c \in notified'
<1>1. PromptInv /\ [Next]_vars => [A]_vars
  <2> SUFFICES ASSUME PromptInv, Next, prompt', active, role = "Leader",
                      role' = "Follower", NEW c \in Client, Current(c)
               PROVE  c \in notified'
    OBVIOUS
  <2>1. ServiceInv /\ Step /\ PeersPrompt
    BY Prompted DEF PromptInv, Next
  <2>2. ~Run
    <3>1. currentTerm' > currentTerm /\ currentTerm \in Nat
      BY <2>1 DEF PeersPrompt, TypeOK, FlowInv, ServiceInv
    <3> QED
      BY <3>1 DEF Run
  <2>3. HandlePending
    BY <2>1, <2>2 DEF Step, Run, BecomeCandidate, BecomeLeader, StepDown,
           AppendEntries, AdvanceCommit, Enqueue, Applier, Applied, Serve, Propose,
           ProposeSync, Wake, Spurious, node
  <2>4. c \notin notified => c \in Registered
    BY <2>1 DEF ServiceInv, FlowInv, Registration, Kept, Current, Registered
  <2> QED
    BY <2>3, <2>4 DEF HandlePending
<1> QED
  BY <1>1, PromptInvariant, PTL DEF Spec, StepDownTells
==============================================================================
