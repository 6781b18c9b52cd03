------------------------------ MODULE LoopProofs ------------------------------
(***************************************************************************)
(* Proofs about the loops over a log (module LogLoops), for logs, requests,   *)
(* terms and peer sets of any size: each loop leaves what RaftLog says it     *)
(* computes, so that the cluster model may use the definition for the loop.   *)
(* One loop invariant per loop; a step of one loop leaves the others idle.    *)
(***************************************************************************)
EXTENDS LogLoops, FiniteSetTheorems, SequenceTheorems, TLAPS

\* The search: what SearchInv needs to be inductive.  A hit lies inside the
\* range that was searched, which the code's result alone does not say.
SearchLoop ==
  loop = "search" =>
    /\ log \in Seq(Entries) /\ pc \in {"run", "done"}
    /\ arg.term \in Nat
    /\ arg.first \in 0..Len(log) /\ arg.last \in -1..(Len(log) - 1)
    /\ left \in Int /\ right \in Int /\ result \in Int
    /\ result # -1 => result <= arg.last
    /\ pc = "done" => left > right
    /\ SearchInv

LEMMA MidpointInside ==
  ASSUME NEW lo \in Int, NEW hi \in Int, lo <= hi
  PROVE  Midpoint(lo, hi) \in lo..hi
  BY DEF Midpoint

LEMMA SearchInit == Init => SearchLoop
<1> SUFFICES ASSUME Init, loop = "search" PROVE SearchLoop
  BY DEF SearchLoop
<1>1. log \in Logs /\ InitSearch
  BY DEF Init, InitMerge, InitConflict, InitCommit
<1>2. log \in Seq(Entries) /\ Len(log) \in Nat
  BY <1>1, LoopAssumption
<1>3. PICK term \in Terms : \E first \in 0..Len(log), last \in -1..(Len(log) - 1) :
         /\ arg = [term |-> term, first |-> first, last |-> last]
         /\ left = first /\ right = last
  BY <1>1 DEF InitSearch
<1>4. PICK first \in 0..Len(log), last \in -1..(Len(log) - 1) :
         /\ arg = [term |-> term, first |-> first, last |-> last]
         /\ left = first /\ right = last
  BY <1>3
<1>5. arg.term \in Nat /\ arg.first = left /\ arg.last = right /\ result = -1 /\ pc = "run"
  BY <1>1, <1>3, <1>4, LoopAssumption DEF InitSearch
<1>6. left <= right => Midpoint(left, right) \in left..right
  BY <1>2, <1>4, MidpointInside
<1>7. SearchInv
  BY <1>2, <1>4, <1>5, <1>6 DEF SearchInv, Remaining
<1> QED
  BY <1>2, <1>4, <1>5, <1>7 DEF SearchLoop

LEMMA SearchNext == SearchLoop /\ [Next]_vars => SearchLoop'
<1> SUFFICES ASSUME SearchLoop, [Next]_vars, loop' = "search" PROVE SearchLoop'
  BY DEF SearchLoop
<1>1. loop = "search"
  BY DEF Next, vars, SearchStep, SearchEnd, Agree, Erase, LeaveLoop, Push, MergeEnd,
         ConflictStep, CommitStep
<1>2. /\ log \in Seq(Entries) /\ Len(log) \in Nat /\ pc \in {"run", "done"}
      /\ arg.term \in Nat
      /\ arg.first \in 0..Len(log) /\ arg.last \in -1..(Len(log) - 1)
      /\ left \in Int /\ right \in Int /\ result \in Int
      /\ result # -1 => result <= arg.last
      /\ pc = "done" => left > right
      /\ SearchInv
  BY <1>1 DEF SearchLoop
<1>3. CASE SearchStep
  <2> DEFINE mid == Midpoint(left, right)
             term == log[mid + 1].term
  <2>1. /\ left <= right /\ pc = "run"
        /\ IF term > arg.term THEN right' = mid - 1 /\ left' = left
                              ELSE left' = mid + 1 /\ right' = right
        /\ result' = IF term = arg.term THEN mid ELSE result
        /\ UNCHANGED <<loop, arg, pc, log, i>>
    BY <1>3 DEF SearchStep, At, Beyond, GoLeft, GoRight
  <2>2. mid \in left..right /\ mid \in Int
    <3>1. left \in Int /\ right \in Int /\ left <= right
      BY <1>2, <2>1
    <3>2. mid \in left..right
      BY <3>1, MidpointInside
    <3> QED
      BY <3>1, <3>2
  <2>3. /\ arg.first <= left /\ right <= arg.last
        /\ result # -1 => /\ result \in arg.first..(left - 1)
                          /\ log[result + 1].term = arg.term
        /\ TermsSorted(log, arg.first + 1, arg.last + 1) => Remaining
    BY <1>1, <1>2 DEF SearchInv
  <2>4. mid \in arg.first..arg.last /\ mid + 1 \in 1..Len(log)
    BY <1>2, <2>2, <2>3
  <2>5. \A n \in 1..Len(log) : log[n].term \in Nat
    <3>1. \A n \in 1..Len(log) : log[n] \in Entries
      BY <1>2, ElementOfSeq
    <3> QED
      BY <3>1 DEF Entries
  <2>6. term \in Nat
    BY <2>4, <2>5
  <2> HIDE DEF mid, term
  <2>7. left' \in Int /\ right' \in Int /\ result' \in Int
    BY <1>2, <2>1, <2>2
  <2>8. arg.first <= left' /\ right' <= arg.last
    BY <1>2, <2>1, <2>2, <2>3
  <2>9. result' # -1 => /\ result' \in arg.first..(left' - 1)
                        /\ log[result' + 1].term = arg.term
                        /\ result' <= arg.last
    <3>1. CASE term = arg.term
      <4>1. left' = mid + 1 /\ result' = mid
        BY <1>2, <2>1, <2>6, <3>1
      <4>2. log[result' + 1].term = arg.term
        BY <3>1, <4>1 DEF term
      <4>3. mid \in arg.first..(mid + 1 - 1) /\ mid <= arg.last
        BY <1>2, <2>2, <2>4
      <4> QED
        BY <4>1, <4>2, <4>3
    <3>2. CASE term # arg.term
      <4>1. result' = result /\ (result # -1 => result <= arg.last)
        BY <1>2, <2>1, <3>2
      <4>2. CASE result = -1
        BY <4>1, <4>2
      <4>3. CASE result # -1
        <5>1. result \in arg.first..(left - 1) /\ log[result + 1].term = arg.term
          BY <2>3, <4>3
        <5>2. PICK a : a = arg.first
          OBVIOUS
        <5>3. a \in Int /\ left \in Int /\ left' \in Int /\ left <= left' /\ result \in Int
          BY <1>2, <2>1, <2>2, <2>7, <5>2
        <5>4. result \in a..(left' - 1)
          BY <5>1, <5>2, <5>3
        <5> QED
          BY <4>1, <4>3, <5>1, <5>2, <5>4
      <4> QED
        BY <4>2, <4>3
    <3> QED
      BY <3>1, <3>2
  <2>10. ASSUME TermsSorted(log, arg.first + 1, arg.last + 1),
                NEW n \in arg.first..arg.last, log[n + 1].term = arg.term
         PROVE  n <= result' \/ n \in left'..right'
    <3>1. n \in Int /\ (n <= result \/ n \in left..right)
      BY <1>2, <2>3, <2>10 DEF Remaining
    <3> DEFINE range == (arg.first + 1)..(arg.last + 1)
    <3>a. /\ n + 1 \in range /\ mid + 1 \in range
          /\ n <= mid => n + 1 <= mid + 1
          /\ mid <= n => mid + 1 <= n + 1
      BY <1>2, <2>2, <2>4, <2>10
    <3>b. \A m, k \in range : m <= k => log[m].term <= log[k].term
      BY <2>10 DEF TermsSorted
    <3> HIDE DEF range
    <3>2. n <= mid => log[n + 1].term <= term
      BY <3>a, <3>b DEF term
    <3>3. mid <= n => term <= log[n + 1].term
      BY <3>a, <3>b DEF term
    <3>4. CASE term > arg.term
      <4>1. right' = mid - 1 /\ left' = left /\ result' = result
        BY <1>2, <2>1, <2>6, <3>4
      <4>2. ~(mid <= n)
        BY <1>2, <2>6, <2>10, <3>3, <3>4
      <4> QED
        BY <1>2, <2>2, <3>1, <4>1, <4>2
    <3>5. CASE term = arg.term
      <4>1. left' = mid + 1 /\ right' = right /\ result' = mid
        BY <1>2, <2>1, <2>6, <3>5
      <4> QED
        BY <1>2, <2>2, <2>3, <3>1, <4>1
    <3>6. CASE term < arg.term
      <4>1. left' = mid + 1 /\ right' = right /\ result' = result
        BY <1>2, <2>1, <2>6, <3>6
      <4>2. ~(n <= mid)
        BY <1>2, <2>6, <2>10, <3>2, <3>6
      <4> QED
        BY <1>2, <2>2, <3>1, <4>1, <4>2
    <3> QED
      BY <1>2, <2>6, <3>4, <3>5, <3>6
  <2>11. left' <= right' => Midpoint(left', right') + 1 \in 1..Len(log)
    <3> SUFFICES ASSUME left' <= right' PROVE Midpoint(left', right') + 1 \in 1..Len(log)
      OBVIOUS
    <3>1. Midpoint(left', right') \in left'..right'
      BY <2>7, MidpointInside
    <3> QED
      BY <1>2, <2>7, <2>8, <3>1
  <2>12. SearchInv'
    BY <2>1, <2>8, <2>9, <2>10, <2>11 DEF SearchInv, Remaining
  <2> QED
    BY <1>2, <2>1, <2>7, <2>9, <2>12 DEF SearchLoop
<1>4. CASE SearchEnd
  BY <1>1, <1>2, <1>4 DEF SearchEnd, Done, SearchLoop, SearchInv, Remaining
<1>5. CASE UNCHANGED vars
  BY <1>1, <1>2, <1>5 DEF vars, SearchLoop, SearchInv, Remaining
<1> QED
  BY <1>1, <1>3, <1>4, <1>5 DEF Next, At, Agree, Erase, LeaveLoop, Push, MergeEnd,
                                ConflictStep, CommitStep

LEMMA SearchEnds == SearchLoop => SearchCorrect
<1> SUFFICES ASSUME SearchLoop, At("search", "done")
             PROVE  result + 1 \in SearchResults(log, arg.first, arg.last, arg.term)
  BY DEF SearchCorrect
<1>1. /\ log \in Seq(Entries) /\ Len(log) \in Nat
      /\ arg.first \in 0..Len(log) /\ arg.last \in -1..(Len(log) - 1)
      /\ left \in Int /\ right \in Int /\ result \in Int
      /\ left > right
      /\ result # -1 => /\ result \in arg.first..arg.last
                        /\ log[result + 1].term = arg.term
      /\ TermsSorted(log, arg.first + 1, arg.last + 1) => Remaining
  BY DEF SearchLoop, SearchInv, At
<1> DEFINE hits == {n \in (arg.first + 1)..(arg.last + 1) : log[n].term = arg.term}
<1>2. result # -1 => result + 1 \in hits
  BY <1>1
<1>3. CASE TermsSorted(log, arg.first + 1, arg.last + 1)
  <2>1. \A n \in hits : n <= result + 1
    <3> SUFFICES ASSUME NEW n \in hits PROVE n <= result + 1
      OBVIOUS
    <3>1. n \in Int /\ n - 1 \in arg.first..arg.last /\ log[(n - 1) + 1].term = arg.term
      BY <1>1
    <3>2. n - 1 <= result \/ n - 1 \in left..right
      BY <1>1, <1>3, <3>1 DEF Remaining
    <3> QED
      BY <1>1, <3>1, <3>2
  <2>2. result = -1 => hits = {}
    BY <1>1, <2>1
  <2>3. result + 1 \in {n \in hits : \A m \in hits : m <= n} \cup {n \in {0} : hits = {}}
    BY <1>1, <1>2, <2>1, <2>2
  <2> QED
    BY <1>3, <2>3 DEF SearchResults
<1>4. CASE ~TermsSorted(log, arg.first + 1, arg.last + 1)
  <2>1. result + 1 \in hits \cup {0}
    BY <1>1, <1>2
  <2> QED
    BY <1>4, <2>1 DEF SearchResults
<1> QED
  BY <1>3, <1>4

\* The loop invariant of the leader's binary search (raft.cpp:783-807): no probe
\* is outside the vector and no entry of the conflict term is lost.
THEOREM ProbesInside == Spec => []SearchInv
<1>1. SearchLoop => SearchInv
  BY DEF SearchLoop, SearchInv
<1> QED
  BY <1>1, SearchInit, SearchNext, PTL DEF Spec

\* The search ends with the last entry of the conflict term in its range, as
\* the cluster model says (raft.cpp:783-807).
THEOREM SearchIsCorrect == Spec => []SearchCorrect
  BY SearchInit, SearchNext, SearchEnds, PTL DEF Spec

------------------------------------------------------------------------------
(* The follower's merge.                                                    *)

Keep == Cardinality(Kept(arg.before, arg.prev, arg.entries))

\* While it compares, the log is what it was and the entries so far agree;
\* while it appends, the log is a beginning of the merge, and ends with the
\* last entry appended unless nothing was left to append.
MergeLoop ==
  loop = "merge" =>
    /\ log \in Seq(Entries) /\ pc \in {"compare", "append", "done"}
    /\ arg.before \in Seq(Entries) /\ arg.entries \in Seq(Entries)
    /\ arg.prev \in 0..Len(arg.before) /\ i \in 0..Len(arg.entries)
    /\ pc = "compare" =>
         /\ log = arg.before /\ arg.prev + i <= Len(log)
         /\ \A n \in 1..i : log[arg.prev + n].term = arg.entries[n].term
    /\ pc # "compare" =>
         /\ Keep \in arg.prev..Len(log)
         /\ Len(log) = IF Keep > arg.prev + i THEN Keep ELSE arg.prev + i
         /\ i < Len(arg.entries) => Len(log) = arg.prev + i
         /\ \A n \in 1..Len(log) : log[n] = IF n <= Keep THEN arg.before[n]
                                            ELSE arg.entries[n - arg.prev]
    /\ pc = "done" => i = Len(arg.entries)

\* Kept is a beginning of the log that ends at the first difference.
LEMMA KeptIsPrefix ==
  ASSUME NEW l \in Seq(Entries), NEW entries \in Seq(Entries),
         NEW p \in 0..Len(l), NEW k \in p..Len(l),
         \A q \in (p + 1)..k : q - p <= Len(entries) => l[q].term = entries[q - p].term,
         k < Len(l) => /\ k + 1 - p <= Len(entries)
                       /\ l[k + 1].term # entries[k + 1 - p].term
  PROVE  Cardinality(Kept(l, p, entries)) = k
<1>1. Len(l) \in Nat /\ Len(entries) \in Nat /\ p \in Nat /\ k \in Nat
  OBVIOUS
<1>2. ASSUME NEW n \in 1..k PROVE n \in Kept(l, p, entries)
  <2>1. n \in 1..Len(l) /\ \A q \in (p + 1)..n : q \in (p + 1)..k
    BY <1>1
  <2> QED
    BY <2>1 DEF Kept
<1>3. ASSUME NEW n \in Kept(l, p, entries) PROVE n \in 1..k
  <2>1. /\ n \in 1..Len(l)
        /\ \A q \in (p + 1)..n : q - p <= Len(entries) => l[q].term = entries[q - p].term
    BY <1>3 DEF Kept
  <2>2. ASSUME n > k PROVE FALSE
    <3>1. k + 1 \in (p + 1)..n /\ k < Len(l)
      BY <1>1, <2>1, <2>2
    <3> QED
      BY <2>1, <3>1
  <2> QED
    BY <1>1, <2>1, <2>2
<1>4. Kept(l, p, entries) = 1..k
  BY <1>2, <1>3
<1>5. 1 \in Int /\ k \in Int
  BY <1>1
<1>6. Cardinality(1..k) = IF 1 > k THEN 0 ELSE k - 1 + 1
  BY <1>5, FS_Interval, Zenon
<1>7. Cardinality(1..k) = k
  BY <1>1, <1>6
<1> QED
  BY <1>4, <1>7

LEMMA KeepIs ==
  ASSUME arg.before \in Seq(Entries), arg.entries \in Seq(Entries),
         arg.prev \in 0..Len(arg.before), NEW k \in arg.prev..Len(arg.before),
         \A q \in (arg.prev + 1)..k : q - arg.prev <= Len(arg.entries)
            => arg.before[q].term = arg.entries[q - arg.prev].term,
         k < Len(arg.before) =>
            /\ k + 1 - arg.prev <= Len(arg.entries)
            /\ arg.before[k + 1].term # arg.entries[k + 1 - arg.prev].term
  PROVE  Keep = k
<1> DEFINE before == arg.before
           entries == arg.entries
           prev == arg.prev
<1> SUFFICES Cardinality(Kept(before, prev, entries)) = k
  BY DEF Keep
<1>1. /\ before \in Seq(Entries) /\ entries \in Seq(Entries)
      /\ prev \in 0..Len(before) /\ k \in prev..Len(before)
  OBVIOUS
<1>2. \A q \in (prev + 1)..k : q - prev <= Len(entries)
            => before[q].term = entries[q - prev].term
  OBVIOUS
<1>3. k < Len(before) => /\ k + 1 - prev <= Len(entries)
                         /\ before[k + 1].term # entries[k + 1 - prev].term
  OBVIOUS
<1> HIDE DEF before, entries, prev
<1> QED
  BY <1>1, <1>2, <1>3, KeptIsPrefix

LEMMA MergeInit == Init => MergeLoop
<1> SUFFICES ASSUME Init, loop = "merge" PROVE MergeLoop
  BY DEF MergeLoop
<1>1. log \in Logs /\ InitMerge
  BY DEF Init, InitSearch, InitConflict, InitCommit
<1>2. PICK prev \in 0..Len(log), entries \in Batches :
         arg = [prev |-> prev, entries |-> entries, before |-> log]
  BY <1>1 DEF InitMerge
<1>3. log \in Seq(Entries) /\ entries \in Seq(Entries) /\ Len(log) \in Nat /\ Len(entries) \in Nat
  BY <1>1, <1>2, LoopAssumption
<1>4. arg.prev = prev /\ arg.entries = entries /\ arg.before = log /\ pc = "compare" /\ i = 0
  BY <1>1, <1>2 DEF InitMerge
<1> QED
  BY <1>2, <1>3, <1>4 DEF MergeLoop

LEMMA MergeNext == MergeLoop /\ [Next]_vars => MergeLoop'
<1> SUFFICES ASSUME MergeLoop, [Next]_vars, loop' = "merge" PROVE MergeLoop'
  BY DEF MergeLoop
<1>1. loop = "merge"
  BY DEF Next, vars, SearchStep, SearchEnd, Agree, Erase, LeaveLoop, Push, MergeEnd,
         ConflictStep, CommitStep
<1> DEFINE before == arg.before
           entries == arg.entries
           prev == arg.prev
<1>2. /\ log \in Seq(Entries) /\ pc \in {"compare", "append", "done"}
      /\ before \in Seq(Entries) /\ entries \in Seq(Entries)
      /\ Len(log) \in Nat /\ Len(before) \in Nat /\ Len(entries) \in Nat
      /\ prev \in 0..Len(before) /\ i \in 0..Len(entries)
      /\ prev \in Nat /\ i \in Nat
  BY <1>1 DEF MergeLoop
<1>3. pc = "compare" => /\ log = before /\ prev + i <= Len(log)
                        /\ \A n \in 1..i : log[prev + n].term = entries[n].term
  BY <1>1 DEF MergeLoop
<1>4. pc # "compare" =>
         /\ Keep \in prev..Len(log)
         /\ Len(log) = IF Keep > prev + i THEN Keep ELSE prev + i
         /\ i < Len(entries) => Len(log) = prev + i
         /\ \A n \in 1..Len(log) : log[n] = IF n <= Keep THEN before[n]
                                            ELSE entries[n - prev]
  BY <1>1 DEF MergeLoop
<1>5. ASSUME pc = "compare"
      PROVE  \A q \in (prev + 1)..(prev + i) : before[q].term = entries[q - prev].term
  <2> SUFFICES ASSUME NEW q \in (prev + 1)..(prev + i)
               PROVE  before[q].term = entries[q - prev].term
    OBVIOUS
  <2>1. q - prev \in 1..i /\ prev + (q - prev) = q
    BY <1>2
  <2> QED
    BY <1>3, <1>5, <2>1
<1>6. CASE Agree
  <2>1. /\ pc = "compare" /\ i' = i + 1 /\ UNCHANGED <<loop, arg, pc, log>>
        /\ prev + i < Len(log) /\ i < Len(entries)
        /\ log[prev + i + 1].term = entries[i + 1].term
    BY <1>6 DEF Agree, At, More, Differs
  <2>2. \A n \in 1..(i + 1) : log[prev + n].term = entries[n].term
    <3> SUFFICES ASSUME NEW n \in 1..(i + 1) PROVE log[prev + n].term = entries[n].term
      OBVIOUS
    <3>1. n \in 1..i \/ (n = i + 1 /\ prev + n = prev + i + 1)
      BY <1>2
    <3> QED
      BY <1>3, <2>1, <3>1
  <2> QED
    BY <1>2, <1>3, <2>1, <2>2 DEF MergeLoop
<1>7. CASE Erase
  <2>1. /\ pc = "compare" /\ pc' = "append" /\ UNCHANGED <<loop, arg, i>>
        /\ prev + i < Len(log) /\ i < Len(entries)
        /\ log[prev + i + 1].term # entries[i + 1].term
        /\ log' = SubSeq(log, 1, prev + i)
    BY <1>7 DEF Erase, Erased, At, More, Differs
  <2>2. /\ log' \in Seq(Entries) /\ Len(log') = prev + i
        /\ \A n \in 1..(prev + i) : log'[n] = log[n]
    BY <1>2, <2>1, SubSeqProperties
  <2>3. Keep = prev + i
    <3>1. prev + i \in prev..Len(before) /\ (prev + i) + 1 - prev = i + 1
      BY <1>2, <1>3, <2>1
    <3>2. /\ before[(prev + i) + 1].term # entries[(prev + i) + 1 - prev].term
          /\ (prev + i) + 1 - prev <= Len(entries)
      <4>1. log = before /\ i + 1 <= Len(entries)
        BY <1>2, <1>3, <2>1
      <4>2. before[(prev + i) + 1].term # entries[i + 1].term
        BY <2>1, <4>1
      <4> QED
        BY <3>1, <4>1, <4>2
    <3>3. \A q \in (prev + 1)..(prev + i) :
             q - prev <= Len(entries) => before[q].term = entries[q - prev].term
      BY <1>5, <2>1
    <3> QED
      BY <1>2, <3>1, <3>2, <3>3, KeepIs
  <2>4. Keep' = Keep
    BY <2>1 DEF Keep
  <2> QED
    BY <1>2, <1>3, <2>1, <2>2, <2>3, <2>4 DEF MergeLoop
<1>8. CASE LeaveLoop
  <2>1. /\ pc = "compare" /\ pc' = "append" /\ UNCHANGED <<loop, arg, i, log>>
        /\ ~(prev + i < Len(log) /\ i < Len(entries))
    BY <1>8 DEF LeaveLoop, At, More
  <2>2. Keep = Len(before)
    <3>1. Len(before) \in prev..Len(before)
      BY <1>2
    <3>2. \A q \in (prev + 1)..Len(before) :
             q - prev <= Len(entries) => q \in (prev + 1)..(prev + i)
      BY <1>2, <1>3, <2>1
    <3>3. \A q \in (prev + 1)..Len(before) :
             q - prev <= Len(entries) => before[q].term = entries[q - prev].term
      BY <1>5, <2>1, <3>2
    <3>4. ~(Len(before) < Len(before))
      BY <1>2
    <3> QED
      BY <1>2, <3>1, <3>3, <3>4, KeepIs
  <2>3. Keep' = Keep
    BY <2>1 DEF Keep
  <2> QED
    BY <1>2, <1>3, <2>1, <2>2, <2>3 DEF MergeLoop
<1>9. CASE Push
  <2>1. /\ pc = "append" /\ i < Len(entries) /\ i' = i + 1 /\ UNCHANGED <<loop, arg, pc>>
        /\ log' = Append(log, entries[i + 1])
    BY <1>9 DEF Push, At
  <2>2. entries[i + 1] \in Entries
    BY <1>2, <2>1, ElementOfSeq
  <2>3. /\ log' \in Seq(Entries) /\ Len(log') = Len(log) + 1
        /\ \A n \in 1..Len(log) : log'[n] = log[n]
        /\ log'[Len(log) + 1] = entries[i + 1]
    BY <1>2, <2>1, <2>2, AppendProperties
  <2>4. Keep' = Keep /\ Len(log) = prev + i /\ Keep \in prev..(prev + i)
    BY <1>4, <2>1 DEF Keep
  <2>5. \A n \in 1..Len(log') : log'[n] = IF n <= Keep THEN before[n] ELSE entries[n - prev]
    <3> SUFFICES ASSUME NEW n \in 1..Len(log')
                 PROVE  log'[n] = IF n <= Keep THEN before[n] ELSE entries[n - prev]
      OBVIOUS
    <3>1. CASE n \in 1..Len(log)
      BY <1>4, <2>1, <2>3, <3>1
    <3>2. CASE n = Len(log) + 1
      <4>1. ~(n <= Keep) /\ n - prev = i + 1
        BY <1>2, <2>4, <3>2
      <4> QED
        BY <2>3, <3>2, <4>1
    <3> QED
      BY <1>2, <2>3, <3>1, <3>2
  <2>6. /\ Keep' \in prev..Len(log') /\ Len(log') = prev + i'
        /\ i' \in 0..Len(entries)
        /\ Len(log') = IF Keep' > prev + i' THEN Keep' ELSE prev + i'
    BY <1>2, <2>1, <2>3, <2>4
  <2> QED
    BY <1>1, <1>2, <2>1, <2>3, <2>4, <2>5, <2>6 DEF MergeLoop
<1>10. CASE MergeEnd
  <2>1. /\ pc = "append" /\ i = Len(entries) /\ pc' = "done"
        /\ UNCHANGED <<loop, arg, log, i>>
    BY <1>2, <1>10 DEF MergeEnd, At, Done
  <2>2. Keep' = Keep
    BY <2>1 DEF Keep
  <2> QED
    BY <1>2, <1>4, <2>1, <2>2 DEF MergeLoop
<1>11. CASE UNCHANGED vars
  BY <1>11 DEF vars, MergeLoop, Keep
<1> QED
  BY <1>1, <1>6, <1>7, <1>8, <1>9, <1>10, <1>11
     DEF Next, At, SearchStep, SearchEnd, ConflictStep, CommitStep

LEMMA MergeEnds == MergeLoop => MergeCorrect /\ OvertakenHarmless
<1> SUFFICES ASSUME MergeLoop, At("merge", "done")
             PROVE  MergeCorrect /\ OvertakenHarmless
  BY DEF MergeCorrect, OvertakenHarmless
<1> DEFINE before == arg.before
           entries == arg.entries
           prev == arg.prev
<1>1. /\ log \in Seq(Entries) /\ before \in Seq(Entries) /\ entries \in Seq(Entries)
      /\ Len(log) \in Nat /\ Len(before) \in Nat /\ Len(entries) \in Nat
      /\ prev \in 0..Len(before) /\ i = Len(entries)
      /\ Keep \in prev..Len(log)
      /\ Len(log) = IF Keep > prev + i THEN Keep ELSE prev + i
      /\ \A n \in 1..Len(log) : log[n] = IF n <= Keep THEN before[n]
                                         ELSE entries[n - prev]
  BY DEF MergeLoop, At
<1>2. MergeCorrect
  <2> DEFINE last == IF prev + Len(entries) > Keep THEN prev + Len(entries) ELSE Keep
             merged == [k \in 1..last |-> IF k <= Keep THEN before[k] ELSE entries[k - prev]]
  <2>1. Len(log) = last
    BY <1>1
  <2>2. log = [k \in 1..Len(log) |-> log[k]]
    BY <1>1
  <2>3. log = merged
    BY <1>1, <2>1, <2>2
  <2>4. merged = Merge(before, prev, entries)
    BY DEF Merge, Keep
  <2> QED
    BY <2>3, <2>4 DEF MergeCorrect
<1>3. OvertakenHarmless
  <2> SUFFICES ASSUME \A n \in 1..Len(entries) : prev + n <= Len(before)
                        => before[prev + n].term = entries[n].term
               PROVE  /\ Len(log) >= Len(before)
                      /\ \A n \in 1..Len(before) : log[n] = before[n]
    BY DEF OvertakenHarmless
  <2>1. ASSUME NEW q \in (prev + 1)..Len(before), q - prev <= Len(entries)
        PROVE  before[q].term = entries[q - prev].term
    <3>1. q - prev \in 1..Len(entries) /\ prev + (q - prev) = q
      BY <1>1, <2>1
    <3> QED
      BY <2>1, <3>1
  <2>2. Keep = Len(before)
    <3>1. Len(before) \in prev..Len(before)
      BY <1>1
    <3>2. ~(Len(before) < Len(before))
      BY <1>1
    <3> QED
      BY <1>1, <2>1, <3>1, <3>2, KeepIs
  <2> QED
    BY <1>1, <2>2
<1> QED
  BY <1>2, <1>3

\* The follower's erase and append loops leave the merge of the cluster model
\* (raft.cpp:1030-1057).
THEOREM MergeIsCorrect == Spec => []MergeCorrect
  BY MergeInit, MergeNext, MergeEnds, PTL DEF Spec

\* A request that only repeats what the log holds does not shorten it
\* (raft.cpp:1041).
THEOREM OvertakenIsHarmless == Spec => []OvertakenHarmless
  BY MergeInit, MergeNext, MergeEnds, PTL DEF Spec

------------------------------------------------------------------------------
(* The two downward scans.                                                  *)

\* The follower's scan: everything passed so far is of the conflicting term.
ConflictLoop ==
  loop = "conflict" =>
    /\ log \in Seq(Entries) /\ pc \in {"run", "done"}
    /\ arg.prev \in 1..Len(log)
    /\ pc = "run" =>
         /\ i \in 0..(arg.prev - 1)
         /\ \A q \in (i + 2)..arg.prev : log[q].term = log[arg.prev].term
    /\ pc = "done" => result = arg.prev - Cardinality(TermRun(log, arg.prev)) + 1

\* A run of a term that begins at s, where the term before differs, has the
\* entries s..p.
LEMMA RunIsInterval ==
  ASSUME NEW l \in Seq(Entries), NEW p \in 1..Len(l), NEW s \in 1..p,
         \A q \in s..p : l[q].term = l[p].term,
         s > 1 => l[s - 1].term # l[p].term
  PROVE  p - Cardinality(TermRun(l, p)) + 1 = s
<1>1. p \in Nat /\ s \in Nat
  OBVIOUS
<1>2. ASSUME NEW k \in s..p PROVE k \in TermRun(l, p)
  <2>1. k \in 1..p /\ \A q \in k..p : q \in s..p
    BY <1>1
  <2> QED
    BY <2>1 DEF TermRun
<1>3. ASSUME NEW k \in TermRun(l, p) PROVE k \in s..p
  <2>1. k \in 1..p /\ \A q \in k..p : l[q].term = l[p].term
    BY <1>3 DEF TermRun
  <2>2. ASSUME k < s PROVE FALSE
    <3>1. s > 1 /\ s - 1 \in k..p
      BY <1>1, <2>1, <2>2
    <3> QED
      BY <2>1, <3>1
  <2> QED
    BY <1>1, <2>1, <2>2
<1>4. TermRun(l, p) = s..p
  BY <1>2, <1>3
<1>5. Cardinality(s..p) = p - s + 1
  BY <1>1, FS_Interval
<1> QED
  BY <1>1, <1>4, <1>5

LEMMA ConflictInit == Init => ConflictLoop
<1> SUFFICES ASSUME Init, loop = "conflict" PROVE ConflictLoop
  BY DEF ConflictLoop
<1>1. log \in Logs /\ InitConflict
  BY DEF Init, InitSearch, InitMerge, InitCommit
<1>2. PICK prev \in 1..Len(log) : arg = [prev |-> prev] /\ i = prev - 1
  BY <1>1 DEF InitConflict
<1>3. log \in Seq(Entries) /\ Len(log) \in Nat /\ arg.prev = prev /\ pc = "run"
  BY <1>1, <1>2, LoopAssumption DEF InitConflict
<1> QED
  BY <1>2, <1>3 DEF ConflictLoop

LEMMA ConflictNext == ConflictLoop /\ [Next]_vars => ConflictLoop'
<1> SUFFICES ASSUME ConflictLoop, [Next]_vars, loop' = "conflict" PROVE ConflictLoop'
  BY DEF ConflictLoop
<1>1. loop = "conflict"
  BY DEF Next, vars, SearchStep, SearchEnd, Agree, Erase, LeaveLoop, Push, MergeEnd,
         ConflictStep, CommitStep
<1> DEFINE p == arg.prev
<1>2. CASE ConflictStep
  <2>1. /\ log \in Seq(Entries) /\ Len(log) \in Nat /\ p \in 1..Len(log) /\ p \in Nat
        /\ i \in 0..(p - 1) /\ i \in Nat
        /\ \A q \in (i + 2)..p : log[q].term = log[p].term
        /\ pc = "run" /\ UNCHANGED <<loop, arg, log>>
    BY <1>1, <1>2 DEF ConflictLoop, ConflictStep, At
  <2>2. ASSUME log[i + 1].term = log[p].term
        PROVE  \A q \in (i + 1)..p : log[q].term = log[p].term
    <3> SUFFICES ASSUME NEW q \in (i + 1)..p PROVE log[q].term = log[p].term
      OBVIOUS
    <3>1. q = i + 1 \/ q \in (i + 2)..p
      BY <2>1
    <3> QED
      BY <2>1, <2>2, <3>1
  <2>3. CASE log[i + 1].term # log[p].term /\ result' = i + 2 /\ pc' = "done"
    <3>1. i + 2 \in 1..p /\ (i + 2) - 1 = i + 1
      <4>1. i + 1 # p
        BY <2>3
      <4> QED
        BY <2>1, <4>1
    <3>2. p - Cardinality(TermRun(log, p)) + 1 = i + 2
      BY <2>1, <2>3, <3>1, RunIsInterval
    <3> QED
      BY <2>1, <2>3, <3>2 DEF ConflictLoop
  <2>4. CASE log[i + 1].term = log[p].term /\ i = 0 /\ result' = 1 /\ pc' = "done"
    <3>1. 1 \in 1..p /\ ~(1 > 1) /\ i + 1 = 1
      BY <2>1, <2>4
    <3>2. \A q \in 1..p : log[q].term = log[p].term
      BY <2>2, <2>4, <3>1
    <3>3. p - Cardinality(TermRun(log, p)) + 1 = 1
      BY <2>1, <3>1, <3>2, RunIsInterval
    <3> QED
      BY <2>1, <2>4, <3>3 DEF ConflictLoop
  <2>5. CASE log[i + 1].term = log[p].term /\ i > 0 /\ i' = i - 1 /\ pc' = pc
    <3>1. i' + 2 = i + 1 /\ i' \in 0..(p - 1)
      BY <2>1, <2>5
    <3>2. \A q \in (i' + 2)..p : log[q].term = log[p].term
      BY <2>2, <2>5, <3>1
    <3> QED
      BY <2>1, <2>5, <3>1, <3>2 DEF ConflictLoop
  <2> QED
    BY <1>2, <2>3, <2>4, <2>5 DEF ConflictStep, Ended, RunStart, Done, Down
<1>3. CASE UNCHANGED vars
  BY <1>3 DEF vars, ConflictLoop
<1> QED
  BY <1>1, <1>2, <1>3 DEF Next, At, SearchStep, SearchEnd, Agree, Erase, LeaveLoop, Push,
                          MergeEnd, CommitStep

\* The follower's scan reports the first index of the run of the conflicting
\* term (raft.cpp:1003-1021).
THEOREM ConflictIsCorrect == Spec => []ConflictCorrect
<1>1. ConflictLoop => ConflictCorrect
  <2> SUFFICES ASSUME ConflictLoop, At("conflict", "done")
               PROVE  result = ConflictInfo(log, arg.prev).conflict_index
    BY DEF ConflictCorrect
  <2>1. /\ log \in Seq(Entries) /\ Len(log) \in Nat /\ arg.prev \in 1..Len(log)
        /\ result = arg.prev - Cardinality(TermRun(log, arg.prev)) + 1
    BY DEF ConflictLoop, At
  <2>2. ~(arg.prev > Len(log))
    BY <2>1
  <2> QED
    BY <2>1, <2>2 DEF ConflictInfo
<1> QED
  BY <1>1, ConflictInit, ConflictNext, PTL DEF Spec

------------------------------------------------------------------------------
\* The leader's scan: nothing it has passed may be committed.
CommitLoop ==
  loop = "commit" =>
    /\ log \in Seq(Entries) /\ pc \in {"run", "done"}
    /\ arg.commit \in 0..Len(log) /\ arg.match \in [Peers -> 0..Len(log)]
    /\ arg.peer \in Peers /\ arg.was \in 0..Len(log)
    /\ pc = "run" =>
         /\ i \in 0..arg.match[arg.peer] /\ result = arg.commit
         /\ \A n \in (i + 1)..arg.match[arg.peer] : n > arg.commit => ~MayCommit(n)
    /\ CommitCorrect

LEMMA CommitInit == Init => CommitLoop
<1> SUFFICES ASSUME Init, loop = "commit" PROVE CommitLoop
  BY DEF CommitLoop
<1>1. log \in LeaderLogs /\ InitCommit
  BY DEF Init, InitSearch, InitMerge, InitConflict
<1>2. log \in Seq(Entries) /\ Len(log) \in Nat
  BY <1>1, LoopAssumption
<1>3. PICK term \in Terms, commit \in 0..Len(log), peer \in Peers, was \in 0..Len(log),
           match \in [Peers -> 0..Len(log)] :
        /\ arg = [term |-> term, commit |-> commit, match |-> match,
                  peer |-> peer, was |-> was]
        /\ i = match[peer] /\ result = commit
  BY <1>1 DEF InitCommit
<1>4. /\ arg.commit = commit /\ arg.match = match /\ arg.peer = peer /\ arg.was = was
      /\ i \in 0..Len(log) /\ pc = "run"
  BY <1>1, <1>3 DEF InitCommit
<1>5. CommitCorrect
  BY <1>4 DEF CommitCorrect, At
<1> QED
  BY <1>2, <1>3, <1>4, <1>5 DEF CommitLoop

LEMMA CommitNext == CommitLoop /\ [Next]_vars => CommitLoop'
<1> SUFFICES ASSUME CommitLoop, [Next]_vars, loop' = "commit" PROVE CommitLoop'
  BY DEF CommitLoop
<1>1. loop = "commit"
  BY DEF Next, vars, SearchStep, SearchEnd, Agree, Erase, LeaveLoop, Push, MergeEnd,
         ConflictStep, CommitStep
<1> DEFINE top == arg.match[arg.peer]
           able == Committable(log, arg.commit, top, arg.term, arg.match, Peers, 0)
<1>2. CASE CommitStep
  <2>1. /\ log \in Seq(Entries) /\ Len(log) \in Nat
        /\ arg.commit \in 0..Len(log) /\ arg.match \in [Peers -> 0..Len(log)]
        /\ arg.peer \in Peers /\ arg.was \in 0..Len(log)
        /\ i \in 0..top /\ result = arg.commit
        /\ \A n \in (i + 1)..top : n > arg.commit => ~MayCommit(n)
        /\ pc = "run" /\ UNCHANGED <<loop, arg, log>>
    BY <1>1, <1>2 DEF CommitLoop, CommitStep, At
  <2>2. top \in 0..Len(log) /\ top \in Nat /\ arg.commit \in Nat /\ i \in Nat
    BY <2>1
  <2>3. able = {n \in (arg.commit + 1)..top : MayCommit(n)}
    <3>1. \A n \in (arg.commit + 1)..top : TermAt(log, n, 0) = log[n].term
      BY <2>1, <2>2 DEF TermAt
    <3> QED
      BY <3>1 DEF Committable, MayCommit
  <2>4. ASSUME pc' = "done",
               result' \in {n \in able : \A m \in able : m <= n}
                             \cup {n \in {arg.commit} : able = {}}
        PROVE  CommitLoop'
    <3>1. CommitCorrect'
      BY <2>1, <2>4 DEF CommitCorrect, NewCommits, At
    <3> QED
      BY <2>1, <2>4, <3>1 DEF CommitLoop
  <2>5. CASE i > arg.commit /\ MayCommit(i) /\ result' = i /\ pc' = "done"
    <3>1. i \in able
      BY <2>1, <2>2, <2>3, <2>5
    <3>2. \A m \in able : m <= i
      BY <2>1, <2>2, <2>3
    <3> HIDE DEF able
    <3> QED
      BY <2>4, <2>5, <3>1, <3>2
  <2>6. CASE i > arg.commit /\ ~MayCommit(i) /\ i' = i - 1 /\ UNCHANGED <<result, pc>>
    <3>1. i' \in 0..top /\ \A n \in (i' + 1)..top : n = i \/ n \in (i + 1)..top
      BY <2>1, <2>2, <2>6
    <3>2. \A n \in (i' + 1)..top : n > arg.commit => ~MayCommit(n)
      BY <2>1, <2>6, <3>1
    <3>3. \A n \in (i' + 1)..top : n > arg.commit => ~MayCommit(n)'
      BY <2>1, <3>2 DEF MayCommit
    <3>4. CommitCorrect'
      BY <2>1, <2>6 DEF CommitCorrect, At
    <3> QED
      BY <2>1, <2>6, <3>1, <3>3, <3>4 DEF CommitLoop
  <2>7. CASE i <= arg.commit /\ pc' = "done" /\ UNCHANGED <<result, i>>
    <3>1. able = {}
      BY <2>1, <2>2, <2>3, <2>7
    <3> HIDE DEF able
    <3> QED
      BY <2>1, <2>4, <2>7, <3>1
  <2> QED
    BY <1>2, <2>5, <2>6, <2>7 DEF CommitStep, Done, Down
<1>3. CASE UNCHANGED vars
  BY <1>3 DEF vars, CommitLoop, MayCommit, CommitCorrect, At
<1> QED
  BY <1>1, <1>2, <1>3 DEF Next, At, SearchStep, SearchEnd, Agree, Erase, LeaveLoop, Push,
                          MergeEnd, ConflictStep

\* An index that enough peers hold is held by enough peers when they hold more.
LEMMA ReplicatedMonotone ==
  ASSUME NEW match, NEW other, NEW n,
         \A j \in Peers : match[j] >= n => other[j] >= n
  PROVE  Replicated(match, Peers, n) => Replicated(other, Peers, n)
<1> DEFINE M == {j \in Peers : match[j] >= n}
           O == {j \in Peers : other[j] >= n}
<1>1. IsFiniteSet(Peers) /\ IsFiniteSet(O)
  BY LoopAssumption, FS_Subset
<1>2. M \in SUBSET O
  OBVIOUS
<1>3. Cardinality(M) <= Cardinality(O) /\ IsFiniteSet(M)
  BY <1>1, <1>2, FS_Subset
<1>4. Cardinality(M) \in Nat /\ Cardinality(O) \in Nat /\ Cardinality(Peers) \in Nat
  BY <1>1, <1>3, FS_CardinalityType
<1>5. (Cardinality(Peers) + 1) \div 2 \in Nat
  BY <1>4
<1> HIDE DEF M, O
<1>6. 1 + Cardinality(M) > (Cardinality(Peers) + 1) \div 2
        => 1 + Cardinality(O) > (Cardinality(Peers) + 1) \div 2
  BY <1>3, <1>4, <1>5
<1> QED
  BY <1>6 DEF Replicated, M, O

LEMMA CommitEnds == CommitLoop => NothingMissed
<1> DEFINE was == [arg.match EXCEPT ![arg.peer] = arg.was]
           top == arg.match[arg.peer]
<1> SUFFICES ASSUME CommitLoop, At("commit", "done"),
                    Committable(log, arg.commit, Len(log), arg.term, was, Peers, 0) = {},
                    NEW n \in Committable(log, result, Len(log), arg.term, arg.match, Peers, 0)
             PROVE  FALSE
  BY DEF NothingMissed
<1>1. /\ log \in Seq(Entries) /\ Len(log) \in Nat
      /\ arg.commit \in 0..Len(log) /\ arg.match \in [Peers -> 0..Len(log)]
      /\ arg.peer \in Peers /\ arg.was \in 0..Len(log) /\ top \in 0..Len(log)
      /\ result \in NewCommits(log, arg.commit, top, arg.term, arg.match, Peers, 0)
  BY DEF CommitLoop, CommitCorrect, At
<1>2. /\ n \in (result + 1)..Len(log)
      /\ TermAt(log, n, 0) = arg.term /\ Replicated(arg.match, Peers, n)
  BY DEF Committable
<1> DEFINE able == Committable(log, arg.commit, top, arg.term, arg.match, Peers, 0)
<1>3. result \in {m \in able : \A k \in able : k <= m} \cup {m \in {arg.commit} : able = {}}
  BY <1>1 DEF NewCommits
<1>4. \A m \in able : m \in (arg.commit + 1)..top
  BY DEF Committable
<1>5. result \in Nat /\ arg.commit <= result /\ \A m \in able : m <= result
  BY <1>1, <1>3, <1>4
<1>6. CASE n <= top
  <2>1. n \in (arg.commit + 1)..top
    BY <1>1, <1>2, <1>5, <1>6
  <2>2. n \in able
    BY <1>2, <2>1 DEF Committable
  <2> QED
    BY <1>2, <1>5, <2>2
<1>7. CASE n > top
  <2>1. \A j \in Peers : arg.match[j] >= n => was[j] >= n
    BY <1>1, <1>2, <1>5, <1>7
  <2>2. Replicated(was, Peers, n)
    BY <1>2, <2>1, ReplicatedMonotone
  <2>3. n \in (arg.commit + 1)..Len(log)
    BY <1>1, <1>2, <1>5
  <2> QED
    BY <1>2, <2>2, <2>3 DEF Committable
<1> QED
  BY <1>1, <1>2, <1>5, <1>6, <1>7

\* The leader's scan commits the highest index the cluster model allows
\* (raft.cpp:850-871).
THEOREM CommitIsCorrect == Spec => []CommitCorrect
<1>1. CommitLoop => CommitCorrect
  BY DEF CommitLoop, CommitCorrect, At
<1> QED
  BY <1>1, CommitInit, CommitNext, PTL DEF Spec

\* Scanning down from the acknowledged index misses nothing that may be
\* committed (raft.cpp:852).
THEOREM NothingIsMissed == Spec => []NothingMissed
  BY CommitInit, CommitNext, CommitEnds, PTL DEF Spec
==============================================================================
