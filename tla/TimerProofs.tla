------------------------------ MODULE TimerProofs ------------------------------
(***************************************************************************)
(* Proofs about the timers of a node (module RaftTimer), for any number of    *)
(* detached threads.                                                          *)
(***************************************************************************)
EXTENDS RaftTimer, TLAPS

TimerInv == TypeOK /\ NeverSilent

\* The constructor's node runs no timer and owes none.
LEMMA TimerInit == Init => TimerInv
  BY TimerAssumption DEF Init, TimerInv, TypeOK, NeverSilent, Alive, Role

\* Every step keeps the types: in particular the number timerCounter stands
\* at is held by a thread that is a timer, or by none.
LEMMA TimerTypes == TypeOK /\ [Next]_vars => TypeOK'
<1> SUFFICES ASSUME TypeOK, [Next]_vars PROVE TypeOK'
  OBVIOUS
<1> USE TimerAssumption DEF TypeOK, Role, Start, Timer, Expired
<1>1. CASE Kill
  BY <1>1 DEF Kill
<1>2. ASSUME NEW t \in Thread, Run(t) PROVE TypeOK'
  BY <1>2 DEF Run, Fork, Goto
<1>3. ASSUME NEW t \in Thread, StartTimer(t) PROVE TypeOK'
  BY <1>3 DEF StartTimer, Goto
<1>4. ASSUME NEW t \in Thread, Cancelled(t) PROVE TypeOK'
  BY <1>4 DEF Cancelled, Goto, Ended
<1>5. ASSUME NEW t \in Thread, Expire(t) PROVE TypeOK'
  BY <1>5 DEF Expire, Goto
<1>6. ASSUME NEW t \in Thread, BecomeCandidate(t) PROVE TypeOK'
  BY <1>6 DEF BecomeCandidate, Goto
<1>7. ASSUME NEW t \in Thread, SendEntries(t) PROVE TypeOK'
  BY <1>7 DEF SendEntries, Goto
<1>8. ASSUME NEW t \in Thread, BecomeLeader(t) PROVE TypeOK'
  BY <1>8 DEF BecomeLeader, Fork, Goto
<1>9. ASSUME NEW t \in Thread, HearPeer(t) PROVE TypeOK'
  BY <1>9 DEF HearPeer, Fork, Goto
<1>10. CASE UNCHANGED vars
  BY <1>10 DEF vars
<1> QED
  BY <1>1, <1>2, <1>3, <1>4, <1>5, <1>6, <1>7, <1>8, <1>9, <1>10 DEF Next, Own, FromPeer

\* Whoever cancels a timer has started one, and whoever ends one is about to
\* start the next.
LEMMA TimerPassedOn == TimerInv /\ [Next]_vars => NeverSilent'
<1> SUFFICES ASSUME TimerInv, [Next]_vars PROVE NeverSilent'
  OBVIOUS
<1> USE TimerAssumption DEF TimerInv, TypeOK, NeverSilent, Alive, Start, Timer, Expired
<1>1. CASE Kill
  BY <1>1 DEF Kill
<1>2. ASSUME NEW t \in Thread, Run(t) PROVE NeverSilent'
  BY <1>2 DEF Run, Fork, Goto
<1>3. ASSUME NEW t \in Thread, StartTimer(t) PROVE NeverSilent'
  BY <1>3 DEF StartTimer, Goto
<1>4. ASSUME NEW t \in Thread, Cancelled(t) PROVE NeverSilent'
  <2>1. CASE dead
    BY <1>4, <2>1 DEF Cancelled
  <2>2. CASE ~dead /\ current # NoTimer
    BY <1>4, <2>2 DEF Cancelled, Ended
  <2>3. CASE ~dead /\ current = NoTimer
    BY <1>4, <2>3 DEF Cancelled, Goto, Ended
  <2> QED
    BY <2>1, <2>2, <2>3
<1>5. ASSUME NEW t \in Thread, Expire(t) PROVE NeverSilent'
  BY <1>5 DEF Expire, Goto
<1>6. ASSUME NEW t \in Thread, BecomeCandidate(t) PROVE NeverSilent'
  BY <1>6 DEF BecomeCandidate, Goto
<1>7. ASSUME NEW t \in Thread, SendEntries(t) PROVE NeverSilent'
  BY <1>7 DEF SendEntries, Goto
<1>8. ASSUME NEW t \in Thread, BecomeLeader(t) PROVE NeverSilent'
  BY <1>8 DEF BecomeLeader, Fork, Goto
<1>9. ASSUME NEW t \in Thread, HearPeer(t) PROVE NeverSilent'
  BY <1>9 DEF HearPeer, Fork, Goto
<1>10. CASE UNCHANGED vars
  BY <1>10 DEF vars
<1> QED
  BY <1>1, <1>2, <1>3, <1>4, <1>5, <1>6, <1>7, <1>8, <1>9, <1>10 DEF Next, Own, FromPeer

\* A node that runs always has a timer, the start of one, or the work of one
\* that expired, however many threads race for timerCounter.
THEOREM AlwaysTimed == Spec => []NeverSilent
<1>1. TimerInv /\ [Next]_vars => TimerInv'
  BY TimerTypes, TimerPassedOn DEF TimerInv
<1>2. TimerInv => NeverSilent
  BY DEF TimerInv
<1> QED
  BY TimerInit, <1>1, <1>2, PTL DEF Spec
==============================================================================
