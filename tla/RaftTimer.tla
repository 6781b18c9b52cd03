------------------------------- MODULE RaftTimer -------------------------------
(***************************************************************************)
(* The timers of one node (src/src/raft.cpp, start_timer and everything that  *)
(* forks a timer).  A timer is a detached thread that sleeps on cv until its  *)
(* time is up or timerCounter has moved past the number it was given; starting*)
(* one is a detached thread too, so that any number of starts may be on their *)
(* way and the last to take the mutex wins.  timerCounter is only ever        *)
(* compared with the number a timer got from it, so the model keeps the thread*)
(* that holds the latest number, or NoTimer when that thread has ended.       *)
(* Durations are left out: a timer may expire at any time after its start.    *)
(***************************************************************************)
CONSTANTS Thread,    \* bound: detached threads alive at once
          NoTimer    \* no thread holds the latest timerCounter

ASSUME TimerAssumption == NoTimer \notin Thread

VARIABLES role,      \* currentRole
          active,    \* set by run
          dead,      \* set by kill
          pc,        \* what each detached thread is there to do
          current    \* the timer whose number equals timerCounter
vars == <<role, active, dead, pc, current>>

Role == {"Leader", "Follower", "Candidate"}
Start == {"start_election_timer", "start_heartbeat_timer"}
Timer == {"election", "heartbeat"}     \* mode 0 and mode 1 of start_timer
Expired == {"become_candidate", "send_entries"}

\* Every thread does what the code forks threads for, and the latest number
\* is held by a timer.
TypeOK ==
  /\ role \in Role /\ active \in BOOLEAN /\ dead \in BOOLEAN
  /\ pc \in [Thread -> Start \cup Timer \cup Expired \cup {"none"}]
  /\ current \in Thread \cup {NoTimer}
  /\ current \in Thread => pc[current] \in Timer

\* The constructor leaves currentRole without a value and starts no timer.
Init ==
  /\ role \in Role
  /\ active = FALSE /\ dead = FALSE
  /\ pc = [t \in Thread |-> "none"]
  /\ current = NoTimer

Goto(t, place) == pc' = [pc EXCEPT ![t] = place]
Fork(t, place) == pc[t] = "none" /\ Goto(t, place)
Ended(t) == IF t = current THEN NoTimer ELSE current

------------------------------------------------------------------------------
\* run: the calling thread goes on into start_election_timer by way of
\* become_follower.  The harness and the console run a node once.
Run(t) ==
  /\ ~active
  /\ active' = TRUE
  /\ role' = "Follower"
  /\ Fork(t, "start_election_timer")
  /\ UNCHANGED <<dead, current>>

\* The increment under the mutex, and the timer thread forked after it.
StartTimer(t) ==
  /\ pc[t] \in Start
  /\ Goto(t, IF pc[t] = "start_election_timer" THEN "election" ELSE "heartbeat")
  /\ current' = t
  /\ UNCHANGED <<role, active, dead>>

\* start_timer's wait_for returned TRUE: overtaken, or the node was killed.
Cancelled(t) ==
  /\ pc[t] \in Timer
  /\ t # current \/ dead
  /\ Goto(t, "none")
  /\ current' = Ended(t)
  /\ UNCHANGED <<role, active, dead>>

\* start_timer after a time-out: what it forks depends on the role of this
\* moment, not on the mode of the timer.
ExpireByMode(t) ==
  /\ pc[t] \in Timer /\ t = current /\ ~dead
  /\ Goto(t, IF pc[t] = "election" THEN "become_candidate" ELSE "send_entries")
  /\ current' = NoTimer
  /\ UNCHANGED <<role, active, dead>>
ExpireDead(t) ==
  /\ pc[t] \in Timer /\ t = current
  /\ Goto(t, IF role = "Leader" THEN "send_entries" ELSE "become_candidate")
  /\ current' = NoTimer
  /\ UNCHANGED <<role, active, dead>>
Expire(t) ==
  /\ pc[t] \in Timer
  /\ t = current /\ ~dead
  /\ Goto(t, IF role = "Leader" THEN "send_entries" ELSE "become_candidate")
  /\ current' = NoTimer
  /\ UNCHANGED <<role, active, dead>>

\* become_candidate does not look at the role again, and starts a timer.
BecomeCandidate(t) ==
  /\ pc[t] = "become_candidate"
  /\ role' = "Candidate"
  /\ Goto(t, "start_election_timer")
  /\ UNCHANGED <<active, dead, current>>

\* send_entries does not look at the role at all: after its requests it
\* starts the heartbeat timer, "Assuming leader continues to send heartbeat
\* until the status changes".
SendEntriesOnce(t) ==
  /\ pc[t] = "send_entries"
  /\ Goto(t, "none")
  /\ UNCHANGED <<role, active, dead, current>>
SendEntriesElection(t) ==
  /\ pc[t] = "send_entries"
  /\ Goto(t, "start_election_timer")
  /\ UNCHANGED <<role, active, dead, current>>
SendEntries(t) ==
  /\ pc[t] = "send_entries"
  /\ Goto(t, "start_heartbeat_timer")
  /\ UNCHANGED <<role, active, dead, current>>

------------------------------------------------------------------------------
\* What peers can do to the timers.  A candidate gets its last vote
\* (become_leader); or a request or reply is heard that makes the node a
\* follower: AppendEntries of a leader, a vote granted, a later term in a
\* request or a reply.  Either forks a start of the timer that goes with it.
BecomeLeader(t) ==
  /\ role = "Candidate"
  /\ role' = "Leader"
  /\ Fork(t, "start_heartbeat_timer")
  /\ UNCHANGED <<active, dead, current>>

HearPeer(t) ==
  /\ active
  /\ role' = "Follower"
  /\ Fork(t, "start_election_timer")
  /\ UNCHANGED <<active, dead, current>>

\* kill notifies nobody: timers find out when their time is up.
Kill ==
  /\ active /\ ~dead
  /\ dead' = TRUE
  /\ UNCHANGED <<role, active, pc, current>>

Own(t) == StartTimer(t) \/ Cancelled(t) \/ Expire(t) \/ BecomeCandidate(t)
            \/ SendEntries(t)
FromPeer(t) == (active /\ BecomeLeader(t)) \/ HearPeer(t)
Next == Kill \/ \E t \in Thread : Run(t) \/ Own(t) \/ FromPeer(t)

\* A detached thread is scheduled in the end, the mutex is never kept, and a
\* time-out comes; peers, run and kill owe nothing.
Fairness == \A t \in Thread : WF_vars(Own(t))
Spec == Init /\ [][Next]_vars /\ Fairness

------------------------------------------------------------------------------
\* start_election_timer and start_heartbeat_timer race for timerCounter
\* (182, 220), and every winner cancels the others: a node that runs is never
\* left with neither a timer, nor the start of one, nor the work of one that
\* expired.
Alive == active /\ ~dead
NeverSilent ==
  Alive => current # NoTimer \/ \E t \in Thread : pc[t] \in Start \cup Expired

\* Peers that fall silent: from some time on nothing is heard from them.
Quiet == <>[][\A t \in Thread : ~FromPeer(t)]_vars

\* A node that hears nothing settles: it leads for ever, or it is a candidate
\* for ever, whatever starts and expiries of earlier roles are still under
\* way (77, 269).
Settles ==
  Quiet => \/ <>[](Alive => role = "Leader")
           \/ <>[](Alive => role = "Candidate")

\* And it keeps at it: timers go on expiring, so a leader goes on sending
\* and a candidate campaigning.
KeepsTrying ==
  Quiet => []<>(Alive => \E t \in Thread :
      pc[t] = IF role = "Leader" THEN "send_entries" ELSE "become_candidate")

\* A late start of the other kind of timer (899-914 after a step down, 281-295
\* after the election is won) does no lasting harm: the timers of a node that
\* hears nothing are in the end those of its role.
RightTimer ==
  Quiet => <>[](Alive /\ current # NoTimer
                  => (pc[current] = "heartbeat" <=> role = "Leader"))

\* A killed node that hears nothing more comes to rest: kill (raft.ipp 73-77)
\* sets a flag and notifies nobody.
KillQuiets == Quiet => (dead ~> \A t \in Thread : pc[t] = "none")
==============================================================================
