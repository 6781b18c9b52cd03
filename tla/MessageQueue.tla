------------------------------ MODULE MessageQueue ------------------------------
(***************************************************************************)
(* The blocking queue of src/inc/toolings/msg_queue.hpp through which a node  *)
(* hands committed entries to its state machine.  All of it runs under one   *)
(* mutex; a thread gives it up only inside a wait on prod_ready_ or           *)
(* con_ready_, so the stretches between waits are the actions.  A thread in   *)
(* a wait stays there until it is notified (or wakes for no reason), and      *)
(* then looks at its predicate again.  An item is named by its producer.      *)
(***************************************************************************)
EXTENDS Integers, Sequences, FiniteSets

CONSTANTS Producer,     \* threads that call enqueue
          Consumer,     \* threads that call dequeue
          Poller,       \* threads that call try_dequeue
          BufferSizes,  \* the values of buffer_size_; 0 is the unbuffered queue
          MaxCalls      \* bound: calls per thread

ASSUME QueueAssumption ==
  /\ BufferSizes \subseteq Nat /\ MaxCalls \in Nat
  /\ Producer \cap Consumer = {} /\ Producer \cap Poller = {}
  /\ Consumer \cap Poller = {}

VARIABLES queue, closed,
          buffer_size,   \* fixed by the constructor
          pc,            \* where each thread stands
          notified,      \* the waiting threads that have been woken
          calls          \* calls each thread has made
vars == <<queue, closed, buffer_size, pc, notified, calls>>

Thread == Producer \cup Consumer \cup Poller

\* Every waiting place, item and counter is one the code can have.
TypeOK ==
  /\ queue \in Seq(Producer)
  /\ closed \in BOOLEAN
  /\ buffer_size \in BufferSizes
  /\ pc \in [Thread -> {"idle", "wait_space", "wait_taken", "wait_item"}]
  /\ notified \subseteq Thread
  /\ calls \in [Thread -> Nat]

Init ==
  /\ queue = <<>> /\ closed = FALSE
  /\ buffer_size \in BufferSizes
  /\ pc = [t \in Thread |-> "idle"]
  /\ notified = {}
  /\ calls = [t \in Thread |-> 0]

At(places) == {t \in Thread : pc[t] \in places}
MayCall(t) == pc[t] = "idle" /\ calls[t] < MaxCalls
Called(t) == calls' = [calls EXCEPT ![t] = @ + 1]
Goto(t, place) == pc' = [pc EXCEPT ![t] = place]

\* notify_all on each of the two condition variables.
NobodyReady == {}
SpaceReady == At({"wait_space"})
ProdReady == At({"wait_space", "wait_taken"})
ConReady == At({"wait_item"})

------------------------------------------------------------------------------
\* The predicates of the three waits, lines 59-64, 73 and 79.
SpaceFree == closed \/ (IF buffer_size = 0 THEN queue = <<>>
                        ELSE Len(queue) < buffer_size)
TakenSkipped == TRUE
Taken == queue = <<>> \/ closed
ItemReady == queue # <<>> \/ closed

\* enqueue from its first wait on: nothing is stored once the queue is
\* closed; the unbuffered queue waits once more, for the item to be taken.
Enqueue(p) ==
  \/ /\ ~SpaceFree
     /\ Goto(p, "wait_space")
     /\ notified' = notified \ {p}
     /\ UNCHANGED <<queue, closed>>
  \/ /\ SpaceFree /\ closed
     /\ Goto(p, "idle")
     /\ notified' = notified \ {p}
     /\ UNCHANGED <<queue, closed>>
  \/ /\ SpaceFree /\ ~closed
     /\ queue' = Append(queue, p)
     /\ Goto(p, IF buffer_size = 0 THEN "wait_taken" ELSE "idle")
     /\ notified' = (notified \ {p}) \cup ConReady
     /\ UNCHANGED closed

\* A producer woken in its second wait.
EnqueueReturn(p) ==
  /\ Goto(p, IF Taken THEN "idle" ELSE "wait_taken")
  /\ notified' = notified \ {p}
  /\ UNCHANGED <<queue, closed>>

\* dequeue from its wait on; once closed, what is left is not delivered.
Dequeue(c) ==
  \/ /\ ~ItemReady
     /\ Goto(c, "wait_item")
     /\ notified' = notified \ {c}
     /\ UNCHANGED <<queue, closed>>
  \/ /\ ItemReady /\ closed
     /\ Goto(c, "idle")
     /\ notified' = notified \ {c}
     /\ UNCHANGED <<queue, closed>>
  \/ /\ ItemReady /\ ~closed
     /\ queue' = Tail(queue)
     /\ Goto(c, "idle")
     /\ notified' = (notified \ {c}) \cup ProdReady
     /\ UNCHANGED closed

\* try_dequeue takes an item, open or closed, and notifies nobody.
TryDequeue(t) ==
  /\ queue' = IF queue = <<>> THEN queue ELSE Tail(queue)
  /\ UNCHANGED <<closed, pc, notified>>

\* close(), also run by the destructor and by RaftWrapper::cleanup.
CloseQuietly == ~closed /\ closed' = TRUE /\ UNCHANGED <<queue, buffer_size, pc, notified, calls>>
Close ==
  /\ ~closed
  /\ closed' = TRUE
  /\ notified' = notified \cup ProdReady \cup ConReady
  /\ UNCHANGED <<queue, buffer_size, pc, calls>>

------------------------------------------------------------------------------
Call ==
  /\ \/ \E p \in Producer : MayCall(p) /\ Called(p) /\ Enqueue(p)
     \/ \E c \in Consumer : MayCall(c) /\ Called(c) /\ Dequeue(c)
     \/ \E t \in Poller : MayCall(t) /\ Called(t) /\ TryDequeue(t)
  /\ UNCHANGED buffer_size

\* A notified thread gets the mutex and goes on from its wait.
Wake(t) ==
  /\ t \in notified
  /\ \/ pc[t] = "wait_space" /\ Enqueue(t)
     \/ pc[t] = "wait_taken" /\ EnqueueReturn(t)
     \/ pc[t] = "wait_item" /\ Dequeue(t)
  /\ UNCHANGED <<calls, buffer_size>>

\* wait may return without a notification.
Spurious(t) ==
  /\ pc[t] # "idle" /\ t \notin notified
  /\ notified' = notified \cup {t}
  /\ UNCHANGED <<queue, closed, buffer_size, pc, calls>>

Next == Call \/ Close \/ \E t \in Thread : Wake(t) \/ Spurious(t)

\* The mutex is free between actions, so a woken thread gets it in the end;
\* nobody has to call, to close, or to wake without a reason.
Spec == Init /\ [][Next]_vars /\ \A t \in Thread : WF_vars(Wake(t))

------------------------------------------------------------------------------
\* Lines 59-63: no more is stored than the buffer holds, or one item when
\* there is none, however many producers leave their wait at once.
Capacity == Len(queue) <= (IF buffer_size = 0 THEN 1 ELSE buffer_size)

\* No wake-up is lost: a thread left waiting and not notified has nothing to
\* go on with (enqueue's notify at 71, close's at 102-103).
ConsumersAwake ==
  \A c \in Consumer : pc[c] = "wait_item" /\ c \notin notified => ~ItemReady

\* The same of producers (dequeue's notify at 85), until somebody polls:
\* try_dequeue makes room and tells nobody.
Unpolled == \A t \in Poller : calls[t] = 0
NoProducerLeft ==
  \A p \in Producer \ notified : /\ pc[p] = "wait_space" => ~SpaceFree
                                 /\ pc[p] = "wait_taken" => ~Taken
ProducersAwake == Unpolled => NoProducerLeft

\* "the producer (enqueue) will block until the consumer (dequeue) is ready"
\* (18-19): while an unbuffered queue is open, a producer that is not in
\* enqueue's second wait has no item left in it.
InQueue(p) == \E n \in 1..Len(queue) : queue[n] = p
ReturnedMeansTaken ==
  buffer_size = 0 /\ ~closed
    => \A p \in Producer : InQueue(p) => pc[p] = "wait_taken"

\* And it blocks no longer than that: once its item is taken by dequeue, it
\* returns (the second wait, 73, with the notify of 85), unless another
\* producer's item has taken the place, which the second wait mistakes for
\* its own.
HandedOff ==
  \A p \in Producer : (pc[p] = "wait_taken" /\ ~InQueue(p))
    ~> (pc[p] = "idle" \/ ~Unpolled \/ \E q \in Producer \ {p} : InQueue(q))

\* close (99-104) releases every thread from every wait.
CloseReleases == closed ~> (\A t \in Thread : pc[t] = "idle")
==============================================================================
