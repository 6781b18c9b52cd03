------------------------------ MODULE QueueProofs ------------------------------
(***************************************************************************)
(* The queue of MessageQueue loses no wake-up and hands over every item, for *)
(* any number of threads and any buffer.                                     *)
(***************************************************************************)
EXTENDS MessageQueue, SequenceTheorems, TLAPS

\* Producers wait in enqueue, consumers in dequeue, pollers nowhere.
Placed ==
  \A t \in Thread : /\ pc[t] \in {"wait_space", "wait_taken"} => t \in Producer
                    /\ pc[t] = "wait_item" => t \in Consumer

QueueInv == /\ TypeOK /\ Placed /\ Capacity /\ ConsumersAwake
            /\ ProducersAwake /\ ReturnedMeansTaken

LEMMA QueueInit == Init => QueueInv
<1> SUFFICES ASSUME Init PROVE QueueInv
  OBVIOUS
<1>1. TypeOK
  <2>1. queue \in Seq(Producer)
    BY EmptySeq DEF Init
  <2> QED BY <2>1 DEF Init, TypeOK
<1>2. Placed /\ ConsumersAwake /\ ProducersAwake
  BY DEF Init, Placed, ConsumersAwake, ProducersAwake, NoProducerLeft, Thread
<1>3. Capacity /\ ReturnedMeansTaken
  BY QueueAssumption DEF Init, Capacity, ReturnedMeansTaken, InQueue
<1> QED BY <1>1, <1>2, <1>3 DEF QueueInv

\* What a queue that has lost its head still holds, it held before.
LEMMA TailFacts ==
  ASSUME NEW S, NEW q \in Seq(S), q # <<>>
  PROVE  /\ Tail(q) \in Seq(S) /\ Len(Tail(q)) = Len(q) - 1 /\ Len(q) > 0
         /\ \A n \in 1..Len(Tail(q)) : n + 1 \in 1..Len(q) /\ Tail(q)[n] = q[n + 1]
  BY HeadTailProperties, EmptySeq, LenProperties

\* enqueue, entered by a call or by a wake-up from its first wait.
LEMMA QueueEnqueue ==
  ASSUME QueueInv, NEW p \in Producer, Enqueue(p), pc[p] # "wait_taken",
         calls' \in [Thread -> Nat], Unpolled' => Unpolled, UNCHANGED buffer_size
  PROVE  QueueInv'
<1>1. TypeOK /\ p \in Thread /\ Placed
  BY DEF QueueInv, Thread
<1>2. CASE ~SpaceFree
  <2>1. /\ pc' = [pc EXCEPT ![p] = "wait_space"]
        /\ notified' = notified \ {p} /\ UNCHANGED <<queue, closed>>
    BY <1>2 DEF Enqueue, Goto
  <2>2. TypeOK' /\ Placed'
    BY <1>1, <2>1 DEF TypeOK, Placed
  <2>3. ConsumersAwake' /\ Capacity'
    BY <1>1, <2>1, QueueAssumption
    DEF TypeOK, QueueInv, ConsumersAwake, Capacity, ItemReady, Thread
  <2>4. ReturnedMeansTaken'
    BY <1>1, <2>1 DEF TypeOK, QueueInv, ReturnedMeansTaken, InQueue, Thread
  <2>5. ASSUME Unpolled PROVE NoProducerLeft'
    BY <1>1, <1>2, <2>1, <2>5
    DEF TypeOK, QueueInv, ProducersAwake, NoProducerLeft, SpaceFree, Taken, Thread
  <2> QED BY <2>2, <2>3, <2>4, <2>5 DEF QueueInv, ProducersAwake
<1>3. CASE SpaceFree /\ closed
  <2>1. /\ pc' = [pc EXCEPT ![p] = "idle"]
        /\ notified' = notified \ {p} /\ UNCHANGED <<queue, closed>>
    BY <1>3 DEF Enqueue, Goto
  <2>2. TypeOK' /\ Placed'
    BY <1>1, <2>1 DEF TypeOK, Placed
  <2>3. ConsumersAwake' /\ Capacity' /\ ReturnedMeansTaken'
    BY <1>1, <1>3, <2>1, QueueAssumption
    DEF TypeOK, QueueInv, ConsumersAwake, Capacity, ItemReady, Thread,
        ReturnedMeansTaken
  <2>5. ASSUME Unpolled PROVE NoProducerLeft'
    BY <1>1, <2>1, <2>5
    DEF TypeOK, QueueInv, ProducersAwake, NoProducerLeft, SpaceFree, Taken, Thread
  <2> QED BY <2>2, <2>3, <2>5 DEF QueueInv, ProducersAwake
<1>4. CASE SpaceFree /\ ~closed
  <2>1. /\ pc' = [pc EXCEPT ![p] =
                    IF buffer_size = 0 THEN "wait_taken" ELSE "idle"]
        /\ notified' = (notified \ {p}) \cup ConReady
        /\ queue' = Append(queue, p) /\ UNCHANGED closed
    BY <1>4 DEF Enqueue, Goto
  <2>2. queue \in Seq(Producer) /\ Len(queue) \in Nat
    BY <1>1, LenProperties DEF TypeOK
  <2>3. /\ queue' \in Seq(Producer) /\ Len(queue') = Len(queue) + 1
        /\ queue' # <<>>
        /\ \A n \in 1..Len(queue) : queue'[n] = queue[n]
        /\ queue'[Len(queue) + 1] = p
    BY <2>1, <2>2, AppendProperties
  <2>4. TypeOK' /\ Placed'
    BY <1>1, <2>1, <2>3 DEF TypeOK, Placed, ConReady, At
  <2>5. Capacity'
    BY <1>1, <1>4, <2>2, <2>3, QueueAssumption, EmptySeq 
    DEF SpaceFree, Capacity, TypeOK
  <2>6. ConsumersAwake'
    <3> SUFFICES ASSUME NEW c \in Consumer, pc'[c] = "wait_item",
                        c \notin notified'
                 PROVE  FALSE
      BY DEF ConsumersAwake
    <3>1. c # p /\ c \in Thread
      BY QueueAssumption DEF Thread
    <3>2. pc[c] = "wait_item"
      BY <1>1, <2>1, <3>1 DEF TypeOK
    <3> QED BY <2>1, <3>1, <3>2 DEF ConReady, At
  <2>7. ReturnedMeansTaken'
    <3> SUFFICES ASSUME buffer_size = 0, NEW v \in Producer, InQueue(v)'
                 PROVE  pc'[v] = "wait_taken"
      BY DEF ReturnedMeansTaken
    <3>1. queue = <<>> /\ Len(queue) = 0
      BY <1>4, EmptySeq DEF SpaceFree
    <3>2. v = p
      BY <2>3, <3>1 DEF InQueue
    <3> QED BY <1>1, <2>1, <3>2 DEF TypeOK
  <2>8. ASSUME Unpolled PROVE NoProducerLeft'
    <3> SUFFICES ASSUME NEW v \in Producer, v \notin notified'
                 PROVE  /\ pc'[v] = "wait_space" => ~SpaceFree'
                        /\ pc'[v] = "wait_taken" => ~Taken'
      BY DEF NoProducerLeft
    <3>1. v \in Thread /\ ~closed'
      BY <1>4, <2>1 DEF Thread
    <3>2. ~Taken'
      BY <2>3, <3>1 DEF Taken
    <3>3. ASSUME pc'[v] = "wait_space" PROVE ~SpaceFree'
      <4>1. v # p /\ pc[v] = "wait_space" /\ v \notin notified
        BY <1>1, <2>1, <3>1, <3>3 DEF TypeOK
      <4>2. ~SpaceFree
        BY <2>8, <4>1 DEF QueueInv, ProducersAwake, NoProducerLeft
      <4> QED BY <1>4, <4>2
    <3> QED BY <3>2, <3>3
  <2> QED BY <2>4, <2>5, <2>6, <2>7, <2>8 DEF QueueInv, ProducersAwake
<1> QED BY <1>2, <1>3, <1>4

\* enqueue's second wait.
LEMMA QueueReturn ==
  ASSUME QueueInv, NEW p \in Producer, EnqueueReturn(p), pc[p] = "wait_taken",
         UNCHANGED <<calls, buffer_size>>
  PROVE  QueueInv'
<1>1. TypeOK /\ p \in Thread /\ Placed
  BY DEF QueueInv, Thread
<1>2. /\ pc' = [pc EXCEPT ![p] = IF Taken THEN "idle" ELSE "wait_taken"]
      /\ notified' = notified \ {p} /\ UNCHANGED <<queue, closed>>
  BY DEF EnqueueReturn, Goto
<1>3. TypeOK' /\ Placed'
  BY <1>1, <1>2 DEF TypeOK, Placed
<1>4. ConsumersAwake' /\ Capacity'
  BY <1>1, <1>2, QueueAssumption
  DEF TypeOK, QueueInv, ConsumersAwake, Capacity, ItemReady, Thread
<1>5. ReturnedMeansTaken'
  <2> SUFFICES ASSUME buffer_size = 0, ~closed, NEW v \in Producer, InQueue(v)
               PROVE  pc'[v] = "wait_taken"
    BY <1>2 DEF ReturnedMeansTaken, InQueue
  <2>1. pc[v] = "wait_taken" /\ v \in Thread
    BY DEF QueueInv, ReturnedMeansTaken, Thread
  <2>2. ~Taken
    BY EmptySeq DEF Taken, InQueue
  <2> QED BY <1>1, <1>2, <2>1, <2>2 DEF TypeOK
<1>6. ASSUME Unpolled PROVE NoProducerLeft'
  BY <1>1, <1>2, <1>6 DEF TypeOK, QueueInv, ProducersAwake, NoProducerLeft, SpaceFree, Taken, Thread
<1>7. Unpolled' = Unpolled
  BY DEF Unpolled
<1> QED BY <1>3, <1>4, <1>5, <1>6, <1>7 DEF QueueInv, ProducersAwake

\* An item leaves the queue, and nobody but a consumer that goes idle moves.
LEMMA QueueShrinks ==
  ASSUME QueueInv, queue # <<>>, queue' = Tail(queue), UNCHANGED <<closed, buffer_size>>,
         TypeOK', Placed',
         \A t \in Thread : pc'[t] = pc[t] \/ (t \in Consumer /\ pc'[t] = "idle"),
         \A c \in Consumer : c \in notified => c \in notified' \/ pc'[c] = "idle"
  PROVE  Capacity' /\ ConsumersAwake' /\ ReturnedMeansTaken'
<1>1. TypeOK /\ queue \in Seq(Producer)
  BY DEF QueueInv, TypeOK
<1>2. /\ Len(queue') = Len(queue) - 1 /\ Len(queue) \in Nat
      /\ \A n \in 1..Len(queue') : n + 1 \in 1..Len(queue) /\ queue'[n] = queue[n + 1]
  BY <1>1, TailFacts, LenProperties
<1>3. Capacity'
  BY <1>1, <1>2, QueueAssumption DEF QueueInv, Capacity, TypeOK
<1>4. ConsumersAwake'
  <2> SUFFICES ASSUME NEW c \in Consumer, pc'[c] = "wait_item", c \notin notified'
               PROVE  FALSE
    BY DEF ConsumersAwake
  <2>1. pc[c] = "wait_item" /\ c \notin notified
    BY DEF Thread
  <2> QED BY <2>1 DEF QueueInv, ConsumersAwake, ItemReady
<1>5. ReturnedMeansTaken'
  <2> SUFFICES ASSUME buffer_size = 0, ~closed, NEW v \in Producer, InQueue(v)'
               PROVE  pc'[v] = "wait_taken"
    BY DEF ReturnedMeansTaken
  <2>1. InQueue(v)
    BY <1>2 DEF InQueue
  <2>2. pc[v] = "wait_taken" /\ v \in Thread /\ v \notin Consumer
    BY <2>1, QueueAssumption DEF QueueInv, ReturnedMeansTaken, Thread
  <2> QED BY <2>2
<1> QED BY <1>3, <1>4, <1>5

LEMMA QueueDequeue ==
  ASSUME QueueInv, NEW c \in Consumer, Dequeue(c), calls' \in [Thread -> Nat],
         Unpolled' => Unpolled, UNCHANGED buffer_size
  PROVE  QueueInv'
<1>1. TypeOK /\ c \in Thread /\ Placed /\ c \notin Producer
  BY QueueAssumption DEF QueueInv, Thread
<1>2. CASE ~ItemReady \/ closed
  <2>1. /\ pc' = [pc EXCEPT ![c] = IF ItemReady THEN "idle" ELSE "wait_item"]
        /\ notified' = notified \ {c} /\ UNCHANGED <<queue, closed>>
    BY <1>2 DEF Dequeue, Goto, ItemReady
  <2>2. TypeOK' /\ Placed'
    BY <1>1, <2>1 DEF TypeOK, Placed
  <2>3. Capacity'
    BY <2>1 DEF QueueInv, Capacity
  <2>4. ConsumersAwake'
    BY <1>1, <2>1 DEF TypeOK, QueueInv, ConsumersAwake, ItemReady, Thread
  <2>5. ReturnedMeansTaken'
    BY <1>1, <2>1 DEF TypeOK, QueueInv, ReturnedMeansTaken, InQueue, Thread
  <2>6. ASSUME Unpolled PROVE NoProducerLeft'
    BY <1>1, <2>1, <2>6
    DEF TypeOK, QueueInv, ProducersAwake, NoProducerLeft, SpaceFree, Taken, Thread
  <2> QED BY <2>2, <2>3, <2>4, <2>5, <2>6 DEF QueueInv, ProducersAwake
<1>3. CASE ItemReady /\ ~closed
  <2>1. /\ pc' = [pc EXCEPT ![c] = "idle"]
        /\ notified' = (notified \ {c}) \cup ProdReady
        /\ queue # <<>> /\ queue' = Tail(queue) /\ UNCHANGED closed
    BY <1>3 DEF Dequeue, Goto, ItemReady
  <2>2. queue' \in Seq(Producer)
    BY <1>1, <2>1, TailFacts DEF TypeOK
  <2>3. TypeOK' /\ Placed'
    BY <1>1, <2>1, <2>2 DEF TypeOK, Placed, ProdReady, At
  <2>4. /\ \A t \in Thread : pc'[t] = pc[t] \/ (t \in Consumer /\ pc'[t] = "idle")
        /\ \A d \in Consumer : d \in notified => d \in notified' \/ pc'[d] = "idle"
    BY <1>1, <2>1 DEF TypeOK
  <2>5. Capacity' /\ ConsumersAwake' /\ ReturnedMeansTaken'
    BY <2>1, <2>3, <2>4, QueueShrinks
  <2>6. NoProducerLeft'
    BY <1>1, <2>1 DEF TypeOK, ProducersAwake, NoProducerLeft, ProdReady, At, Thread
  <2> QED BY <2>3, <2>5, <2>6 DEF QueueInv, ProducersAwake
<1> QED BY <1>2, <1>3

LEMMA QueueTry ==
  ASSUME QueueInv, NEW t \in Poller, TryDequeue(t), calls' \in [Thread -> Nat],
         ~Unpolled', UNCHANGED buffer_size
  PROVE  QueueInv'
<1>1. TypeOK /\ Placed /\ UNCHANGED <<closed, pc, notified>>
  BY DEF QueueInv, TryDequeue
<1>2. CASE queue = <<>>
  <2>1. UNCHANGED queue
    BY <1>2 DEF TryDequeue
  <2>2. ProducersAwake'
    BY DEF ProducersAwake
  <2> QED BY <1>1, <2>1, <2>2 DEF QueueInv, TypeOK, Placed, Capacity, ConsumersAwake,
                            ItemReady, ReturnedMeansTaken, InQueue
<1>3. CASE queue # <<>>
  <2>1. queue' = Tail(queue)
    BY <1>3 DEF TryDequeue
  <2>2. queue' \in Seq(Producer)
    BY <1>1, <1>3, <2>1, TailFacts DEF TypeOK
  <2>3. TypeOK' /\ Placed'
    BY <1>1, <2>2 DEF TypeOK, Placed
  <2>4. Capacity' /\ ConsumersAwake' /\ ReturnedMeansTaken'
    BY <1>1, <1>3, <2>1, <2>3, QueueShrinks
  <2>5. ProducersAwake'
    BY DEF ProducersAwake
  <2> QED BY <2>3, <2>4, <2>5 DEF QueueInv
<1> QED BY <1>2, <1>3

\* close and a wake-up without a reason: only more threads are notified.
LEMMA QueueNotify ==
  ASSUME QueueInv, Close \/ \E t \in Thread : Spurious(t)
  PROVE  QueueInv'
<1>1. TypeOK /\ Placed /\ UNCHANGED <<queue, pc, calls, buffer_size>>
  BY DEF QueueInv, Close, Spurious
<1>2. notified \subseteq notified' /\ notified' \subseteq Thread
  BY <1>1 DEF Close, Spurious, TypeOK, ProdReady, ConReady, At
<1>3. closed' = closed
      \/ (closed' = TRUE /\ ProdReady \subseteq notified' /\ ConReady \subseteq notified')
  BY DEF Close, Spurious
<1>4. TypeOK' /\ Placed'
  BY <1>1, <1>2, <1>3 DEF TypeOK, Placed
<1>5. Capacity' /\ ReturnedMeansTaken'
  BY <1>1, <1>3 DEF QueueInv, Capacity, ReturnedMeansTaken, InQueue
<1>6. ConsumersAwake'
  BY <1>1, <1>2, <1>3 DEF QueueInv, ConsumersAwake, ItemReady, ConReady, At, Thread
<1>7. ASSUME Unpolled PROVE NoProducerLeft'
  BY <1>1, <1>2, <1>3, <1>7
  DEF QueueInv, ProducersAwake, NoProducerLeft, SpaceFree, Taken, ProdReady, At, Thread
<1>8. Unpolled' = Unpolled
  BY <1>1 DEF Unpolled
<1> QED BY <1>4, <1>5, <1>6, <1>7, <1>8 DEF QueueInv, ProducersAwake

LEMMA QueueStep == QueueInv /\ [Next]_vars => QueueInv'
<1> SUFFICES ASSUME QueueInv, [Next]_vars PROVE QueueInv'
  OBVIOUS
<1>0. TypeOK /\ Placed
  BY DEF QueueInv
<1>1. CASE Call
  <2>1. ASSUME NEW t \in Thread, Called(t)
        PROVE  /\ calls' \in [Thread -> Nat] /\ (Unpolled' => Unpolled)
               /\ (t \in Poller => ~Unpolled')
    <3>1. /\ calls' = [calls EXCEPT ![t] = @ + 1] /\ calls \in [Thread -> Nat]
          /\ Poller \subseteq Thread
      BY <1>0, <2>1 DEF Called, TypeOK, Thread
    <3> QED BY <3>1 DEF Unpolled
  <2>2. UNCHANGED buffer_size
    BY <1>1 DEF Call
  <2>3. ASSUME NEW p \in Producer, MayCall(p), Called(p), Enqueue(p) PROVE QueueInv'
    BY <2>1, <2>2, <2>3, QueueEnqueue DEF MayCall, Thread
  <2>4. ASSUME NEW c \in Consumer, Called(c), Dequeue(c) PROVE QueueInv'
    BY <2>1, <2>2, <2>4, QueueDequeue DEF Thread
  <2>5. ASSUME NEW t \in Poller, Called(t), TryDequeue(t) PROVE QueueInv'
    BY <2>1, <2>2, <2>5, QueueTry DEF Thread
  <2> QED BY <1>1, <2>3, <2>4, <2>5 DEF Call
<1>2. ASSUME NEW t \in Thread, Wake(t) PROVE QueueInv'
  <2>1. UNCHANGED <<calls, buffer_size>> /\ calls' \in [Thread -> Nat]
    BY <1>0, <1>2 DEF Wake, TypeOK
  <2>2. Unpolled' => Unpolled
    BY <2>1 DEF Unpolled
  <2>3. CASE pc[t] = "wait_space" /\ Enqueue(t)
    BY <1>0, <2>1, <2>2, <2>3, QueueEnqueue DEF Placed
  <2>4. CASE pc[t] = "wait_taken" /\ EnqueueReturn(t)
    BY <1>0, <2>1, <2>4, QueueReturn DEF Placed
  <2>5. CASE pc[t] = "wait_item" /\ Dequeue(t)
    BY <1>0, <2>1, <2>2, <2>5, QueueDequeue DEF Placed
  <2> QED BY <1>2, <2>3, <2>4, <2>5 DEF Wake
<1>3. CASE Close \/ \E t \in Thread : Spurious(t)
  BY <1>3, QueueNotify
<1>4. CASE UNCHANGED vars
  BY <1>4 DEF vars, QueueInv, TypeOK, Placed, Capacity, ConsumersAwake, ItemReady,
              ProducersAwake, Unpolled, NoProducerLeft, SpaceFree, Taken, ReturnedMeansTaken,
              InQueue
<1> QED BY <1>1, <1>2, <1>3, <1>4 DEF Next

LEMMA QueueInvariant == Spec => []QueueInv
<1> QED BY QueueInit, QueueStep, PTL DEF Spec

------------------------------------------------------------------------------
\* However many producers leave their wait at once, the buffer never holds
\* more than it should (enqueue, 59-70).
THEOREM NeverOverfull == Spec => []Capacity
<1>1. QueueInv => Capacity
  BY DEF QueueInv
<1> QED BY <1>1, QueueInvariant, PTL

\* No consumer misses an item or a close, with any number of threads of each
\* kind (the notifications of 71 and 103).
THEOREM NoConsumerForgotten == Spec => []ConsumersAwake
<1>1. QueueInv => ConsumersAwake
  BY DEF QueueInv
<1> QED BY <1>1, QueueInvariant, PTL

\* No producer misses free space or a close, until somebody calls
\* try_dequeue (the notifications of 85 and 102).
THEOREM NoProducerForgotten == Spec => []ProducersAwake
<1>1. QueueInv => ProducersAwake
  BY DEF QueueInv
<1> QED BY <1>1, QueueInvariant, PTL

\* enqueue on an unbuffered queue that is still open returns only after its
\* own item has been taken, whatever other producers do (66-74).
THEOREM ItemsHandedOver == Spec => []ReturnedMeansTaken
<1>1. QueueInv => ReturnedMeansTaken
  BY DEF QueueInv
<1> QED BY <1>1, QueueInvariant, PTL
==============================================================================
