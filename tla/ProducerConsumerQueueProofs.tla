-------------------- MODULE ProducerConsumerQueueProofs --------------------
(***************************************************************************)
(* Proofs of the safety properties of ProducerConsumerQueue, for any set   *)
(* of values and any finite set of consumers.                              *)
(***************************************************************************)
EXTENDS ProducerConsumerQueue, SequenceTheorems, FiniteSetTheorems, TLAPS

QueueType == [items : Seq(Items), shutdown : BOOLEAN]

\* What the critical sections make of a queue of the right type.
LEMMA QueueOpsTypes ==
    ASSUME NEW r \in QueueType
    PROVE  /\ Cancelled(r) \in QueueType
           /\ \A v \in Items : Pushed(r, v) \in QueueType
           /\ Poppable(r) => /\ Popped(r) \in QueueType
                             /\ Head(r.items) \in Items
<1>1. Cancelled(r) \in QueueType
  BY DEF QueueType, Cancelled
<1>2. ASSUME NEW v \in Items PROVE Pushed(r, v) \in QueueType
  BY DEF QueueType, Pushed
<1>3. ASSUME Poppable(r)
      PROVE  Popped(r) \in QueueType /\ Head(r.items) \in Items
  <2>1. r.items \in Seq(Items) /\ r.items # <<>>
    BY <1>3 DEF QueueType, Poppable
  <2>2. Tail(r.items) \in Seq(Items) /\ Head(r.items) \in Items
    BY <2>1, HeadTailProperties
  <2> QED BY <2>2 DEF QueueType, Popped
<1> QED BY <1>1, <1>2, <1>3

---------------------------------------------------------------------------
(* Type correctness                                                        *)

LEMMA InitTypeOK == Init => TypeOK
  BY NoItemIsNoItem DEF Init, TypeOK, NewQueue

LEMMA NextTypeOK == TypeOK /\ [Next]_vars => TypeOK'
<1> SUFFICES ASSUME TypeOK, [Next]_vars PROVE TypeOK'
  OBVIOUS
<1> USE NoItemIsNoItem
<1>0. q \in QueueType
  BY DEF TypeOK, QueueType
<1>1. ASSUME NEW v \in Items, Push(v) PROVE TypeOK'
  <2>1. q' \in QueueType
    BY <1>0, <1>1, QueueOpsTypes DEF Push
  <2>2. pushed' \in Seq(Items)
    BY <1>1 DEF Push, TypeOK
  <2>3. /\ pc' \in [Consumers -> {"out", "test", "asleep", "got", "gone"}]
        /\ \A c \in Consumers : pc'[c] = "got" <=> pc[c] = "got"
    BY <1>1 DEF Push, NotifyOne, TypeOK
  <2> QED BY <1>1, <2>1, <2>2, <2>3 DEF Push, TypeOK, QueueType
<1>2. ASSUME NEW c \in Consumers, TakeFront(c), Poppable(q) PROVE TypeOK'
  <2>1. q' \in QueueType /\ Head(q.items) \in Items
    BY <1>0, <1>2, QueueOpsTypes DEF TakeFront
  <2>2. taken' \in Seq(Items)
    BY <1>2, <2>1 DEF TakeFront, TypeOK
  <2> QED BY <1>2, <2>1, <2>2 DEF TakeFront, TypeOK, QueueType
<1>3. ASSUME NEW c \in Consumers,
             CallWaitAndPop(c) \/ Sleep(c) \/ SpuriousWakeup(c)
                \/ WaitAndPopReturnsEmpty(c) \/ Consume(c)
      PROVE  TypeOK'
  BY <1>3 DEF CallWaitAndPop, Sleep, SpuriousWakeup, WaitAndPopReturnsEmpty,
              Consume, TypeOK
<1>4. CASE CancelDrain
  BY <1>0, <1>4, QueueOpsTypes DEF CancelDrain, TypeOK, QueueType
<1>5. CASE CancelNotify
  BY <1>5 DEF CancelNotify, NotifyAll, TypeOK
<1>6. CASE UNCHANGED vars
  BY <1>6 DEF vars, TypeOK
<1> QED
  BY <1>1, <1>2, <1>3, <1>4, <1>5, <1>6
     DEF Next, Pop, WaitAndPop, WaitAndPopTakes

\* Every variable keeps to its type, and no live consumer is ever sent away
\* without a value (ProducerConsumerQueue.h, WaitAndPop).
THEOREM TypeCorrect == Spec => []TypeOK
  BY InitTypeOK, NextTypeOK, PTL DEF Spec

---------------------------------------------------------------------------
(* Exactly once, in order                                                  *)

\* Before Cancel nothing has been dropped, and the canceller drains once.
DropsOnce == canceller = "ready" => dropped = <<>> /\ ~q.shutdown

DrainInv == DropsOnce /\ (canceller # "ready" => q.shutdown)

LEMMA DrainStep == TypeOK /\ DrainInv /\ [Next]_vars => DrainInv'
<1> SUFFICES ASSUME TypeOK, DrainInv, [Next]_vars PROVE DrainInv'
  OBVIOUS
<1> USE DEF DrainInv, DropsOnce, TypeOK
<1>1. ASSUME NEW v \in Items, Push(v) PROVE DrainInv'
  BY <1>1 DEF Push, Pushed
<1>2. ASSUME NEW c \in Consumers, TakeFront(c) PROVE DrainInv'
  BY <1>2 DEF TakeFront, Popped
<1>3. ASSUME NEW c \in Consumers,
             CallWaitAndPop(c) \/ Sleep(c) \/ SpuriousWakeup(c)
                \/ WaitAndPopReturnsEmpty(c) \/ Consume(c)
      PROVE  DrainInv'
  BY <1>3 DEF CallWaitAndPop, Sleep, SpuriousWakeup, WaitAndPopReturnsEmpty,
              Consume
<1>4. CASE CancelDrain
  BY <1>4 DEF CancelDrain, Cancelled
<1>5. CASE CancelNotify
  BY <1>5 DEF CancelNotify
<1>6. CASE UNCHANGED vars
  BY <1>6 DEF vars
<1> QED
  BY <1>1, <1>2, <1>3, <1>4, <1>5, <1>6
     DEF Next, Pop, WaitAndPop, WaitAndPopTakes

\* The order facts about sequences the steps need.
LEMMA AppendMoves ==
    ASSUME NEW t \in Seq(Items), NEW d \in Seq(Items), NEW s \in Seq(Items),
           NEW v \in Items
    PROVE  Append(t \o d \o s, v) = t \o d \o Append(s, v)
<1> DEFINE td == t \o d
<1>1. td \in Seq(Items)
  OBVIOUS
<1>2. Append(td \o s, v) = td \o Append(s, v)
  <2> HIDE DEF td
  <2>1. td \o s \in Seq(Items) /\ <<v>> \in Seq(Items)
    BY <1>1
  <2>2. Append(td \o s, v) = (td \o s) \o <<v>> /\ Append(s, v) = s \o <<v>>
    BY <2>1, AppendIsConcat
  <2>3. (td \o s) \o <<v>> = td \o (s \o <<v>>)
    BY <1>1, <2>1, ConcatAssociative
  <2> QED BY <2>2, <2>3
<1> QED BY <1>2

LEMMA HeadMoves ==
    ASSUME NEW t \in Seq(Items), NEW s \in Seq(Items), s # <<>>
    PROVE  t \o <<>> \o s = Append(t, Head(s)) \o <<>> \o Tail(s)
  OBVIOUS

LEMMA InitExactlyOnce == Init => ExactlyOnceInOrder
  BY DEF Init, ExactlyOnceInOrder, NewQueue

LEMMA NextExactlyOnce ==
    TypeOK /\ DrainInv /\ ExactlyOnceInOrder /\ [Next]_vars
        => ExactlyOnceInOrder'
<1> SUFFICES ASSUME TypeOK, DrainInv, ExactlyOnceInOrder, [Next]_vars
             PROVE  ExactlyOnceInOrder'
  OBVIOUS
<1>0. /\ q.items \in Seq(Items)
      /\ taken \in Seq(Items)
      /\ dropped \in Seq(Items)
  BY DEF TypeOK
<1>1. ASSUME NEW v \in Items, Push(v) PROVE ExactlyOnceInOrder'
  <2>1. q'.items = Append(q.items, v)
    BY <1>1 DEF Push, Pushed, TypeOK
  <2>2. pushed' = Append(pushed, v) /\ taken' = taken /\ dropped' = dropped
    BY <1>1 DEF Push
  <2>3. Append(taken \o dropped \o q.items, v)
            = taken \o dropped \o Append(q.items, v)
    BY <1>0, AppendMoves
  <2> QED BY <2>1, <2>2, <2>3 DEF ExactlyOnceInOrder
<1>2. ASSUME NEW c \in Consumers, TakeFront(c), Poppable(q)
      PROVE  ExactlyOnceInOrder'
  <2>1. /\ q'.items = Tail(q.items)
        /\ taken' = Append(taken, Head(q.items))
        /\ pushed' = pushed
        /\ dropped' = dropped
    BY <1>2 DEF TakeFront, Popped, TypeOK
  <2>2. q.items # <<>> /\ dropped = <<>>
    BY <1>2 DEF Poppable, DrainInv, DropsOnce
  <2> QED BY <1>0, <2>1, <2>2, HeadMoves DEF ExactlyOnceInOrder
<1>3. ASSUME NEW c \in Consumers,
             CallWaitAndPop(c) \/ Sleep(c) \/ SpuriousWakeup(c)
                \/ WaitAndPopReturnsEmpty(c) \/ Consume(c)
      PROVE  ExactlyOnceInOrder'
  BY <1>3 DEF CallWaitAndPop, Sleep, SpuriousWakeup, WaitAndPopReturnsEmpty,
              Consume, ExactlyOnceInOrder
<1>4. CASE CancelDrain
  <2>1. dropped = <<>> /\ q'.items = <<>> /\ dropped' = q.items
    BY <1>4 DEF CancelDrain, Cancelled, DrainInv, DropsOnce
  <2>2. taken \o <<>> \o q.items = taken \o q.items \o <<>>
    BY <1>0
  <2> QED BY <1>4, <2>1, <2>2 DEF CancelDrain, ExactlyOnceInOrder
<1>5. CASE CancelNotify
  BY <1>5 DEF CancelNotify, ExactlyOnceInOrder
<1>6. CASE UNCHANGED vars
  BY <1>6 DEF vars, ExactlyOnceInOrder
<1> QED
  BY <1>1, <1>2, <1>3, <1>4, <1>5, <1>6
     DEF Next, Pop, WaitAndPop, WaitAndPopTakes

\* Whatever the interleaving of Push, Pop, WaitAndPop and Cancel, no value is
\* lost, duplicated or overtaken.
THEOREM ValuesExactlyOnceInOrder == Spec => []ExactlyOnceInOrder
<1>1. Init => DrainInv
  BY DEF Init, DrainInv, DropsOnce, NewQueue
<1> QED
  BY <1>1, InitTypeOK, NextTypeOK, DrainStep, InitExactlyOnce,
     NextExactlyOnce, PTL DEF Spec
---------------------------------------------------------------------------
(* Lost wakeups                                                            *)

ConsumersOf(p, here) == {c \in Consumers : p[c] = here}

\* A consumer that comes to the test, or leaves it, changes the number of
\* testing consumers by one.
LEMMA TestingChanges ==
    ASSUME NEW p, NEW p1, NEW c \in Consumers,
           \A d \in Consumers \ {c} : p1[d] = p[d]
    PROVE  LET T  == Cardinality(ConsumersOf(p, "test"))
               T1 == Cardinality(ConsumersOf(p1, "test"))
           IN  /\ T \in Nat /\ T1 \in Nat
               /\ p[c] # "test" /\ p1[c] = "test" => T1 = T + 1
               /\ p[c] = "test" /\ p1[c] # "test" => T1 = T - 1
               /\ p[c] # "test" /\ p1[c] # "test" => T1 = T
<1> DEFINE P  == ConsumersOf(p, "test")
           P1 == ConsumersOf(p1, "test")
<1>1. IsFiniteSet(P) /\ IsFiniteSet(P1)
  BY FiniteConsumers, FS_Subset DEF ConsumersOf
<1>2. /\ p[c] # "test" /\ p1[c] = "test" => P1 = P \cup {c} /\ c \notin P
      /\ p[c] = "test" /\ p1[c] # "test" => P1 = P \ {c} /\ c \in P
      /\ p[c] # "test" /\ p1[c] # "test" => P1 = P
  BY DEF ConsumersOf
<1>3. /\ Cardinality(P) \in Nat
      /\ Cardinality(P1) \in Nat
      /\ c \notin P => Cardinality(P \cup {c}) = Cardinality(P) + 1
      /\ c \in P => Cardinality(P \ {c}) = Cardinality(P) - 1
  BY <1>1, FS_CardinalityType, FS_AddElement, FS_RemoveElement
<1> HIDE DEF P, P1
<1>4. /\ p[c] # "test" /\ p1[c] = "test" => Cardinality(P1) = Cardinality(P) + 1
      /\ p[c] = "test" /\ p1[c] # "test" => Cardinality(P1) = Cardinality(P) - 1
      /\ p[c] # "test" /\ p1[c] # "test" => Cardinality(P1) = Cardinality(P)
  BY <1>2, <1>3
<1> QED BY <1>3, <1>4 DEF P, P1

LEMMA InitNoLostWakeup == Init => NoLostWakeup /\ SleepersAreOwedANotify
  BY DEF Init, NoLostWakeup, SleepersAreOwedANotify, Asleep, NewQueue

LEMMA NextNoLostWakeup ==
    TypeOK /\ NoLostWakeup /\ [Next]_vars => NoLostWakeup'
<1> SUFFICES ASSUME TypeOK, NoLostWakeup, [Next]_vars,
                    ~q'.shutdown, Asleep' # {}
             PROVE  Len(q'.items) <= Cardinality(Testing')
  BY DEF NoLostWakeup
<1>0. /\ q.items \in Seq(Items)
      /\ Len(q.items) \in Nat
      /\ Testing = ConsumersOf(pc, "test")
      /\ Testing' = ConsumersOf(pc', "test")
      /\ ~q.shutdown /\ Asleep # {}
            => Len(q.items) <= Cardinality(ConsumersOf(pc, "test"))
  BY DEF TypeOK, Testing, ConsumersOf, NoLostWakeup
<1>1. ASSUME NEW v \in Items, Push(v)
      PROVE  Len(q'.items) <= Cardinality(Testing')
  <2>1. q'.items = Append(q.items, v) /\ ~q.shutdown
    BY <1>1 DEF Push, Pushed, TypeOK
  <2>2. Len(q'.items) = Len(q.items) + 1
    BY <1>0, <2>1
  <2>3. PICK c \in Consumers : pc[c] = "asleep" /\ pc' = [pc EXCEPT ![c] = "test"]
    BY <1>1 DEF Push, NotifyOne, Asleep
  <2>4. Asleep # {}
    BY <2>3 DEF Asleep
  <2>5. /\ pc[c] # "test"
        /\ pc'[c] = "test"
        /\ \A d \in Consumers \ {c} : pc'[d] = pc[d]
    BY <2>3 DEF TypeOK
  <2>6. /\ Cardinality(ConsumersOf(pc, "test")) \in Nat
        /\ Cardinality(ConsumersOf(pc', "test"))
                = Cardinality(ConsumersOf(pc, "test")) + 1
    BY <2>5, TestingChanges
  <2> QED BY <1>0, <2>1, <2>2, <2>4, <2>6
<1>2. ASSUME NEW c \in Consumers, TakeFront(c), Poppable(q),
             pc[c] \in {"out", "test"}
      PROVE  Len(q'.items) <= Cardinality(Testing')
  <2>1. /\ q'.items = Tail(q.items)
        /\ q.items # <<>>
        /\ ~q.shutdown
    BY <1>2 DEF TakeFront, Popped, Poppable, TypeOK
  <2>2. Len(q'.items) = Len(q.items) - 1
    BY <1>0, <2>1
  <2>3. /\ pc'[c] = "got"
        /\ \A d \in Consumers \ {c} : pc'[d] = pc[d]
    BY <1>2 DEF TakeFront, TypeOK
  <2>4. Asleep # {}
    BY <2>3 DEF Asleep
  <2>5. /\ Cardinality(ConsumersOf(pc, "test")) \in Nat
        /\ Cardinality(ConsumersOf(pc', "test")) \in
                {Cardinality(ConsumersOf(pc, "test")),
                 Cardinality(ConsumersOf(pc, "test")) - 1}
    BY <2>3, TestingChanges
  <2> QED BY <1>0, <2>1, <2>2, <2>4, <2>5
<1>3. ASSUME NEW c \in Consumers, CallWaitAndPop(c) \/ SpuriousWakeup(c)
      PROVE  Len(q'.items) <= Cardinality(Testing')
  <2>1. /\ q' = q
        /\ pc[c] # "test"
        /\ pc'[c] = "test"
        /\ \A d \in Consumers \ {c} : pc'[d] = pc[d]
    BY <1>3 DEF CallWaitAndPop, SpuriousWakeup, TypeOK
  <2>2. Asleep # {}
    BY <2>1 DEF Asleep
  <2>3. /\ Cardinality(ConsumersOf(pc, "test")) \in Nat
        /\ Cardinality(ConsumersOf(pc', "test"))
                = Cardinality(ConsumersOf(pc, "test")) + 1
    BY <2>1, TestingChanges
  <2> QED BY <1>0, <2>1, <2>2, <2>3
<1>4. ASSUME NEW c \in Consumers, Sleep(c)
      PROVE  Len(q'.items) <= Cardinality(Testing')
  <2>1. q' = q /\ q.items = <<>>
    BY <1>4 DEF Sleep, MustWait
  <2>2. IsFiniteSet(Testing')
    BY FiniteConsumers, FS_Subset DEF Testing
  <2>3. Cardinality(Testing') \in Nat
    BY <2>2, FS_CardinalityType
  <2> QED BY <2>1, <2>3
<1>5. ASSUME NEW c \in Consumers, WaitAndPopReturnsEmpty(c)
      PROVE  Len(q'.items) <= Cardinality(Testing')
  BY <1>5 DEF WaitAndPopReturnsEmpty
<1>6. ASSUME NEW c \in Consumers, Consume(c)
      PROVE  Len(q'.items) <= Cardinality(Testing')
  <2>1. /\ q' = q
        /\ pc[c] # "test"
        /\ pc'[c] = "out"
        /\ \A d \in Consumers \ {c} : pc'[d] = pc[d]
    BY <1>6 DEF Consume, TypeOK
  <2>2. Asleep # {}
    BY <2>1 DEF Asleep
  <2>3. Cardinality(ConsumersOf(pc', "test")) = Cardinality(ConsumersOf(pc, "test"))
    BY <2>1, TestingChanges
  <2> QED BY <1>0, <2>1, <2>2, <2>3
<1>7. CASE CancelDrain
  BY <1>7 DEF CancelDrain, Cancelled
<1>8. CASE CancelNotify
  BY <1>8 DEF CancelNotify, NotifyAll, Asleep
<1>9. CASE UNCHANGED vars
  BY <1>0, <1>9 DEF vars, Asleep, ConsumersOf
<1> QED
  BY <1>1, <1>2, <1>3, <1>4, <1>5, <1>6, <1>7, <1>8, <1>9
     DEF Next, Pop, WaitAndPop, WaitAndPopTakes

\* A sleeping consumer of an open queue never misses a value that has no
\* other consumer on its way to it: the notify_one of Push is enough.
THEOREM WakeupsAreNotLost == Spec => []NoLostWakeup
  BY InitTypeOK, NextTypeOK, InitNoLostWakeup, NextNoLostWakeup, PTL DEF Spec

LEMMA NextSleepers ==
    TypeOK /\ DrainInv /\ SleepersAreOwedANotify /\ [Next]_vars
        => SleepersAreOwedANotify'
<1> SUFFICES ASSUME TypeOK, DrainInv, SleepersAreOwedANotify, [Next]_vars
             PROVE  SleepersAreOwedANotify'
  OBVIOUS
<1> USE DEF SleepersAreOwedANotify, Asleep, TypeOK
<1>1. ASSUME NEW v \in Items, Push(v) PROVE SleepersAreOwedANotify'
  BY <1>1 DEF Push, Pushed, NotifyOne
<1>2. ASSUME NEW c \in Consumers, TakeFront(c) PROVE SleepersAreOwedANotify'
  BY <1>2 DEF TakeFront, Popped
<1>3. ASSUME NEW c \in Consumers,
             CallWaitAndPop(c) \/ Sleep(c) \/ SpuriousWakeup(c)
                \/ WaitAndPopReturnsEmpty(c) \/ Consume(c)
      PROVE  SleepersAreOwedANotify'
  BY <1>3 DEF CallWaitAndPop, Sleep, SpuriousWakeup, WaitAndPopReturnsEmpty,
              Consume, MustWait
<1>4. CASE CancelDrain
  BY <1>4 DEF CancelDrain
<1>5. CASE CancelNotify
  BY <1>5 DEF CancelNotify, NotifyAll
<1>6. CASE UNCHANGED vars
  BY <1>6 DEF vars
<1> QED
  BY <1>1, <1>2, <1>3, <1>4, <1>5, <1>6
     DEF Next, Pop, WaitAndPop, WaitAndPopTakes

\* Cancel may release the lock before it notifies: whoever still sleeps after
\* the shutdown sleeps before that notify_all, never after it.
THEOREM NobodySleepsAfterCancel == Spec => []SleepersAreOwedANotify
<1>1. Init => DrainInv
  BY DEF Init, DrainInv, DropsOnce, NewQueue
<1> QED
  BY <1>1, InitTypeOK, NextTypeOK, DrainStep, InitNoLostWakeup, NextSleepers,
     PTL DEF Spec
---------------------------------------------------------------------------
(* The safety half of the refinement                                       *)

Inside == Testing \cup Asleep
Gone   == {c \in Consumers : pc[c] = "gone"}

LEMMA InitRefines == Init => Abstract!Init
  BY DEF Init, Abstract!Init, Testing, Asleep, NewQueue, Abstract!NewQueue

LEMMA StepRefines ==
    TypeOK /\ DrainInv /\ [Next]_vars => [Abstract!Next]_(Abstract!vars)
<1> SUFFICES ASSUME TypeOK, DrainInv, [Next]_vars
             PROVE  Abstract!Next \/ UNCHANGED Abstract!vars
  OBVIOUS
<1>0. /\ DOMAIN pc = Consumers
      /\ \A c \in Consumers : pc[c] \in {"out", "test", "asleep", "got", "gone"}
  BY DEF TypeOK
<1> USE DEF Testing, Asleep, Pushed, Popped, Poppable, Cancelled,
            Abstract!Pushed, Abstract!Popped, Abstract!Poppable,
            Abstract!Cancelled
<1>1. ASSUME NEW v \in Items, Push(v) PROVE Abstract!Next
  <2>1. UNCHANGED <<Inside, Gone>>
    BY <1>0, <1>1 DEF Push, NotifyOne, Inside, Gone
  <2>2. Abstract!Put(v)
    BY <1>1, <2>1 DEF Push, Abstract!Put, Inside, Gone
  <2> QED BY <2>2 DEF Abstract!Next
<1>2. ASSUME NEW c \in Consumers, Pop(c) PROVE Abstract!Next
  <2>1. UNCHANGED <<Inside, Gone>>
    BY <1>0, <1>2 DEF Pop, TakeFront, Inside, Gone
  <2>2. Abstract!Poll(c)
    BY <1>2, <2>1 DEF Pop, TakeFront, Abstract!Poll, Inside, Gone
  <2> QED BY <2>2 DEF Abstract!Next
<1>3. ASSUME NEW c \in Consumers, CallWaitAndPop(c) PROVE Abstract!Next
  <2>1. Inside' = Inside \cup {c} /\ Gone' = Gone
    BY <1>0, <1>3 DEF CallWaitAndPop, Inside, Gone
  <2>2. Abstract!Enter(c)
    BY <1>3, <2>1 DEF CallWaitAndPop, Abstract!Enter, Inside, Gone
  <2> QED BY <2>2 DEF Abstract!Next
<1>4. ASSUME NEW c \in Consumers, WaitAndPopTakes(c) PROVE Abstract!Next
  <2>1. Inside' = Inside \ {c} /\ Gone' = Gone
    BY <1>0, <1>4 DEF WaitAndPopTakes, TakeFront, Inside, Gone
  <2>2. Abstract!Take(c)
    BY <1>4, <2>1 DEF WaitAndPopTakes, TakeFront, Abstract!Take, Inside, Gone
  <2> QED BY <2>2 DEF Abstract!Next
<1>5. ASSUME NEW c \in Consumers, WaitAndPopReturnsEmpty(c) PROVE Abstract!Next
  <2>1. Inside' = Inside \ {c} /\ Gone' = Gone \cup {c}
    BY <1>0, <1>5 DEF WaitAndPopReturnsEmpty, Inside, Gone
  <2>2. Abstract!Leave(c)
    BY <1>5, <2>1 DEF WaitAndPopReturnsEmpty, Abstract!Leave, Inside, Gone
  <2> QED BY <2>2 DEF Abstract!Next
<1>6. ASSUME NEW c \in Consumers, Sleep(c) \/ SpuriousWakeup(c) \/ Consume(c)
      PROVE  UNCHANGED Abstract!vars
  <2>1. UNCHANGED <<Inside, Gone>>
    BY <1>0, <1>6 DEF Sleep, SpuriousWakeup, Consume, Inside, Gone
  <2> QED
    BY <1>6, <2>1 DEF Sleep, SpuriousWakeup, Consume, Abstract!vars, Inside, Gone
<1>7. ASSUME CancelDrain PROVE Abstract!Next
  <2>1. Abstract!Close
    BY <1>7 DEF CancelDrain, Abstract!Close, DrainInv, DropsOnce
  <2> QED BY <2>1 DEF Abstract!Next
<1>8. ASSUME CancelNotify PROVE UNCHANGED Abstract!vars
  <2>1. UNCHANGED <<Inside, Gone>>
    BY <1>0, <1>8 DEF CancelNotify, NotifyAll, Inside, Gone
  <2> QED BY <1>8, <2>1 DEF CancelNotify, Abstract!vars, Inside, Gone
<1>9. ASSUME UNCHANGED vars PROVE UNCHANGED Abstract!vars
  BY <1>9 DEF vars, Abstract!vars
<1> QED
  BY <1>1, <1>2, <1>3, <1>4, <1>5, <1>6, <1>7, <1>8, <1>9 DEF Next, WaitAndPop

\* The lock, the wait set and the notifications of ProducerConsumerQueue do,
\* step for step, what the one-step blocking pop of BlockingQueue does.
THEOREM QueueRefinesBlockingQueue ==
    Spec => Abstract!Init /\ [][Abstract!Next]_(Abstract!vars)
<1>1. Init => DrainInv
  BY DEF Init, DrainInv, DropsOnce, NewQueue
<1> QED
  BY <1>1, InitTypeOK, NextTypeOK, DrainStep, InitRefines, StepRefines,
     PTL DEF Spec
============================================================================
