---------------------- MODULE ProducerConsumerQueue ----------------------
(***************************************************************************)
(* common/Threading/ProducerConsumerQueue.h: a mutex, a std::queue, a      *)
(* condition variable and a shutdown flag.  It carries the requests of the *)
(* map updater and the SQL operations of the database workers.             *)
(*                                                                         *)
(* The detail kept here is the one BlockingQueue hides: a consumer tests   *)
(* the loop condition under the lock, sleeps in the condition variable's   *)
(* wait set, is woken by notify_one, by notify_all or for no reason, and   *)
(* tests again; Cancel releases the lock BEFORE it notifies.               *)
(***************************************************************************)
EXTENDS QueueOps, FiniteSets, Naturals

CONSTANTS
    Items,      \* the values producers may push, each of them once
    Consumers,  \* the threads that pop
    NoItem      \* what a consumer holds when it holds nothing (nullptr)

ASSUME FiniteConsumers == IsFiniteSet(Consumers)
ASSUME NoItemIsNoItem  == NoItem \notin Items

VARIABLES
    q,          \* _queue and _shutdown
    pc,         \* where each consumer is
    value,      \* the local `value` of each consumer
    canceller,  \* where the thread that calls Cancel is
    pushed,     \* history: every value pushed, in order
    taken,      \* history: every value popped, in order
    dropped     \* history: the values Cancel deleted

vars == <<q, pc, value, canceller, pushed, taken, dropped>>

\* The wait set of _condition, and the consumers about to test the loop
\* condition of WaitAndPop.
Asleep  == {c \in Consumers : pc[c] = "asleep"}
Testing == {c \in Consumers : pc[c] = "test"}

Init ==
    /\ q = NewQueue
    /\ pc = [c \in Consumers |-> "out"]
    /\ value = [c \in Consumers |-> NoItem]
    /\ canceller = "ready"
    /\ pushed = <<>>
    /\ taken = <<>>
    /\ dropped = <<>>

\* Mutant: the notification is lost.
NotifyNobody(p) == {p}

\* notify_one: one thread of the wait set, if there is any, will test again.
NotifyOne(p) ==
    LET sleeping == {c \in Consumers : p[c] = "asleep"} IN
    IF sleeping = {} THEN {p} ELSE {[p EXCEPT ![c] = "test"] : c \in sleeping}

NotifyAll(p) == [c \in Consumers |-> IF p[c] = "asleep" THEN "test" ELSE p[c]]

\* Mutant: the notification is saved when the queue was not empty.
PushNotifiesWhenEmpty(v) ==
    /\ \A i \in DOMAIN pushed : pushed[i] # v
    /\ q' = Pushed(q, v)
    /\ pushed' = Append(pushed, v)
    /\ pc' \in IF q.items = <<>> THEN NotifyOne(pc) ELSE {pc}
    /\ UNCHANGED <<value, canceller, taken, dropped>>

\* Push, under the lock to its end: the notification is inside it too.
Push(v) ==
    /\ \A i \in DOMAIN pushed : pushed[i] # v
    /\ q' = Pushed(q, v)
    /\ pushed' = Append(pushed, v)
    /\ pc' \in NotifyOne(pc)
    /\ UNCHANGED <<value, canceller, taken, dropped>>

\* The pop shared by Pop and WaitAndPop.
TakeFront(c) ==
    /\ q' = Popped(q)
    /\ value' = [value EXCEPT ![c] = Head(q.items)]
    /\ taken' = Append(taken, Head(q.items))
    /\ pc' = [pc EXCEPT ![c] = "got"]
    /\ UNCHANGED <<canceller, pushed, dropped>>

\* Mutant: _shutdown is not looked at.
PopIgnoresShutdown(c) == pc[c] = "out" /\ q.items # <<>> /\ TakeFront(c)

\* Pop: one non-blocking attempt (an attempt that fails changes nothing).
Pop(c) == pc[c] = "out" /\ Poppable(q) /\ TakeFront(c)

\* WaitAndPop is entered with the caller's value unset.
CallWaitAndPop(c) ==
    /\ pc[c] = "out"
    /\ pc' = [pc EXCEPT ![c] = "test"]
    /\ UNCHANGED <<q, value, canceller, pushed, taken, dropped>>

\* The loop condition holds: wait releases the lock and sleeps atomically.
Sleep(c) ==
    /\ pc[c] = "test"
    /\ MustWait(q)
    /\ pc' = [pc EXCEPT ![c] = "asleep"]
    /\ UNCHANGED <<q, value, canceller, pushed, taken, dropped>>

\* A condition variable may wake a thread nobody notified.
SpuriousWakeup(c) ==
    /\ pc[c] = "asleep"
    /\ pc' = [pc EXCEPT ![c] = "test"]
    /\ UNCHANGED <<q, value, canceller, pushed, taken, dropped>>

\* The loop ends, and there is something to take.
WaitAndPopTakes(c) == pc[c] = "test" /\ Poppable(q) /\ TakeFront(c)

\* The loop ends because of the shutdown: the caller's value is untouched,
\* which every caller reads as the order to end its thread.
WaitAndPopReturnsEmpty(c) ==
    /\ pc[c] = "test"
    /\ q.shutdown
    /\ pc' = [pc EXCEPT ![c] = "gone"]
    /\ UNCHANGED <<q, value, canceller, pushed, taken, dropped>>

WaitAndPop(c) == Sleep(c) \/ WaitAndPopTakes(c) \/ WaitAndPopReturnsEmpty(c)

\* The consumer is done with its value and goes round its loop.
Consume(c) ==
    /\ pc[c] = "got"
    /\ pc' = [pc EXCEPT ![c] = "out"]
    /\ value' = [value EXCEPT ![c] = NoItem]
    /\ UNCHANGED <<q, canceller, pushed, taken, dropped>>

\* Cancel, up to _queueLock.unlock().
CancelDrain ==
    /\ canceller = "ready"
    /\ q' = Cancelled(q)
    /\ dropped' = q.items
    /\ canceller' = "notify"
    /\ UNCHANGED <<pc, value, pushed, taken>>

\* Mutant: notify_one in place of notify_all.
CancelNotifiesOne ==
    /\ canceller = "notify"
    /\ pc' \in NotifyOne(pc)
    /\ canceller' = "done"
    /\ UNCHANGED <<q, value, pushed, taken, dropped>>

\* Cancel's notify_all, after the lock was released.
CancelNotify ==
    /\ canceller = "notify"
    /\ pc' = NotifyAll(pc)
    /\ canceller' = "done"
    /\ UNCHANGED <<q, value, pushed, taken, dropped>>

Next ==
    \/ \E v \in Items : Push(v)
    \/ \E c \in Consumers :
        \/ Pop(c)
        \/ CallWaitAndPop(c)
        \/ WaitAndPop(c)
        \/ SpuriousWakeup(c)
        \/ Consume(c)
    \/ CancelDrain
    \/ CancelNotify

\* The mutex is handed to every thread that keeps asking for it, a consumer
\* thread is never abandoned by the scheduler, and the thread inside Cancel
\* ends its call.  Nothing obliges anybody to push, to poll or to cancel, and
\* no spurious wakeup is ever due.
Fairness ==
    /\ \A c \in Consumers :
        /\ WF_vars(WaitAndPop(c))
        /\ WF_vars(CallWaitAndPop(c))
        /\ WF_vars(Consume(c))
    /\ WF_vars(CancelNotify)

Spec == Init /\ [][Next]_vars /\ Fairness

---------------------------------------------------------------------------
(* Properties                                                              *)

\* Every variable keeps to its type, and a consumer holds a value exactly
\* while it works on it: WaitAndPop never sends a live consumer away with the
\* nullptr its caller passed in (the ASSERT(request) of the map workers).
TypeOK ==
    /\ q \in [items : Seq(Items), shutdown : BOOLEAN]
    /\ pc \in [Consumers -> {"out", "test", "asleep", "got", "gone"}]
    /\ value \in [Consumers -> Items \cup {NoItem}]
    /\ canceller \in {"ready", "notify", "done"}
    /\ pushed \in Seq(Items)
    /\ taken \in Seq(Items)
    /\ dropped \in Seq(Items)
    /\ \A c \in Consumers : value[c] # NoItem <=> pc[c] = "got"

\* Push, Pop, WaitAndPop and Cancel together neither lose, duplicate nor
\* reorder a value: what was pushed is what was taken, then what Cancel
\* deleted, then what is still queued, in the order it was pushed.
ExactlyOnceInOrder == pushed = taken \o dropped \o q.items

\* No lost wakeup: while a consumer of an open queue sleeps in
\* _condition.wait, every queued value has a consumer of its own that is
\* about to test the loop condition, so notify_one is enough.
NoLostWakeup ==
    ~q.shutdown /\ Asleep # {} => Len(q.items) <= Cardinality(Testing)

\* After the shutdown a consumer can be asleep only until the notify_all
\* Cancel still owes; nobody goes to sleep later.
SleepersAreOwedANotify == q.shutdown /\ Asleep # {} => canceller = "notify"

\* A value in an open queue does not stay there.
QueuedIsServed ==
    \A v \in Items :
        (\E i \in DOMAIN q.items : q.items[i] = v) /\ ~q.shutdown
            ~> ~\E i \in DOMAIN q.items : q.items[i] = v

\* After Cancel every consumer thread leaves WaitAndPop empty-handed, so the
\* joins of MapUpdater::deactivate and ~DatabaseWorker end.
CancelEndsConsumers == q.shutdown ~> \A c \in Consumers : pc[c] = "gone"

\* The lock and the condition variable implement the one-step blocking pop.
Abstract == INSTANCE BlockingQueue WITH
    inside <- Testing \cup Asleep,
    gone   <- {c \in Consumers : pc[c] = "gone"}

Implements == Abstract!Spec

=============================================================================
