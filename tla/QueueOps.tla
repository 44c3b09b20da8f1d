---------------------------- MODULE QueueOps ----------------------------
(***************************************************************************)
(* The critical sections of ProducerConsumerQueue<T>, as operators on the  *)
(* record of the two fields _queueLock protects.  Every member function    *)
(* takes the lock for the whole of its access to them, so a caller sees    *)
(* each operator as one atomic step.                                       *)
(***************************************************************************)
EXTENDS Naturals, Sequences

\* The queue a constructor makes: empty, and not shut down.
NewQueue == [items |-> <<>>, shutdown |-> FALSE]

\* Push: the value goes to the back, whatever _shutdown says.
Pushed(q, v) == [q EXCEPT !.items = Append(@, v)]

\* Pop and WaitAndPop take a value only from an open, non-empty queue.
Poppable(q) == q.items # <<>> /\ ~q.shutdown

\* Mutant: the front is read, the back is removed.
PoppedAtBack(q) == [q EXCEPT !.items = SubSeq(@, 1, Len(@) - 1)]

Popped(q) == [q EXCEPT !.items = Tail(@)]

\* The loop condition of WaitAndPop.
MustWait(q) == q.items = <<>> /\ ~q.shutdown

\* Cancel: every queued value is deleted, then the queue is shut down.
Cancelled(q) == [items |-> <<>>, shutdown |-> TRUE]
=========================================================================
