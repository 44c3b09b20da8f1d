-------------------------- MODULE BlockingQueue --------------------------
(***************************************************************************)
(* What ProducerConsumerQueue promises its callers: a FIFO queue whose     *)
(* blocking pop is ONE step that is taken as soon as a value is there,     *)
(* whose cancellation drops what is queued and sends every blocked caller  *)
(* away.  There is no lock, no condition variable and no notification      *)
(* here; MapUpdater is built from this view of the queue.                  *)
(***************************************************************************)
EXTENDS QueueOps

CONSTANTS
    Items,      \* the values producers may push, each of them once
    Consumers   \* the threads that pop

VARIABLES
    q,          \* the queue
    pushed,     \* every value pushed so far, in order
    taken,      \* every value handed to a consumer, in order
    dropped,    \* the values Cancel deleted
    inside,     \* the consumers inside the blocking pop
    gone        \* the consumers that were sent away without a value

vars == <<q, pushed, taken, dropped, inside, gone>>

Init ==
    /\ q = NewQueue
    /\ pushed = <<>>
    /\ taken = <<>>
    /\ dropped = <<>>
    /\ inside = {}
    /\ gone = {}

Put(v) ==
    /\ \A i \in DOMAIN pushed : pushed[i] # v
    /\ q' = Pushed(q, v)
    /\ pushed' = Append(pushed, v)
    /\ UNCHANGED <<taken, dropped, inside, gone>>

Enter(c) ==
    /\ c \notin inside \cup gone
    /\ inside' = inside \cup {c}
    /\ UNCHANGED <<q, pushed, taken, dropped, gone>>

Take(c) ==
    /\ c \in inside
    /\ Poppable(q)
    /\ q' = Popped(q)
    /\ taken' = Append(taken, Head(q.items))
    /\ inside' = inside \ {c}
    /\ UNCHANGED <<pushed, dropped, gone>>

\* The non-blocking pop, when it finds a value.
Poll(c) ==
    /\ c \notin inside \cup gone
    /\ Poppable(q)
    /\ q' = Popped(q)
    /\ taken' = Append(taken, Head(q.items))
    /\ UNCHANGED <<pushed, dropped, inside, gone>>

Leave(c) ==
    /\ c \in inside
    /\ q.shutdown
    /\ inside' = inside \ {c}
    /\ gone' = gone \cup {c}
    /\ UNCHANGED <<q, pushed, taken, dropped>>

Close ==
    /\ ~q.shutdown
    /\ q' = Cancelled(q)
    /\ dropped' = q.items
    /\ UNCHANGED <<pushed, taken, inside, gone>>

Next ==
    \/ \E v \in Items : Put(v)
    \/ \E c \in Consumers : Enter(c) \/ Take(c) \/ Poll(c) \/ Leave(c)
    \/ Close

\* A value that stays in an open queue while a caller is blocked is taken,
\* and a caller blocked on a closed queue leaves.
Fairness ==
    /\ WF_vars(\E c \in Consumers : Take(c))
    /\ \A c \in Consumers : WF_vars(Leave(c))

Spec == Init /\ [][Next]_vars /\ Fairness
==========================================================================
