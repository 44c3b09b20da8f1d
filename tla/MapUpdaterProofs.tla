-------------------------- MODULE MapUpdaterProofs --------------------------
(***************************************************************************)
(* Proofs of the safety properties of MapUpdater, for any finite sets of   *)
(* base maps and instances and any set of loop workers.                    *)
(***************************************************************************)
EXTENDS MapUpdater, SequenceTheorems, FiniteSetTheorems, TLAPS

Busy == {"token", "call", "flag", "push", "finish"}

\* A worker holds a request, and one of its own kind, exactly while it is
\* busy with it; the vector of once threads is 1 .. onceThreads.
HoldInv ==
    /\ \A w \in Workers : pc[w] \in {"none", "pop", "exited"} => req[w] = None
    /\ \A w \in LoopWorkers : req[w] \in Instances \cup {None}
    /\ \A w \in OnceWorkers : req[w] \in BaseMaps \cup {None}
    /\ \A w \in Workers : pc[w] \in Busy /\ ~cancelationToken => req[w] # None
    /\ \A w \in Workers : pc[w] \in {"flag", "push"} => w \in LoopWorkers
    /\ \A w \in Workers : pc[w] = "none" <=> w \in OnceWorkers /\ w > onceThreads
    /\ \A w \in Workers : visit[w] # {} => pc[w] = "call"
    /\ \A w \in Workers : \A i \in visit[w] : i \in instances /\ Home[i] = req[w]

\* A map is in one place at most: once in its queue, or with one worker.
NoRepeats(q) ==
    \A m, n \in DOMAIN q.items : q.items[m] = q.items[n] => m = n
ExclusiveInv ==
    /\ NoRepeats(once_queue)
    /\ NoRepeats(loop_queue)
    /\ MapExclusive
    /\ \A w \in Workers :
        req[w] \notin Queued(once_queue) \cup Queued(loop_queue)

\* The world thread is alone, or the updater is being deactivated.
Alone == wpc \in {"idle", "delayed"} \cup Stopping \/ cancelationToken

\* What each program point of the world thread knows.
PhaseInv ==
    /\ Alone => /\ \A w \in Workers : pc[w] \in {"none", "pop", "token", "exited"}
                /\ \A w \in Workers : pc[w] = "token" => cancelationToken
                /\ OnceOut = {} /\ LoopOut = {}
    /\ cancelationToken => wpc \in (Stopping \ {"deactivate"})
                                    \cup {"waitOnces", "waitLoops"}
    /\ wpc \in Stopping \ {"deactivate"} => cancelationToken
    /\ loop_queue.shutdown \/ once_queue.shutdown => cancelationToken
    /\ wpc \in {"disable", "waitLoops", "asleepLoops"} => OnceOut = {}
    /\ wpc # "schedule" => todo = {}

\* In which order the maps of a cycle are scheduled and updated.
OrderInv ==
    /\ todo \cap (OnceOut \cup updated) = {}
    /\ Queued(once_queue) \cap updated = {}
    /\ \A w \in OnceWorkers : pc[w] = "token" => req[w] \notin updated
    /\ \A w \in Workers :
        pc[w] \in Busy \ {"token"} => req[w] \in updated
    /\ \A i \in LoopOut : Home[i] \in updated /\ i \notin expired
    /\ \A w \in Workers : visit[w] \cap LoopOut = {}

\* Requests, and the maps still to be scheduled, are for maps that exist.
LiveInv ==
    /\ RequestsForLiveMaps
    /\ todo \subseteq i_maps
    /\ \A i \in instances : Home[i] \in i_maps

\* Every map of the cycle is still to come, on its way, or updated.
CoverInv ==
    wpc \in InCycle \cup {"delayed"} /\ ~cancelationToken =>
        /\ i_maps \subseteq todo \cup OnceOut \cup updated
        /\ \A i \in instances \ expired :
            Home[i] \in updated =>
                \/ i \in updated \cup LoopOut
                \/ \E w \in Workers : i \in visit[w]

IInv ==
    /\ TypeOK
    /\ HoldInv
    /\ ExclusiveInv
    /\ PhaseInv
    /\ OrderInv
    /\ LiveInv
    /\ CoverInv
    /\ PendingCountsRequests
    /\ OnceMapsHaveThreads
---------------------------------------------------------------------------
(* Queues, workers and counting                                            *)

\* What the critical sections do to the set of queued values.
LEMMA QueuedFacts ==
    ASSUME NEW S, NEW r \in [items : Seq(S), shutdown : BOOLEAN]
    PROVE  /\ Queued(r) \subseteq S
           /\ Queued(Cancelled(r)) = {}
           /\ Poppable(r) =>
                /\ Popped(r) \in [items : Seq(S), shutdown : BOOLEAN]
                /\ Popped(r).shutdown = r.shutdown
                /\ Head(r.items) \in Queued(r)
                /\ Queued(r) = Queued(Popped(r)) \cup {Head(r.items)}
                /\ NoRepeats(r) =>
                    /\ NoRepeats(Popped(r))
                    /\ Head(r.items) \notin Queued(Popped(r))
<1> DEFINE T == [items : Seq(S), shutdown : BOOLEAN]
           s == r.items
<1>1. s \in Seq(S) /\ Len(s) \in Nat /\ DOMAIN s = 1 .. Len(s)
  OBVIOUS
<1>2. Queued(r) = {s[n] : n \in 1 .. Len(s)} /\ Queued(r) \subseteq S
  BY <1>1 DEF Queued
<1>3. Queued(Cancelled(r)) = {}
  BY DEF Queued, Cancelled
<1>5. ASSUME Poppable(r)
      PROVE  /\ Popped(r) \in T
             /\ Popped(r).shutdown = r.shutdown
             /\ Head(s) \in Queued(r)
             /\ Queued(r) = Queued(Popped(r)) \cup {Head(s)}
             /\ NoRepeats(r) => /\ NoRepeats(Popped(r))
                                /\ Head(s) \notin Queued(Popped(r))
  <2> DEFINE t == Tail(s)
  <2>1. s # <<>> /\ Len(s) > 0
    BY <1>1, <1>5 DEF Poppable
  <2>2. /\ Popped(r) \in T
        /\ Popped(r).shutdown = r.shutdown
        /\ Popped(r).items = t
    BY <1>1, <2>1, HeadTailProperties DEF Popped
  <2>3. /\ DOMAIN t = 1 .. Len(s) - 1
        /\ \A n \in 1 .. Len(s) - 1 : t[n] = s[n + 1]
        /\ Head(s) = s[1]
    BY <1>1, <2>1
  <2> HIDE DEF t
  <2>4. Queued(Popped(r)) = {t[n] : n \in 1 .. Len(s) - 1}
    BY <2>2, <2>3 DEF Queued
  <2>5. Head(s) \in Queued(r)
    BY <1>1, <1>2, <2>1, <2>3
  <2>6. {s[n] : n \in 1 .. Len(s)} = {t[n] : n \in 1 .. Len(s) - 1} \cup {s[1]}
    <3> HIDE DEF s
    <3>1. \A n \in 1 .. Len(s) : n = 1 \/ (n - 1 \in 1 .. Len(s) - 1 /\ s[n] = t[n - 1])
      BY <1>1, <2>1, <2>3
    <3>2. \A n \in 1 .. Len(s) - 1 : n + 1 \in 1 .. Len(s) /\ t[n] = s[n + 1]
      BY <1>1, <2>1, <2>3
    <3>3. 1 \in 1 .. Len(s)
      BY <1>1, <2>1
    <3> QED BY <3>1, <3>2, <3>3
  <2>7. Queued(r) = Queued(Popped(r)) \cup {Head(s)}
    BY <1>2, <2>3, <2>4, <2>6
  <2>8. ASSUME NoRepeats(r)
        PROVE  NoRepeats(Popped(r)) /\ Head(s) \notin Queued(Popped(r))
    <3>1. \A m, n \in 1 .. Len(s) : s[m] = s[n] => m = n
      BY <1>1, <2>8 DEF NoRepeats
    <3>2. \A m, n \in 1 .. Len(s) - 1 : t[m] = t[n] => m = n
      <4> HIDE DEF s
      <4>1. ASSUME NEW m \in 1 .. Len(s) - 1, NEW n \in 1 .. Len(s) - 1, t[m] = t[n]
            PROVE  m = n
        <5>1. m + 1 \in 1 .. Len(s) /\ n + 1 \in 1 .. Len(s) /\ s[m + 1] = s[n + 1]
          BY <1>1, <2>3, <4>1
        <5>2. m + 1 = n + 1
          BY <3>1, <5>1
        <5> QED BY <1>1, <5>2
      <4> QED BY <4>1
    <3>3. \A n \in 1 .. Len(s) - 1 : t[n] # s[1]
      <4> HIDE DEF s
      <4> SUFFICES ASSUME NEW n \in 1 .. Len(s) - 1, t[n] = s[1] PROVE FALSE
        OBVIOUS
      <4>1. n + 1 \in 1 .. Len(s) /\ 1 \in 1 .. Len(s) /\ s[n + 1] = s[1]
        BY <1>1, <2>3
      <4>2. n + 1 = 1
        BY <3>1, <4>1
      <4> QED BY <1>1, <4>2
    <3> QED BY <2>2, <2>3, <2>4, <3>2, <3>3 DEF NoRepeats
  <2> QED BY <2>2, <2>5, <2>7, <2>8
<1> QED BY <1>2, <1>3, <1>5

\* A primed application of the two operators is an application to the primed
\* queue.
LEMMA PrimedQueues ==
    /\ Queued(loop_queue)' = Queued(loop_queue')
    /\ Queued(once_queue)' = Queued(once_queue')
    /\ NoRepeats(loop_queue)' <=> NoRepeats(loop_queue')
    /\ NoRepeats(once_queue)' <=> NoRepeats(once_queue')
BY DEF Queued, NoRepeats

LEMMA PushFacts ==
    ASSUME NEW S, NEW r \in [items : Seq(S), shutdown : BOOLEAN], NEW v \in S,
           NoRepeats(r), v \notin Queued(r)
    PROVE  /\ Pushed(r, v) \in [items : Seq(S), shutdown : BOOLEAN]
           /\ Pushed(r, v).shutdown = r.shutdown
           /\ Queued(Pushed(r, v)) = Queued(r) \cup {v}
           /\ NoRepeats(Pushed(r, v))
<1> DEFINE T == [items : Seq(S), shutdown : BOOLEAN]
           s == r.items
<1>1. s \in Seq(S) /\ Len(s) \in Nat /\ DOMAIN s = 1 .. Len(s)
  OBVIOUS
<1>2. Queued(r) = {s[n] : n \in 1 .. Len(s)}
  BY <1>1 DEF Queued
<1>3. /\ Pushed(r, v) \in T
      /\ Pushed(r, v).shutdown = r.shutdown
      /\ Queued(Pushed(r, v)) = Queued(r) \cup {v}
      /\ NoRepeats(Pushed(r, v))
  <2> DEFINE t == Append(s, v)
  <2>1. /\ Pushed(r, v) \in T
        /\ Pushed(r, v).shutdown = r.shutdown
        /\ Pushed(r, v).items = t
    BY <1>1 DEF Pushed
  <2>2. /\ DOMAIN t = 1 .. Len(s) + 1
        /\ \A n \in 1 .. Len(s) : t[n] = s[n]
        /\ t[Len(s) + 1] = v
    BY <1>1
  <2> HIDE DEF t
  <2>3. Queued(Pushed(r, v)) = {t[n] : n \in 1 .. Len(s) + 1}
    BY <2>1, <2>2 DEF Queued
  <2>4. {t[n] : n \in 1 .. Len(s) + 1} = {s[n] : n \in 1 .. Len(s)} \cup {v}
    <3> HIDE DEF s
    <3>1. \A n \in 1 .. Len(s) + 1 : n \in 1 .. Len(s) \/ n = Len(s) + 1
      BY <1>1
    <3>2. \A n \in 1 .. Len(s) : n \in 1 .. Len(s) + 1
      BY <1>1
    <3>3. Len(s) + 1 \in 1 .. Len(s) + 1
      BY <1>1
    <3> QED BY <2>2, <3>1, <3>2, <3>3
  <2>5. Queued(Pushed(r, v)) = Queued(r) \cup {v}
    BY <1>2, <2>3, <2>4
  <2>6. NoRepeats(Pushed(r, v))
    <3>1. \A n \in 1 .. Len(s) : s[n] # v
      BY <1>2
    <3>2. \A m, n \in 1 .. Len(s) : s[m] = s[n] => m = n
      BY <1>1 DEF NoRepeats
    <3>3. \A m, n \in 1 .. Len(s) + 1 : t[m] = t[n] => m = n
      BY <1>1, <2>2, <3>1, <3>2
    <3> QED BY <2>1, <2>2, <3>3 DEF NoRepeats
  <2> QED BY <2>1, <2>5, <2>6
<1> QED BY <1>3

LEMMA PopFacts ==
    ASSUME NEW S, NEW r \in [items : Seq(S), shutdown : BOOLEAN],
           NoRepeats(r), Poppable(r)
    PROVE  /\ Popped(r) \in [items : Seq(S), shutdown : BOOLEAN]
           /\ Popped(r).shutdown = r.shutdown
           /\ Head(r.items) \in Queued(r)
           /\ Head(r.items) \in S
           /\ Queued(Popped(r)) = Queued(r) \ {Head(r.items)}
           /\ NoRepeats(Popped(r))
<1>1. /\ Popped(r) \in [items : Seq(S), shutdown : BOOLEAN]
      /\ Popped(r).shutdown = r.shutdown
      /\ Head(r.items) \in Queued(r)
      /\ Queued(r) = Queued(Popped(r)) \cup {Head(r.items)}
      /\ NoRepeats(Popped(r))
      /\ Head(r.items) \notin Queued(Popped(r))
  BY QueuedFacts
<1>2. Queued(r) \subseteq S
  BY QueuedFacts
<1> QED BY <1>1, <1>2

LEMMA WorkerKinds ==
    /\ LoopWorkers \cap OnceWorkers = {}
    /\ Workers = LoopWorkers \cup OnceWorkers
    /\ Cardinality(BaseMaps) \in Nat
    /\ \A w \in OnceWorkers :
        w \in Nat /\ w > 0 /\ w <= Cardinality(BaseMaps)
<1>1. Cardinality(BaseMaps) \in Nat
  BY FiniteMaps, FS_CardinalityType
<1>2. \A w \in OnceWorkers :
        w \in Nat /\ w > 0 /\ w <= Cardinality(BaseMaps)
  BY <1>1 DEF OnceWorkers
<1>3. OnceWorkers \subseteq Int
  BY <1>2
<1>4. LoopWorkers \cap OnceWorkers = {}
  BY <1>3, Activated
<1> QED BY <1>1, <1>2, <1>4 DEF Workers

\* One request more, or one less.
LEMMA CountOne ==
    ASSUME NEW All, IsFiniteSet(All), NEW S \in SUBSET All
    PROVE  /\ Cardinality(S) \in Nat
           /\ Cardinality(S) <= Cardinality(All)
           /\ Cardinality(S) = 0 <=> S = {}
           /\ \A x \in All \ S : Cardinality(S \cup {x}) = Cardinality(S) + 1
           /\ \A x \in S : Cardinality(S \ {x}) = Cardinality(S) - 1
<1>1. IsFiniteSet(S) /\ Cardinality(S) <= Cardinality(All)
  BY FS_Subset
<1> QED
  BY <1>1, FS_CardinalityType, FS_EmptySet, FS_AddElement, FS_RemoveElement

LEMMA OutTypes ==
    ASSUME TypeOK, HoldInv
    PROVE  /\ OnceOut \subseteq BaseMaps
           /\ LoopOut \subseteq Instances
           /\ Queued(once_queue) \subseteq BaseMaps
           /\ Queued(loop_queue) \subseteq Instances
<1>1. Queued(once_queue) \subseteq BaseMaps
  BY QueuedFacts DEF TypeOK
<1>2. Queued(loop_queue) \subseteq Instances
  BY QueuedFacts DEF TypeOK
<1> QED BY <1>1, <1>2 DEF OnceOut, LoopOut, Held, HoldInv
---------------------------------------------------------------------------
(* The initial states                                                      *)

LEMMA InitIInv == Init => IInv
<1> SUFFICES ASSUME Init PROVE IInv
  OBVIOUS
<1>1. /\ Queued(once_queue) = {}
      /\ Queued(loop_queue) = {}
      /\ Held(OnceWorkers) = {}
      /\ Held(LoopWorkers) = {}
  BY WorkerKinds DEF Init, Queued, Held, NewQueue
<1>2. OnceOut = {} /\ LoopOut = {}
  BY <1>1 DEF OnceOut, LoopOut
<1>a. /\ loop_queue \in [items : Seq(Instances), shutdown : BOOLEAN]
      /\ once_queue \in [items : Seq(BaseMaps), shutdown : BOOLEAN]
  BY DEF Init, NewQueue
<1>b. onceThreads = 0 /\ onceThreads \in 0 .. Cardinality(BaseMaps)
  BY WorkerKinds DEF Init
<1>c. \A w \in Workers :
        /\ pc[w] = IF w \in LoopWorkers THEN "pop" ELSE "none"
        /\ req[w] = None
        /\ visit[w] = {}
  BY DEF Init
<1>3. TypeOK
  BY <1>a, <1>b, <1>c DEF Init, TypeOK
<1>4. HoldInv
  BY <1>b, <1>c, WorkerKinds DEF HoldInv, Busy
<1>5. ExclusiveInv
  BY <1>1 DEF Init, ExclusiveInv, MapExclusive, NoRepeats, NewQueue
<1>6. PhaseInv
  BY <1>2 DEF Init, PhaseInv, Stopping, NewQueue
<1>7. OrderInv
  BY <1>1, <1>2 DEF Init, OrderInv, Busy
<1>8. LiveInv
  BY <1>2 DEF Init, LiveInv, RequestsForLiveMaps
<1>9. CoverInv
  BY DEF Init, CoverInv
<1>10. PendingCountsRequests /\ OnceMapsHaveThreads
  BY <1>2, FS_EmptySet DEF Init, PendingCountsRequests, OnceMapsHaveThreads
<1> QED
  BY <1>3, <1>4, <1>5, <1>6, <1>7, <1>8, <1>9, <1>10 DEF IInv

---------------------------------------------------------------------------
(* The steps of the world thread that touch neither maps nor requests      *)

Quiet == UNCHANGED <<todo, i_maps, instances, expired, queues, counters,
                     onceThreads, workers>>

\* Such a step leaves the requests alone, and every part of the invariant
\* that does not speak of the world thread's program point.
LEMMA QuietKeeps ==
    ASSUME IInv, Quiet, cancelationToken' \in BOOLEAN,
           cancelationToken => cancelationToken'
    PROVE  /\ OnceOut' = OnceOut /\ LoopOut' = LoopOut
           /\ HoldInv' /\ ExclusiveInv' /\ OrderInv' /\ LiveInv'
           /\ PendingCountsRequests' /\ OnceMapsHaveThreads'
<1> USE DEF Quiet, queues, counters, workers, IInv
<1>1. /\ Queued(once_queue)' = Queued(once_queue)
      /\ Queued(loop_queue)' = Queued(loop_queue)
  BY DEF Queued
<1>2. OnceOut' = OnceOut /\ LoopOut' = LoopOut
  BY <1>1 DEF OnceOut, LoopOut, Held
<1>3. HoldInv'
  BY DEF HoldInv
<1>4. ExclusiveInv'
  BY <1>1 DEF ExclusiveInv, MapExclusive, NoRepeats
<1>5. OrderInv'
  BY <1>1, <1>2 DEF OrderInv
<1>6. LiveInv'
  BY <1>2 DEF LiveInv, RequestsForLiveMaps
<1>7. PendingCountsRequests' /\ OnceMapsHaveThreads'
  BY <1>2 DEF PendingCountsRequests, OnceMapsHaveThreads
<1> QED BY <1>2, <1>3, <1>4, <1>5, <1>6, <1>7

\* The same with the rest of the invariant, for a step that moves the world
\* thread from a point where what the new point knows holds.
LEMMA QuietMove ==
    ASSUME IInv, Quiet, UNCHANGED cancelationToken, loopEnabled' \in BOOLEAN,
           wpc' \in {"idle", "delayed"} \cup InCycle \cup Stopping,
           Alone' => Alone,
           cancelationToken => wpc' \in (Stopping \ {"deactivate"})
                                    \cup {"waitOnces", "waitLoops"},
           wpc' \in Stopping \ {"deactivate"} => cancelationToken,
           wpc' \in {"disable", "waitLoops", "asleepLoops"} => OnceOut = {},
           wpc' # "schedule" => todo = {},
           wpc' \in InCycle \cup {"delayed"} =>
                wpc \in InCycle \cup {"delayed"}
    PROVE  IInv'
<1> USE DEF Quiet, queues, counters, workers
<1>1. TypeOK'
  BY DEF IInv, TypeOK
<1>2. PhaseInv'
  BY QuietKeeps DEF IInv, PhaseInv, Alone, TypeOK
<1>3. CoverInv'
  BY QuietKeeps DEF IInv, CoverInv, TypeOK
<1> QED BY <1>1, <1>2, <1>3, QuietKeeps DEF IInv, TypeOK

\* A counter at zero says that there is no request.
LEMMA ZeroMeansNone ==
    ASSUME IInv
    PROVE  /\ pending_once_maps = 0 <=> OnceOut = {}
           /\ pending_loop_maps = 0 <=> LoopOut = {}
<1>1. OnceOut \subseteq BaseMaps /\ LoopOut \subseteq Instances
  BY OutTypes DEF IInv
<1> QED BY <1>1, CountOne, FiniteMaps DEF IInv, PendingCountsRequests

\* With no base map pending, no thread is inside a MapInstanced; with no
\* request at all, no thread is busy unless it is about to end.
LEMMA NoneBusy ==
    ASSUME IInv, ~cancelationToken, OnceOut = {}
    PROVE  /\ \A w \in OnceWorkers : pc[w] \in {"none", "pop", "exited"}
           /\ LoopOut = {} =>
                \A w \in Workers : pc[w] \in {"none", "pop", "exited"}
<1>1. \A w \in OnceWorkers : req[w] = None
  BY DEF IInv, OnceOut, Held
<1>2. LoopOut = {} => \A w \in LoopWorkers : req[w] = None
  BY DEF IInv, LoopOut, Held
<1> QED BY <1>1, <1>2, WorkerKinds DEF IInv, TypeOK, HoldInv, Busy

LEMMA CycleMovesKeep ==
    ASSUME IInv,
           EnableUpdateLoop \/ WaitUpdateOnces \/ DisableUpdateLoop
             \/ SpuriousWakeup \/ DelayedUpdates
    PROVE  IInv'
<1> USE DEF WorldMoves, Stopping, InCycle, Alone
<1>0. Quiet
  BY DEF EnableUpdateLoop, WaitUpdateOnces, DisableUpdateLoop, SpuriousWakeup,
         DelayedUpdates, Quiet
<1>1. PhaseInv /\ TypeOK
  BY DEF IInv
<1>2. CASE EnableUpdateLoop
  BY <1>0, <1>1, <1>2, QuietMove DEF EnableUpdateLoop, PhaseInv
<1>3. CASE WaitUpdateOnces
  BY <1>0, <1>1, <1>3, QuietMove, ZeroMeansNone
     DEF WaitUpdateOnces, PhaseInv, TypeOK
<1>4. CASE DisableUpdateLoop
  BY <1>0, <1>1, <1>4, QuietMove DEF DisableUpdateLoop, PhaseInv
<1>5. CASE SpuriousWakeup
  BY <1>0, <1>1, <1>5, QuietMove DEF SpuriousWakeup, PhaseInv, TypeOK
<1>6. CASE DelayedUpdates
  BY <1>0, <1>1, <1>6, QuietMove DEF DelayedUpdates, PhaseInv, TypeOK
<1> QED BY <1>2, <1>3, <1>4, <1>5, <1>6

\* The barrier: at the end of the second wait the world thread is alone.
LEMMA WaitUpdateLoopsKeeps == ASSUME IInv, WaitUpdateLoops PROVE IInv'
<1> USE DEF WorldMoves, Stopping, InCycle, Alone
<1>0. Quiet /\ UNCHANGED <<loopEnabled, cancelationToken>> /\ wpc = "waitLoops"
  BY DEF WaitUpdateLoops, Quiet
<1>1. PhaseInv /\ TypeOK /\ todo = {} /\ OnceOut = {}
  BY <1>0 DEF IInv, PhaseInv
<1>2. CASE wpc' # "delayed"
  <2>1. Alone' => Alone
    BY <1>2 DEF WaitUpdateLoops
  <2> QED
    BY <1>0, <1>1, <1>2, <2>1, QuietMove, ZeroMeansNone
       DEF WaitUpdateLoops, PhaseInv, TypeOK
<1>3. CASE wpc' = "delayed"
  <2>1. LoopOut = {} /\ ~cancelationToken
    BY <1>3, ZeroMeansNone DEF WaitUpdateLoops
  <2>2. \A w \in Workers : pc[w] \in {"none", "pop", "exited"}
    BY <1>1, <2>1, NoneBusy
  <2>3. TypeOK'
    BY <1>0, <1>1, <1>3
       DEF TypeOK, Quiet, queues, counters, workers
  <2>4. PhaseInv'
    BY <1>0, <1>1, <1>3, <2>1, <2>2, QuietKeeps
       DEF PhaseInv, Quiet, queues, counters, workers, TypeOK
  <2>5. CoverInv'
    BY <1>0, <1>3, <2>1, QuietKeeps
       DEF IInv, CoverInv, Quiet, queues, counters, workers, TypeOK
  <2> QED BY <1>0, <1>1, <2>3, <2>4, <2>5, QuietKeeps DEF IInv, TypeOK
<1> QED BY <1>2, <1>3
---------------------------------------------------------------------------
(* deactivate                                                              *)

LEMMA SetCancelationTokenKeeps == ASSUME IInv, SetCancelationToken PROVE IInv'
<1> USE DEF WorldMoves
<1>0. Quiet /\ wpc = "deactivate" /\ wpc' = "cancelLoop" /\ cancelationToken'
      /\ UNCHANGED loopEnabled
  BY DEF SetCancelationToken, Quiet
<1>1. cancelationToken' \in BOOLEAN /\ Alone
  BY <1>0 DEF SetCancelationToken, Alone, Stopping
<1>2. TypeOK'
  BY <1>0, <1>1 DEF IInv, TypeOK, Quiet, queues, counters, workers, Stopping
<1>3. PhaseInv'
  BY <1>0, <1>1, QuietKeeps
     DEF IInv, PhaseInv, Quiet, queues, counters, workers, Stopping
<1>4. CoverInv'
  BY <1>0 DEF CoverInv, InCycle
<1> QED BY <1>0, <1>1, <1>2, <1>3, <1>4, QuietKeeps DEF IInv

\* The queues are empty when they are cancelled: no request is deleted.
LEMMA CancelQueuesKeeps ==
    ASSUME IInv, CancelLoopQueue \/ CancelOnceQueue PROVE IInv'
<1> USE DEF WorldMoves, counters, workers
<1>0. /\ wpc \in {"cancelLoop", "cancelOnce"}
      /\ wpc' \in {"cancelOnce", "waitOnces"}
      /\ UNCHANGED <<todo, i_maps, instances, expired, counters, onceThreads,
                     workers, loopEnabled, cancelationToken>>
      /\ loop_queue' \in {loop_queue, Cancelled(loop_queue)}
      /\ once_queue' \in {once_queue, Cancelled(once_queue)}
  BY DEF CancelLoopQueue, CancelOnceQueue
<1>1. cancelationToken /\ Alone /\ OnceOut = {} /\ LoopOut = {}
  BY <1>0 DEF IInv, PhaseInv, Alone, Stopping
<1>2. Queued(loop_queue) = {} /\ Queued(once_queue) = {}
  BY <1>1 DEF OnceOut, LoopOut
<1>a. /\ loop_queue \in [items : Seq(Instances), shutdown : BOOLEAN]
      /\ once_queue \in [items : Seq(BaseMaps), shutdown : BOOLEAN]
  BY DEF IInv, TypeOK
<1>b. Queued(Cancelled(loop_queue)) = {} /\ Queued(Cancelled(once_queue)) = {}
  BY <1>a, QueuedFacts
<1>c. /\ Queued(loop_queue)' \in {Queued(loop_queue), Queued(Cancelled(loop_queue))}
      /\ Queued(once_queue)' \in {Queued(once_queue), Queued(Cancelled(once_queue))}
  BY <1>0 DEF Queued
<1>3. Queued(loop_queue)' = {} /\ Queued(once_queue)' = {}
  BY <1>2, <1>b, <1>c
<1>4. OnceOut' = OnceOut /\ LoopOut' = LoopOut
  BY <1>0, <1>2, <1>3 DEF OnceOut, LoopOut, Held
<1>5. /\ loop_queue' \in [items : Seq(Instances), shutdown : BOOLEAN]
      /\ once_queue' \in [items : Seq(BaseMaps), shutdown : BOOLEAN]
      /\ NoRepeats(loop_queue)' /\ NoRepeats(once_queue)'
  <2>1. /\ Cancelled(loop_queue) \in [items : Seq(Instances), shutdown : BOOLEAN]
        /\ Cancelled(once_queue) \in [items : Seq(BaseMaps), shutdown : BOOLEAN]
    BY DEF Cancelled
  <2>2. NoRepeats(Cancelled(loop_queue)) /\ NoRepeats(Cancelled(once_queue))
    BY DEF NoRepeats, Cancelled
  <2>3. NoRepeats(loop_queue) /\ NoRepeats(once_queue)
    BY DEF IInv, ExclusiveInv
  <2>4. CASE loop_queue' = loop_queue
    BY <1>0, <1>a, <2>1, <2>2, <2>3, <2>4 DEF NoRepeats
  <2>5. CASE loop_queue' = Cancelled(loop_queue)
    BY <1>0, <1>a, <2>1, <2>2, <2>3, <2>5 DEF NoRepeats
  <2> QED BY <1>0, <2>4, <2>5
<1>6. TypeOK'
  BY <1>0, <1>5 DEF IInv, TypeOK, Stopping, InCycle
<1>7. HoldInv'
  BY <1>0 DEF IInv, HoldInv
<1>8. ExclusiveInv'
  BY <1>0, <1>3, <1>5 DEF IInv, ExclusiveInv, MapExclusive
<1>9. PhaseInv'
  BY <1>0, <1>1, <1>4 DEF IInv, PhaseInv, Alone, Stopping
<1>10. OrderInv'
  BY <1>0, <1>3, <1>4 DEF IInv, OrderInv
<1>11. LiveInv' /\ CoverInv' /\ PendingCountsRequests' /\ OnceMapsHaveThreads'
  BY <1>0, <1>1, <1>4
     DEF IInv, LiveInv, RequestsForLiveMaps, CoverInv, PendingCountsRequests,
         OnceMapsHaveThreads
<1> QED
  BY <1>6, <1>7, <1>8, <1>9, <1>10, <1>11 DEF IInv

LEMMA JoinLoopThreadsKeeps == ASSUME IInv, JoinLoopThreads PROVE IInv'
<1> USE DEF WorldMoves, Stopping, InCycle, Alone
<1>0. Quiet
  BY DEF JoinLoopThreads, Quiet
<1>1. PhaseInv /\ TypeOK
  BY DEF IInv
<1> QED BY <1>0, <1>1, QuietMove DEF JoinLoopThreads, PhaseInv, TypeOK

LEMMA JoinOnceThreadsKeeps == ASSUME IInv, JoinOnceThreads PROVE IInv'
<1> USE DEF queues, counters
<1>0. /\ wpc = "joinOnces" /\ wpc' = "joinLoops" /\ onceThreads' = 0
      /\ UNCHANGED <<todo, i_maps, instances, expired, queues, counters,
                     loopEnabled, cancelationToken, req, visit, updated>>
      /\ pc' = [w \in Workers |-> IF w \in LoopWorkers THEN pc[w] ELSE "none"]
  BY DEF JoinOnceThreads
<1>1. cancelationToken /\ Alone /\ OnceOut = {} /\ LoopOut = {}
  BY <1>0 DEF IInv, PhaseInv, Alone, Stopping
<1>2. Queued(loop_queue)' = Queued(loop_queue) /\ Queued(once_queue)' = Queued(once_queue)
  BY <1>0 DEF Queued
<1>3. OnceOut' = OnceOut /\ LoopOut' = LoopOut
  BY <1>0, <1>2 DEF OnceOut, LoopOut, Held
<1>4. \A w \in Workers : req[w] = None
  BY <1>1, WorkerKinds DEF OnceOut, LoopOut, Held
<1>5. \A w \in Workers : visit[w] = {}
  BY <1>1 DEF IInv, HoldInv, PhaseInv
<1>6. pending_once_maps = 0
  BY <1>1, ZeroMeansNone
<1>7. /\ pc' \in [Workers -> {"none", "pop", "token", "call", "flag", "push",
                             "finish", "exited"}]
      /\ \A w \in LoopWorkers : pc'[w] = pc[w]
      /\ \A w \in OnceWorkers : pc'[w] = "none"
  BY <1>0, WorkerKinds DEF IInv, TypeOK
<1>8. onceThreads' \in 0 .. Cardinality(BaseMaps)
  BY <1>0, WorkerKinds
<1>9. TypeOK'
  BY <1>0, <1>1, <1>7, <1>8 DEF IInv, TypeOK, Stopping
<1>10. HoldInv'
  BY <1>0, <1>1, <1>4, <1>5, <1>7, WorkerKinds DEF IInv, HoldInv, Busy, TypeOK
<1>11. ExclusiveInv'
  BY <1>0, <1>2 DEF IInv, ExclusiveInv, MapExclusive, NoRepeats
<1>12. PhaseInv'
  BY <1>0, <1>1, <1>3, <1>7, WorkerKinds DEF IInv, PhaseInv, Alone, Stopping
<1>13. OrderInv'
  BY <1>0, <1>1, <1>2, <1>3, <1>7, WorkerKinds DEF IInv, OrderInv, PhaseInv, Busy
<1>14. LiveInv' /\ CoverInv' /\ PendingCountsRequests' /\ OnceMapsHaveThreads'
  BY <1>0, <1>1, <1>3, <1>6
     DEF IInv, LiveInv, RequestsForLiveMaps, CoverInv, PendingCountsRequests,
         OnceMapsHaveThreads
<1> QED
  BY <1>9, <1>10, <1>11, <1>12, <1>13, <1>14 DEF IInv

---------------------------------------------------------------------------
(* The steps of the world thread that touch maps or requests               *)

LEMMA OutsideKeeps ==
    ASSUME IInv,
           \/ \E m \in BaseMaps : CreateBaseMap(m)
           \/ \E i \in Instances : CreateInstance(i)
           \/ UnloadAll
    PROVE  IInv'
<1> USE DEF queues, counters, workers, world
<1>0. /\ wpc = "idle" /\ wpc' \in {"idle", "deactivate"}
      /\ UNCHANGED <<todo, expired, queues, counters, onceThreads, loopEnabled,
                     cancelationToken, workers>>
      /\ i_maps' \in SUBSET BaseMaps
      /\ instances' \in SUBSET Instances
      /\ \A i \in instances' : Home[i] \in i_maps'
  BY DEF CreateBaseMap, CreateInstance, UnloadAll, IInv, LiveInv, TypeOK
<1>1. /\ Alone /\ OnceOut = {} /\ LoopOut = {} /\ todo = {}
      /\ ~cancelationToken
  BY <1>0 DEF IInv, PhaseInv, Alone, Stopping
<1>2. Queued(loop_queue)' = Queued(loop_queue) /\ Queued(once_queue)' = Queued(once_queue)
  BY <1>0 DEF Queued
<1>3. OnceOut' = OnceOut /\ LoopOut' = LoopOut
  BY <1>0, <1>2 DEF OnceOut, LoopOut, Held
<1>4. \A w \in Workers : visit[w] = {}
  BY <1>1 DEF IInv, HoldInv, PhaseInv
<1>5. TypeOK'
  BY <1>0 DEF IInv, TypeOK, Stopping
<1>6. HoldInv'
  BY <1>0, <1>4 DEF IInv, HoldInv
<1>7. ExclusiveInv'
  BY <1>0, <1>2 DEF IInv, ExclusiveInv, MapExclusive, NoRepeats
<1>8. PhaseInv'
  BY <1>0, <1>1, <1>3 DEF IInv, PhaseInv, Alone, Stopping
<1>9. OrderInv'
  BY <1>0, <1>2, <1>3 DEF IInv, OrderInv
<1>10. LiveInv' /\ CoverInv' /\ PendingCountsRequests' /\ OnceMapsHaveThreads'
  BY <1>0, <1>1, <1>3
     DEF IInv, LiveInv, RequestsForLiveMaps, CoverInv, InCycle,
         PendingCountsRequests, OnceMapsHaveThreads
<1> QED
  BY <1>5, <1>6, <1>7, <1>8, <1>9, <1>10 DEF IInv

LEMMA StartUpdateKeeps == ASSUME IInv, StartUpdate PROVE IInv'
<1> USE DEF queues, counters
<1>0. /\ wpc = "idle" /\ wpc' = "schedule" /\ todo' = i_maps /\ updated' = {}
      /\ expired' \in SUBSET instances
      /\ UNCHANGED <<i_maps, instances, queues, counters, onceThreads,
                     loopEnabled, cancelationToken, pc, req, visit>>
  BY DEF StartUpdate
<1>1. /\ Alone /\ OnceOut = {} /\ LoopOut = {} /\ ~cancelationToken
      /\ \A w \in Workers : pc[w] \in {"none", "pop", "exited"}
  BY <1>0 DEF IInv, PhaseInv, Alone, Stopping
<1>2. Queued(loop_queue)' = Queued(loop_queue) /\ Queued(once_queue)' = Queued(once_queue)
  BY <1>0 DEF Queued
<1>3. OnceOut' = OnceOut /\ LoopOut' = LoopOut /\ Queued(once_queue) = {}
  BY <1>0, <1>1, <1>2 DEF OnceOut, LoopOut, Held
<1>4. TypeOK'
  BY <1>0 DEF IInv, TypeOK, InCycle
<1>5. HoldInv'
  BY <1>0 DEF IInv, HoldInv
<1>6. ExclusiveInv'
  BY <1>0, <1>2 DEF IInv, ExclusiveInv, MapExclusive, NoRepeats
<1>7. PhaseInv'
  BY <1>0, <1>1 DEF IInv, PhaseInv, Alone, Stopping
<1>8. OrderInv'
  BY <1>0, <1>1, <1>2, <1>3, WorkerKinds DEF IInv, OrderInv, Busy
<1>9. LiveInv' /\ CoverInv' /\ PendingCountsRequests' /\ OnceMapsHaveThreads'
  BY <1>0, <1>1, <1>3
     DEF IInv, LiveInv, RequestsForLiveMaps, CoverInv, InCycle,
         PendingCountsRequests, OnceMapsHaveThreads
<1> QED
  BY <1>4, <1>5, <1>6, <1>7, <1>8, <1>9 DEF IInv
\* schedule_update for a base map.
LEMMA ScheduleBaseMapKeeps ==
    ASSUME IInv, NEW m \in BaseMaps, ScheduleBaseMap(m) PROVE IInv'
<1>0. /\ wpc = "schedule" /\ m \in todo /\ todo' = todo \ {m}
      /\ pending_once_maps' = pending_once_maps + 1
      /\ once_queue' = Pushed(once_queue, m)
      /\ UNCHANGED <<wpc, i_maps, instances, expired, loop_queue,
                     pending_loop_maps, loopEnabled, cancelationToken,
                     req, visit, updated>>
  BY DEF ScheduleBaseMap, ScheduleOnce
<1> DEFINE size == IF pending_once_maps + 1 > onceThreads
                   THEN pending_once_maps + 1 ELSE onceThreads
<1>1. /\ onceThreads' = size
      /\ \A w \in Workers : pc'[w] = IF w \in (onceThreads + 1) .. size
                                     THEN "pop" ELSE pc[w]
      /\ pc' = [w \in Workers |-> IF w \in (onceThreads + 1) .. size
                                  THEN "pop" ELSE pc[w]]
  BY DEF ScheduleBaseMap, ScheduleOnce, SpawnMissingOnceUpdateThreads
<1>2. /\ once_queue \in [items : Seq(BaseMaps), shutdown : BOOLEAN]
      /\ m \notin OnceOut /\ m \notin updated /\ m \in i_maps
      /\ OnceOut \subseteq BaseMaps
      /\ pending_once_maps \in Nat /\ onceThreads \in Nat
      /\ pending_once_maps = Cardinality(OnceOut)
      /\ pending_once_maps <= onceThreads
      /\ onceThreads <= Cardinality(BaseMaps)
      /\ ~Alone /\ ~cancelationToken
  BY <1>0, OutTypes
     DEF IInv, TypeOK, OrderInv, LiveInv, PendingCountsRequests,
         OnceMapsHaveThreads, PhaseInv, Alone, Stopping, ScheduleBaseMap
<1>3. /\ once_queue' \in [items : Seq(BaseMaps), shutdown : BOOLEAN]
      /\ once_queue'.shutdown = once_queue.shutdown
      /\ Queued(once_queue)' = Queued(once_queue) \cup {m}
      /\ NoRepeats(once_queue)'
  <2>1. m \notin Queued(once_queue) /\ NoRepeats(once_queue)
    BY <1>2 DEF OnceOut, IInv, ExclusiveInv
  <2>2. /\ Pushed(once_queue, m) \in [items : Seq(BaseMaps), shutdown : BOOLEAN]
        /\ Pushed(once_queue, m).shutdown = once_queue.shutdown
        /\ Queued(Pushed(once_queue, m)) = Queued(once_queue) \cup {m}
        /\ NoRepeats(Pushed(once_queue, m))
    BY <1>2, <2>1, PushFacts
  <2>3. once_queue' = Pushed(once_queue, m)
    BY <1>0
  <2> QED BY <2>2, <2>3, PrimedQueues
<1>4. Queued(loop_queue)' = Queued(loop_queue)
  BY <1>0 DEF Queued
<1>5. OnceOut' = OnceOut \cup {m} /\ LoopOut' = LoopOut
  BY <1>0, <1>3, <1>4 DEF OnceOut, LoopOut, Held
<1>6. /\ pending_once_maps' = Cardinality(OnceOut')
      /\ pending_once_maps' <= Cardinality(BaseMaps)
      /\ pending_once_maps' \in Nat
  <2>1. /\ Cardinality(OnceOut \cup {m}) = Cardinality(OnceOut) + 1
        /\ Cardinality(OnceOut \cup {m}) <= Cardinality(BaseMaps)
    BY <1>2, CountOne, FiniteMaps
  <2> QED BY <1>0, <1>2, <1>5, <2>1
<1>7. /\ onceThreads' \in 0 .. Cardinality(BaseMaps)
      /\ onceThreads' >= onceThreads /\ onceThreads' >= pending_once_maps'
      /\ onceThreads' \in Nat
  BY <1>0, <1>1, <1>2, <1>6, WorkerKinds
<1>8. /\ \A w \in LoopWorkers : pc'[w] = pc[w]
      /\ \A w \in OnceWorkers :
            pc'[w] = IF w > onceThreads /\ w <= onceThreads'
                     THEN "pop" ELSE pc[w]
  <2>1. ASSUME NEW w \in LoopWorkers PROVE pc'[w] = pc[w]
    <3>1. w \notin (onceThreads + 1) .. size
      BY Activated, <1>1, <1>2, <1>7
    <3> QED BY <1>1, <3>1, WorkerKinds
  <2>2. ASSUME NEW w \in OnceWorkers
        PROVE  pc'[w] = IF w > onceThreads /\ w <= onceThreads'
                        THEN "pop" ELSE pc[w]
    <3> HIDE DEF size
    <3>1. w \in (onceThreads + 1) .. size <=> w > onceThreads /\ w <= onceThreads'
      BY <1>1, <1>2, <1>7, WorkerKinds
    <3> QED BY <1>1, <3>1, WorkerKinds
  <2> QED BY <2>1, <2>2
<1> HIDE DEF size
<1>9. \A w \in OnceWorkers : pc'[w] # pc[w] => pc[w] = "none" /\ pc'[w] = "pop"
  BY <1>8 DEF IInv, HoldInv, Workers
<1>10. TypeOK'
  <2>1. pc' \in [Workers -> {"none", "pop", "token", "call", "flag", "push",
                             "finish", "exited"}]
    BY <1>1 DEF IInv, TypeOK
  <2>2. \A w \in Workers :
            pc'[w] \in {"token", "call", "flag", "push", "finish"}
                => pc'[w] = pc[w]
    BY <1>8, <1>9, WorkerKinds
  <2> QED BY <1>0, <1>3, <1>6, <1>7, <2>1, <2>2 DEF IInv, TypeOK
<1>11. HoldInv'
  <2>1. ASSUME NEW w \in Workers
        PROVE  pc'[w] = "none" <=> w \in OnceWorkers /\ w > onceThreads'
    BY <1>2, <1>7, <1>8, WorkerKinds DEF IInv, HoldInv
  <2>2. \A w \in Workers : pc'[w] = pc[w] \/ (pc[w] = "none" /\ pc'[w] = "pop")
    BY <1>8, <1>9, WorkerKinds
  <2> QED BY <1>0, <2>1, <2>2 DEF IInv, HoldInv, Busy
<1>12. ExclusiveInv'
  <2>1. \A w \in Workers : req[w] # m
    BY <1>2, WorkerKinds, DistinctMaps
       DEF OnceOut, Held, IInv, HoldInv, Maps
  <2>2. NoRepeats(loop_queue)'
    BY <1>0 DEF IInv, ExclusiveInv, NoRepeats
  <2> QED BY <1>0, <1>3, <1>4, <2>1, <2>2 DEF IInv, ExclusiveInv, MapExclusive
<1>13. PhaseInv'
  BY <1>0, <1>2, <1>3, <1>5 DEF IInv, PhaseInv, Alone, Stopping
<1>14. OrderInv'
  <2>1. \A w \in Workers : pc'[w] \in Busy => pc'[w] = pc[w]
    BY <1>8, <1>9, WorkerKinds DEF Busy
  <2> QED BY <1>0, <1>2, <1>3, <1>5, <2>1, WorkerKinds DEF IInv, OrderInv, Busy
<1>15. LiveInv'
  BY <1>0, <1>2, <1>5 DEF IInv, LiveInv, RequestsForLiveMaps
<1>16. CoverInv'
  BY <1>0, <1>5 DEF IInv, CoverInv
<1>17. PendingCountsRequests' /\ OnceMapsHaveThreads'
  BY <1>0, <1>5, <1>6, <1>7
     DEF IInv, PendingCountsRequests, OnceMapsHaveThreads
<1> QED
  BY <1>10, <1>11, <1>12, <1>13, <1>14, <1>15, <1>16, <1>17 DEF IInv
---------------------------------------------------------------------------
(* The worker threads                                                      *)

\* Where the moving worker goes, and that the others stay.
LEMMA MoveFacts ==
    ASSUME TypeOK, NEW w \in Workers, NEW from, NEW to, WorkerMoves(w, from, to),
           to \in {"none", "pop", "token", "call", "flag", "push", "finish",
                  "exited"}
    PROVE  /\ pc[w] = from
           /\ pc'[w] = to
           /\ \A v \in Workers \ {w} : pc'[v] = pc[v]
           /\ pc' \in [Workers -> {"none", "pop", "token", "call", "flag",
                                  "push", "finish", "exited"}]
  BY DEF TypeOK, WorkerMoves

\* WaitAndPop moves a request from the queue to the hand of the worker.
LEMMA PopRequestKeeps ==
    ASSUME IInv, NEW w \in Workers, PopRequest(w) PROVE IInv'
<1> USE DEF world, counters
<1>0. /\ pc[w] = "pop" /\ pc'[w] = "token" /\ req[w] = None
      /\ \A v \in Workers \ {w} : pc'[v] = pc[v] /\ req'[v] = req[v]
      /\ pc' \in [Workers -> {"none", "pop", "token", "call", "flag",
                             "push", "finish", "exited"}]
      /\ UNCHANGED <<world, instances, counters, onceThreads, loopEnabled,
                     cancelationToken, visit, updated>>
  BY MoveFacts DEF PopRequest, IInv, HoldInv, TypeOK
<1>q. /\ loop_queue \in [items : Seq(Instances), shutdown : BOOLEAN]
      /\ once_queue \in [items : Seq(BaseMaps), shutdown : BOOLEAN]
      /\ NoRepeats(loop_queue) /\ NoRepeats(once_queue)
  BY DEF IInv, TypeOK, ExclusiveInv
<1>1. \/ /\ w \in LoopWorkers
         /\ req'[w] \in Instances
         /\ req'[w] \in Queued(loop_queue)
         /\ req' = [req EXCEPT ![w] = req'[w]]
         /\ loop_queue' \in [items : Seq(Instances), shutdown : BOOLEAN]
         /\ loop_queue'.shutdown = loop_queue.shutdown
         /\ Queued(loop_queue)' = Queued(loop_queue) \ {req'[w]}
         /\ NoRepeats(loop_queue)'
         /\ once_queue' = once_queue
      \/ /\ w \in OnceWorkers
         /\ req'[w] \in BaseMaps
         /\ req'[w] \in Queued(once_queue)
         /\ req' = [req EXCEPT ![w] = req'[w]]
         /\ once_queue' \in [items : Seq(BaseMaps), shutdown : BOOLEAN]
         /\ once_queue'.shutdown = once_queue.shutdown
         /\ Queued(once_queue)' = Queued(once_queue) \ {req'[w]}
         /\ NoRepeats(once_queue)'
         /\ loop_queue' = loop_queue
  <2>1. CASE w \in LoopWorkers
    <3>1. /\ Poppable(loop_queue)
          /\ loop_queue' = Popped(loop_queue)
          /\ req' = [req EXCEPT ![w] = Head(loop_queue.items)]
          /\ once_queue' = once_queue
      BY <2>1, WorkerKinds DEF PopRequest
    <3>2. req'[w] = Head(loop_queue.items)
      BY <3>1 DEF IInv, TypeOK
    <3>3. /\ Popped(loop_queue) \in [items : Seq(Instances), shutdown : BOOLEAN]
          /\ Popped(loop_queue).shutdown = loop_queue.shutdown
          /\ Head(loop_queue.items) \in Queued(loop_queue)
          /\ Head(loop_queue.items) \in Instances
          /\ Queued(Popped(loop_queue)) = Queued(loop_queue) \ {Head(loop_queue.items)}
          /\ NoRepeats(Popped(loop_queue))
      BY <1>q, <3>1, PopFacts
    <3>4. Queued(loop_queue)' = Queued(Popped(loop_queue)) /\ NoRepeats(loop_queue)'
      BY <3>1, <3>3, PrimedQueues
    <3> QED BY <2>1, <3>1, <3>2, <3>3, <3>4
  <2>2. CASE w \in OnceWorkers
    <3>1. /\ Poppable(once_queue)
          /\ once_queue' = Popped(once_queue)
          /\ req' = [req EXCEPT ![w] = Head(once_queue.items)]
          /\ loop_queue' = loop_queue
      BY <2>2, WorkerKinds DEF PopRequest
    <3>2. req'[w] = Head(once_queue.items)
      BY <3>1 DEF IInv, TypeOK
    <3>3. /\ Popped(once_queue) \in [items : Seq(BaseMaps), shutdown : BOOLEAN]
          /\ Popped(once_queue).shutdown = once_queue.shutdown
          /\ Head(once_queue.items) \in Queued(once_queue)
          /\ Head(once_queue.items) \in BaseMaps
          /\ Queued(Popped(once_queue)) = Queued(once_queue) \ {Head(once_queue.items)}
          /\ NoRepeats(Popped(once_queue))
      BY <1>q, <3>1, PopFacts
    <3>4. Queued(once_queue)' = Queued(Popped(once_queue)) /\ NoRepeats(once_queue)'
      BY <3>1, <3>3, PrimedQueues
    <3> QED BY <2>2, <3>1, <3>2, <3>3, <3>4
  <2> QED BY <2>1, <2>2, WorkerKinds
<1>2. /\ w \in LoopWorkers => Queued(once_queue)' = Queued(once_queue)
                             /\ NoRepeats(once_queue)'
      /\ w \in OnceWorkers => Queued(loop_queue)' = Queued(loop_queue)
                             /\ NoRepeats(loop_queue)'
  BY <1>1, <1>q, WorkerKinds DEF Queued, NoRepeats
<1>3. OnceOut' = OnceOut /\ LoopOut' = LoopOut
  <2>1. CASE w \in LoopWorkers
    <3>1. /\ req'[w] \in Queued(loop_queue) /\ req'[w] # None
          /\ Queued(loop_queue)' = Queued(loop_queue) \ {req'[w]}
          /\ Queued(once_queue)' = Queued(once_queue)
      BY <1>1, <1>2, <2>1, WorkerKinds, DistinctMaps DEF Maps
    <3>2. Held(LoopWorkers)' = Held(LoopWorkers) \cup {req'[w]}
      BY <1>0, <2>1, <3>1, WorkerKinds DEF Held
    <3>3. Held(OnceWorkers)' = Held(OnceWorkers)
      BY <1>0, <2>1, WorkerKinds DEF Held
    <3> QED BY <3>1, <3>2, <3>3 DEF OnceOut, LoopOut
  <2>2. CASE w \in OnceWorkers
    <3>1. /\ req'[w] \in Queued(once_queue) /\ req'[w] # None
          /\ Queued(once_queue)' = Queued(once_queue) \ {req'[w]}
          /\ Queued(loop_queue)' = Queued(loop_queue)
      BY <1>1, <1>2, <2>2, WorkerKinds, DistinctMaps DEF Maps
    <3>2. Held(OnceWorkers)' = Held(OnceWorkers) \cup {req'[w]}
      BY <1>0, <2>2, <3>1, WorkerKinds DEF Held
    <3>3. Held(LoopWorkers)' = Held(LoopWorkers)
      BY <1>0, <2>2, WorkerKinds DEF Held
    <3> QED BY <3>1, <3>2, <3>3 DEF OnceOut, LoopOut
  <2> QED BY <2>1, <2>2, WorkerKinds
<1>4. ~Alone /\ ~Alone'
  <2>1. OnceOut # {} \/ LoopOut # {}
    BY <1>1 DEF OnceOut, LoopOut
  <2> QED BY <1>0, <2>1 DEF IInv, PhaseInv, Alone
<1>5. /\ req'[w] # None /\ (w \in LoopWorkers => req'[w] \in Instances)
      /\ (w \in OnceWorkers => req'[w] \in BaseMaps /\ req'[w] \notin updated)
      /\ visit[w] = {}
      /\ \A v \in Workers : req[v] # req'[w]
      /\ req'[w] \in Queued(once_queue) \cup Queued(loop_queue)
      /\ req'[w] \notin (Queued(once_queue) \cup Queued(loop_queue))'
  <2>0. Queued(once_queue) \subseteq BaseMaps /\ Queued(loop_queue) \subseteq Instances
    BY OutTypes DEF IInv
  <2>1. CASE w \in LoopWorkers
    BY <1>0, <1>1, <1>2, <2>0, <2>1, WorkerKinds, DistinctMaps
       DEF IInv, ExclusiveInv, HoldInv, Maps
  <2>2. CASE w \in OnceWorkers
    BY <1>0, <1>1, <1>2, <2>0, <2>2, WorkerKinds, DistinctMaps
       DEF IInv, ExclusiveInv, HoldInv, OrderInv, Maps
  <2> QED BY <2>1, <2>2, WorkerKinds
<1>6. TypeOK'
  <2>1. /\ loop_queue' \in [items : Seq(Instances), shutdown : BOOLEAN]
        /\ once_queue' \in [items : Seq(BaseMaps), shutdown : BOOLEAN]
        /\ req' \in [Workers -> Maps \cup {None}]
    BY <1>1, <1>q DEF IInv, TypeOK, Maps
  <2> QED BY <1>0, <1>5, <2>1, WorkerKinds DEF IInv, TypeOK
<1>7. HoldInv'
  BY <1>0, <1>5, WorkerKinds DEF IInv, HoldInv, Busy
<1>8. ExclusiveInv'
  <2>1. /\ Queued(once_queue)' \subseteq Queued(once_queue)
        /\ Queued(loop_queue)' \subseteq Queued(loop_queue)
        /\ NoRepeats(once_queue)' /\ NoRepeats(loop_queue)'
    BY <1>1, <1>2, WorkerKinds
  <2> QED BY <1>0, <1>5, <2>1 DEF IInv, ExclusiveInv, MapExclusive
<1>9. PhaseInv'
  BY <1>0, <1>1, <1>3, <1>4 DEF IInv, PhaseInv
<1>10. OrderInv'
  <2>1. Queued(once_queue)' \subseteq Queued(once_queue)
    BY <1>1, <1>2, WorkerKinds
  <2> QED
    BY <1>0, <1>3, <1>5, <2>1, WorkerKinds DEF IInv, OrderInv, Busy
<1>11. LiveInv' /\ CoverInv' /\ PendingCountsRequests' /\ OnceMapsHaveThreads'
  BY <1>0, <1>3
     DEF IInv, LiveInv, RequestsForLiveMaps, CoverInv, PendingCountsRequests,
         OnceMapsHaveThreads
<1> QED
  BY <1>6, <1>7, <1>8, <1>9, <1>10, <1>11 DEF IInv
\* A worker moves on and changes nothing else.
LEMMA WorkerStepKeeps ==
    ASSUME IInv, NEW w \in Workers, NEW from, NEW to, WorkerMoves(w, from, to),
           to \in {"pop", "token", "call", "flag", "push", "finish", "exited"},
           from # "none",
           to \in {"pop", "exited"} => req[w] = None,
           to \in Busy /\ ~cancelationToken => req[w] # None,
           to \in {"flag", "push"} => w \in LoopWorkers,
           to # "call" => visit[w] = {},
           to = "token" => cancelationToken /\ req[w] = None,
           to \in Busy \ {"token"} => from \in Busy \ {"token"},
           UNCHANGED <<world, instances, queues, counters, onceThreads,
                       loopEnabled, cancelationToken, req, visit, updated>>
    PROVE  IInv'
<1> USE DEF world, queues, counters
<1>0. /\ pc[w] = from /\ pc'[w] = to
      /\ \A v \in Workers \ {w} : pc'[v] = pc[v]
      /\ pc' \in [Workers -> {"none", "pop", "token", "call", "flag", "push",
                              "finish", "exited"}]
  BY MoveFacts DEF IInv
<1>1. Queued(loop_queue)' = Queued(loop_queue) /\ Queued(once_queue)' = Queued(once_queue)
  BY DEF Queued
<1>2. OnceOut' = OnceOut /\ LoopOut' = LoopOut
  BY <1>1 DEF OnceOut, LoopOut, Held
<1>3. TypeOK'
  <2>1. pc'[w] \in Busy /\ ~cancelationToken =>
            req[w] \in (IF w \in LoopWorkers THEN Instances ELSE BaseMaps)
    BY <1>0, WorkerKinds DEF IInv, HoldInv
  <2> QED BY <1>0, <2>1 DEF IInv, TypeOK, Busy
<1>4. HoldInv'
  BY <1>0 DEF IInv, HoldInv
<1>5. ExclusiveInv'
  BY <1>1 DEF IInv, ExclusiveInv, MapExclusive, NoRepeats
<1>6. PhaseInv'
  BY <1>0, <1>2 DEF IInv, PhaseInv, Alone, Busy
<1>7. OrderInv'
  <2>1. None \notin updated
    BY DistinctMaps DEF IInv, TypeOK
  <2> QED BY <1>0, <1>1, <1>2, <2>1, WorkerKinds DEF IInv, OrderInv, Busy
<1>8. LiveInv' /\ CoverInv' /\ PendingCountsRequests' /\ OnceMapsHaveThreads'
  BY <1>2
     DEF IInv, LiveInv, RequestsForLiveMaps, CoverInv, PendingCountsRequests,
         OnceMapsHaveThreads
<1> QED
  BY <1>3, <1>4, <1>5, <1>6, <1>7, <1>8 DEF IInv

LEMMA PopNothingKeeps ==
    ASSUME IInv, NEW w \in Workers, PopNothing(w) PROVE IInv'
<1>1. WorkerMoves(w, "pop", "token") /\ pc[w] = "pop"
  BY DEF PopNothing, WorkerMoves
<1>2. cancelationToken /\ req[w] = None /\ visit[w] = {}
  BY <1>1 DEF PopNothing, IInv, PhaseInv, HoldInv
<1>3. UNCHANGED <<world, instances, queues, counters, onceThreads,
                  loopEnabled, cancelationToken, req, visit, updated>>
  BY DEF PopNothing
<1> QED BY <1>1, <1>2, <1>3, WorkerStepKeeps DEF Busy

LEMMA EndUpdateKeeps ==
    ASSUME IInv, NEW w \in Workers, EndUpdate(w) PROVE IInv'
<1> DEFINE to == IF w \in LoopWorkers THEN "flag" ELSE "finish"
<1>1. WorkerMoves(w, "call", to) /\ pc[w] = "call" /\ visit[w] = {}
  BY DEF EndUpdate, WorkerMoves
<1>2. ~cancelationToken => req[w] # None
  BY <1>1 DEF IInv, HoldInv, Busy
<1>3. UNCHANGED <<world, instances, queues, counters, onceThreads,
                  loopEnabled, cancelationToken, req, visit, updated>>
  BY DEF EndUpdate
<1> QED BY <1>1, <1>2, <1>3, WorkerStepKeeps DEF Busy

LEMMA ReadLoopFlagKeeps ==
    ASSUME IInv, NEW w \in Workers, ReadLoopFlag(w) PROVE IInv'
<1> DEFINE to == IF loopEnabled THEN "push" ELSE "finish"
<1>1. WorkerMoves(w, "flag", to) /\ pc[w] = "flag"
  BY DEF ReadLoopFlag, WorkerMoves
<1>2. /\ ~cancelationToken => req[w] # None
      /\ visit[w] = {} /\ w \in LoopWorkers
  BY <1>1 DEF IInv, HoldInv, Busy
<1>3. UNCHANGED <<world, instances, queues, counters, onceThreads,
                  loopEnabled, cancelationToken, req, visit, updated>>
  BY DEF ReadLoopFlag
<1> QED BY <1>1, <1>2, <1>3, WorkerStepKeeps DEF Busy

\* A worker that ends holds nothing: the counters stay as they are.
LEMMA ExitThreadKeeps ==
    ASSUME IInv, NEW w \in Workers, ExitThread(w) PROVE IInv'
<1>1. cancelationToken /\ pc[w] = "token" /\ WorkerMoves(w, "token", "exited")
  BY DEF ExitThread, WorkerMoves
<1>2. req[w] = None
  <2>1. OnceOut = {} /\ LoopOut = {}
    BY <1>1 DEF IInv, PhaseInv, Alone
  <2> QED BY <2>1, WorkerKinds DEF OnceOut, LoopOut, Held
<1>3. visit[w] = {}
  BY <1>1 DEF IInv, HoldInv
<1>4. req' = req
  BY <1>2 DEF ExitThread, IInv, TypeOK
<1>5. UNCHANGED <<world, instances, queues, counters, onceThreads,
                  loopEnabled, cancelationToken, req, visit, updated>>
  BY <1>2, <1>4 DEF ExitThread, world
<1> QED BY <1>1, <1>2, <1>3, <1>5, WorkerStepKeeps DEF Busy
LEMMA BeginUpdateKeeps ==
    ASSUME IInv, NEW w \in Workers, BeginUpdate(w) PROVE IInv'
<1> USE DEF world, queues, counters
<1> DEFINE Mine == {i \in instances : Home[i] = req[w]}
<1>0. /\ ~cancelationToken /\ WorkerMoves(w, "token", "call")
      /\ updated' = updated \cup {req[w]}
      /\ visit' = [visit EXCEPT ![w] = Mine]
      /\ UNCHANGED <<world, instances, queues, counters, onceThreads,
                     loopEnabled, cancelationToken, req>>
  BY DEF BeginUpdate
<1>1. /\ pc[w] = "token" /\ pc'[w] = "call"
      /\ \A v \in Workers \ {w} : pc'[v] = pc[v] /\ visit'[v] = visit[v]
      /\ pc' \in [Workers -> {"none", "pop", "token", "call", "flag", "push",
                              "finish", "exited"}]
      /\ visit'[w] = Mine
      /\ visit' \in [Workers -> SUBSET Instances]
  BY <1>0, MoveFacts DEF IInv, TypeOK
<1>2. /\ req[w] # None /\ req[w] \in Maps /\ visit[w] = {}
      /\ w \in LoopWorkers => req[w] \in LoopOut /\ req[w] \in Instances
      /\ w \in OnceWorkers => req[w] \in OnceOut /\ req[w] \in BaseMaps
                              /\ req[w] \notin updated
  BY <1>0, <1>1, WorkerKinds
     DEF IInv, HoldInv, Busy, OrderInv, OnceOut, LoopOut, Held, Maps
<1>3. Queued(loop_queue)' = Queued(loop_queue) /\ Queued(once_queue)' = Queued(once_queue)
  BY <1>0 DEF Queued
<1>4. OnceOut' = OnceOut /\ LoopOut' = LoopOut
  BY <1>0, <1>3 DEF OnceOut, LoopOut, Held
<1>5. ~Alone /\ ~Alone'
  BY <1>0, <1>1 DEF IInv, PhaseInv, Alone
<1>6. Mine \cap LoopOut = {}
  <2> SUFFICES ASSUME NEW i \in Mine, i \in LoopOut PROVE FALSE
    OBVIOUS
  <2>1. i \in Instances /\ Home[i] = req[w] /\ Home[i] \in updated
    BY DEF IInv, TypeOK, OrderInv
  <2>2. Home[i] \in BaseMaps
    BY <2>1, HomeIsInstanced DEF BaseMaps
  <2>3. w \in LoopWorkers
    BY <1>2, <2>1, WorkerKinds
  <2> QED BY <1>2, <2>1, <2>2, <2>3, DistinctMaps
<1>7. TypeOK'
  BY <1>0, <1>1, <1>2, WorkerKinds DEF IInv, TypeOK
<1>8. HoldInv'
  BY <1>0, <1>1, <1>2 DEF IInv, HoldInv, Busy
<1>9. ExclusiveInv'
  BY <1>0, <1>3 DEF IInv, ExclusiveInv, MapExclusive, NoRepeats
<1>10. PhaseInv'
  BY <1>0, <1>4, <1>5 DEF IInv, PhaseInv
<1>11. OrderInv'
  <2>1. req[w] \notin todo
    <3>1. todo \subseteq BaseMaps /\ todo \cap OnceOut = {}
      BY DEF IInv, TypeOK, OrderInv
    <3> QED BY <1>2, <3>1, WorkerKinds, DistinctMaps
  <2>2. req[w] \notin Queued(once_queue)
    BY DEF IInv, ExclusiveInv
  <2>3. \A v \in Workers \ {w} : req[v] # req[w]
    BY <1>2 DEF IInv, ExclusiveInv, MapExclusive
  <2>4. todo' \cap (OnceOut \cup updated)' = {}
    BY <1>0, <1>4, <2>1 DEF IInv, OrderInv
  <2>5. (Queued(once_queue) \cap updated)' = {}
    BY <1>0, <1>3, <2>2 DEF IInv, OrderInv
  <2>6. \A v \in OnceWorkers : pc'[v] = "token" => req'[v] \notin updated'
    BY <1>0, <1>1, <2>3, WorkerKinds DEF IInv, OrderInv
  <2>7. \A v \in Workers : pc'[v] \in Busy \ {"token"} => req'[v] \in updated'
    BY <1>0, <1>1 DEF IInv, OrderInv, Busy
  <2>8. \A i \in LoopOut' : Home[i] \in updated' /\ i \notin expired'
    BY <1>0, <1>4 DEF IInv, OrderInv
  <2>9. \A v \in Workers : visit'[v] \cap LoopOut' = {}
    BY <1>0, <1>1, <1>4, <1>6 DEF IInv, OrderInv
  <2> QED BY <2>4, <2>5, <2>6, <2>7, <2>8, <2>9 DEF OrderInv
<1>12. LiveInv'
  BY <1>0, <1>4 DEF IInv, LiveInv, RequestsForLiveMaps
<1>13. CoverInv'
  <2> SUFFICES ASSUME (wpc \in InCycle \cup {"delayed"} /\ ~cancelationToken)'
               PROVE  /\ (i_maps \subseteq todo \cup OnceOut \cup updated)'
                      /\ \A i \in (instances \ expired)' :
                            Home[i] \in updated' =>
                                \/ i \in (updated \cup LoopOut)'
                                \/ \E v \in Workers : i \in visit'[v]
    BY DEF CoverInv
  <2>1. /\ i_maps \subseteq todo \cup OnceOut \cup updated
        /\ \A i \in instances \ expired :
            Home[i] \in updated =>
                \/ i \in updated \cup LoopOut
                \/ \E v \in Workers : i \in visit[v]
    BY <1>0 DEF IInv, CoverInv
  <2>2. \A i : (\E v \in Workers : i \in visit[v]) => \E v \in Workers : i \in visit'[v]
    BY <1>1, <1>2
  <2>3. \A i \in instances : Home[i] = req[w] => i \in visit'[w]
    BY <1>1
  <2> QED BY <1>0, <1>4, <2>1, <2>2, <2>3
<1>14. PendingCountsRequests' /\ OnceMapsHaveThreads'
  BY <1>0, <1>4 DEF IInv, PendingCountsRequests, OnceMapsHaveThreads
<1> QED
  BY <1>7, <1>8, <1>9, <1>10, <1>11, <1>12, <1>13, <1>14 DEF IInv

\* The update of a MapInstanced deletes an instance, or lets it be.
LEMMA UnloadInstanceKeeps ==
    ASSUME IInv, NEW w \in Workers, NEW i \in Instances, UnloadInstance(w, i)
    PROVE  IInv'
<1> USE DEF world, queues, counters
<1>0. /\ pc[w] = "call" /\ i \in visit[w] /\ i \in expired
      /\ visit' = [visit EXCEPT ![w] = @ \ {i}]
      /\ instances' \in {instances, instances \ {i}}
      /\ UNCHANGED <<world, queues, counters, onceThreads, loopEnabled,
                     cancelationToken, pc, req, updated>>
  BY DEF UnloadInstance
<1>1. /\ visit'[w] = visit[w] \ {i}
      /\ \A v \in Workers \ {w} : visit'[v] = visit[v]
      /\ visit' \in [Workers -> SUBSET Instances]
      /\ instances' \subseteq instances /\ instances \ {i} \subseteq instances'
  BY <1>0 DEF IInv, TypeOK
<1>2. Queued(loop_queue)' = Queued(loop_queue) /\ Queued(once_queue)' = Queued(once_queue)
  BY <1>0 DEF Queued
<1>3. OnceOut' = OnceOut /\ LoopOut' = LoopOut
  BY <1>0, <1>2 DEF OnceOut, LoopOut, Held
<1>4. i \notin LoopOut
  BY <1>0 DEF IInv, OrderInv
<1>5. \A v \in Workers \ {w} : i \notin visit[v]
  <2> SUFFICES ASSUME NEW v \in Workers \ {w}, i \in visit[v] PROVE FALSE
    OBVIOUS
  <2>1. req[v] = Home[i] /\ req[w] = Home[i] /\ ~Alone
    BY <1>0 DEF IInv, HoldInv, PhaseInv
  <2>2. req[w] # None
    BY <1>0, <2>1 DEF Alone, IInv, HoldInv, Busy
  <2> QED BY <2>1, <2>2 DEF IInv, ExclusiveInv, MapExclusive
<1>6. TypeOK'
  BY <1>0, <1>1 DEF IInv, TypeOK
<1>7. HoldInv'
  <2>1. \A v \in Workers : visit'[v] \subseteq visit[v] /\ i \notin visit'[v]
    BY <1>1, <1>5
  <2> QED BY <1>0, <1>1, <2>1 DEF IInv, HoldInv
<1>8. ExclusiveInv'
  BY <1>0, <1>2 DEF IInv, ExclusiveInv, MapExclusive, NoRepeats
<1>9. PhaseInv'
  BY <1>0, <1>3 DEF IInv, PhaseInv, Alone
<1>10. OrderInv'
  BY <1>0, <1>1, <1>2, <1>3 DEF IInv, OrderInv
<1>11. LiveInv'
  BY <1>0, <1>1, <1>3, <1>4 DEF IInv, LiveInv, RequestsForLiveMaps
<1>12. CoverInv'
  <2>1. \A j \in instances \ expired :
            (\E v \in Workers : j \in visit[v]) => \E v \in Workers : j \in visit'[v]
    BY <1>0, <1>1
  <2> QED BY <1>0, <1>1, <1>3, <2>1 DEF IInv, CoverInv
<1>13. PendingCountsRequests' /\ OnceMapsHaveThreads'
  BY <1>0, <1>3 DEF IInv, PendingCountsRequests, OnceMapsHaveThreads
<1> QED
  BY <1>6, <1>7, <1>8, <1>9, <1>10, <1>11, <1>12, <1>13 DEF IInv

\* schedule_update for an instance, from the update of its MapInstanced.
LEMMA VisitInstanceKeeps ==
    ASSUME IInv, NEW w \in Workers, NEW i \in Instances, VisitInstance(w, i)
    PROVE  IInv'
<1> USE DEF world
<1>0. /\ pc[w] = "call" /\ i \in visit[w] /\ i \notin expired
      /\ visit' = [visit EXCEPT ![w] = @ \ {i}]
      /\ pending_loop_maps' = pending_loop_maps + 1
      /\ loop_queue' = Pushed(loop_queue, i)
      /\ UNCHANGED <<world, instances, once_queue, pending_once_maps,
                     loopEnabled, cancelationToken, req, updated>>
  BY DEF VisitInstance, ScheduleLoop
<1>1. onceThreads' = onceThreads /\ pc' = pc
  <2> DEFINE size == IF pending_once_maps > onceThreads
                     THEN pending_once_maps ELSE onceThreads
  <2>1. /\ onceThreads' = size
        /\ pc' = [v \in Workers |-> IF v \in (onceThreads + 1) .. size
                                    THEN "pop" ELSE pc[v]]
    BY DEF VisitInstance, ScheduleLoop, SpawnMissingOnceUpdateThreads
  <2>2. onceThreads \in Nat /\ pending_once_maps \in Nat
    BY WorkerKinds DEF IInv, TypeOK
  <2>3. size = onceThreads
    BY <2>2 DEF IInv, OnceMapsHaveThreads
  <2> HIDE DEF size
  <2>4. (onceThreads + 1) .. size = {}
    BY <2>2, <2>3
  <2>5. pc' = [v \in Workers |-> pc[v]]
    BY <2>1, <2>4
  <2> QED BY <2>1, <2>3, <2>5 DEF IInv, TypeOK
<1>2. /\ visit'[w] = visit[w] \ {i}
      /\ \A v \in Workers \ {w} : visit'[v] = visit[v]
      /\ visit' \in [Workers -> SUBSET Instances]
  BY <1>0 DEF IInv, TypeOK
<1>3. /\ ~Alone /\ ~cancelationToken
      /\ req[w] = Home[i] /\ Home[i] \in updated /\ i \in instances
      /\ i \notin LoopOut
      /\ req[w] # None
  BY <1>0 DEF IInv, PhaseInv, Alone, HoldInv, OrderInv, Busy
<1>4. w \in OnceWorkers /\ OnceOut # {}
  <2>1. Home[i] \in BaseMaps
    BY HomeIsInstanced DEF BaseMaps
  <2>2. w \notin LoopWorkers
    BY <1>3, <2>1, DistinctMaps DEF IInv, HoldInv
  <2> QED BY <1>3, <2>2, WorkerKinds DEF OnceOut, Held
<1>5. /\ loop_queue' \in [items : Seq(Instances), shutdown : BOOLEAN]
      /\ loop_queue'.shutdown = loop_queue.shutdown
      /\ Queued(loop_queue)' = Queued(loop_queue) \cup {i}
      /\ NoRepeats(loop_queue)'
  <2>1. /\ i \notin Queued(loop_queue) /\ NoRepeats(loop_queue)
        /\ loop_queue \in [items : Seq(Instances), shutdown : BOOLEAN]
    BY <1>3 DEF LoopOut, IInv, ExclusiveInv, TypeOK
  <2>2. /\ Pushed(loop_queue, i) \in [items : Seq(Instances), shutdown : BOOLEAN]
        /\ Pushed(loop_queue, i).shutdown = loop_queue.shutdown
        /\ Queued(Pushed(loop_queue, i)) = Queued(loop_queue) \cup {i}
        /\ NoRepeats(Pushed(loop_queue, i))
    BY <2>1, PushFacts
  <2>3. loop_queue' = Pushed(loop_queue, i)
    BY <1>0
  <2> QED BY <2>2, <2>3, PrimedQueues
<1>6. Queued(once_queue)' = Queued(once_queue)
  BY <1>0 DEF Queued
<1>7. OnceOut' = OnceOut /\ LoopOut' = LoopOut \cup {i}
  BY <1>0, <1>5, <1>6 DEF OnceOut, LoopOut, Held
<1>8. pending_loop_maps' = Cardinality(LoopOut') /\ pending_loop_maps' \in Nat
  <2>1. LoopOut \subseteq Instances
    BY OutTypes DEF IInv
  <2>2. Cardinality(LoopOut \cup {i}) = Cardinality(LoopOut) + 1
    BY <1>3, <2>1, CountOne, FiniteMaps
  <2> QED
    BY <1>0, <1>7, <2>2 DEF IInv, TypeOK, PendingCountsRequests
<1>9. TypeOK'
  BY <1>0, <1>1, <1>2, <1>5, <1>8 DEF IInv, TypeOK
<1>10. HoldInv'
  <2>1. \A v \in Workers : visit'[v] \subseteq visit[v]
    BY <1>2
  <2> QED BY <1>0, <1>1, <2>1 DEF IInv, HoldInv
<1>11. ExclusiveInv'
  <2>1. NoRepeats(once_queue)'
    BY <1>0 DEF IInv, ExclusiveInv, NoRepeats
  <2>2. \A v \in Workers : req[v] # i
    <3>1. Held(LoopWorkers) \subseteq LoopOut
      BY DEF LoopOut
    <3> QED BY <1>3, <3>1, WorkerKinds, DistinctMaps
            DEF Held, IInv, HoldInv, Maps
  <2> QED
    BY <1>0, <1>5, <1>6, <2>1, <2>2 DEF IInv, ExclusiveInv, MapExclusive
<1>12. PhaseInv'
  BY <1>0, <1>3, <1>4, <1>5, <1>7 DEF IInv, PhaseInv, Alone
<1>13. OrderInv'
  <2>1. \A v \in Workers \ {w} : i \notin visit[v]
    <3> SUFFICES ASSUME NEW v \in Workers \ {w}, i \in visit[v] PROVE FALSE
      OBVIOUS
    <3>1. req[v] = Home[i]
      BY DEF IInv, HoldInv
    <3> QED BY <1>3, <3>1 DEF IInv, ExclusiveInv, MapExclusive
  <2> QED
    BY <1>0, <1>1, <1>2, <1>3, <1>6, <1>7, <2>1 DEF IInv, OrderInv
<1>14. LiveInv'
  BY <1>0, <1>3, <1>7 DEF IInv, LiveInv, RequestsForLiveMaps
<1>15. CoverInv'
  <2>1. \A j : (\E v \in Workers : j \in visit[v]) =>
                    j = i \/ \E v \in Workers : j \in visit'[v]
    BY <1>2
  <2> QED BY <1>0, <1>7, <2>1 DEF IInv, CoverInv
<1>16. PendingCountsRequests' /\ OnceMapsHaveThreads'
  BY <1>0, <1>1, <1>7, <1>8
     DEF IInv, PendingCountsRequests, OnceMapsHaveThreads
<1> QED
  BY <1>9, <1>10, <1>11, <1>12, <1>13, <1>14, <1>15, <1>16 DEF IInv

\* The request of an instance goes from the hand of its worker to the queue.
LEMMA RepushKeeps ==
    ASSUME IInv, NEW w \in Workers, Repush(w) PROVE IInv'
<1> USE DEF world, counters
<1>0. /\ pc[w] = "push" /\ pc'[w] = "pop"
      /\ \A v \in Workers \ {w} : pc'[v] = pc[v] /\ req'[v] = req[v]
      /\ pc' \in [Workers -> {"none", "pop", "token", "call", "flag",
                             "push", "finish", "exited"}]
      /\ loop_queue' = Pushed(loop_queue, req[w])
      /\ req'[w] = None /\ req' \in [Workers -> Maps \cup {None}]
      /\ UNCHANGED <<world, instances, once_queue, counters, onceThreads,
                     loopEnabled, cancelationToken, visit, updated>>
  BY MoveFacts DEF Repush, IInv, TypeOK
<1>1. /\ ~Alone /\ ~cancelationToken
      /\ w \in LoopWorkers /\ w \notin OnceWorkers
      /\ req[w] \in Instances /\ req[w] # None
      /\ visit[w] = {}
  BY <1>0, WorkerKinds DEF IInv, PhaseInv, Alone, HoldInv, Busy
<1>2. /\ loop_queue' \in [items : Seq(Instances), shutdown : BOOLEAN]
      /\ loop_queue'.shutdown = loop_queue.shutdown
      /\ Queued(loop_queue)' = Queued(loop_queue) \cup {req[w]}
      /\ NoRepeats(loop_queue)'
  <2>1. /\ req[w] \notin Queued(loop_queue) /\ NoRepeats(loop_queue)
        /\ loop_queue \in [items : Seq(Instances), shutdown : BOOLEAN]
    BY DEF IInv, ExclusiveInv, TypeOK
  <2> DEFINE v == req[w]
  <2>2. /\ Pushed(loop_queue, v) \in [items : Seq(Instances), shutdown : BOOLEAN]
        /\ Pushed(loop_queue, v).shutdown = loop_queue.shutdown
        /\ Queued(Pushed(loop_queue, v)) = Queued(loop_queue) \cup {v}
        /\ NoRepeats(Pushed(loop_queue, v))
    BY <1>1, <2>1, PushFacts
  <2>3. loop_queue' = Pushed(loop_queue, v)
    BY <1>0
  <2> HIDE DEF v
  <2>4. /\ loop_queue' \in [items : Seq(Instances), shutdown : BOOLEAN]
        /\ loop_queue'.shutdown = loop_queue.shutdown
        /\ Queued(loop_queue)' = Queued(loop_queue) \cup {v}
        /\ NoRepeats(loop_queue)'
    BY <2>2, <2>3, PrimedQueues
  <2> QED BY <2>4 DEF v
<1>3. Queued(once_queue)' = Queued(once_queue)
  BY <1>0 DEF Queued
<1>4. OnceOut' = OnceOut /\ LoopOut' = LoopOut
  <2>1. Held(LoopWorkers) = Held(LoopWorkers)' \cup {req[w]}
    BY <1>0, <1>1, WorkerKinds DEF Held
  <2>2. Held(OnceWorkers)' = Held(OnceWorkers)
    BY <1>0, <1>1, WorkerKinds DEF Held
  <2> QED BY <1>2, <1>3, <2>1, <2>2 DEF OnceOut, LoopOut
<1>5. TypeOK'
  BY <1>0, <1>2 DEF IInv, TypeOK
<1>6. HoldInv'
  BY <1>0, <1>1, WorkerKinds DEF IInv, HoldInv, Busy
<1>7. ExclusiveInv'
  <2>1. NoRepeats(once_queue)'
    BY <1>0 DEF IInv, ExclusiveInv, NoRepeats
  <2>2. MapExclusive'
    BY <1>0 DEF IInv, ExclusiveInv, MapExclusive
  <2>3. None \notin Queued(once_queue)' \cup Queued(loop_queue)'
    BY <1>1, <1>2, <1>3, OutTypes, DistinctMaps DEF IInv, Maps
  <2>4. \A v \in Workers \ {w} :
            req[v] \notin Queued(once_queue)' \cup Queued(loop_queue)'
    BY <1>1, <1>2, <1>3 DEF IInv, ExclusiveInv, MapExclusive
  <2> QED BY <1>0, <1>2, <2>1, <2>2, <2>3, <2>4 DEF ExclusiveInv
<1>8. PhaseInv'
  BY <1>0, <1>1, <1>2, <1>4 DEF IInv, PhaseInv, Alone
<1>9. OrderInv'
  BY <1>0, <1>3, <1>4, WorkerKinds DEF IInv, OrderInv, Busy
<1>10. LiveInv' /\ CoverInv' /\ PendingCountsRequests' /\ OnceMapsHaveThreads'
  BY <1>0, <1>4
     DEF IInv, LiveInv, RequestsForLiveMaps, CoverInv, PendingCountsRequests,
         OnceMapsHaveThreads
<1> QED
  BY <1>5, <1>6, <1>7, <1>8, <1>9, <1>10 DEF IInv

\* A request is done with, and the last one wakes the world thread.
LEMMA FinishRequestKeeps ==
    ASSUME IInv, NEW w \in Workers, FinishRequest(w) PROVE IInv'
<1> USE DEF queues
<1>0. /\ pc[w] = "finish" /\ pc'[w] = "pop"
      /\ \A v \in Workers \ {w} : pc'[v] = pc[v] /\ req'[v] = req[v]
      /\ pc' \in [Workers -> {"none", "pop", "token", "call", "flag",
                             "push", "finish", "exited"}]
      /\ req'[w] = None /\ req' \in [Workers -> Maps \cup {None}]
      /\ UNCHANGED <<todo, i_maps, instances, expired, queues, onceThreads,
                     loopEnabled, cancelationToken, visit, updated>>
      /\ MapFinished(w)
  BY MoveFacts DEF FinishRequest, IInv, TypeOK
<1>1. /\ ~Alone /\ ~cancelationToken
      /\ req[w] # None /\ req[w] \in updated /\ visit[w] = {}
  BY <1>0 DEF IInv, PhaseInv, Alone, HoldInv, OrderInv, Busy
<1>2. /\ wpc \in InCycle /\ wpc' \in InCycle
      /\ wpc' # wpc => \/ wpc = "asleepOnces" /\ wpc' = "waitOnces"
                       \/ wpc = "asleepLoops" /\ wpc' = "waitLoops"
  BY <1>0, <1>1
     DEF IInv, TypeOK, MapFinished, Alone, InCycle, Stopping
<1>3. Queued(once_queue)' = Queued(once_queue) /\ Queued(loop_queue)' = Queued(loop_queue)
  BY <1>0 DEF Queued
<1>4. \A v \in Workers \ {w} : req[v] # req[w]
  BY <1>1 DEF IInv, ExclusiveInv, MapExclusive
<1>5. /\ w \in OnceWorkers => OnceOut' = OnceOut \ {req[w]} /\ LoopOut' = LoopOut
      /\ w \in LoopWorkers => OnceOut' = OnceOut /\ LoopOut' = LoopOut \ {req[w]}
      /\ w \in OnceWorkers => req[w] \in OnceOut
      /\ w \in LoopWorkers => req[w] \in LoopOut
  <2>1. req[w] \notin Queued(once_queue) \cup Queued(loop_queue)
    BY DEF IInv, ExclusiveInv
  <2>2. CASE w \in OnceWorkers
    <3>1. Held(LoopWorkers)' = Held(LoopWorkers)
      BY <1>0, <2>2, WorkerKinds DEF Held
    <3>2. Held(OnceWorkers)' = Held(OnceWorkers) \ {req[w]}
      BY <1>0, <1>1, <1>4, <2>2, WorkerKinds DEF Held
    <3>3. req[w] \in Held(OnceWorkers)
      BY <1>1, <2>2 DEF Held
    <3> QED BY <1>3, <2>1, <2>2, <3>1, <3>2, <3>3, WorkerKinds
            DEF OnceOut, LoopOut
  <2>3. CASE w \in LoopWorkers
    <3>1. Held(OnceWorkers)' = Held(OnceWorkers)
      BY <1>0, <2>3, WorkerKinds DEF Held
    <3>2. Held(LoopWorkers)' = Held(LoopWorkers) \ {req[w]}
      BY <1>0, <1>1, <1>4, <2>3, WorkerKinds DEF Held
    <3>3. req[w] \in Held(LoopWorkers)
      BY <1>1, <2>3 DEF Held
    <3> QED BY <1>3, <2>1, <2>3, <3>1, <3>2, <3>3, WorkerKinds
            DEF OnceOut, LoopOut
  <2> QED BY <2>2, <2>3, WorkerKinds
<1>6. /\ OnceOut' \subseteq OnceOut /\ LoopOut' \subseteq LoopOut
      /\ \A x \in OnceOut : x \in OnceOut' \/ x \in updated
      /\ \A x \in LoopOut : x \in LoopOut' \/ x \in updated
  BY <1>1, <1>5, WorkerKinds
<1>7. /\ pending_once_maps' = Cardinality(OnceOut')
      /\ pending_loop_maps' = Cardinality(LoopOut')
      /\ pending_once_maps' \in Nat /\ pending_loop_maps' \in Nat
      /\ pending_once_maps' <= pending_once_maps
  <2>0. /\ OnceOut \subseteq BaseMaps /\ LoopOut \subseteq Instances
        /\ pending_once_maps = Cardinality(OnceOut)
        /\ pending_loop_maps = Cardinality(LoopOut)
        /\ pending_once_maps \in Nat /\ pending_loop_maps \in Nat
    BY OutTypes DEF IInv, TypeOK, PendingCountsRequests
  <2>1. CASE w \in OnceWorkers
    <3>1. /\ pending_once_maps' = pending_once_maps - 1
          /\ pending_loop_maps' = pending_loop_maps
      BY <1>0, <2>1, WorkerKinds DEF MapFinished
    <3>2. /\ Cardinality(OnceOut \ {req[w]}) = Cardinality(OnceOut) - 1
          /\ Cardinality(OnceOut) # 0
      BY <1>5, <2>0, <2>1, CountOne, FiniteMaps
    <3> QED BY <1>5, <2>0, <2>1, <3>1, <3>2, WorkerKinds
  <2>2. CASE w \in LoopWorkers
    <3>1. /\ pending_loop_maps' = pending_loop_maps - 1
          /\ pending_once_maps' = pending_once_maps
      BY <1>0, <2>2, WorkerKinds DEF MapFinished
    <3>2. /\ Cardinality(LoopOut \ {req[w]}) = Cardinality(LoopOut) - 1
          /\ Cardinality(LoopOut) # 0
      BY <1>5, <2>0, <2>2, CountOne, FiniteMaps
    <3>3. OnceOut' = OnceOut /\ Cardinality(LoopOut') = Cardinality(LoopOut) - 1
      BY <1>5, <2>2, <3>2
    <3>4. Cardinality(OnceOut') = pending_once_maps
      BY <2>0, <3>3
    <3> QED BY <2>0, <3>1, <3>2, <3>3, <3>4
  <2> QED BY <2>1, <2>2, WorkerKinds
<1>8. TypeOK'
  BY <1>0, <1>2, <1>7 DEF IInv, TypeOK
<1>9. HoldInv'
  BY <1>0, <1>1, WorkerKinds DEF IInv, HoldInv, Busy
<1>10. ExclusiveInv'
  <2>1. NoRepeats(once_queue)' /\ NoRepeats(loop_queue)'
    BY <1>0 DEF IInv, ExclusiveInv, NoRepeats
  <2>2. None \notin Queued(once_queue) \cup Queued(loop_queue)
    BY OutTypes, DistinctMaps DEF IInv, Maps
  <2> QED BY <1>0, <1>3, <2>1, <2>2 DEF IInv, ExclusiveInv, MapExclusive
<1>11. PhaseInv'
  <2>1. ~Alone'
    BY <1>0, <1>1, <1>2 DEF Alone, InCycle, Stopping
  <2>2. wpc' \in {"disable", "waitLoops", "asleepLoops"} =>
            wpc \in {"disable", "waitLoops", "asleepLoops"}
    BY <1>2
  <2> QED
    BY <1>0, <1>1, <1>2, <1>6, <2>1, <2>2
       DEF IInv, PhaseInv, InCycle, Stopping
<1>12. OrderInv'
  BY <1>0, <1>3, <1>6, WorkerKinds DEF IInv, OrderInv, Busy
<1>13. LiveInv'
  BY <1>0, <1>6 DEF IInv, LiveInv, RequestsForLiveMaps
<1>14. CoverInv'
  <2>1. /\ i_maps \subseteq todo \cup OnceOut \cup updated
        /\ \A i \in instances \ expired :
            Home[i] \in updated =>
                \/ i \in updated \cup LoopOut
                \/ \E v \in Workers : i \in visit[v]
    BY <1>1, <1>2 DEF IInv, CoverInv
  <2> QED BY <1>0, <1>6, <2>1 DEF CoverInv
<1>15. PendingCountsRequests' /\ OnceMapsHaveThreads'
  BY <1>0, <1>7, WorkerKinds
     DEF IInv, TypeOK, PendingCountsRequests, OnceMapsHaveThreads
<1> QED
  BY <1>8, <1>9, <1>10, <1>11, <1>12, <1>13, <1>14, <1>15 DEF IInv
---------------------------------------------------------------------------
(* The inductive invariant                                                 *)

LEMMA StutterKeeps == ASSUME IInv, UNCHANGED vars PROVE IInv'
<1> USE DEF vars, world, workers, queues, counters
<1>1. Quiet /\ UNCHANGED <<wpc, loopEnabled, cancelationToken>>
  BY DEF Quiet
<1> QED
  BY <1>1, QuietMove DEF Alone, IInv, TypeOK, PhaseInv, InCycle, Stopping

LEMMA NextIInv == IInv /\ [Next]_vars => IInv'
<1> SUFFICES ASSUME IInv, [Next]_vars PROVE IInv'
  OBVIOUS
<1>1. ASSUME \/ \E m \in BaseMaps : CreateBaseMap(m)
             \/ \E i \in Instances : CreateInstance(i)
             \/ UnloadAll
      PROVE  IInv'
  BY <1>1, OutsideKeeps
<1>2. CASE StartUpdate
  BY <1>2, StartUpdateKeeps
<1>3. CASE WorldCycle
  BY <1>3, ScheduleBaseMapKeeps, CycleMovesKeep, WaitUpdateLoopsKeeps
     DEF WorldCycle
<1>4. CASE SpuriousWakeup
  BY <1>4, CycleMovesKeep
<1>5. CASE Deactivate
  BY <1>5, SetCancelationTokenKeeps, CancelQueuesKeeps, JoinOnceThreadsKeeps,
     JoinLoopThreadsKeeps DEF Deactivate
<1>6. ASSUME NEW w \in Workers, Worker(w) PROVE IInv'
  BY <1>6, PopRequestKeeps, PopNothingKeeps, ExitThreadKeeps, BeginUpdateKeeps,
     VisitInstanceKeeps, UnloadInstanceKeeps, EndUpdateKeeps,
     ReadLoopFlagKeeps, RepushKeeps, FinishRequestKeeps DEF Worker
<1>7. CASE UNCHANGED vars
  BY <1>7, StutterKeeps
<1> QED BY <1>1, <1>2, <1>3, <1>4, <1>5, <1>6, <1>7 DEF Next

\* The parts above are together inductive, and hold in every behaviour.
THEOREM InductiveInvariant == Spec => []IInv
  BY InitIInv, NextIInv, PTL DEF Spec
---------------------------------------------------------------------------
(* The safety properties                                                   *)

\* The variables keep to their types, and ASSERT(request) never fires.
THEOREM TypeCorrect == Spec => []TypeOK
<1>1. IInv => TypeOK
  BY DEF IInv
<1> QED BY <1>1, InductiveInvariant, PTL

\* No map is updated by two threads at once, however many workers there are.
THEOREM MapsAreExclusive == Spec => []MapExclusive
<1>1. IInv => MapExclusive
  BY DEF IInv, ExclusiveInv
<1> QED BY <1>1, InductiveInvariant, PTL

\* The two pending counters are the numbers of outstanding requests, and the
\* vector of once threads is long enough for the base maps among them.
THEOREM CountersAreExact ==
    Spec => [](PendingCountsRequests /\ OnceMapsHaveThreads)
<1>1. IInv => PendingCountsRequests /\ OnceMapsHaveThreads
  BY DEF IInv
<1> QED BY <1>1, InductiveInvariant, PTL

\* Outside of the two waits no worker is inside a map or about to be.
THEOREM WorldThreadHasMapsToItself == Spec => []WorldThreadIsAlone
<1>1. IInv => WorldThreadIsAlone
  BY DEF IInv, PhaseInv, WorldThreadIsAlone, Alone
<1> QED BY <1>1, InductiveInvariant, PTL

\* No request refers to a map that has been deleted.
THEOREM RequestsReferToLiveMaps == Spec => []RequestsForLiveMaps
<1>1. IInv => RequestsForLiveMaps
  BY DEF IInv, LiveInv
<1> QED BY <1>1, InductiveInvariant, PTL

LEMMA DelayedCovers == IInv => CycleUpdatesEveryMap
<1> SUFFICES ASSUME IInv, wpc = "delayed"
             PROVE  i_maps \cup (instances \ expired) \subseteq updated
  BY DEF CycleUpdatesEveryMap
<1>1. ~cancelationToken /\ todo = {} /\ OnceOut = {} /\ LoopOut = {}
  BY DEF IInv, PhaseInv, Alone, Stopping
<1>2. \A w \in Workers : visit[w] = {}
  BY DEF IInv, PhaseInv, Alone, HoldInv
<1>3. i_maps \subseteq updated
  BY <1>1 DEF IInv, CoverInv
<1>4. \A i \in instances \ expired : Home[i] \in updated
  BY <1>3 DEF IInv, LiveInv
<1>5. \A i \in instances \ expired : i \in updated
  BY <1>1, <1>2, <1>4 DEF IInv, CoverInv
<1> QED BY <1>3, <1>5

\* A cycle that reaches the delayed updates has updated every map.
THEOREM CycleIsComplete == Spec => []CycleUpdatesEveryMap
  BY DelayedCovers, InductiveInvariant, PTL

\* A base map is updated once in a cycle.
THEOREM BaseMapsOnce == Spec => BaseMapsUpdatedOnce
<1>1. ASSUME IInv, NEW w \in Workers, BeginUpdate(w), req[w] \in BaseMaps
      PROVE  req[w] \notin updated
  <2>1. pc[w] = "token" /\ w \in OnceWorkers
    BY <1>1, WorkerKinds, DistinctMaps
       DEF BeginUpdate, WorkerMoves, IInv, HoldInv, Maps
  <2> QED BY <1>1, <2>1 DEF IInv, OrderInv
<1>2. IInv /\ [Next]_vars =>
        [\A w \in Workers :
            BeginUpdate(w) /\ req[w] \in BaseMaps => req[w] \notin updated]_vars
  BY <1>1
<1> QED BY <1>2, InductiveInvariant, PTL DEF Spec, BaseMapsUpdatedOnce

\* A worker with instances ahead is updating a MapInstanced in a cycle.
LEMMA VisitorIsPending ==
    ASSUME IInv, NEW w \in Workers, NEW i \in visit[w]
    PROVE  OnceOut # {} /\ ~Alone
<1>1. /\ pc[w] = "call" /\ req[w] = Home[i] /\ i \in Instances
      /\ ~Alone
  BY DEF IInv, HoldInv, TypeOK, PhaseInv
<1>2. Home[i] \in BaseMaps /\ req[w] # None
  BY <1>1, HomeIsInstanced, DistinctMaps DEF BaseMaps, Maps
<1>3. w \in OnceWorkers
  BY <1>1, <1>2, WorkerKinds, DistinctMaps DEF IInv, HoldInv
<1> QED BY <1>1, <1>2, <1>3 DEF OnceOut, Held

\* When the loop is off, the loop requests only become fewer.
THEOREM LoopsOnlyRunOut == Spec => LoopsRunOut
<1> DEFINE Off == wpc \in {"disable", "waitLoops", "asleepLoops"}
           Fewer == pending_loop_maps' <= pending_loop_maps
<1>1. ASSUME IInv, Next, Off PROVE Fewer
  <2>0. pending_loop_maps \in Nat /\ OnceOut = {}
    BY <1>1 DEF IInv, TypeOK, PhaseInv
  <2>1. ASSUME NEW w \in Workers, NEW i \in Instances,
               VisitInstance(w, i) \/ UnloadInstance(w, i)
        PROVE  FALSE
    BY <1>1, <2>0, <2>1, VisitorIsPending DEF VisitInstance, UnloadInstance
  <2>2. ASSUME NEW w \in Workers, ExitThread(w) \/ FinishRequest(w) PROVE Fewer
    BY <2>0, <2>2 DEF ExitThread, FinishRequest, MapFinished, counters
  <2>3. ASSUME NEW w \in Workers,
               \/ PopRequest(w) \/ PopNothing(w) \/ BeginUpdate(w)
               \/ EndUpdate(w) \/ ReadLoopFlag(w) \/ Repush(w)
        PROVE  Fewer
    BY <2>0, <2>3
       DEF PopRequest, PopNothing, BeginUpdate, EndUpdate, ReadLoopFlag,
           Repush, counters
  <2>4. ASSUME WorldCycle PROVE Fewer
    BY <2>0, <2>4
       DEF WorldCycle, ScheduleBaseMap, ScheduleOnce, EnableUpdateLoop,
           WaitUpdateOnces, DisableUpdateLoop, WaitUpdateLoops,
           DelayedUpdates, WorldMoves, counters
  <2>5. ASSUME Deactivate \/ SpuriousWakeup PROVE Fewer
    BY <2>0, <2>5
       DEF Deactivate, SetCancelationToken, CancelLoopQueue, CancelOnceQueue,
           JoinOnceThreads, JoinLoopThreads, SpuriousWakeup, WorldMoves,
           counters
  <2>6. ASSUME \/ \E m \in BaseMaps : CreateBaseMap(m)
               \/ \E i \in Instances : CreateInstance(i)
               \/ StartUpdate \/ UnloadAll
        PROVE  Fewer
    BY <2>0, <2>6
       DEF CreateBaseMap, CreateInstance, StartUpdate, UnloadAll, counters
  <2> QED
    BY <1>1, <2>1, <2>2, <2>3, <2>4, <2>5, <2>6 DEF Next, Worker
<1>2. IInv /\ [Next]_vars => [Off => Fewer]_vars
  BY <1>1
<1> QED BY <1>2, InductiveInvariant, PTL DEF Spec, LoopsRunOut
---------------------------------------------------------------------------
(* The safety half of the refinement                                       *)

Phase  == IF wpc \in InCycle /\ ~cancelationToken THEN "update"
          ELSE IF wpc \in {"idle", "delayed"} THEN wpc ELSE "stopped"
Live   == i_maps \cup instances
Active == {req[w] : w \in Updating}

\* An instance to unload is not updated in the cycle.
NeverBoth == updated \cap expired = {}

LEMMA NextNeverBoth == IInv /\ NeverBoth /\ [Next]_vars => NeverBoth'
<1> SUFFICES ASSUME IInv, NeverBoth, [Next]_vars PROVE NeverBoth'
  OBVIOUS
<1> USE DEF NeverBoth
<1>1. CASE StartUpdate
  BY <1>1 DEF StartUpdate
<1>2. ASSUME NEW w \in Workers, BeginUpdate(w) PROVE NeverBoth'
  <2>1. /\ pc[w] = "token" /\ ~cancelationToken
        /\ updated' = updated \cup {req[w]} /\ expired' = expired
    BY <1>2 DEF BeginUpdate, WorkerMoves, world
  <2>2. req[w] # None
    BY <2>1 DEF IInv, HoldInv, Busy
  <2>3. CASE w \in LoopWorkers
    BY <2>1, <2>2, <2>3 DEF IInv, OrderInv, LoopOut, Held
  <2>4. CASE w \in OnceWorkers
    BY <2>1, <2>2, <2>4, DistinctMaps DEF IInv, HoldInv, TypeOK
  <2> QED BY <2>3, <2>4, WorkerKinds
<1>3. ASSUME NEW w \in Workers, NEW i \in Instances,
             VisitInstance(w, i) \/ UnloadInstance(w, i)
      PROVE  NeverBoth'
  BY <1>3 DEF VisitInstance, UnloadInstance, world
<1>4. ASSUME NEW w \in Workers,
             \/ PopRequest(w) \/ PopNothing(w) \/ ExitThread(w)
             \/ EndUpdate(w) \/ ReadLoopFlag(w) \/ Repush(w)
             \/ FinishRequest(w)
      PROVE  NeverBoth'
  BY <1>4 DEF PopRequest, PopNothing, ExitThread, EndUpdate, ReadLoopFlag,
              Repush, FinishRequest, world
<1>5. ASSUME WorldCycle PROVE NeverBoth'
  BY <1>5 DEF WorldCycle, ScheduleBaseMap, EnableUpdateLoop, WaitUpdateOnces,
              DisableUpdateLoop, WaitUpdateLoops, DelayedUpdates, WorldMoves,
              workers
<1>6. ASSUME Deactivate \/ SpuriousWakeup PROVE NeverBoth'
  BY <1>6 DEF Deactivate, SetCancelationToken, CancelLoopQueue,
              CancelOnceQueue, JoinOnceThreads, JoinLoopThreads,
              SpuriousWakeup, WorldMoves, workers
<1>7. ASSUME \/ \E m \in BaseMaps : CreateBaseMap(m)
             \/ \E i \in Instances : CreateInstance(i)
             \/ UnloadAll \/ UNCHANGED vars
      PROVE  NeverBoth'
  BY <1>7 DEF CreateBaseMap, CreateInstance, UnloadAll, vars, world, workers
<1> QED
  BY <1>1, <1>2, <1>3, <1>4, <1>5, <1>6, <1>7 DEF Next, Worker

\* A step that leaves what the barrier speaks of stutters there.
Still == UNCHANGED <<Phase, Live, expired, Active, updated>>

LEMMA ActiveStays ==
    ASSUME TypeOK, NEW w \in Workers, NEW from, NEW to, WorkerMoves(w, from, to),
           from # "call", to # "call",
           \A v \in Workers \ {w} : req'[v] = req[v],
           to \in {"pop", "token", "flag", "push", "finish", "exited"}
    PROVE  Active' = Active
<1>1. /\ pc[w] = from /\ pc'[w] = to
      /\ \A v \in Workers \ {w} : pc'[v] = pc[v]
  BY MoveFacts
<1> QED BY <1>1 DEF Active, Updating

LEMMA WorldStepRefines ==
    ASSUME IInv, WorldCycle \/ Deactivate \/ SpuriousWakeup
    PROVE  Still \/ Barrier!FinishUpdates \/ Barrier!FinishCycle
<1> USE DEF Still, Phase, Live, Active, Updating
<1>0. /\ wpc = "delayed" => ~cancelationToken
      /\ wpc \in Stopping \ {"deactivate"} => cancelationToken
  BY DEF IInv, PhaseInv, Stopping
<1>1. ASSUME NEW m \in BaseMaps, ScheduleBaseMap(m) PROVE Still
  <2> DEFINE size == IF pending_once_maps + 1 > onceThreads
                     THEN pending_once_maps + 1 ELSE onceThreads
  <2>0. /\ UNCHANGED <<wpc, i_maps, instances, expired, cancelationToken,
                       req, updated>>
        /\ pc' = [w \in Workers |-> IF w \in (onceThreads + 1) .. size
                                    THEN "pop" ELSE pc[w]]
    BY <1>1
       DEF ScheduleBaseMap, ScheduleOnce, SpawnMissingOnceUpdateThreads
  <2>a. onceThreads \in Nat /\ size \in Nat
    BY WorkerKinds DEF IInv, TypeOK
  <2> HIDE DEF size
  <2>1. \A w \in Workers : pc'[w] = IF w \in (onceThreads + 1) .. size
                                    THEN "pop" ELSE pc[w]
    BY <2>0
  <2>2. \A w \in Workers : pc'[w] = "call" <=> pc[w] = "call"
    <3> SUFFICES ASSUME NEW w \in Workers, pc'[w] # pc[w]
                 PROVE  pc'[w] = "pop" /\ pc[w] = "none"
      OBVIOUS
    <3>1. pc'[w] = "pop" /\ w \in Int /\ w > onceThreads
      BY <2>1, <2>a
    <3>2. w \in OnceWorkers
      BY <3>1, Activated DEF Workers
    <3> QED BY <3>1, <3>2 DEF IInv, HoldInv
  <2> QED BY <2>0, <2>2
<1>2. CASE EnableUpdateLoop \/ WaitUpdateOnces \/ DisableUpdateLoop
            \/ SpuriousWakeup
  BY <1>0, <1>2
     DEF EnableUpdateLoop, WaitUpdateOnces, DisableUpdateLoop, SpuriousWakeup,
         WorldMoves, workers, InCycle
<1>3. CASE WaitUpdateLoops
  <2>1. CASE cancelationToken \/ wpc' = "asleepLoops"
    BY <1>0, <1>3, <2>1 DEF WaitUpdateLoops, WorldMoves, workers, InCycle
  <2>2. CASE ~cancelationToken /\ wpc' # "asleepLoops"
    <3>1. /\ wpc = "waitLoops" /\ wpc' = "delayed" /\ pending_loop_maps = 0
          /\ UNCHANGED <<todo, i_maps, instances, expired, counters,
                         onceThreads, workers, queues, loopEnabled,
                         cancelationToken>>
      BY <1>3, <2>2 DEF WaitUpdateLoops, WorldMoves
    <3>2. OnceOut = {} /\ LoopOut = {}
      BY <3>1, ZeroMeansNone DEF IInv, PhaseInv
    <3>3. \A w \in Workers : pc[w] \in {"none", "pop", "exited"}
      BY <2>2, <3>2, NoneBusy, WorkerKinds
    <3>4. Active = {} /\ Active' = Active
      BY <3>1, <3>3 DEF workers
    <3>5. Live \ expired \subseteq updated
      <4>1. IInv'
        BY <1>3, WaitUpdateLoopsKeeps
      <4>2. CycleUpdatesEveryMap'
        BY <4>1, DelayedCovers, PTL
      <4> QED BY <3>1, <4>2 DEF CycleUpdatesEveryMap, workers
    <3> QED
      BY <2>2, <3>1, <3>4, <3>5
         DEF Barrier!FinishUpdates, InCycle, workers
  <2> QED BY <2>1, <2>2
<1>4. CASE DelayedUpdates
  BY <1>0, <1>4
     DEF DelayedUpdates, WorldMoves, workers, InCycle, Barrier!FinishCycle
<1>5. CASE SetCancelationToken \/ CancelLoopQueue \/ CancelOnceQueue
            \/ JoinLoopThreads
  BY <1>0, <1>5
     DEF SetCancelationToken, CancelLoopQueue, CancelOnceQueue,
         JoinLoopThreads, WorldMoves, workers, InCycle, Stopping
<1>6. CASE JoinOnceThreads
  <2>1. /\ wpc = "joinOnces" /\ wpc' = "joinLoops"
        /\ UNCHANGED <<i_maps, instances, expired, cancelationToken, req,
                       updated>>
        /\ \A w \in Workers :
            pc'[w] = IF w \in LoopWorkers THEN pc[w] ELSE "none"
    BY <1>6 DEF JoinOnceThreads
  <2>2. \A w \in Workers : pc[w] # "call"
    BY <2>1 DEF IInv, PhaseInv, Alone, Stopping
  <2> QED BY <2>1, <2>2 DEF InCycle
<1> QED
  BY <1>1, <1>2, <1>3, <1>4, <1>5, <1>6 DEF WorldCycle, Deactivate

LEMMA WorkerStepRefines ==
    ASSUME IInv, NeverBoth, NEW w \in Workers, Worker(w)
    PROVE  Still \/ Barrier!Next
<1> USE DEF Still, Live
<1>1. ASSUME \/ PopRequest(w) \/ PopNothing(w) \/ ExitThread(w)
             \/ ReadLoopFlag(w) \/ Repush(w) \/ FinishRequest(w)
      PROVE  Still
  <2>1. /\ UNCHANGED <<i_maps, instances, expired, cancelationToken, updated>>
        /\ \A v \in Workers \ {w} : req'[v] = req[v]
        /\ \E from, to \in {"pop", "token", "flag", "push", "finish", "exited"} :
            WorkerMoves(w, from, to)
    BY <1>1 DEF PopRequest, PopNothing, ExitThread, ReadLoopFlag, Repush,
                FinishRequest, world, IInv, TypeOK
  <2>2. Active' = Active
    BY <2>1, ActiveStays DEF IInv
  <2>3. Phase' = Phase
    BY <1>1, <2>1
       DEF PopRequest, PopNothing, ExitThread, ReadLoopFlag, Repush,
           FinishRequest, MapFinished, world, Phase, InCycle
  <2> QED BY <2>1, <2>2, <2>3
<1>2. ASSUME BeginUpdate(w) PROVE \E m \in Maps : Barrier!Begin(m)
  <2>1. /\ ~cancelationToken /\ pc[w] = "token" /\ pc'[w] = "call"
        /\ \A v \in Workers \ {w} : pc'[v] = pc[v]
        /\ updated' = updated \cup {req[w]}
        /\ UNCHANGED <<wpc, i_maps, instances, expired, cancelationToken, req>>
    BY <1>2, MoveFacts DEF BeginUpdate, WorkerMoves, world, IInv
  <2>2. wpc \in InCycle
    BY <2>1 DEF IInv, TypeOK, PhaseInv, Alone
  <2>3. Active' = Active \cup {req[w]}
    BY <2>1 DEF Active, Updating
  <2>4. req[w] # None /\ req[w] \in Maps
    BY <2>1 DEF IInv, HoldInv, TypeOK, Busy
  <2>5. req[w] \notin Active
    BY <2>1, <2>4 DEF IInv, ExclusiveInv, MapExclusive, Active, Updating
  <2>6. \/ w \in LoopWorkers /\ req[w] \in LoopOut
        \/ w \in OnceWorkers /\ req[w] \in OnceOut
    BY <2>4, WorkerKinds DEF OnceOut, LoopOut, Held
  <2>7. req[w] \in Live /\ req[w] \notin expired
    <3>1. OnceOut \cap expired = {}
      BY OutTypes, DistinctMaps DEF IInv, TypeOK
    <3> QED
      BY <2>6, <3>1 DEF IInv, LiveInv, RequestsForLiveMaps, OrderInv
  <2>8. req[w] \in BaseMaps => req[w] \notin updated
    BY <2>1, <2>4, <2>6, OutTypes, DistinctMaps DEF IInv, OrderInv
  <2>9. PICK m \in Maps : m = req[w]
    BY <2>4
  <2>10. Barrier!Begin(m)
    BY <2>1, <2>2, <2>3, <2>5, <2>7, <2>8, <2>9
       DEF Barrier!Begin, Phase, Active
  <2> QED BY <2>10
<1>3. ASSUME EndUpdate(w) PROVE \E m \in Maps : Barrier!End(m)
  <2>1. /\ pc[w] = "call" /\ pc'[w] # "call"
        /\ \A v \in Workers \ {w} : pc'[v] = pc[v]
        /\ UNCHANGED <<wpc, i_maps, instances, expired, cancelationToken, req,
                       updated>>
    BY <1>3, MoveFacts DEF EndUpdate, WorkerMoves, world, IInv
  <2>2. ~Alone
    BY <2>1 DEF IInv, PhaseInv
  <2>3. req[w] # None /\ req[w] \in Maps
    BY <2>1, <2>2 DEF Alone, IInv, HoldInv, TypeOK, Busy
  <2>4. req[w] \in Active /\ Active' = Active \ {req[w]}
    BY <2>1, <2>3 DEF IInv, ExclusiveInv, MapExclusive, Active, Updating
  <2>5. PICK m \in Maps : m = req[w]
    BY <2>3
  <2>6. Barrier!End(m)
    BY <2>1, <2>4, <2>5 DEF Barrier!End, Phase, Active
  <2> QED BY <2>6
<1>4. ASSUME NEW i \in Instances, VisitInstance(w, i) PROVE Still
  <2>1. /\ UNCHANGED <<wpc, i_maps, instances, expired, cancelationToken, req,
                       updated>>
        /\ pc' = [v \in Workers |->
                    IF v \in (onceThreads + 1) ..
                             (IF pending_once_maps > onceThreads
                              THEN pending_once_maps ELSE onceThreads)
                    THEN "pop" ELSE pc[v]]
    BY <1>4 DEF VisitInstance, ScheduleLoop, SpawnMissingOnceUpdateThreads,
                world
  <2>2. /\ onceThreads \in Nat /\ pending_once_maps \in Nat
        /\ pending_once_maps <= onceThreads
    BY WorkerKinds DEF IInv, TypeOK, OnceMapsHaveThreads
  <2>3. (onceThreads + 1) .. (IF pending_once_maps > onceThreads
                              THEN pending_once_maps ELSE onceThreads) = {}
    BY <2>2
  <2>4. \A v \in Workers : pc'[v] = pc[v]
    BY <2>1, <2>3
  <2> QED BY <2>1, <2>4 DEF Active, Updating, Phase
<1>5. ASSUME NEW i \in Instances, UnloadInstance(w, i)
      PROVE  Still \/ Barrier!Unload(i)
  <2>1. /\ pc[w] = "call" /\ i \in visit[w] /\ i \in expired
        /\ instances' \in {instances, instances \ {i}}
        /\ UNCHANGED <<wpc, i_maps, expired, cancelationToken, pc, req, updated>>
    BY <1>5 DEF UnloadInstance, world
  <2>2. /\ i \in instances /\ wpc \in InCycle /\ ~cancelationToken
        /\ i \notin i_maps
    BY <2>1, DistinctMaps
       DEF IInv, HoldInv, TypeOK, PhaseInv, Alone
  <2>3. i \notin updated
    BY <2>1 DEF NeverBoth
  <2>4. Live' = Live \/ Live' = Live \ {i}
    BY <2>1, <2>2
  <2> QED
    BY <2>1, <2>2, <2>3, <2>4 DEF Barrier!Unload, Active, Updating, Phase
<1>6. BeginUpdate(w) \/ EndUpdate(w) => Barrier!Next
  BY <1>2, <1>3 DEF Barrier!Next, Maps
<1>7. ASSUME NEW i \in Instances, VisitInstance(w, i) \/ UnloadInstance(w, i)
      PROVE  Still \/ Barrier!Next
  BY <1>4, <1>5, <1>7 DEF Barrier!Next
<1> HIDE DEF Still
<1> QED
  BY <1>1, <1>6, <1>7 DEF Worker

LEMMA StepRefines ==
    IInv /\ NeverBoth /\ [Next]_vars => [Barrier!Next]_(Barrier!vars)
<1> SUFFICES ASSUME IInv, NeverBoth, [Next]_vars
             PROVE  Still \/ Barrier!Next
  BY DEF Still, Phase, Live, Active, Barrier!vars
<1> USE DEF Phase, Live, Active, Updating, Barrier!Next
<1>1. ASSUME NEW m \in BaseMaps, CreateBaseMap(m) PROVE Barrier!Create(m)
  BY <1>1, DistinctMaps
     DEF CreateBaseMap, Barrier!Create, InCycle, workers, IInv, TypeOK
<1>2. ASSUME NEW i \in Instances, CreateInstance(i) PROVE Barrier!Create(i)
  BY <1>2, DistinctMaps
     DEF CreateInstance, Barrier!Create, InCycle, workers, world, IInv, TypeOK
<1>3. CASE StartUpdate
  <2>1. ~cancelationToken
    BY <1>3 DEF StartUpdate, IInv, PhaseInv, Stopping
  <2> QED
    BY <1>3, <2>1 DEF StartUpdate, Barrier!Start, InCycle, IInv, TypeOK
<1>4. CASE UnloadAll
  BY <1>4 DEF UnloadAll, Barrier!UnloadAll, InCycle, workers
<1>5. CASE UNCHANGED vars
  BY <1>5 DEF vars, world, workers, Still
<1> QED
  BY <1>1, <1>2, <1>3, <1>4, <1>5, WorldStepRefines, WorkerStepRefines
     DEF Next, Maps

\* Every step of the threads is a step of the barrier of MapCycle, or none:
\* the safety half of ImplementsBarrier.
THEOREM UpdaterRefinesMapCycle ==
    Spec => Barrier!Init /\ [][Barrier!Next]_(Barrier!vars)
<1>1. Init => Barrier!Init /\ NeverBoth
  BY DEF Init, Barrier!Init, NeverBoth, InCycle, Updating
<1> QED
  BY <1>1, InductiveInvariant, NextNeverBoth, StepRefines, PTL DEF Spec
=============================================================================
