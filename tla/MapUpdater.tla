---------------------------- MODULE MapUpdater ----------------------------
(***************************************************************************)
(* The threads that update the maps of the world, and the world thread     *)
(* that drives them: Maps/MapUpdater.cpp, MapManager::Update,              *)
(* MapInstanced::Update and MapManager::UnloadAll.                         *)
(*                                                                         *)
(* A cycle of the world thread schedules one request for every base map.   *)
(* A continent is updated once; the update of a MapInstanced destroys or   *)
(* schedules each of its instances; the request of an instance goes round  *)
(* the loop queue, updating the instance again and again, until the world  *)
(* thread, having seen every base map finished, turns the loop off and     *)
(* waits for the last instance.  Only then may the delayed updates touch   *)
(* the maps, on the world thread and without any lock.                     *)
(*                                                                         *)
(* The two ProducerConsumerQueues are used through QueueOps, one critical  *)
(* section a step: module ProducerConsumerQueue shows that their blocking  *)
(* pop behaves as one.  _lock is held to the end of schedule_update and of *)
(* the two MapFinished functions, which are one step each.                 *)
(***************************************************************************)
EXTENDS QueueOps, FiniteSets, Integers

CONSTANTS
    Continents,     \* the base maps that are not instanceable
    Instanced,      \* the base maps that are MapInstanced
    Instances,      \* the dungeon, battleground and arena maps
    Home,           \* the MapInstanced of each instance
    LoopWorkers,    \* the threads of _loop_maps_workerThreads
    None            \* a null request

BaseMaps == Continents \cup Instanced
Maps     == BaseMaps \cup Instances

\* The threads spawnMissingOnceUpdateThreads may create: the vector never
\* needs more than one for each base map.
OnceWorkers == 1 .. Cardinality(BaseMaps)
Workers     == LoopWorkers \cup OnceWorkers

ASSUME FiniteMaps ==
    /\ IsFiniteSet(BaseMaps)
    /\ IsFiniteSet(Instances)
ASSUME DistinctMaps ==
    /\ BaseMaps \cap Instances = {}
    /\ Continents \cap Instanced = {}
    /\ None \notin Maps
ASSUME HomeIsInstanced == Home \in [Instances -> Instanced]
\* MapManager::Initialize activates the updater when num_threads > 0.
ASSUME Activated == LoopWorkers # {} /\ LoopWorkers \cap Int = {}

VARIABLES
    wpc,                \* where the world thread is
    todo,               \* the base maps MapManager::Update has yet to schedule
    i_maps,             \* the base maps that exist
    instances,          \* the instances that exist (m_InstancedMaps of their Home)
    expired,            \* the instances CanUnload answers true for in this cycle
    loop_queue,
    once_queue,
    pending_loop_maps,
    pending_once_maps,
    onceThreads,        \* the size of _once_maps_workerThreads
    loopEnabled,        \* _enable_updates_loop
    cancelationToken,
    pc,                 \* where each worker thread is
    req,                \* its `request`, named by the map it is for
    visit,              \* inside MapInstanced::Update: the instances still ahead
    updated             \* history: the maps whose update began in this cycle

world    == <<wpc, todo, i_maps, expired>>
queues   == <<loop_queue, once_queue>>
counters == <<pending_loop_maps, pending_once_maps>>
workers  == <<pc, req, visit, updated>>
vars     == <<world, instances, queues, counters, onceThreads, loopEnabled,
              cancelationToken, workers>>

Init ==
    /\ wpc = "idle"
    /\ todo = {}
    /\ i_maps = {}
    /\ instances = {}
    /\ expired = {}
    /\ loop_queue = NewQueue
    /\ once_queue = NewQueue
    /\ pending_loop_maps = 0
    /\ pending_once_maps = 0
    /\ onceThreads = 0
    /\ loopEnabled = FALSE
    /\ cancelationToken = FALSE
    /\ pc = [w \in Workers |-> IF w \in LoopWorkers THEN "pop" ELSE "none"]
    /\ req = [w \in Workers |-> None]
    /\ visit = [w \in Workers |-> {}]
    /\ updated = {}

---------------------------------------------------------------------------
(* schedule_update                                                         *)

\* spawnMissingOnceUpdateThreads: the vector grows to the pending count.
SpawnMissingOnceUpdateThreads(pending) ==
    LET size == IF pending > onceThreads THEN pending ELSE onceThreads IN
    /\ onceThreads' = size
    /\ pc' = [w \in Workers |->
                IF w \in (onceThreads + 1) .. size THEN "pop" ELSE pc[w]]

\* The request of an instance.
ScheduleLoop(i) ==
    /\ pending_loop_maps' = pending_loop_maps + 1
    /\ loop_queue' = Pushed(loop_queue, i)
    /\ SpawnMissingOnceUpdateThreads(pending_once_maps)
    /\ UNCHANGED <<once_queue, pending_once_maps>>

\* The request of a base map.
ScheduleOnce(m) ==
    /\ pending_once_maps' = pending_once_maps + 1
    /\ once_queue' = Pushed(once_queue, m)
    /\ SpawnMissingOnceUpdateThreads(pending_once_maps + 1)
    /\ UNCHANGED <<loop_queue, pending_loop_maps>>

---------------------------------------------------------------------------
(* The world thread                                                        *)

\* Between two cycles: a player, a transport or a spawn needs a base map.
\* Map threads call it too, for path finding and zone lookups; that is outside
\* this model: the world thread iterates i_maps without the lock meanwhile, and
\* what an unordered_map that grows does to the iteration is undefined.
CreateBaseMap(m) ==
    /\ wpc = "idle"
    /\ m \in BaseMaps \ i_maps
    /\ i_maps' = i_maps \cup {m}
    /\ UNCHANGED <<wpc, todo, instances, expired, queues, counters,
                   onceThreads, loopEnabled, cancelationToken, workers>>

\* CreateInstance and CreateBattleground, for a player who enters.
CreateInstance(i) ==
    /\ wpc = "idle"
    /\ i \in Instances \ instances
    /\ Home[i] \in i_maps
    /\ instances' = instances \cup {i}
    /\ UNCHANGED <<world, queues, counters, onceThreads, loopEnabled,
                   cancelationToken, workers>>

\* MapManager::Update, once i_timer has passed.  Which instances have run out
\* their unload timer is fixed by what happened before the cycle.
StartUpdate ==
    /\ wpc = "idle"
    /\ wpc' = "schedule"
    /\ todo' = i_maps
    /\ expired' \in SUBSET instances
    /\ updated' = {}
    /\ UNCHANGED <<i_maps, instances, queues, counters, onceThreads,
                   loopEnabled, cancelationToken, pc, req, visit>>

ScheduleBaseMap(m) ==
    /\ wpc = "schedule"
    /\ m \in todo
    /\ todo' = todo \ {m}
    /\ ScheduleOnce(m)
    /\ UNCHANGED <<wpc, i_maps, instances, expired, loopEnabled,
                   cancelationToken, req, visit, updated>>

WorldMoves(from, to) ==
    /\ wpc = from
    /\ wpc' = to
    /\ UNCHANGED <<todo, i_maps, instances, expired, counters, onceThreads,
                   workers>>

EnableUpdateLoop ==
    /\ todo = {}
    /\ WorldMoves("schedule", "waitOnces")
    /\ loopEnabled' = TRUE
    /\ UNCHANGED <<queues, cancelationToken>>

\* Mutant: the first look at the counter is the only one.
WaitUpdateOncesOnce ==
    /\ WorldMoves("waitOnces", "disable")
    /\ UNCHANGED <<queues, loopEnabled, cancelationToken>>

\* One look at the counter under _lock: the thread sleeps or goes on, to
\* enableUpdateLoop(false) or, inside deactivate, to waitUpdateLoops.
WaitUpdateOnces ==
    /\ \/ pending_once_maps > 0 /\ WorldMoves("waitOnces", "asleepOnces")
       \/ pending_once_maps = 0 /\ ~cancelationToken
            /\ WorldMoves("waitOnces", "disable")
       \/ pending_once_maps = 0 /\ cancelationToken
            /\ WorldMoves("waitOnces", "waitLoops")
    /\ UNCHANGED <<queues, loopEnabled, cancelationToken>>

\* Mutant: the loop is left on.
DisableUpdateLoopForgotten ==
    /\ WorldMoves("disable", "waitLoops")
    /\ UNCHANGED <<queues, loopEnabled, cancelationToken>>

DisableUpdateLoop ==
    /\ WorldMoves("disable", "waitLoops")
    /\ loopEnabled' = FALSE
    /\ UNCHANGED <<queues, cancelationToken>>

\* Mutant: the wait ends as soon as the queue is empty.
WaitUpdateLoopsForQueue ==
    /\ loop_queue.items = <<>>
    /\ ~cancelationToken
    /\ WorldMoves("waitLoops", "delayed")
    /\ UNCHANGED <<queues, loopEnabled, cancelationToken>>

WaitUpdateLoops ==
    /\ \/ pending_loop_maps > 0 /\ WorldMoves("waitLoops", "asleepLoops")
       \/ pending_loop_maps = 0 /\ ~cancelationToken
            /\ WorldMoves("waitLoops", "delayed")
       \/ pending_loop_maps = 0 /\ cancelationToken
            /\ WorldMoves("waitLoops", "joinOnces")
    /\ UNCHANGED <<queues, loopEnabled, cancelationToken>>

SpuriousWakeup ==
    /\ \/ WorldMoves("asleepOnces", "waitOnces")
       \/ WorldMoves("asleepLoops", "waitLoops")
    /\ UNCHANGED <<queues, loopEnabled, cancelationToken>>

\* Every Map::DelayedUpdate, one after the other, then the timer restarts.
DelayedUpdates ==
    /\ WorldMoves("delayed", "idle")
    /\ UNCHANGED <<queues, loopEnabled, cancelationToken>>

\* MapManager::UnloadAll deletes every map, then calls deactivate.
UnloadAll ==
    /\ wpc = "idle"
    /\ wpc' = "deactivate"
    /\ i_maps' = {}
    /\ instances' = {}
    /\ UNCHANGED <<todo, expired, queues, counters, onceThreads, loopEnabled,
                   cancelationToken, workers>>

SetCancelationToken ==
    /\ WorldMoves("deactivate", "cancelLoop")
    /\ cancelationToken' = TRUE
    /\ UNCHANGED <<queues, loopEnabled>>

CancelLoopQueue ==
    /\ WorldMoves("cancelLoop", "cancelOnce")
    /\ loop_queue' = Cancelled(loop_queue)
    /\ UNCHANGED <<once_queue, loopEnabled, cancelationToken>>

\* Mutant: only the loop queue is cancelled.
CancelOnceQueueForgotten ==
    /\ WorldMoves("cancelOnce", "waitOnces")
    /\ UNCHANGED <<queues, loopEnabled, cancelationToken>>

CancelOnceQueue ==
    /\ WorldMoves("cancelOnce", "waitOnces")
    /\ once_queue' = Cancelled(once_queue)
    /\ UNCHANGED <<loop_queue, loopEnabled, cancelationToken>>

\* The joins of the once threads, and the clear of their vector.
JoinOnceThreads ==
    /\ wpc = "joinOnces"
    /\ \A w \in 1 .. onceThreads : pc[w] = "exited"
    /\ wpc' = "joinLoops"
    /\ onceThreads' = 0
    /\ pc' = [w \in Workers |-> IF w \in LoopWorkers THEN pc[w] ELSE "none"]
    /\ UNCHANGED <<todo, i_maps, instances, expired, queues, counters,
                   loopEnabled, cancelationToken, req, visit, updated>>

JoinLoopThreads ==
    /\ \A w \in LoopWorkers : pc[w] = "exited"
    /\ WorldMoves("joinLoops", "stopped")
    /\ UNCHANGED <<queues, loopEnabled, cancelationToken>>

---------------------------------------------------------------------------
(* The worker threads                                                      *)

WorkerMoves(w, from, to) ==
    /\ pc[w] = from
    /\ pc' = [pc EXCEPT ![w] = to]

\* WaitAndPop on the queue of the worker returns a request.
PopRequest(w) ==
    /\ WorkerMoves(w, "pop", "token")
    /\ \/ /\ w \in LoopWorkers
          /\ Poppable(loop_queue)
          /\ loop_queue' = Popped(loop_queue)
          /\ req' = [req EXCEPT ![w] = Head(loop_queue.items)]
          /\ UNCHANGED once_queue
       \/ /\ w \in OnceWorkers
          /\ Poppable(once_queue)
          /\ once_queue' = Popped(once_queue)
          /\ req' = [req EXCEPT ![w] = Head(once_queue.items)]
          /\ UNCHANGED loop_queue
    /\ UNCHANGED <<world, instances, counters, onceThreads, loopEnabled,
                   cancelationToken, visit, updated>>

\* WaitAndPop returns because of the shutdown, and leaves the nullptr.
PopNothing(w) ==
    /\ WorkerMoves(w, "pop", "token")
    /\ \/ w \in LoopWorkers /\ loop_queue.shutdown
       \/ w \in OnceWorkers /\ once_queue.shutdown
    /\ UNCHANGED <<world, instances, queues, counters, onceThreads,
                   loopEnabled, cancelationToken, req, visit, updated>>

\* onceMapFinished and loopMapFinished: the last one wakes the world thread.
MapFinished(w) ==
    \/ /\ w \in OnceWorkers
       /\ pending_once_maps' = pending_once_maps - 1
       /\ wpc' = IF pending_once_maps = 1 /\ wpc = "asleepOnces"
                 THEN "waitOnces" ELSE wpc
       /\ UNCHANGED pending_loop_maps
    \/ /\ w \in LoopWorkers
       /\ pending_loop_maps' = pending_loop_maps - 1
       /\ wpc' = IF pending_loop_maps = 1 /\ wpc = "asleepLoops"
                 THEN "waitLoops" ELSE wpc
       /\ UNCHANGED pending_once_maps

\* The worker sees the token and ends, giving up the request it may hold.
ExitThread(w) ==
    /\ cancelationToken
    /\ WorkerMoves(w, "token", "exited")
    /\ req' = [req EXCEPT ![w] = None]
    /\ IF req[w] # None THEN MapFinished(w) ELSE UNCHANGED <<wpc, counters>>
    /\ UNCHANGED <<todo, i_maps, instances, expired, queues, onceThreads,
                   loopEnabled, cancelationToken, visit, updated>>

\* request->call(): DoUpdate begins, and a MapInstanced lists its instances.
BeginUpdate(w) ==
    /\ ~cancelationToken
    /\ WorkerMoves(w, "token", "call")
    /\ updated' = updated \cup {req[w]}
    /\ visit' = [visit EXCEPT ![w] = {i \in instances : Home[i] = req[w]}]
    /\ UNCHANGED <<world, instances, queues, counters, onceThreads,
                   loopEnabled, cancelationToken, req>>

\* Mutant: an instance is scheduled first and checked for unloading then.
VisitSchedulesFirst(w, i) ==
    /\ pc[w] = "call"
    /\ i \in visit[w]
    /\ visit' = [visit EXCEPT ![w] = @ \ ({i} \ expired)]
    /\ ScheduleLoop(i)
    /\ UNCHANGED <<world, instances, loopEnabled, cancelationToken, req,
                   updated>>

\* MapInstanced::Update reaches an instance that is in use.
VisitInstance(w, i) ==
    /\ pc[w] = "call"
    /\ i \in visit[w] \ expired
    /\ visit' = [visit EXCEPT ![w] = @ \ {i}]
    /\ ScheduleLoop(i)
    /\ UNCHANGED <<world, instances, loopEnabled, cancelationToken, req,
                   updated>>

\* It reaches one to unload, and DestroyInstance deletes it or gives up
\* because there are players in it; either way it is not scheduled.
UnloadInstance(w, i) ==
    /\ pc[w] = "call"
    /\ i \in visit[w] \cap expired
    /\ visit' = [visit EXCEPT ![w] = @ \ {i}]
    /\ instances' \in {instances, instances \ {i}}
    /\ UNCHANGED <<world, queues, counters, onceThreads, loopEnabled,
                   cancelationToken, pc, req, updated>>

\* DoUpdate returns.
EndUpdate(w) ==
    /\ visit[w] = {}
    /\ WorkerMoves(w, "call", IF w \in LoopWorkers THEN "flag" ELSE "finish")
    /\ UNCHANGED <<world, instances, queues, counters, onceThreads,
                   loopEnabled, cancelationToken, req, visit, updated>>

\* A loop worker reads _enable_updates_loop, and acts on it later.
ReadLoopFlag(w) ==
    /\ WorkerMoves(w, "flag", IF loopEnabled THEN "push" ELSE "finish")
    /\ UNCHANGED <<world, instances, queues, counters, onceThreads,
                   loopEnabled, cancelationToken, req, visit, updated>>

\* Mutant: the request goes back as a new one, and is counted again.
RepushCountsAgain(w) ==
    /\ WorkerMoves(w, "push", "pop")
    /\ loop_queue' = Pushed(loop_queue, req[w])
    /\ req' = [req EXCEPT ![w] = None]
    /\ pending_loop_maps' = pending_loop_maps + 1
    /\ UNCHANGED <<world, instances, once_queue, pending_once_maps,
                   onceThreads, loopEnabled, cancelationToken, visit, updated>>

\* _loop_queue.Push(request) with the same request.
Repush(w) ==
    /\ WorkerMoves(w, "push", "pop")
    /\ loop_queue' = Pushed(loop_queue, req[w])
    /\ req' = [req EXCEPT ![w] = None]
    /\ UNCHANGED <<world, instances, once_queue, counters, onceThreads,
                   loopEnabled, cancelationToken, visit, updated>>

FinishRequest(w) ==
    /\ WorkerMoves(w, "finish", "pop")
    /\ req' = [req EXCEPT ![w] = None]
    /\ MapFinished(w)
    /\ UNCHANGED <<todo, i_maps, instances, expired, queues, onceThreads,
                   loopEnabled, cancelationToken, visit, updated>>

---------------------------------------------------------------------------

WorldCycle ==
    \/ \E m \in BaseMaps : ScheduleBaseMap(m)
    \/ EnableUpdateLoop
    \/ WaitUpdateOnces
    \/ DisableUpdateLoop
    \/ WaitUpdateLoops
    \/ DelayedUpdates

Deactivate ==
    \/ SetCancelationToken
    \/ CancelLoopQueue
    \/ CancelOnceQueue
    \/ JoinOnceThreads
    \/ JoinLoopThreads

Worker(w) ==
    \/ PopRequest(w)
    \/ PopNothing(w)
    \/ ExitThread(w)
    \/ BeginUpdate(w)
    \/ \E i \in Instances : VisitInstance(w, i) \/ UnloadInstance(w, i)
    \/ EndUpdate(w)
    \/ ReadLoopFlag(w)
    \/ Repush(w)
    \/ FinishRequest(w)

Next ==
    \/ \E m \in BaseMaps : CreateBaseMap(m)
    \/ \E i \in Instances : CreateInstance(i)
    \/ StartUpdate
    \/ WorldCycle
    \/ SpuriousWakeup
    \/ UnloadAll
    \/ Deactivate
    \/ \E w \in Workers : Worker(w)

\* A thread that can step does: every thread is scheduled, and no map update
\* runs for ever.  Nothing obliges the server to start a cycle or to stop.
Fairness ==
    /\ WF_vars(WorldCycle)
    /\ WF_vars(Deactivate)
    /\ \A w \in Workers : WF_vars(Worker(w))

Spec == Init /\ [][Next]_vars /\ Fairness

---------------------------------------------------------------------------
(* Properties                                                              *)

InCycle == {"schedule", "waitOnces", "asleepOnces", "disable", "waitLoops",
            "asleepLoops"}
Stopping == {"deactivate", "cancelLoop", "cancelOnce", "joinOnces",
             "joinLoops", "stopped"}

\* The maps an outstanding request is for: queued, or held by a worker.
Queued(q)  == {q.items[n] : n \in DOMAIN q.items}
Held(ws)   == {req[w] : w \in ws} \ {None}
OnceOut    == Queued(once_queue) \cup Held(OnceWorkers)
LoopOut    == Queued(loop_queue) \cup Held(LoopWorkers)
Updating   == {w \in Workers : pc[w] = "call"}

\* Every variable keeps to its type, and a worker past WaitAndPop holds a
\* request of its own kind unless the updater is shutting down: the
\* ASSERT(request) of the two thread functions never fires.
TypeOK ==
    /\ wpc \in {"idle", "delayed"} \cup InCycle \cup Stopping
    /\ todo \in SUBSET BaseMaps
    /\ i_maps \in SUBSET BaseMaps
    /\ instances \in SUBSET Instances
    /\ expired \in SUBSET Instances
    /\ loop_queue \in [items : Seq(Instances), shutdown : BOOLEAN]
    /\ once_queue \in [items : Seq(BaseMaps), shutdown : BOOLEAN]
    /\ pending_loop_maps \in Nat
    /\ pending_once_maps \in Nat
    /\ onceThreads \in 0 .. Cardinality(BaseMaps)
    /\ loopEnabled \in BOOLEAN
    /\ cancelationToken \in BOOLEAN
    /\ pc \in [Workers -> {"none", "pop", "token", "call", "flag", "push",
                           "finish", "exited"}]
    /\ req \in [Workers -> Maps \cup {None}]
    /\ visit \in [Workers -> SUBSET Instances]
    /\ updated \in SUBSET Maps
    /\ \A w \in Workers :
        pc[w] \in {"token", "call", "flag", "push", "finish"} /\ ~cancelationToken
            => req[w] \in (IF w \in LoopWorkers THEN Instances ELSE BaseMaps)

\* No map is updated by two threads at the same time, and no map has two
\* requests: Map::DoUpdate has no lock of its own.
MapExclusive ==
    \A v, w \in Workers : v # w /\ req[v] # None => req[v] # req[w]

\* pending_once_maps and pending_loop_maps count exactly the requests that
\* are queued or being processed, so that the two waits of MapManager::Update
\* neither end early nor hang, and the ASSERTs on the counters hold.
PendingCountsRequests ==
    /\ pending_once_maps = Cardinality(OnceOut)
    /\ pending_loop_maps = Cardinality(LoopOut)

\* The world thread has the maps to itself outside of the two waits: in the
\* delayed updates, in the session updates between two cycles, where maps are
\* created, and while the maps are deleted.
WorldThreadIsAlone ==
    wpc \in {"idle", "delayed"} \cup Stopping =>
        /\ \A w \in Workers : pc[w] \in {"none", "pop", "token", "exited"}
        /\ OnceOut = {} /\ LoopOut = {}

\* A request never outlives its map: MapInstanced::Update destroys an
\* instance only while no request refers to it.
RequestsForLiveMaps ==
    OnceOut \subseteq i_maps /\ LoopOut \subseteq instances

\* When the delayed updates run, every base map and every instance in use has
\* been updated in this cycle.
CycleUpdatesEveryMap ==
    wpc = "delayed" => (i_maps \cup (instances \ expired)) \subseteq updated

\* A base map is never kept waiting for another: each pending one has a
\* thread of its own, which is what the vector of once threads is sized for.
OnceMapsHaveThreads == pending_once_maps <= onceThreads

\* A base map is updated once in a cycle: an update never begins for a base
\* map already updated.
BaseMapsUpdatedOnce ==
    [][\A w \in Workers :
        BeginUpdate(w) /\ req[w] \in BaseMaps => req[w] \notin updated]_vars

\* When the loop has been turned off, the requests only run out: no instance
\* is scheduled behind the back of waitUpdateLoops.
LoopsRunOut ==
    [][(wpc \in {"disable", "waitLoops", "asleepLoops"})
        => (pending_loop_maps' <= pending_loop_maps)]_vars

\* Every cycle of MapManager::Update comes to its end.
CycleEnds == wpc = "schedule" ~> wpc = "idle"

\* deactivate joins every thread and returns.
DeactivateReturns == wpc = "deactivate" ~> wpc = "stopped"

\* The threads, queues and counters implement the barrier of MapCycle.
Barrier == INSTANCE MapCycle WITH
    phase  <- IF wpc \in InCycle /\ ~cancelationToken THEN "update"
              ELSE IF wpc \in {"idle", "delayed"} THEN wpc ELSE "stopped",
    live   <- i_maps \cup instances,
    active <- {req[w] : w \in Updating}

ImplementsBarrier == Barrier!Spec

=============================================================================
