# A TLA+ project for the TBC 2.4.3 world server

This directory models parts of the server in this repository (a TrinityCore
descendant for World of Warcraft 2.4.3, with playerbots) in TLA+.  TLC checks
each model on small instances; TLAPS proves a part of what is checked for every
value of the constants.  Paths are relative to the root of the repository;
`game/` stands for `src/server/game/`.

## 1. The system

One process, `worldserver`, runs the world.  Its threads are:

| thread | what it does | how it meets the others |
|---|---|---|
| world thread | `World::Update`: sessions, then the cycle of the map manager, then timers and commands | drives all the rest |
| map threads | `Map::Update` of one map at a time, given out by `MapUpdater` | two `ProducerConsumerQueue`s, two counters, one flag |
| network threads | accept and read sockets, authenticate, build a `WorldSession` | `addSessQueue`, the receive queue of each session, the raw pointer of the socket to its session |
| database threads | run SQL operations of a `DatabaseWorkerPool` | a `ProducerConsumerQueue` and futures polled by the sessions |
| command threads | console, remote access, SOAP | a queue of commands the world thread empties |

A second process, `authserver`, does the logon and knows the world server only
through the database.

### Components

| component | state | operations | what makes it hard | what makes it correct | here |
|---|---|---|---|---|---|
| `ProducerConsumerQueue` (`src/common/Threading`) | a queue, a shutdown flag, the sleepers of a condition variable | `Push`, `Pop`, `WaitAndPop`, `Cancel` | lost and spurious wakeups, cancellation against sleeping | each value once and in order, nobody sleeps on a value or on a cancelled queue | modelled, proved |
| `MapUpdater` (`game/Maps`) | two queues, two counters, the loop flag, the threads | `schedule_update`, the waits, `enableUpdateLoop`, `activate`, `deactivate` | the flag read and then acted on; the counters against the queues; shutdown | one thread to a map; a wait ends, and only when no request is left | modelled, proved |
| `MapManager`, `MapInstanced` | the base maps, the instances of each | `Update`, `CreateBaseMap`, `DestroyInstance`, `UnloadAll` | destruction of an instance whose request is still about | every map is updated in each cycle, no request for a dead map | with the updater |
| map clock (`Map::DoUpdate`) | the time of the last update | `DoUpdate` | a sleep between reading the clock and storing it, a 32-bit clock | the diffs add up to the time that passes | modelled, proved |
| `World`: sessions | the table, the login queue, the limit, the disconnections | `AddSession_`, `RemoveQueuedPlayer`, `UpdateSessions`, kicks | reconnection during every phase of the other session, answers of the database, closing at any time | one live session an account, a correct queue, the limit, an end for closed sessions | modelled, proved |
| `WorldSocket`, `Socket`, `NetworkThread` | open and closing flags, two write queues, the pointer to the session and its lock | read, write, close, authenticate | closing by two threads, a pointer to what another thread deletes, answers of the database between two reads | no use of a dead session, one read at a time, every closed socket removed | modelled but for the acceptor, the packet headers and the shutdown |
| database layer | a queue, workers with a connection each, transactions, futures | `CommitTransaction`, `DelayQueryHolder`, `TransactionTask::Execute`, the callbacks | errors, deadlocks and their retry, lost connections, a login behind a save, the end with a full queue | transactions whole and in order, a load sees the saves before it, a login is answered | the asynchronous half |
| instance ids and saves | the set of ids, the next id, bindings | `GenerateInstanceId`, `FreeInstanceId`, binding | reuse of ids, a reset during play | an id belongs to one instance | planned |
| trade | two `TradeData` | set, clear, accept, cancel | the other side changes after acceptance; rollback | nothing is lost or doubled | planned, with the inventory |
| battleground queue and life of a match (`game/Battlegrounds`) | groups, invitations, events; invited counts, players, free slots | join, invite, port, arrive, leave, expire, end, delete | three places count the same players; an event for an invitation that is gone | the invited counts agree, invitations end and only when due | one type and bracket, without arenas |
| combat and threat | references in both directions | set, suppress, end | callbacks in the middle | symmetry | planned |
| client control | pending movement changes | request, acknowledge, time out | late and missing answers | one mover, no change lost | planned |
| groups, loot rolls, auctions, mail, guilds, channels, arena teams, pools, grids, logon | see `PROJECT.json` | | | | later |
| entities, spells, AI, scripts, bots, movement, collision, static data, tools | | | content, geometry, tables, files | | not modelled |

How they interact: a socket makes a session and hands it to the world by
`addSessQueue`; the session polls the database and the receive queue; a session
with a player puts the player in a map; the world thread makes maps and starts
their updates; the map threads run everything inside a map, and what they must
not do they leave for the delayed updates of the world thread.

## 2. Modules

| module | models | state and actions |
|---|---|---|
| `QueueOps` | the critical sections of `ProducerConsumerQueue` as operators on a record | `Pushed`, `Popped`, `MustWait`, `Cancelled` |
| `BlockingQueue` | what the queue promises: the blocking pop is one step | the abstract specification |
| `ProducerConsumerQueue` | the queue with its condition variable | `Push`, `Pop`, the steps of `WaitAndPop` (test, sleep, wake, take or leave), `CancelDrain` and `CancelNotify`: the code notifies after it has unlocked |
| `MapCycle` | what the updater promises: a barrier between two phases | the abstract specification |
| `MapUpdater` | the updater, the cycle of the map manager, the instances | one action for each critical section or unlocked access; the queues through `QueueOps` |
| `MapClock` | `Map::DoUpdate` on a clock that wraps | `Call`, `WakeUp`, `EndUpdate`, `Tick` |
| `SessionTable` | the session table and login queue of `World`, the life of a `WorldSession` | `AddSession_` and `UpdateSession` are whole handlers; sockets and database are actions of their own |
| `WorldSocket` | a connection of `WorldSocket` on `Socket` and `NetworkThread`, against the world thread | one action for each handler of the network thread, split where a lock is taken or `CloseSocket` goes on to `OnClose`; the world thread kicks, refuses and deletes |
| `BattlegroundQueue` | `BattlegroundQueue`, `BattlegroundMgr::Update`, the counts of `Battleground` and the way of a player through them | one action for each handler; `ManagerUpdates` is a whole update of the manager |
| `DatabasePool` | `DatabaseWorkerPool`, its workers, `TransactionTask`, `SQLQueryHolderTask`, and what a character does with them | the sessions queue saves and loads, a worker takes them (`Take`) and goes through `Begin`, `Statement`, `Commit` or `Read`, and through everything that fails |
| `ProducerConsumerQueueProofs`, `MapUpdaterProofs`, `WorldSocketProofs`, `MapClockProofs`, `SessionTableProofs`, `DatabasePoolProofs`, `BattlegroundQueueLemmas`, `BattlegroundQueueProofs` | proofs | |
| `MC...` | the constants of the TLC runs | |

`MapUpdater` uses the queue as `QueueOps` does, one critical section a step.
That its consumers may be thought of so is what `ProducerConsumerQueue`
implementing `BlockingQueue` shows.  `DatabasePool` uses it in the same way: its
queue is the same class.

Correspondence.  In `MapUpdater`, `wpc` is the program counter of the world
thread inside `MapManager::Update` and `UnloadAll`; `pc`, `req` and `visit`
are those of the workers; `updated` is a history variable, the only one.  In
`SessionTable`, `init` joins the future of `InitializeSession` with its outcome
and `char` joins `m_playerLoading`, `_charLoginCallback` and `_player`; `life`
and `raised` are history.  `expireTime` counts updates, as if each took one
unit of time.  The iteration order of `m_sessions`, an unordered map, is free.
Deleted sessions keep no state (`Freed`), since their memory is gone.  In
`MapClock`, `now` is the true time and the program sees it modulo `Clock`; the
variables below `diff` are history.

In `WorldSocket`, `net` and `world` are the program counters of the two threads,
each with the socket it is at; `lock` is `_worldSessionLock` and `pointer` says
whether `_worldSession` is set.  A packet is a number in a queue.  With
`Debug.LogAllPackets` (`LogAllPackets`) a packet that is received or sent is
dumped with the name of the session, which both threads read through the pointer
without the lock (`WorldSocket.cpp:315`, `425`): the test of the pointer
(`Dumps`) and its use (`DumpPacket`, `DumpPong`, `DumpToClient`) are two steps.
The use itself, `GetPlayerInfo`, is one step.  Two places are errors of the code
and end a thread: `stuck`, which waits for a mutex its own thread holds, and
`crashed`, where a pointer that is null is used.

In `BattlegroundQueue` a step is a change of a record of the whole state
(`Now`, `Become`), since one update of the manager applies many handlers in a
row.  `place` joins what `Player` and the map know of where a player is: out,
on the way in, inside, or offline inside.  `left` is the remaining time of an
invitation in updates, where the code has a time (`RemoveInviteTime`); two
invitations of the same moment and battleground are the same.  `cut` leaves out
the updates past a bound, those that need an instance id above `MaxBgs`.  The
invited counts are unsigned numbers of the size `CountSize`, and `Wrapped` is
what they become below zero.  A battleground that was marked for deletion can be
given more players by the queue (the run `battlegrounds_deleted`) and is deleted
under them; their groups, and those on their way, keep its id, and so does the
next battleground that gets it.  `stale`, which is history, has the battlegrounds
whose id was held by somebody (`Holders`) at the moment they were made.

In `DatabasePool` a save is two statements, the row of the character and its
changed items, which stand for the twenty of `SaveToDB`; version `v` is the
`v`-th save.  `items` in the database is the set of the saves whose items got
there, since `_SaveInventory` writes only what changed; a row is overwritten.
`refused`, `torn` and `order` are history.  `conn`, `rows` and `items` are the
MySQL server, which is not part of the repository: it keeps an open transaction
for each connection, loses it with the connection, and refuses statements.
`Restart` is a crash at any moment, or a new start after the end.

The definitions headed *Mutant* are not used by the specifications.  Each is
a plausible error of the definition after it, and shows that a property can
fail.

## 3. Runs

| run | bounds | shows |
|---|---|---|
| `queue` | 3 values, 3 consumers | `ExactlyOnceInOrder`, `NoLostWakeup`; every queued value is served, `Cancel` ends every consumer, the queue implements `BlockingQueue` |
| `updater` | 1 continent, 1 `MapInstanced` with 2 instances, 2 loop threads, 2 once threads | `MapExclusive`, `PendingCountsRequests`, `WorldThreadIsAlone`, `RequestsForLiveMaps`, `CycleUpdatesEveryMap`; cycles end, `deactivate` returns, the updater implements `MapCycle` |
| `clock` | a clock of 8 ms, interval 3, limits 2 and 9, 18 ms | `NoTimeLost`, `AtMostTwice` |
| `clock_elapsed` | no wrap | a comment the code does not keep, section 6 |
| `sessions` | 3 accounts of which one is an administrator, 4 sessions, limit 1, 1 second | `TableHoldsTheLiving`, `QueueHoldsTheWaiting`, `PositionsAreTold`, `NobodySkipsTheQueue`, `PlacesAreUsed`, `LoadingIsNotCutOff`, `LimitIsKept`, `NoOvertaking` |
| `sessions_live` | 2 accounts, 3 sessions, a limit that is set to 0 or 1, 1 update of grace, tolerance on | `ClosedSessionsLeave`, `NewcomersAreAnswered` |
| `sessions_tolerance` | 2 accounts, 3 sessions, 4 seconds | the tolerance never runs out, section 6 |
| `sockets` | 1 socket, 2 packets waiting to be written, packets dumped | `SessionsInUseAreAlive`, `OneReadAtATime`; a refused socket closes, a closed one is let go |
| `battlegrounds` | 2 players against 1, 1 battleground with places for 1 or 2 a side, invitations of 2 updates, counts of size 8 | `InvitedCountIsExact`, `InvitationsRunOut`, `OnlyOverdueAreRemoved`, `FillKeepsBalance` |
| `battlegrounds_deleted` | the same, with 2 battlegrounds | a comment the code does not keep, section 6 |
| `database` | 2 characters, saved twice and once, 1 worker, 2 faults of the MySQL server, 1 crash or restart | `TransactionsAreWhole`, `SavesKeepTheirOrder`, `LoadsSeeSaves`; a login is answered |
| `database_created` | 2 characters, 1 fault | a comment the code does not keep, section 6 |

Why the bounds are enough.  *Queue*: a wakeup is lost between two consumers and
one producer; the third consumer lets `notify_one` choose, and the third value
shows an order.  A value is pushed once, which names it.  *Updater*: the races
are between the world thread, one once thread that schedules and one or two
loop threads; one instance is updated while the other is made or unloaded.  Cycles
repeat without bound, since nothing counts them.  *Clock*: the wrap happens
twice, an update can be on either side of it, sleeps overrun by any amount
below one round; a map that is not updated for a whole round (49 days) is left
out by the guard of `Tick`.  `GetMSTime` uses the system clock, taken here as
one that does not go back.  *Sessions*: three accounts with limit one give a
queue of two, of which either leaves, and a fourth session reconnects an
account that is queued, active, loading or playing.  The two sessions of that
account are alike, and the run uses their symmetry.  The tolerance and a limit
that is set and lifted are in the liveness run, which is smaller; the proofs
hold for all of it at once.

*Sockets*: the sockets of a network thread share nothing but the thread, so one
shows every race with the world thread; two waiting packets are a queue with a
front.  *Battlegrounds*: two on a side make a group, which is invited, ported
and broken up one by one; the third is the other side, without whom no match
begins.  The one instance id is given out again while a player holds it from its
first use: the battleground was deleted when he was on his way into it.  So stale
battlegrounds, and counts that went below zero, are among the states of the
run.  That an invitation is still in the queue when its id comes back takes
invitations of 3 updates: the run passes with them as well (1 031 388 states), and
the theorems hold for any length.  Two matches at a time are in
`battlegrounds_deleted`.  The two players of the first side are alike, so the
run uses their symmetry; it has no liveness property.  The counts come near
`CountSize` only by going below zero.  The type invariant of this run is not only
of types: groups are disjoint and never empty.  *Database*: the second save of a character is behind the first and before or behind a login;
two faults are a deadlock and an error in its retry, or an error in each of two
saves.  One worker is what `worldserver.conf.dist:78` sets; with two, TLC refutes
`SavesKeepTheirOrder` and `LoadsSeeSaves` at once, which is why the number has
to stay one.

`CHECK_DEADLOCK FALSE` stands where the system stops: after `Cancel`, after
`deactivate`, at the `Horizon` of the clock, after the shutdown, for a
socket that is gone, and at the bounds on saves.

### Fairness

* Queue: a consumer goes on (`WF` of its steps), and the thread in `Cancel`
  gets to its notification.  Nobody is obliged to push or to cancel.
* Updater: the world thread and each worker take the next step when it can be
  taken.  Weak fairness suffices: a worker that could pop stays able to until
  some worker has popped.  `deactivate`, once begun, goes on.
* Sessions: the world thread goes round its loop until the server stops
  (written as `[]<>` of its step, since its steps are enabled until then), and
  the database answers each query.  Sockets, commands and clients owe nothing.

* Sockets: a handler that has begun goes on, sockets that are new are listed,
  and the world thread does not stay in `OnClose` (`WF`).  The timer, the
  answers of the database and the end of an asynchronous write are strongly
  fair: between two of them the thread is busy with another handler, which
  disables them for a moment, but `io_context` serves what is pending in turn.
  That `WriteHandlerWrapper` and `ReadMore` are fair means that a client takes
  its data in the end and that a buffer of received data ends.  Clients owe no
  packet.
* Database: a worker takes the next step when it can, and a session polls the
  future of its login.  Faults of the MySQL server are bounded, so a retry ends.

These are what an operating system with fair threads and a database that works
give.

## 4. Properties, and the hazards they are for

The hazards are listed in `PROJECT.json` with their lines.  In short:

* a consumer sleeps on a value or on a cancelled queue: `NoLostWakeup`,
  `QueuedIsServed`, `CancelEndsConsumers`;
* the world thread and a map thread are in a map together, because a request is
  pushed back after the loop was turned off or a counter is ahead of its queue:
  `MapExclusive`, `PendingCountsRequests`, `WorldThreadIsAlone`;
* an instance dies under its request: `RequestsForLiveMaps`;
* a cycle leaves a map out or never ends: `CycleUpdatesEveryMap`, `CycleEnds`;
* time is lost by sleeping, or gained: `NoTimeLost`, `AtMostTwice`;
* a session is leaked, doubled, or queued after it is gone:
  `TableHoldsTheLiving`, `QueueHoldsTheWaiting`; a client sees a wrong place:
  `PositionsAreTold`; a place stays empty or the limit is passed, given that
  `UpdateSessions` calls `RemoveQueuedPlayer` twice and `AddSession_` counts a
  reconnection in its own way: `PlacesAreUsed`, `LimitIsKept`, `NoOvertaking`;
* a reconnection cuts off the loading of a player: `LoadingIsNotCutOff`;
* the network thread uses a session that the world thread has deleted:
  `SessionsInUseAreAlive`; a read is started twice or not at all:
  `OneReadAtATime`; a refused or closed connection stays for ever:
  `RefusedSocketsClose`, `ClosedSocketsAreLetGo`;
* a place in a battleground is counted twice or never given back, by any of the
  ways to leave: `InvitedCountIsExact` (but for a battleground with the id of a
  deleted one that is still held, section 6); an invitation has no end, or the end of
  an earlier one: `InvitationsRunOut`, `OnlyOverdueAreRemoved`; a running match
  is filled on one side: `FillKeepsBalance`;
* half a save is in the database, or a later one without an earlier one, after
  an error, a retry, a crash or the end: `TransactionsAreWhole`,
  `SavesKeepTheirOrder`; a player who comes back at once finds an old state:
  `LoadsSeeSaves`; a login waits behind a retry for ever: `LoginsAreAnswered`.

`TransactionsAreWhole` leaves out the saves during which a connection was lost:
`MySQLConnection::Execute` reconnects and sends the statement again, but nothing
sends `START TRANSACTION` again, so that what follows is executed without one.
The two liveness properties of the sockets leave out the two errors of the code
in section 6 that end the network thread.

`PlacesAreUsed` holds only while the limit has not been raised over a queue:
`World::SetPlayerLimit` stores the number and admits nobody.

## 5. Proofs

`ProducerConsumerQueueProofs` proves, for every set of values and every finite
set of consumers: `TypeOK`, `ExactlyOnceInOrder`, `NoLostWakeup`,
`SleepersAreOwedANotify`, and the safety half of the refinement of
`BlockingQueue`.  The argument for the wakeups: a value in an open queue with a
sleeper implies a consumer that is about to test.  `Push` moves a sleeper to
the test if there is one; a consumer that leaves the test has either taken a
value or found none.  The invariant is inductive together with the types and
the counts that tie the queue to the history.

`MapUpdaterProofs` proves, for every finite set of maps and any loop threads:
`TypeOK` and the safety properties of the run `updater`, and the safety half of
the refinement of `MapCycle`.  The inductive invariant is `IInv`:

| part | says |
|---|---|
| `TypeOK` | types |
| `HoldInv` | what each worker holds at each place of its loop |
| `ExclusiveInv` | a map has one request at most, in one queue or one hand |
| `PhaseInv` | what each value of `wpc` says of queues, flag and threads |
| `OrderInv` | an instance is scheduled only by a `MapInstanced` being updated, and not before it |
| `LiveInv` | requests are for maps that exist |
| `CoverInv` | a map not yet updated in this cycle has a request or will be scheduled |
| `PendingCountsRequests`, `OnceMapsHaveThreads` | the counters |

None of `MapExclusive`, `WorldThreadIsAlone` and `CycleUpdatesEveryMap` is
inductive alone.  That the world thread is alone needs that a pending counter
of zero means no request anywhere (`PendingCountsRequests`), which needs that
requests are distinct (`ExclusiveInv`), which needs that an instance is not
scheduled twice (`OrderInv`).  There is a lemma for each action, and in it a
step for each part of the invariant the action can disturb.  The cardinalities
are handled by a few lemmas about adding and removing one element.

`WorldSocketProofs` proves, for every set of sockets, with packets dumped or not,
and for every bound on what waits to be written: `TypeOK`, `SessionsInUseAreAlive` and `OneReadAtATime`.
`IInv` is the types, `WorldIdle` and, for each socket:

| part | says |
|---|---|
| `LockInv` | the lock is held exactly at the steps under it (or was when the server crashed), and those that use the session have the pointer |
| `PointerInv` | a pointer to a deleted session is left only while the network thread itself is before `OnClose`; one of a closed socket only while either thread is; the world thread sends to a session it has |
| `QueryInv` | only a socket without a session is asked about and refused |
| `UnusedInv`, `WriteInv` | a socket not connected has done nothing; an asynchronous write has something to write |
| `ReadInv` | `OneReadAtATime` for the socket |

`SessionsInUseAreAlive` is not inductive: a session ends when its socket is no
longer open, which is safe only because a socket with a session is never in
the state of a refused one (`QueryInv`), so that it must be closed, and because
who closed it has been through `OnClose` and its lock (`PointerInv`), or is
the network thread, which then does not use the session (`LockInv`).  What the
theorem says of the uses without the lock is weaker, because no more is true:
the session is there as long as the pointer is set, and the pointer may go
between the test and the use (section 6).

`MapClockProofs` proves, for a clock of any size, any interval and any limits,
`NoTimeLost` and `AtMostTwice`.  Neither is inductive alone.  `TimeInv` says
what the program knows of the time, a remainder, and that less than a round has
passed since it was stored, so that `GetMSTimeDiff` sees one wrap or none
(`OneRound`, `TimeDiff`).  `SleepInv` says that a sleep ends when the interval
is over.  Twice the time is replaced by `CoveredOnce`: what the updates were
told is at most the beginning of the last update and the time of its call added
up, since the next one counts from that call on.

`SessionTableProofs` proves, for every finite set of accounts, any sessions of
them, any limits and any time of grace: `TypeOK`, the five invariants of the run
`sessions`, and its three action properties.  `IInv` is:

| part | says |
|---|---|
| `TypeOK` | types |
| `TableInv` | `TableHoldsTheLiving`, and that each session is under its own account |
| `UnlistedInv` | nothing is known of a session that is not in the table |
| `AddQueueInv` | `addSessQueue` holds each session once, and before it is listed |
| `QueueInv` | the queue is orderly: each session once, listed, waiting, not initialised, told its place |
| `WaitingInv` | who has not been let through is marked as waiting, after `KickAll` too |
| `TodoInv` | the loop visits sessions that are in the table |
| `NobodySkipsTheQueue`, `PlacesAreUsed` | the properties |

The handlers change the queue through a record, the room, so the first half
proves what each queue operation makes of an orderly room, and of whom it leaves
alone (`TouchesOnly`); `RemoveSession` is then two calls of
`RemoveQueuedPlayer` put together.  `NobodySkipsTheQueue` needs `WaitingInv`: the
handlers test `m_inQueue`, and not whether the session was initialised.  For
`PlacesAreUsed`, `LimitIsKept` and `NoOvertaking`, `AcceptedCount` and
`RemovedRoom` say how the lengths of table and queue change, and the rest is
arithmetic: the first of the two calls of `RemoveQueuedPlayer` lets somebody in
only at the limit, and the second, which counts the session once more, never
does so while the limit has not been raised; in `AddSession_` a newcomer is
counted with those who wait, so that it is held back whenever somebody does.
That the set of accounts is finite is what makes its sessions countable (account
ids are 32 bits).

`DatabasePoolProofs` proves `TypeOK`, for every finite set of characters, any
number of worker threads, saves, faults and restarts; and `TransactionsAreWhole`,
`SavesKeepTheirOrder` and `LoadsSeeSaves` for all of these but one worker thread.
`OneWorker` is a hypothesis of those theorems: it is what `worldserver.conf.dist:78`
sets, and with two workers TLC refutes `SavesKeepTheirOrder` and `LoadsSeeSaves`.
`IInv` is:

| part | says |
|---|---|
| `TypeInv` | the types; what a connection has of a transaction at each step of its worker (`WorkerOk`); a closed pool has an empty queue; the stored saves have a last one |
| `VersionInv` | a save still to be done is later than those of its character that are done |
| `SettledInv` | each save of a character is done, refused, held by the worker or in the queue, and those before one that is done or held are done or refused |
| `OrderInv` | the same across characters, by the order in which they were queued |
| `LoadInv` | a load is alone of its character in the queue, after its saves; while it is read, and until `HandlePlayerLogin` uses it, no save of that character is on its way |
| `TransactionsAreWhole` | the property |

`TransactionsAreWhole` needs `VersionInv`: the row is overwritten, so that it is
the newest save only because an older one cannot be written after it.
`SavesKeepTheirOrder` follows from `OrderInv`, which is inductive since one
worker holds one operation until it is done, refused or given up, also when it
tries again.  `LoadsSeeSaves` puts `LoadInv`, `SettledInv` and
`TransactionsAreWhole` together: with nothing on its way every save up to
`version` is in the database or refused.  A character whose save was torn by a
lost connection is left out everywhere, as it is in the properties; the others
are not disturbed by it.  `Restart` starts from what is stored, and all the
parts hold of it.

`BattlegroundQueueProofs` proves the five properties of the run `battlegrounds`,
for every finite set of players and any teams of them, any number of
battlegrounds, any sizes of a match and any time of an invitation.  An update of
the manager applies many handlers in a row; so the invariant is a predicate on
records of the state, which each handler keeps, and `IInv` says it of `Now`.
`Consistent` is:

| part | says |
|---|---|
| `State` | types; a count is any unsigned number as far as these go |
| `GroupsApart` | a group is of the team of its queue, and no player is in two groups |
| `SlotsAgree` | who is queued is out in the world, and his slot says what his group says |
| `PlacesAgree`, `ListsAgree` | who is on the way was ported by the invitation in his slot; a battleground lists only who is there or was when he went offline |
| `FreeAgree` | `freeSlots` has a battleground once, and only one that exists |
| `CountsAgree` | the invited counts of a battleground that exists and is not stale are exact |
| `EventsAgree` | an invited player has the event of his invitation |

and `Fresh`, which holds only between two steps, that no event is due.
`BattlegroundQueueLemmas` proves that the queue keeps `Consistent`: inviting a
group, removing players, filling a running battleground, starting a match,
premade or not.  `BattlegroundQueueProofs` goes on with who leaves a battleground,
its deletion, the passing of time and the events, and then has one lemma for
each action.  `InvitedCountIsExact` needs nearly all of it: a count is lowered
by the battleground of a group, by that in a slot, or for a name in a list, which is
right only because the three agree, nobody is counted twice, and a battleground
that is not stale is the one they mean: since it was made, only its own
invitations have brought its id to anybody.  A battleground that is deleted
leaves its id behind with its players, and the invariant does not forbid it: the
next one with this id is stale, and nothing is said of its counts.
`OnlyOverdueAreRemoved` needs `EventsAgree` with `Fresh`: an invitation whose
event is due had one update left, and not less.  For `FillKeepsBalance`, `Fits`
says which counts a filling may leave.

Most of these handlers are folds over a sequence of groups or a set of players.
The induction theorems of the library cannot be used, and are not needed: among
the finite sets for which a fold did not keep something there would be one with
no other inside it (`FiniteMin`), and the fold of that one is a single step from
the fold of a smaller one.  The model cuts off the updates that need more than
`MaxBgs` battlegrounds at a time (section 2); what follows such an update is
outside the theorems, as it is outside the runs.

The assumptions are those of the modules: the sets of maps, consumers,
accounts, characters, workers and players are finite, the kinds of maps are
disjoint, every instance has a `MapInstanced`, there is a loop thread, the value
for no socket is not a socket, the clock has a positive size, the least number of
players of a match is not above the largest, and there are more numbers
(`CountSize`) than players.  TLC evaluates them in each run.

Only model-checked: liveness, and the fairness halves of the two refinements.
Both are beyond the prover.  Every invariant and every action property that a
run finds to hold is also a theorem (`SavesKeepTheirOrder` and its neighbours
with the hypothesis of one worker, which is also the run's).

## 6. Where the code and its text disagree

| run | text | code |
|---|---|---|
| `clock_elapsed` | `Map.h:195`: the diff is the time since the last update | the sleep is in two diffs; time in a map may run at up to twice its speed |
| `sessions_tolerance` | `worldserver.conf.dist:284`: tolerance in seconds | `World.cpp:348` subtracts the present from the past, and tolerates for ever |
| `battlegrounds_deleted` | `Battleground.cpp:1084`: return to keep a deleted battleground out of the free slots | lines 1067 and 1068 have put it there, and the queue may invite players into it before it is deleted |
| `database_created` | `Player.cpp:17240`: a character is created before the client is told | the callback of a transaction is called when its promise is destroyed as well, which is how a failed one ends |

Met while modelling, without a run of their own:

* `Map.cpp:805` has the thread held when an update comes too early; the sleep
  that is counted twice lets the next call begin at once.  `MapUpdater.h:52`
  says that once threads are created and deleted at each loop, while they live
  until `deactivate`.  `MapManager.cpp:228` says that instances keep looping
  while continents are updated; the loop is turned on after the last base map is
  scheduled, and an instance that is done before that is retired.
* `World.cpp:279` says that there still is a race in the use of the session by
  the sockets.  There is, with `Debug.LogAllPackets` on: `WorldSocket.cpp:315-316`
  and `425-426` test `_worldSession` and call `GetPlayerInfo` without
  `_worldSessionLock`, and `OnClose` and the deletion of the session may come
  between the two (or during the call).  In the model the pointer is then null
  and the server crashes (`DumpFails`); the liveness properties of the sockets
  except that.  The uses under the lock are free of it, as
  `SessionsInUseAreAlive` shows: `~WorldSession` closes the socket, and `OnClose`
  waits for the lock.
* `WorldSocket.cpp:375` closes the socket under `_worldSessionLock`; `OnClose`
  locks the same mutex (`stuck` in the model).  `WorldSocket.cpp:342` logs a
  second authentication with the name of a session that may not be there any
  more (`crashed`).  An answer to a refused client is lost if a write that was
  under way ends first, with the answer still in `_bufferQueue`.
* A battleground that was marked is deleted under the players whom the queue
  invited meanwhile (`Battleground.cpp:1067` and `1082`, `BattlegroundMgr.cpp:86-95`
  and `108-121`).  They keep its id, which the next match may get.  When their
  invitation ends, `BattleGroundQueue.cpp:338-340` finds that match and lowers its
  invited count, which may go below zero, to 4294967295: then `GetFreeSlotsForTeam` has
  no place on that side, or the other side more than the balance allows.
  In the model these are the battlegrounds in `stale`; `InvitedCountIsExact` and
  `FillKeepsBalance` except them, because the code does not keep
  either there.
* `BattleGroundQueue.cpp:612` says that groups are added up to the size of the
  bigger one; the code takes the smaller.  A battleground that has ended is
  never deleted if its last invitations expire outside it.  `LogoutPlayer` gives
  an invitation back and schedules no update of the queue (`WorldSession.cpp:634`).
  The last player to leave is not sent away (`Battleground.cpp:1085`).  A player
  whose battleground is deleted on his way in keeps the queue slot until he logs
  out.  `Battleground.cpp:1075` logs the name of a player who may be offline.
* `TransactionTask::Execute` does not keep its promise after a successful retry
  (`Transaction.cpp:93`): the answer is the same as after a failure.
  `CommitTransaction` of an empty transaction returns a callback that never
  completes.  A query that fails in a holder looks like one without rows, so
  that a player may come in without what it was to load.  Items of a refused
  save are not written again, since they count as unchanged.
  `DatabaseWorkerPool.h:178` promises a rollback of what is not committed; after
  a lost connection the rest is not even in a transaction.
* `Main.cpp:259` has all players saved at the end.  The saves are queued, and
  the destructor of the pool empties the queue; what the worker has not taken by
  then is lost.  `SavesKeepTheirOrder` says what remains.
* `Player::TradeCancel` (`Player.cpp:12226`) tells one trader twice, where its
  comment says both.

## 7. Not modelled, and why

* `MapUpdater` without threads (`MapUpdate.Threads = 0`): `MapManager::Update`
  then calls the maps itself, with no concurrency.  `MapCrashed` has no caller.
* `CreateBaseMap` from map threads (path finding, zone lookups): the base maps
  are made between the cycles here.  The world thread iterates `i_maps`, an
  `unordered_map`, without the lock, and what an insertion that makes it grow
  does to the iteration is undefined: maps may be skipped, seen twice, or worse.
  `CycleUpdatesEveryMap` is about cycles in which that does not happen.  The
  unlocked look-up in `MapManager.cpp:46` is a hazard without a property yet.
* Inside `WorldSession::Update`: the handlers of packets other than the login,
  playerbot sessions, the failure to prepare the queries of a login (which
  answers the client with an error and changes nothing else here).
* A session update is one step: an answer of the database that arrives in the
  middle of it is as one that arrives before or after.
* Sockets: the acceptor, headers and their encryption, the variant for Windows
  completion ports, the stop of the network at the end, partial reads.
* Battlegrounds: arenas, the two kinds of invitation that balance by number,
  several types and brackets, the choice of the oldest group after waiting, the
  rules of a match.
* Database: synchronous connections, chains of callbacks, preparation of
  statements, `KeepAlive`; saves of a player on a far teleport, which are
  delayed; the fast saves of inventory and gold in trade and mail.
* Instances: binding and reset lie in `InstanceSaveMgr`, `Group`, `Player` and
  the database together, and are touched by map threads without a lock.
* Data, text, geometry, formulas: items, spells, scripts, collision.

## 8. Plan

Done: the queue, the updater with the cycle of the map manager, the clock of
the maps, the session table, the sockets, the queue of the battlegrounds, the
database pool.

Modules left, in this order:

1. `InstanceSaves`, with `GenerateInstanceId` and `FreeInstanceId`, bindings of
   players and groups, and the resets.
2. `Trade` with the moves of the inventory.  Abstract: an atomic swap or nothing.
3. `CombatRefs`: `CombatManager` and `ThreatManager`; symmetry under callbacks.
4. `ClientControl`; loot rolls; auctions; `MPSCQueue`; the logon of the
   authentication server; channels; grid states.

Proofs to add: those of the modules left; what the runs show of the present ones
as safety is proved.
