---------------------------- MODULE DatabasePool ----------------------------
(***************************************************************************)
(* DatabaseWorkerPool with its queue, its worker threads and TransactionTask*)
(* and SQLQueryHolderTask, used as the characters are: created, loaded at   *)
(* the login, saved while they play and when they leave.                   *)
(*                                                                         *)
(* A save is one transaction of two statements: the row of the character,  *)
(* which is written anew each time, and its items, of which only those     *)
(* changed since the last save are written.  Version v of a character is   *)
(* its v-th save, so that items is the set of the saves whose items got to *)
(* the database.  A load is a holder of two queries, row and items.        *)
(*                                                                         *)
(* The MySQL server is external: it keeps a transaction for a connection,  *)
(* rolls it back with the connection, and may refuse a statement or choose *)
(* the transaction as the victim of a deadlock.                            *)
(***************************************************************************)
EXTENDS Naturals, Sequences, FiniteSets, FiniteSetsExt, SequencesExt, QueueOps

CONSTANTS
    Chars,
    Workers,        \* CharacterDatabase.WorkerThreads, 1 by default
    None,           \* nobody holds _deadlockLock, a worker has no operation
    MaxVersion,     \* bound on the saves of each character
    MaxFaults,      \* bound on what goes wrong with the MySQL server
    MaxRestarts     \* bound on the crashes and restarts of the world server

ASSUME PoolConstants ==
    /\ IsFiniteSet(Chars) /\ IsFiniteSet(Workers) /\ Workers # {}
    /\ None \notin Workers
    /\ MaxVersion \in [Chars -> Nat] /\ MaxFaults \in Nat /\ MaxRestarts \in Nat

VARIABLES
    queue,          \* _queue
    worker,         \* what each worker thread does
    deadlockLock,   \* TransactionTask::_deadlockLock
    conn,           \* external: the connections, with their transactions
    rows,           \* external: the committed row of each character
    items,          \* external: the saves whose items are committed
    place,          \* where the character is
    version,        \* how often it was saved
    loaded,         \* the holder of a login
    future,         \* the future of the save that creates a character
    server,         \* the world server runs, has kicked all, has closed the pool
    faults, restarts,
    refused,        \* history: the saves that ended without success
    torn,           \* history: a connection was lost within a save
    order           \* history: the saves as they were queued

threads == <<queue, worker, deadlockLock>>
mysql == <<conn, rows, items>>
game == <<place, version, loaded, future, server>>
bounds == <<faults, restarts>>
history == <<refused, torn, order>>
vars == <<threads, mysql, game, bounds, history>>

Parts == <<"row", "items">>
Save(c, v) == [kind |-> "save", char |-> c, ver |-> v]
Load(c) == [kind |-> "load", char |-> c, ver |-> 0]

Waiting == [at |-> "idle", op |-> None, next |-> 1, again |-> FALSE]
Fresh == [open |-> FALSE, writes |-> {}]
NoHolder == [row |-> 0, items |-> {}, ready |-> FALSE, failed |-> FALSE]

Init ==
    /\ queue = NewQueue
    /\ worker = [w \in Workers |-> Waiting]
    /\ deadlockLock = None
    /\ conn = [w \in Workers |-> Fresh]
    /\ rows = [c \in Chars |-> 0]
    /\ items = [c \in Chars |-> {}]
    /\ place = [c \in Chars |-> "none"]
    /\ version = [c \in Chars |-> 0]
    /\ loaded = [c \in Chars |-> NoHolder]
    /\ future = [c \in Chars |-> "none"]
    /\ server = "running"
    /\ faults = 0 /\ restarts = 0
    /\ refused = [c \in Chars |-> {}]
    /\ torn = [c \in Chars |-> FALSE]
    /\ order = <<>>

---------------------------------------------------------------------------
(* The sessions, which use the pool.                                       *)

\* SaveToDB of each character of s, in turn: CommitTransaction queues it.
SavesToDB(s) ==
    LET saves == [i \in DOMAIN s |-> Save(s[i], version[s[i]] + 1)] IN
    /\ \A i \in DOMAIN s : version[s[i]] < MaxVersion[s[i]]
    /\ queue' = [queue EXCEPT !.items = @ \o saves]
    /\ order' = order \o saves
    /\ version' = [c \in Chars |-> version[c]
                                     + Cardinality({i \in DOMAIN s : s[i] = c})]

SaveToDB(c) == SavesToDB(<<c>>)

\* HandleCharCreateOpcode: the new character is saved and forgotten.
Create(c) ==
    /\ server = "running"
    /\ place[c] = "none"
    /\ SaveToDB(c)
    /\ place' = [place EXCEPT ![c] = "offline"]
    /\ future' = [future EXCEPT ![c] = "pending"]
    /\ UNCHANGED <<worker, deadlockLock, mysql, loaded, server, bounds,
                   refused, torn>>

\* InvokeIfReady calls back when the future is ready, which it also is when
\* the promise has been destroyed; the future of a transaction is not read.  The
\* client gets CHAR_CREATE_SUCCESS.
CreateCallback(c) ==
    /\ server = "running"
    /\ future[c] \in {"set", "broken"}
    /\ future' = [future EXCEPT ![c] = "none"]
    /\ UNCHANGED <<threads, mysql, place, version, loaded, server, bounds,
                   history>>

\* Mutant: a player who waits goes before what is only to be stored.
DelayedFirst(op) == queue' = [queue EXCEPT !.items = <<op>> \o @]

\* DelayQueryHolder.
Delayed(op) == queue' = Pushed(queue, op)

\* HandlePlayerLoginOpcode.
Login(c) ==
    /\ server = "running"
    /\ place[c] = "offline"
    /\ place' = [place EXCEPT ![c] = "loading"]
    /\ Delayed(Load(c))
    /\ UNCHANGED <<worker, deadlockLock, mysql, version, loaded, future, server,
                   bounds, history>>

\* LoadFromDB fails for a character that has no row; the holder is deleted.
HandlePlayerLogin(c) ==
    /\ server = "running"
    /\ place[c] = "loading"
    /\ loaded[c].ready
    /\ place' = [place EXCEPT ![c] = IF loaded[c].row = 0 THEN "offline" ELSE "online"]
    /\ loaded' = [loaded EXCEPT ![c] = NoHolder]
    /\ UNCHANGED <<threads, mysql, version, future, server, bounds, history>>

\* The periodic save of Player::Update, and the save of LogoutPlayer.
SaveOnline(c) ==
    /\ server = "running"
    /\ place[c] = "online"
    /\ SaveToDB(c)
    /\ \E p \in {"online", "offline"} : place' = [place EXCEPT ![c] = p]
    /\ UNCHANGED <<worker, deadlockLock, mysql, loaded, future, server,
                   bounds, refused, torn>>

\* The end of main: KickAll, and the UpdateSessions that logs everybody out.
KickAll ==
    /\ server = "running"
    /\ \E s \in SetToSeqs({c \in Chars : place[c] = "online"}) : SavesToDB(s)
    /\ place' = [c \in Chars |-> IF place[c] = "none" THEN "none" ELSE "offline"]
    /\ loaded' = [c \in Chars |-> NoHolder]
    /\ future' = [c \in Chars |-> "none"]
    /\ server' = "kicked"
    /\ UNCHANGED <<worker, deadlockLock, mysql, bounds, refused, torn>>

\* ~DatabaseWorkerPool cancels the queue, and then joins each worker.  Nobody
\* looks any more at the promises that go with what was queued.
Close ==
    /\ server = "kicked"
    /\ queue' = Cancelled(queue)
    /\ server' = "closed"
    /\ UNCHANGED <<worker, deadlockLock, mysql, place, version, loaded, future,
                   bounds, history>>

---------------------------------------------------------------------------
(* The MySQL server, external: what it keeps for the connection of a worker.*)

\* Writes take effect for everybody.
Apply(writes) ==
    /\ rows' = [c \in Chars |->
           LET new == {x.ver : x \in {y \in writes : y.part = "row" /\ y.char = c}}
           IN IF new = {} THEN rows[c] ELSE CHOOSE v \in new : TRUE]
    /\ items' = [c \in Chars |-> items[c] \cup
           {x.ver : x \in {y \in writes : y.part = "items" /\ y.char = c}}]

Keep(w, connection) == conn' = [conn EXCEPT ![w] = connection]

\* The connection is lost, and with it the transaction it had.  Elsewhere the
\* loss shows nothing: the next statement finds it and reconnects.
Lose(w) ==
    /\ faults < MaxFaults
    /\ worker[w].at \in {"statement", "commit"} /\ conn[w].open
    /\ Keep(w, Fresh)
    /\ faults' = faults + 1
    /\ torn' = [torn EXCEPT ![worker[w].op.char] = TRUE]
    /\ UNCHANGED <<threads, rows, items, game, restarts, refused, order>>

---------------------------------------------------------------------------
(* A worker thread.  Execute reconnects when it finds the connection lost,  *)
(* and sends its statement again; it does not start the transaction again.  *)

At(w, point) == worker[w].at = point
Char(w) == worker[w].op.char
Go(w, state) == worker' = [worker EXCEPT ![w] = state]
Goto(w, at) == Go(w, [worker[w] EXCEPT !.at = at])

\* The task is deleted, and its promise with it.
Done(w) == Go(w, Waiting)

\* WorkerThread takes an operation with WaitAndPop.
Take(w) ==
    /\ At(w, "idle")
    /\ Poppable(queue)
    /\ queue' = Popped(queue)
    /\ LET op == Head(queue.items) IN
       Go(w, [Waiting EXCEPT !.op = op,
                             !.at = IF op.kind = "save" THEN "begin" ELSE "read"])
    /\ UNCHANGED <<deadlockLock, mysql, game, bounds, history>>

\* _cancelationToken is set after the pop and before its test.
Discard(w) ==
    /\ server = "closed"
    /\ worker[w].at \in {"begin", "read"} /\ worker[w].next = 1
    /\ ~worker[w].again
    /\ Done(w)
    /\ UNCHANGED <<queue, deadlockLock, mysql, game, bounds, history>>

\* START TRANSACTION, which commits what the connection may have open.
Begin(w) ==
    /\ At(w, "begin")
    /\ Apply(conn[w].writes)
    /\ Keep(w, [open |-> TRUE, writes |-> {}])
    /\ Go(w, [worker[w] EXCEPT !.at = "statement", !.next = 1])
    /\ UNCHANGED <<queue, deadlockLock, game, bounds, history>>

\* The server makes a write wait for one to the same data that is open.
Locked(w, x) ==
    \E o \in Workers \ {w} : \E y \in conn[o].writes : y.part = x.part /\ y.char = x.char

Statement(w) ==
    LET x == [part |-> Parts[worker[w].next], char |-> Char(w),
              ver |-> worker[w].op.ver] IN
    /\ At(w, "statement")
    /\ ~Locked(w, x)
    /\ \/ /\ conn[w].open
          /\ Keep(w, [conn[w] EXCEPT !.writes = @ \cup {x}])
          /\ UNCHANGED <<rows, items>>
       \/ /\ ~conn[w].open
          /\ Apply({x})
          /\ Keep(w, Fresh)
    /\ Go(w, [worker[w] EXCEPT !.next = @ + 1,
                               !.at = IF worker[w].next = Len(Parts) THEN "commit" ELSE @])
    /\ UNCHANGED <<queue, deadlockLock, game, bounds, history>>

Answer(c, v, answer) ==
    future' = IF v = 1 THEN [future EXCEPT ![c] = answer] ELSE future

\* Mutant: the lock is never given back.
StillLocked(w) == deadlockLock

Unlocked(w) == IF deadlockLock = w THEN None ELSE deadlockLock

\* COMMIT; the promise is kept only if there was no retry.
Commit(w) ==
    /\ At(w, "commit")
    /\ Apply(conn[w].writes)
    /\ Keep(w, Fresh)
    /\ Answer(Char(w), worker[w].op.ver, IF worker[w].again THEN "broken" ELSE "set")
    /\ deadlockLock' = Unlocked(w)
    /\ Done(w)
    /\ UNCHANGED <<queue, place, version, loaded, server, bounds, history>>

\* Mutant: the transaction stays open.
NotRolledBack(w) == conn' = conn

\* ROLLBACK, after a statement that was refused.
RolledBack(w) == Keep(w, Fresh)

Fails(w) ==
    /\ At(w, "statement")
    /\ faults < MaxFaults
    /\ faults' = faults + 1
    /\ RolledBack(w)
    /\ UNCHANGED <<rows, items, place, version, loaded, server, restarts,
                   torn, order>>

Refuse(w) ==
    /\ refused' = [refused EXCEPT ![Char(w)] = @ \cup {worker[w].op.ver}]
    /\ Answer(Char(w), worker[w].op.ver, "broken")
    /\ deadlockLock' = Unlocked(w)
    /\ Done(w)
    /\ UNCHANGED queue

\* Any error but a deadlock ends the transaction at the first try.
Refused(w) == Fails(w) /\ ~worker[w].again /\ Refuse(w)

\* Mutant: a deadlocked transaction is queued again.
DeadlockedLater(w) ==
    /\ Fails(w) /\ ~worker[w].again
    /\ queue' = Pushed(queue, worker[w].op)
    /\ Done(w)
    /\ UNCHANGED <<deadlockLock, future, refused>>

\* The transaction is the victim of a deadlock.
Deadlocked(w) ==
    /\ Fails(w) /\ ~worker[w].again
    /\ Goto(w, "retry")
    /\ UNCHANGED <<queue, deadlockLock, future, refused>>

\* The lock under which one worker at a time tries again.
Retry(w) ==
    /\ At(w, "retry")
    /\ deadlockLock = None
    /\ deadlockLock' = w
    /\ Go(w, [worker[w] EXCEPT !.at = "begin", !.again = TRUE])
    /\ UNCHANGED <<queue, mysql, game, bounds, history>>

\* After any error in a retry the loop goes round, within the 60 seconds.
RetryFails(w) ==
    /\ Fails(w) /\ worker[w].again
    /\ Goto(w, "begin")
    /\ UNCHANGED <<queue, deadlockLock, future, refused>>

GiveUp(w) == Fails(w) /\ worker[w].again /\ Refuse(w)

\* The next query of a holder; an error leaves the result null.
Read(w, ok) ==
    LET c == Char(w)
        got == IF worker[w].next = 1
               THEN [loaded[c] EXCEPT !.row = IF ok THEN rows[c] ELSE 0]
               ELSE [loaded[c] EXCEPT !.items = IF ok THEN items[c] ELSE {},
                                      !.ready = TRUE] IN
    /\ At(w, "read")
    /\ ok \/ faults < MaxFaults
    /\ faults' = IF ok THEN faults ELSE faults + 1
    /\ loaded' = [loaded EXCEPT ![c] = [got EXCEPT !.failed = @ \/ ~ok]]
    /\ IF worker[w].next = Len(Parts) THEN Done(w)
       ELSE Go(w, [worker[w] EXCEPT !.next = @ + 1])
    /\ UNCHANGED <<queue, deadlockLock, mysql, place, version, future,
                   server, restarts, history>>

Work(w) ==
    \/ Take(w) \/ Begin(w) \/ Statement(w) \/ Commit(w) \/ Read(w, TRUE)
    \/ Retry(w)

Trouble(w) ==
    \/ Lose(w) \/ Refused(w) \/ Deadlocked(w) \/ RetryFails(w) \/ GiveUp(w)
    \/ Read(w, FALSE)

---------------------------------------------------------------------------
(* A crash, or a start after the end: what the database has is what counts. *)

Stored(c) == Max({0, rows[c]} \cup items[c])

Restart ==
    /\ restarts < MaxRestarts
    /\ restarts' = restarts + 1
    /\ queue' = NewQueue
    /\ worker' = [w \in Workers |-> Waiting]
    /\ deadlockLock' = None
    /\ conn' = [w \in Workers |-> Fresh]
    /\ place' = [c \in Chars |-> IF Stored(c) = 0 THEN "none" ELSE "offline"]
    /\ version' = [c \in Chars |-> Stored(c)]
    /\ loaded' = [c \in Chars |-> NoHolder]
    /\ future' = [c \in Chars |-> "none"]
    /\ server' = "running"
    /\ refused' = [c \in Chars |-> {v \in refused[c] : v <= Stored(c)}]
    /\ order' = <<>>
    /\ UNCHANGED <<rows, items, faults, torn>>

Session(c) ==
    \/ Create(c) \/ CreateCallback(c) \/ Login(c) \/ HandlePlayerLogin(c)
    \/ SaveOnline(c)

Next ==
    \/ \E c \in Chars : Session(c)
    \/ \E w \in Workers : Work(w) \/ Trouble(w) \/ Discard(w)
    \/ KickAll
    \/ Close
    \/ Restart

Spec == Init /\ [][Next]_vars

\* The workers go on, and the sessions poll their futures.
FairSpec ==
    /\ Spec
    /\ \A w \in Workers : WF_vars(Work(w))
    /\ \A c \in Chars : WF_vars(HandlePlayerLogin(c))

---------------------------------------------------------------------------
(* Properties.                                                             *)

Operations == [kind : {"save", "load"}, char : Chars, ver : Nat]
Writes == [part : {"row", "items"}, char : Chars, ver : Nat \ {0}]

\* The types of the variables; who holds _deadlockLock is in a retry.
TypeOK ==
    /\ queue \in [items : Seq(Operations), shutdown : BOOLEAN]
    /\ worker \in [Workers -> [at : {"idle", "begin", "statement", "commit",
                                     "retry", "read"},
                               op : Operations \cup {None}, next : 1..3,
                               again : BOOLEAN]]
    /\ deadlockLock # None => deadlockLock \in Workers /\ worker[deadlockLock].again
    /\ conn \in [Workers -> [open : BOOLEAN, writes : SUBSET Writes]]
    /\ rows \in [Chars -> Nat]
    /\ items \in [Chars -> SUBSET (Nat \ {0})]
    /\ place \in [Chars -> {"none", "offline", "loading", "online"}]
    /\ version \in [Chars -> Nat]
    /\ loaded \in [Chars -> [row : Nat, items : SUBSET (Nat \ {0}),
                           ready : BOOLEAN, failed : BOOLEAN]]
    /\ future \in [Chars -> {"none", "pending", "set", "broken"}]
    /\ server \in {"running", "kicked", "closed"}
    /\ faults \in 0..MaxFaults /\ restarts \in 0..MaxRestarts
    /\ refused \in [Chars -> SUBSET (Nat \ {0})]
    /\ torn \in [Chars -> BOOLEAN]
    /\ order \in Seq(Operations)

\* ExecuteTransaction rolls back what fails, so that row and items in the
\* database always come from the same save, after refused statements, retries
\* and crashes too; but not after a connection was lost within a transaction,
\* whose rest is then executed without one.
TransactionsAreWhole == \A c \in Chars : torn[c] \/ rows[c] = Max({0} \cup items[c])

\* The saves reach the database in the order in which CommitTransaction queued
\* them, also those of different characters, though some are tried again: what
\* a crash or the end of the server leaves is everything up to some save, less
\* the saves that were refused.
SavesKeepTheirOrder ==
    \A j \in DOMAIN order : order[j].ver \in items[order[j].char] =>
        \A i \in 1..(j - 1) :
            \/ order[i].ver \in items[order[i].char] \cup refused[order[i].char]
            \/ torn[order[i].char]

\* HandlePlayerLogin gets what all earlier saves of the character have written:
\* a player who leaves and comes back at once does not find an older state.
LoadsSeeSaves ==
    \A c \in Chars :
        (place[c] = "loading" /\ loaded[c].ready /\ ~loaded[c].failed /\ ~torn[c]) =>
            /\ loaded[c].items = (1..version[c]) \ refused[c]
            /\ loaded[c].row = Max({0} \cup loaded[c].items)

\* A player who waits for the database gets in or is refused, whatever goes wrong
\* with the transactions before: the worker that retries one leaves its lock.
LoginsAreAnswered ==
    \A c \in Chars : (place[c] = "loading") ~> (place[c] # "loading")

\* Player.cpp:17240 on CHAR_CREATE_SUCCESS: "we need to ensure character is
\* created before sending it".
CreatedIsTold == [][\A c \in Chars : CreateCallback(c) => rows[c] > 0]_vars
=============================================================================
