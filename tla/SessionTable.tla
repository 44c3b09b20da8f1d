--------------------------- MODULE SessionTable ---------------------------
(***************************************************************************)
(* World/World.cpp and Server/WorldSession.cpp: the table of sessions, one *)
(* per account, and the login queue in front of it.                        *)
(*                                                                         *)
(* Network threads make sessions and hand them over in addSessQueue;       *)
(* sockets close and the database answers at any time.  Everything else is *)
(* the world thread: World::UpdateSessions takes the new sessions in       *)
(* (AddSession_), then updates every session of the table and removes      *)
(* those that have ended.  One AddSession_, and one WorldSession::Update   *)
(* with the removal that may follow, are a step each: the other threads    *)
(* touch only addSessQueue, the sockets and the answers of the database.   *)
(***************************************************************************)
EXTENDS Integers, Sequences, FiniteSets

CONSTANTS
    Accounts,
    Admins,         \* the accounts whose security is above SEC_PLAYER
    Sessions,       \* the sessions the network may make, each of them once
    AccountOf,      \* the account of each session
    None,           \* no session: nullptr, or no entry in the map
    Limits,         \* what SetPlayerLimit may be told; <= 0 is no limit
    Tolerance,      \* CONFIG_INTERVAL_DISCONNECT_TOLERANCE, in seconds
    Grace,          \* expireTime of a new session, in updates
    MaxTime         \* bound on the game time

ASSUME SessionConstants ==
    /\ IsFiniteSet(Accounts)
    /\ Admins \subseteq Accounts
    /\ AccountOf \in [Sessions -> Accounts]
    /\ None \notin Sessions
    /\ Limits \subseteq Int
    /\ Tolerance \in Nat
    /\ Grace \in Nat \ {0}
    /\ MaxTime \in Nat

VARIABLES
    sessions,       \* m_sessions: the session of each account, or None
    queue,          \* m_QueuedPlayer
    addQueue,       \* addSessQueue
    disconnects,    \* m_disconnects: when each account left, or Never
    inQueue,        \* m_inQueue of each session
    init,           \* _realmAccountLoginCallback of each session
    char,           \* m_playerLoading, _charLoginCallback and _player
    open,           \* the socket of each session
    forced,         \* forceExit of each session
    expire,         \* expireTime of each session
    told,           \* the position a session was last sent
    life,           \* history: "new", "adding", "listed" or "deleted"
    limit,          \* m_playerLimit
    time,           \* the game time, in seconds
    wpc,            \* where the world thread is
    todo,           \* the accounts the loop of UpdateSessions has still to visit
    stopping,       \* KickAll was called: the next UpdateSessions is the last
    raised          \* history: the limit was raised over a queue

sessionVars == <<inQueue, init, char, open, forced, expire, told, life>>
worldVars   == <<limit, time, wpc, todo, stopping, raised>>
vars == <<sessions, queue, addQueue, disconnects, sessionVars, worldVars>>

Never == -1

\* The accounts of the table, and the sessions of it that are not queued.
Listed == {a \in Accounts : sessions[a] # None}
Active(table, q) == Cardinality({a \in Accounts : table[a] # None}) - Len(q)

Unlimited == limit <= 0

---------------------------------------------------------------------------
(* The login queue.  A room is what the queue operations change:           *)
(* m_QueuedPlayer and, of each session, m_inQueue, the pending             *)
(* initialisation and the position told.                                   *)

Room == [queue |-> queue, inQueue |-> inQueue, init |-> init, told |-> told]

TakeRoom(r) ==
    /\ queue' = r.queue
    /\ inQueue' = r.inQueue
    /\ init' = r.init
    /\ told' = r.told

Position(q, s) == CHOOSE i \in DOMAIN q : q[i] = s
Queued(q, s)   == \E i \in DOMAIN q : q[i] = s

\* Mutant: the iterator to the front is erased.
WithoutFront(q, i) == Tail(q)

Without(q, i) == SubSeq(q, 1, i - 1) \o SubSeq(q, i + 1, Len(q))

\* Mutant: nobody asks the database.
InitializeNothing(r, s) == r

\* InitializeSession asks the database; the answer comes in its own time.
InitializeSession(r, s) == [r EXCEPT !.init[s] = "asked"]

\* AddQueuedPlayer: to the back, and told so.
AddQueuedPlayer(r, s) ==
    [r EXCEPT !.queue = Append(@, s),
              !.inQueue[s] = TRUE,
              !.told[s] = Len(r.queue) + 1]

\* Mutant: the session that moved up to place i is not told.
SendPositionsAfter(r, q, i) ==
    [r EXCEPT !.queue = q,
              !.told = [s \in Sessions |->
                           IF Queued(q, s) /\ Position(q, s) > i
                           THEN Position(q, s) ELSE @[s]]]

\* SendAuthWaitQue to the sessions of q from position i on.
SendPositions(r, q, i) ==
    [r EXCEPT !.queue = q,
              !.told = [s \in Sessions |->
                           IF Queued(q, s) /\ Position(q, s) >= i
                           THEN Position(q, s) ELSE @[s]]]

\* Mutants: one session too many; the session that goes is still counted.
HasPlaceForOneMore(count) == Unlimited \/ count <= limit
CountAll(found, active)   == active

HasPlace(count) == Unlimited \/ count < limit

\* How many are active without a session that was found in the queue or goes.
CountOthers(found, active) == IF found \/ active = 0 THEN active ELSE active - 1

\* RemoveQueuedPlayer, with that many active sessions: s leaves the queue or,
\* if it is not there, counts as a session that goes; if there is a place
\* then, the front of the queue has it.
RemoveQueuedPlayer(r, s, active) ==
    LET found == Queued(r.queue, s)
        at    == IF found THEN Position(r.queue, s) ELSE Len(r.queue) + 1
        rest  == IF found THEN Without(r.queue, at) ELSE r.queue
        left  == IF found THEN [r EXCEPT !.inQueue[s] = FALSE] ELSE r
    IN  IF rest # <<>> /\ HasPlace(CountOthers(found, active))
        THEN SendPositions(InitializeSession(left, Head(rest)), Tail(rest), 1)
        ELSE SendPositions(left, rest, at)

\* The memory of a deleted session is gone; what was there is forgotten.
Freed(r, s) == [r EXCEPT !.inQueue[s] = FALSE, !.init[s] = "none", !.told[s] = 0]

\* World.cpp:348 subtracts the present from the past.
HasRecentlyDisconnected(a) ==
    /\ Tolerance > 0
    /\ disconnects[a] # Never
    /\ disconnects[a] - time < Tolerance

---------------------------------------------------------------------------
Init ==
    /\ sessions = [a \in Accounts |-> None]
    /\ queue = <<>>
    /\ addQueue = <<>>
    /\ disconnects = [a \in Accounts |-> Never]
    /\ inQueue = [s \in Sessions |-> FALSE]
    /\ init = [s \in Sessions |-> "none"]
    /\ char = [s \in Sessions |-> "none"]
    /\ open = [s \in Sessions |-> TRUE]
    /\ forced = [s \in Sessions |-> FALSE]
    /\ expire = [s \in Sessions |-> Grace]
    /\ told = [s \in Sessions |-> 0]
    /\ life = [s \in Sessions |-> "new"]
    /\ limit \in Limits
    /\ time = 0
    /\ wpc = "outside"
    /\ todo = {}
    /\ stopping = FALSE
    /\ raised = FALSE

(* The other threads.                                                      *)

\* HandleAuthSessionCallback makes a session and calls World::AddSession.
AddSession(s) ==
    /\ life[s] = "new"
    /\ wpc # "stopped"
    /\ life' = [life EXCEPT ![s] = "adding"]
    /\ addQueue' = Append(addQueue, s)
    /\ UNCHANGED <<sessions, queue, disconnects, inQueue, init, char, open,
                   forced, expire, told, worldVars>>

\* The client goes, or the connection is idle for too long.
CloseSocket(s) ==
    /\ life[s] \in {"adding", "listed"}
    /\ open[s]
    /\ wpc # "stopped"
    /\ open' = [open EXCEPT ![s] = FALSE]
    /\ UNCHANGED <<sessions, queue, addQueue, disconnects, inQueue, init, char,
                   forced, expire, told, life, worldVars>>

\* A database thread has run the queries of InitializeSession.
InitQueriesDone(s) ==
    /\ life[s] = "listed"
    /\ init[s] = "asked"
    /\ wpc # "stopped"
    /\ init' = [init EXCEPT ![s] = "ready"]
    /\ UNCHANGED <<sessions, queue, addQueue, disconnects, inQueue, char, open,
                   forced, expire, told, life, worldVars>>

\* A database thread has run the queries of HandlePlayerLoginOpcode.
LoginQueriesDone(s) ==
    /\ life[s] = "listed"
    /\ char[s] = "loading"
    /\ wpc # "stopped"
    /\ char' = [char EXCEPT ![s] = "ready"]
    /\ UNCHANGED <<sessions, queue, addQueue, disconnects, inQueue, init, open,
                   forced, expire, told, life, worldVars>>

---------------------------------------------------------------------------
(* The world thread outside UpdateSessions.                                *)

\* KickPlayer, of each session of S.
Kicked(S) ==
    /\ open' = [s \in Sessions |-> open[s] /\ s \notin S]
    /\ forced' = [s \in Sessions |-> forced[s] \/ s \in S]

UpdateGameTime ==
    /\ wpc = "outside"
    /\ time < MaxTime
    /\ time' = time + 1
    /\ UNCHANGED <<sessions, queue, addQueue, disconnects, sessionVars, limit,
                   wpc, todo, stopping, raised>>

SetPlayerLimit(l) ==
    /\ wpc = "outside"
    /\ l # limit
    /\ limit' = l
    /\ raised' = (raised \/ (queue # <<>> /\ (l <= 0 \/ l > limit)))
    /\ UNCHANGED <<sessions, queue, addQueue, disconnects, sessionVars, time,
                   wpc, todo, stopping>>

\* A security limit is set: the sessions below it are kicked.
KickAllLess ==
    /\ wpc = "outside"
    /\ Kicked({sessions[a] : a \in Listed \ Admins})
    /\ UNCHANGED <<sessions, queue, addQueue, disconnects, inQueue, init, char,
                   expire, told, life, worldVars>>

\* The server shuts down.
KickAll ==
    /\ wpc = "outside"
    /\ queue' = <<>>
    /\ Kicked({sessions[a] : a \in Listed})
    /\ stopping' = TRUE
    /\ UNCHANGED <<sessions, addQueue, disconnects, inQueue, init, char, expire,
                   told, life, limit, time, wpc, todo, raised>>

---------------------------------------------------------------------------
(* World::UpdateSessions                                                   *)

BeginUpdateSessions ==
    /\ wpc = "outside"
    /\ wpc' = "adding"
    /\ UNCHANGED <<sessions, queue, addQueue, disconnects, sessionVars, limit,
                   time, todo, stopping, raised>>

\* The account of s is still loading a player: the newcomer is refused.
RefuseSession(s) ==
    /\ open' = [open EXCEPT ![s] = FALSE]
    /\ forced' = [forced EXCEPT ![s] = TRUE]
    /\ life' = [life EXCEPT ![s] = "deleted"]
    /\ UNCHANGED <<sessions, queue, inQueue, init, char, expire, told>>

\* Mutant: the test of the security is negated.
PlaceSessionOfAdmin(r, s, others) ==
    TakeRoom(IF /\ ~Unlimited
                /\ others >= limit
                /\ AccountOf[s] \in Admins
                /\ ~HasRecentlyDisconnected(AccountOf[s])
             THEN AddQueuedPlayer(r, s)
             ELSE InitializeSession(r, s))

\* The newcomer s is sent to the queue or initialised, in the room that the
\* session it replaces has left; `others` is what it counts before itself.
PlaceSession(r, s, others) ==
    TakeRoom(IF /\ ~Unlimited
                /\ others >= limit
                /\ AccountOf[s] \notin Admins
                /\ ~HasRecentlyDisconnected(AccountOf[s])
             THEN AddQueuedPlayer(r, s)
             ELSE InitializeSession(r, s))

\* Mutant: the session that was replaced is not deleted.
ListedBeside(s, old) == [life EXCEPT ![s] = "listed"]

\* s is in the table now, and old, if there was one, is deleted.
ListedFor(s, old) ==
    [x \in Sessions |-> IF x = s THEN "listed" ELSE IF x = old THEN "deleted" ELSE life[x]]

\* The newcomer s takes its account's place in the table; the session that
\* was there is kicked and deleted.  A queued one that it replaces is not
\* taken off the count.
AcceptSession(s) ==
    LET a     == AccountOf[s]
        old   == sessions[a]
        table == [sessions EXCEPT ![a] = s]
        size  == Cardinality({b \in Accounts : table[b] # None})
    IN  /\ sessions' = table
        /\ life' = ListedFor(s, old)
        /\ IF old = None
           THEN /\ PlaceSession(Room, s, size - 1)
                /\ UNCHANGED <<char, open, forced, expire>>
           ELSE /\ PlaceSession(
                       Freed(RemoveQueuedPlayer(Room, old, Active(sessions, queue)), old),
                       s, IF Queued(queue, old) THEN size ELSE size - 1)
                /\ char' = [char EXCEPT ![old] = "none"]
                /\ Kicked({old})
                /\ expire' = [expire EXCEPT ![old] = Grace]

PlayerLoading(s) == char[s] \in {"loading", "ready"}

\* Mutant: a session that is loading a player is replaced like any other.
AddSessionOverLoading ==
    /\ wpc = "adding"
    /\ addQueue # <<>>
    /\ addQueue' = Tail(addQueue)
    /\ AcceptSession(Head(addQueue))
    /\ raised' = (raised /\ queue' # <<>>)
    /\ UNCHANGED <<disconnects, limit, time, wpc, todo, stopping>>

AddSession_ ==
    /\ wpc = "adding"
    /\ addQueue # <<>>
    /\ addQueue' = Tail(addQueue)
    /\ LET s == Head(addQueue)
           old == sessions[AccountOf[s]]
       IN  IF old # None /\ PlayerLoading(old)
           THEN RefuseSession(s)
           ELSE AcceptSession(s)
    /\ raised' = (raised /\ queue' # <<>>)
    /\ UNCHANGED <<disconnects, limit, time, wpc, todo, stopping>>

\* addSessQueue is empty, at that moment: the loop over the table begins.
SessionsAdded ==
    /\ wpc = "adding"
    /\ addQueue = <<>>
    /\ wpc' = "updating"
    /\ todo' = Listed
    /\ UNCHANGED <<sessions, queue, addQueue, disconnects, sessionVars, limit,
                   time, stopping, raised>>

\* Mutant: a packet of a queued session is handled like any other.
CharAfterQueueSkipped(s) ==
    CASE char[s] = "none"    -> {"none", "loading"}
      [] char[s] = "loading" -> {"loading"}
      [] char[s] = "ready"   -> {"playing", "none"}
      [] char[s] = "playing" -> {"playing", "none"}

\* What packets, the answer of the login queries and a logout can make of a
\* session's character in one Update: only a session out of the queue starts
\* to load one, and a character that cannot be loaded ends the session.
CharAfter(s) ==
    CASE char[s] = "none"    -> IF inQueue[s] THEN {"none"} ELSE {"none", "loading"}
      [] char[s] = "loading" -> {"loading"}
      [] char[s] = "ready"   -> {"playing", "none"}
      [] char[s] = "playing" -> {"playing", "none"}

\* InitializeSessionCallback, if the answer is there.
AfterCallback(s) ==
    IF init[s] = "ready"
    THEN [Room EXCEPT !.init[s] = "done", !.inQueue[s] = FALSE, !.told[s] = 0]
    ELSE Room

\* The session has ended: its place goes to the queue and it is deleted.
\* RemoveQueuedPlayer is called twice.
RemoveSession(a, room) ==
    LET s    == sessions[a]
        once == RemoveQueuedPlayer(room, s, Active(sessions, room.queue))
        twice == RemoveQueuedPlayer(once, s, Active(sessions, once.queue))
    IN  /\ TakeRoom(Freed(twice, s))
        /\ disconnects' = IF ~Queued(queue, s) /\ Tolerance > 0
                          THEN [disconnects EXCEPT ![a] = time]
                          ELSE disconnects
        /\ sessions' = [sessions EXCEPT ![a] = None]
        /\ life' = [life EXCEPT ![s] = "deleted"]
        /\ char' = [char EXCEPT ![s] = "none"]
        /\ expire' = [expire EXCEPT ![s] = Grace]
        /\ Kicked({s})

\* Mutant: the time a closed session has left does not run.
CountNothing(e) == e

\* expireTime, which stops at zero.
CountDown(e) == IF e > 0 THEN e - 1 ELSE e

\* WorldSession::Update of the session of account a, and its removal if the
\* socket has been closed for the time of grace, by force, or with no player.
UpdateSession(a) ==
    LET s == sessions[a] IN
    /\ wpc = "updating"
    /\ a \in todo
    /\ todo' = todo \ {a}
    /\ \E c \in CharAfter(s) :
         LET failed == char[s] = "ready" /\ c = "none"
             closed == failed \/ ~open[s]
             left   == IF closed THEN CountDown(expire[s]) ELSE expire[s]
         IN IF closed /\ (left = 0 \/ failed \/ forced[s] \/ c # "playing")
            THEN RemoveSession(a, AfterCallback(s))
            ELSE /\ TakeRoom(AfterCallback(s))
                 /\ char' = [char EXCEPT ![s] = c]
                 /\ expire' = [expire EXCEPT ![s] = left]
                 /\ UNCHANGED <<sessions, disconnects, open, forced, life>>
    /\ raised' = (raised /\ queue' # <<>>)
    /\ UNCHANGED <<addQueue, limit, time, wpc, stopping>>

\* Every session has been visited.  The UpdateSessions of a shutdown is the
\* last thing the world thread does here.
EndUpdateSessions ==
    /\ wpc = "updating"
    /\ todo = {}
    /\ wpc' = IF stopping THEN "stopped" ELSE "outside"
    /\ UNCHANGED <<sessions, queue, addQueue, disconnects, sessionVars, limit,
                   time, todo, stopping, raised>>

WorldThread ==
    \/ BeginUpdateSessions \/ AddSession_ \/ SessionsAdded
    \/ (\E a \in Accounts : UpdateSession(a)) \/ EndUpdateSessions

Database == \E s \in Sessions : InitQueriesDone(s) \/ LoginQueriesDone(s)

Network == \E s \in Sessions : AddSession(s) \/ CloseSocket(s)

Commands ==
    \/ UpdateGameTime \/ KickAllLess \/ KickAll
    \/ \E l \in Limits : SetPlayerLimit(l)

Next == WorldThread \/ Database \/ Network \/ Commands

Spec == Init /\ [][Next]_vars

\* The world thread goes round its loop until the server stops, and the
\* database answers.  The first is WF_vars(WorldThread), whose ENABLED is
\* wpc # "stopped": in this form it is cheap to check.
FairSpec ==
    /\ Spec
    /\ []<>(wpc = "stopped") \/ []<><<WorldThread>>_vars
    /\ \A s \in Sessions : WF_vars(InitQueriesDone(s)) /\ WF_vars(LoginQueriesDone(s))

---------------------------------------------------------------------------
(* Properties                                                              *)

TypeOK ==
    /\ sessions \in [Accounts -> Sessions \cup {None}]
    /\ queue \in Seq(Sessions)
    /\ addQueue \in Seq(Sessions)
    /\ disconnects \in [Accounts -> 0 .. MaxTime \cup {Never}]
    /\ inQueue \in [Sessions -> BOOLEAN]
    /\ init \in [Sessions -> {"none", "asked", "ready", "done"}]
    /\ char \in [Sessions -> {"none", "loading", "ready", "playing"}]
    /\ open \in [Sessions -> BOOLEAN]
    /\ forced \in [Sessions -> BOOLEAN]
    /\ expire \in [Sessions -> 0 .. Grace]
    /\ told \in [Sessions -> Nat]
    /\ life \in [Sessions -> {"new", "adding", "listed", "deleted"}]
    /\ limit \in Limits
    /\ time \in 0 .. MaxTime
    /\ wpc \in {"outside", "adding", "updating", "stopped"}
    /\ todo \subseteq Accounts
    /\ stopping \in BOOLEAN
    /\ raised \in BOOLEAN

\* No session is lost or kept after it was deleted: those of the table are
\* the ones taken in and not deleted, and each account's is its own.
TableHoldsTheLiving ==
    \A s \in Sessions : life[s] = "listed" <=> sessions[AccountOf[s]] = s

\* The queue holds live sessions, each once, none of them yet initialised
\* and each of them marked as waiting.
QueueHoldsTheWaiting ==
    /\ \A i, j \in DOMAIN queue : queue[i] = queue[j] => i = j
    /\ \A i \in DOMAIN queue :
         /\ life[queue[i]] = "listed"
         /\ init[queue[i]] = "none"
         /\ inQueue[queue[i]]

\* What each client in the queue was last told is the place it has.
PositionsAreTold == \A i \in DOMAIN queue : told[queue[i]] = i

\* No character is loaded for a session the queue has not let through.
NobodySkipsTheQueue == \A s \in Sessions : char[s] # "none" => init[s] # "none"

\* A place is not left empty while somebody waits for it, unless the limit
\* was raised: SetPlayerLimit does not look at the queue.
PlacesAreUsed ==
    queue # <<>> /\ ~raised => ~Unlimited /\ Active(sessions, queue) >= limit

\* Players beyond the limit are those the limit does not hold for: a step
\* that makes the sessions more than the limit lets one of those in.
Privileged(a) == a \in Admins \/ HasRecentlyDisconnected(a)
LimitIsKept ==
    [][ LET before == Active(sessions, queue)
            after  == Active(sessions', queue')
        IN  after > before /\ ~Unlimited /\ after > limit /\ ~stopping'
              => \E s \in Sessions : /\ life[s] # "listed"
                                     /\ life'[s] = "listed"
                                     /\ Privileged(AccountOf[s])
      ]_vars

\* A newcomer whom the limit holds for does not pass those who wait.
NoOvertaking ==
    [][ \A s \in Sessions :
          /\ life[s] = "adding"
          /\ life'[s] = "listed"
          /\ queue' # <<>>
          /\ ~raised'
          /\ ~Queued(queue', s)
          => Privileged(AccountOf[s])
      ]_vars

\* A second connection of an account does not cut off the loading of a
\* player: a session is deleted while it loads one only with its socket closed.
LoadingIsNotCutOff ==
    [][ \A s \in Sessions :
          PlayerLoading(s) /\ life[s] = "listed" /\ life'[s] = "deleted"
              => ~open'[s] /\ AccountOf[s] \in todo
      ]_vars

\* A session whose socket is closed leaves the table, unless the server stops.
ClosedSessionsLeave ==
    \A s \in Sessions : (life[s] = "listed" /\ ~open[s])
                           ~> (life[s] = "deleted" \/ wpc = "stopped")

\* A session handed over is put in the queue, initialised or deleted, unless
\* the server stops.
NewcomersAreAnswered ==
    \A s \in Sessions : life[s] = "adding"
        ~> (Queued(queue, s) \/ init[s] = "done" \/ life[s] = "deleted" \/ wpc = "stopped")

\* worldserver.conf.dist:284: "Tolerance for disconnected players before
\* putting in the queue. (in seconds)": a player who has been away for longer
\* than that is not let past the queue.
ToleranceExpires ==
    \A a \in Accounts : HasRecentlyDisconnected(a) => time - disconnects[a] <= Tolerance
===========================================================================
