------------------------- MODULE BattlegroundQueue -------------------------
(***************************************************************************)
(* Battlegrounds/: the queue of one battleground type and one bracket, the *)
(* battlegrounds made from it, and the way of the players through them.    *)
(*                                                                         *)
(* Three places count the same players: a player has a queue slot, the     *)
(* queue has his group, the battleground has the number it has invited.    *)
(* Nothing ties them together: every handler changes each of them by hand, *)
(* the invitation runs out by an event that was made when it was sent, and *)
(* between the port and the arrival the player is in none of the lists.    *)
(*                                                                         *)
(* All of it is the world thread: handlers, then BattlegroundMgr::Update,  *)
(* so each is one step.  Battleground.InvitationType is 0, its default.    *)
(* What a step does to the state is written as operators on a record of    *)
(* the state, as one update makes many such changes one after the other.   *)
(***************************************************************************)
EXTENDS Integers, Sequences, FiniteSets, SequencesExt

CONSTANTS
    Players,
    TeamOf,             \* "ally" or "horde" for each player
    MaxBgs,             \* bound on the instance ids
    MinPlayers,         \* GetMinPlayersPerTeam
    MaxPlayers,         \* GetMaxPlayersPerTeam
    Wait,               \* INVITE_ACCEPT_WAIT_TIME, in updates
    CountSize           \* of an invited count: 2^32

Teams == {"ally", "horde"}
Kinds == {"premade", "normal"}
Bgs == 1 .. MaxBgs

\* Instance id 0 is no battleground, and in a queue slot no invitation.
None == 0
NoSlot == -1

ASSUME BattlegroundConstants ==
    /\ IsFiniteSet(Players)
    /\ TeamOf \in [Players -> Teams]
    /\ {MaxBgs, MinPlayers, MaxPlayers, Wait} \subseteq Nat \ {0}
    /\ MinPlayers <= MaxPlayers
    /\ CountSize \in Nat /\ Cardinality(Players) < CountSize

VARIABLES
    queue,      \* m_QueuedGroups: for each kind and team, groups in order
    events,     \* the BGQueueRemoveEvents: player, bg, updates that are left
    slot,       \* the queue slot: NoSlot, None or the battleground invited to
    place,      \* where a player is: see Places
    at,         \* bgInstanceID of each player, or None
    bg,         \* the battlegrounds
    freeSlots,  \* BGFreeSlotQueue
    scheduled,  \* m_QueueUpdateScheduler is not empty
    stale       \* the battlegrounds whose id was still held when they were
                \* made: the code does not keep it, see StartMatch

vars == <<queue, events, slot, place, at, bg, freeSlots, scheduled, stale>>

\* "entering" is a far teleport the client has not confirmed, "offline" is
\* in a battleground.  Who is offline elsewhere or on the way out does what
\* a player who is "out" may do, which is nothing.
Places == {"out", "entering", "inside", "offline"}

\* "join", "progress" and "leave" are STATUS_WAIT_JOIN, STATUS_IN_PROGRESS
\* and STATUS_WAIT_LEAVE.  A deleted battleground leaves its map ("map").
NoBg == [status |-> "none", players |-> {}, delete |-> FALSE,
         invited |-> [t \in Teams |-> 0]]

Init ==
    /\ queue = [k \in Kinds |-> [t \in Teams |-> <<>>]]
    /\ events = {}
    /\ slot = [p \in Players |-> NoSlot]
    /\ place = [p \in Players |-> "out"]
    /\ at = [p \in Players |-> None]
    /\ bg = [b \in Bgs |-> NoBg]
    /\ freeSlots = <<>>
    /\ scheduled = FALSE
    /\ stale = {}

\* The state as a record, and the step to the state of such a record.  The
\* bound on the ids is noted in it: cut is an update that the model leaves
\* out, as it needs an instance id too many (StartMatch).
Now == [queue |-> queue, events |-> events, slot |-> slot, place |-> place,
        at |-> at, bg |-> bg, freeSlots |-> freeSlots,
        scheduled |-> scheduled, stale |-> stale, cut |-> FALSE]

Become(s) ==
    /\ queue' = s.queue /\ events' = s.events /\ slot' = s.slot
    /\ place' = s.place /\ at' = s.at /\ bg' = s.bg
    /\ freeSlots' = s.freeSlots /\ scheduled' = s.scheduled
    /\ stale' = s.stale

Exists(s, b) == b \in Bgs /\ s.bg[b].status \in {"join", "progress", "leave"}

InTeam(S, t) == {p \in S : TeamOf[p] = t}

\* The groups of a queue state, and the one a player is in.
Groups(q) == UNION {UNION {ToSet(q[k][t]) : t \in Teams} : k \in Kinds}
Queued(q) == UNION {g.players : g \in Groups(q)}
GroupOf(q, p) == CHOOSE g \in Groups(q) : p \in g.players

\* Who holds a place in battleground b: those in a group that is invited to
\* it, those on the way, and those it has in m_Players, online or not.
Holders(s, b) ==
    {p \in Queued(s.queue) : GroupOf(s.queue, p).bg = b}
    \cup {p \in Players : s.place[p] = "entering" /\ s.at[p] = b}
    \cup s.bg[b].players

\* An invited count is unsigned: below zero it goes on from the other end.
Wrapped(n) == IF n < 0 THEN n + CountSize
              ELSE IF n >= CountSize THEN n - CountSize ELSE n

\* DecreaseInvitedCount, n times.
Uninvite(record, t, n) == [record EXCEPT !.invited[t] = Wrapped(@ - n)]

(***************************************************************************)
(* BattlegroundQueue                                                       *)
(***************************************************************************)

\* AddGroup: the group S of one team at the end of its queue.
AddGroup(s, S, kind) ==
    LET t == TeamOf[CHOOSE p \in S : TRUE]
        g == [players |-> S, bg |-> None, left |-> 0]
    IN  [s EXCEPT !.queue[kind][t] = Append(@, g),
                  !.slot = [p \in Players |->
                                IF p \in S THEN None ELSE @[p]],
                  !.scheduled = TRUE]

\* Mutant: an empty group stays in the queue.
RemovePlayersOnly(s, S, decrease) ==
    [s EXCEPT !.queue = [k \in Kinds |-> [t \in Teams |->
        [n \in DOMAIN @[k][t] |-> [@[k][t][n] EXCEPT !.players = @ \ S]]]]]

\* The groups without the players S; a group that is empty then goes.
Without(groups, S) ==
    LET keep(kept, g) == IF g.players \subseteq S THEN kept
                         ELSE Append(kept, [g EXCEPT !.players = @ \ S])
    IN  FoldLeft(keep, <<>>, groups)

\* RemovePlayer for the players S: with decrease the battleground that
\* invited them is told.
RemovePlayers(s, S, decrease) ==
    LET told(b, t) == {p \in InTeam(S, t) : /\ decrease
                                            /\ p \in Queued(s.queue)
                                            /\ GroupOf(s.queue, p).bg = b}
    IN  [s EXCEPT
            !.queue = [k \in Kinds |-> [t \in Teams |->
                Without(@[k][t], S)]],
            !.bg = [b \in Bgs |->
                IF Exists(s, b)
                THEN Uninvite(Uninvite(@[b], "ally",
                                       Cardinality(told(b, "ally"))),
                              "horde", Cardinality(told(b, "horde")))
                ELSE @[b]]]

\* Mutant: one event for each group.
InviteGroupsByLeader(s, G, b) ==
    LET invitees == UNION {g.players : g \in G}
        leaders == {CHOOSE p \in g.players : TRUE : g \in G}
        marked(g) == IF g \in G THEN [g EXCEPT !.bg = b, !.left = Wait] ELSE g
    IN  [s EXCEPT
            !.queue = [k \in Kinds |-> [t \in Teams |->
                [n \in DOMAIN @[k][t] |-> marked(@[k][t][n])]]],
            !.bg[b].invited = [t \in Teams |->
                Wrapped(@[t] + Cardinality(InTeam(invitees, t)))],
            !.slot = [p \in Players |-> IF p \in invitees THEN b ELSE @[p]],
            !.events = @ \cup
                {[player |-> p, bg |-> b, left |-> Wait] : p \in leaders}]

\* InviteGroupToBG for the groups G: they are marked with the time at which
\* the invitation runs out, the places are counted, and each player has a
\* removal event of his own.
InviteGroups(s, G, b) ==
    LET invitees == UNION {g.players : g \in G}
        marked(g) == IF g \in G THEN [g EXCEPT !.bg = b, !.left = Wait] ELSE g
    IN  [s EXCEPT
            !.queue = [k \in Kinds |-> [t \in Teams |->
                [n \in DOMAIN @[k][t] |-> marked(@[k][t][n])]]],
            !.bg[b].invited = [t \in Teams |->
                Wrapped(@[t] + Cardinality(InTeam(invitees, t)))],
            !.slot = [p \in Players |-> IF p \in invitees THEN b ELSE @[p]],
            !.events = @ \cup
                {[player |-> p, bg |-> b, left |-> Wait] : p \in invitees}]

\* SelectionPool: groups without an invitation are taken in order, one that
\* is too large for what is left of most is passed over, and the search
\* ends with enough players.
Pool(groups, enough, most) ==
    LET take(pool, g) ==
            IF /\ g.bg = None
               /\ pool.count < enough
               /\ pool.count + Cardinality(g.players) <= most
            THEN [taken |-> pool.taken \cup {g},
                  count |-> pool.count + Cardinality(g.players)]
            ELSE pool
    IN  FoldLeft(take, [taken |-> {}, count |-> 0], groups)

Other(t) == IF t = "ally" THEN "horde" ELSE "ally"
Smaller(m, n) == IF m <= n THEN m ELSE n

\* Mutant: a running battleground fills up whatever the other side has.
GetFreeSlotsAnyway(record, t) ==
    IF record.invited[t] < MaxPlayers THEN MaxPlayers - record.invited[t] ELSE 0

\* GetFreeSlotsForTeam.
GetFreeSlotsForTeam(record, t) ==
    LET invited == record.invited[t]
        others  == record.invited[Other(t)]
        inside  == Cardinality(InTeam(record.players, t))
        beside  == Cardinality(InTeam(record.players, Other(t)))
        room    == IF invited < MaxPlayers THEN MaxPlayers - invited ELSE 0
        \* one when the sides are even, else what the other side has more
        byInvited == IF others = invited THEN 1
                     ELSE IF others > invited THEN others - invited ELSE 0
        byInside  == IF beside = inside THEN 1
                     ELSE IF beside > inside THEN beside - inside
                     ELSE IF invited <= MinPlayers
                          THEN MinPlayers - invited + 1 ELSE 0
    IN  IF record.status = "join" THEN room
        ELSE Smaller(Smaller(byInvited, room), byInside)

\* FillPlayersToBG and the invitations that follow, for one battleground.
FillPlayersToBG(s, b) ==
    LET free(t) == GetFreeSlotsForTeam(s.bg[b], t)
        picked == UNION {Pool(s.queue["normal"][t], free(t), free(t)).taken :
                            t \in Teams}
        filled == InviteGroups(s, picked, b)
    IN  IF Cardinality(filled.bg[b].players) < 2 * MaxPlayers
        THEN filled
        ELSE [filled EXCEPT !.freeSlots = RemoveFirst(@, b)]

\* CreateNewBattleground, the invitations and StartBattleground.  The id is
\* the lowest that is free.  A battleground may be deleted while players are
\* invited to it or on their way (Delete); their groups keep the id, and the
\* next battleground that gets it cannot tell them from its own: it is noted
\* as stale.
FreeIds(s) == {b \in Bgs : s.bg[b].status = "none"}

StartMatch(s, G) ==
    LET b == CHOOSE i \in FreeIds(s) : \A j \in FreeIds(s) : i <= j
        made == [s EXCEPT
                    !.bg[b] = [NoBg EXCEPT !.status = "join"],
                    !.stale = IF Holders(s, b) = {} THEN @ \ {b}
                              ELSE @ \cup {b}]
    IN  IF FreeIds(s) = {}
        THEN [s EXCEPT !.cut = TRUE]
        ELSE [InviteGroups(made, G, b) EXCEPT !.freeSlots = <<b>> \o @]

\* CheckPremadeMatch: the first premade group of each team that waits, and
\* from the normal queues what evens the pools out at the smaller of them.
Waiting(groups) == {n \in DOMAIN groups : groups[n].bg = None}

PremadeMatch(q) == \A t \in Teams : Waiting(q["premade"][t]) # {}

PremadeGroups(q) ==
    LET first(t) == q["premade"][t][Min(Waiting(q["premade"][t]))]
        size(t) == Cardinality(first(t).players)
        most == Smaller(size("ally"), size("horde"))
    IN  UNION {{first(t)} \cup
               Pool(q["normal"][t], most - size(t), most - size(t)).taken :
                    t \in Teams}

\* Without a premade match the first group of a premade queue that is in T,
\* having waited for long, or that has lost too many moves to the head of
\* the normal queue.
MovePremades(q, T) ==
    LET moves(t) == /\ q["premade"][t] # <<>>
                    /\ Head(q["premade"][t]).bg = None
                    /\ \/ t \in T
                       \/ Cardinality(Head(q["premade"][t]).players) < MinPlayers
    IN  [k \in Kinds |-> [t \in Teams |->
            IF ~moves(t) THEN q[k][t]
            ELSE IF k = "premade" THEN Tail(q[k][t])
            ELSE <<Head(q["premade"][t])>> \o q[k][t]]]

\* CheckNormalMatch.
NormalPool(q, t) == Pool(q["normal"][t], MinPlayers, MaxPlayers)
NormalMatch(q) == \A t \in Teams : NormalPool(q, t).count >= MinPlayers

CheckPremadeMatch(s, T) ==
    IF PremadeMatch(s.queue)
    THEN StartMatch(s, PremadeGroups(s.queue))
    ELSE [s EXCEPT !.queue = MovePremades(@, T)]

CheckNormalMatch(s) ==
    IF NormalMatch(s.queue)
    THEN StartMatch(s, UNION {NormalPool(s.queue, t).taken : t \in Teams})
    ELSE s

\* BattlegroundQueueUpdate: room in the battlegrounds there are first.
BattlegroundQueueUpdate(s, T) ==
    IF Groups(s.queue) = {} THEN s
    ELSE CheckNormalMatch(
            CheckPremadeMatch(FoldLeft(FillPlayersToBG, s, s.freeSlots), T))

(***************************************************************************)
(* Battleground                                                            *)
(***************************************************************************)

\* Mutant: who left is still counted as invited.
RemovePlayerStillInvited(s, p, b) ==
    LET online == s.place[p] = "inside"
        removed ==
            IF p \notin s.bg[b].players THEN s
            ELSE [s EXCEPT !.bg[b].players = @ \ {p},
                           !.slot[p] = IF online THEN NoSlot ELSE @]
    IN  IF online
        THEN [removed EXCEPT !.at[p] = None, !.place[p] = "out"]
        ELSE removed

Delist(record, p) ==
    Uninvite([record EXCEPT !.players = @ \ {p}], TeamOf[p], 1)

\* RemovePlayerAtLeave.  Who is not online is taken from the lists only.  If
\* nobody is left and nobody invited, the battleground is marked and the
\* function returns: the last player stays where he is.
RemovePlayerAtLeave(s, p, b) ==
    LET online == s.place[p] = "inside"
        running == s.bg[b].status # "leave"
        removed ==
            IF p \notin s.bg[b].players THEN s
            ELSE [s EXCEPT
                    !.bg[b] = Delist(@, p),
                    !.slot[p] = IF online THEN NoSlot ELSE @,
                    !.freeSlots = IF running /\ b \notin ToSet(@)
                                  THEN <<b>> \o @ ELSE @,
                    !.scheduled = @ \/ running]
        empty == /\ removed.bg[b].players = {}
                 /\ \A t \in Teams : removed.bg[b].invited[t] = 0
    IN  IF empty THEN [removed EXCEPT !.bg[b].delete = TRUE]
        ELSE IF online
             THEN [removed EXCEPT !.at[p] = None, !.place[p] = "out"]
             ELSE removed

\* One after the other.
LeaveAll(s, b, S) ==
    LET leave(p, r) == RemovePlayerAtLeave(r, p, b)
    IN  FoldSet(leave, s, S)

\* delete bg, by BattlegroundMgr::Update.  Nobody asks whether a player has
\* been invited since it was marked: queue, slots and players stay as they
\* are.
Delete(s, b) ==
    [s EXCEPT
        !.bg[b] = [NoBg EXCEPT !.status = "map"],
        !.freeSlots = RemoveFirst(@, b)]

\* Battleground::Update and the deletion after it, for a battleground from
\* which the players last are to go: one who has been offline for too long,
\* or, two minutes after the end, everybody with last as the last.
Update(s, b, last) ==
    LET others == IF s.bg[b].status = "leave" /\ last # {}
                  THEN s.bg[b].players \ last ELSE {}
        updated == LeaveAll(LeaveAll(s, b, others), b, last)
    IN  IF updated.bg[b].delete THEN Delete(updated, b) ELSE updated

UpdateAll(s, last) ==
    LET update(r, b) == Update(r, b, last \cap r.bg[b].players)
    IN  FoldLeft(update, s, [b \in Bgs |-> b])

\* Those who may be last there.
MayGo(b) ==
    {p \in bg[b].players : \/ bg[b].status = "progress" /\ place[p] = "offline"
                           \/ bg[b].status = "leave"}

(***************************************************************************)
(* BattlegroundMgr::Update                                                 *)
(***************************************************************************)

\* Mutant: removeTime is not compared.
IsPlayerInvitedToIt(q, e) ==
    /\ e.player \in Queued(q)
    /\ GroupOf(q, e.player).bg = e.bg

\* BGQueueRemoveEvent::Execute removes the player if he is invited, and by
\* the invitation the event was made for.
IsPlayerInvited(q, e) ==
    /\ e.player \in Queued(q)
    /\ GroupOf(q, e.player).bg = e.bg
    /\ GroupOf(q, e.player).left = e.left

\* Time passes for the invitations and their events alike.
Aged(g) == [g EXCEPT !.left = IF @ > 0 THEN @ - 1 ELSE 0]

Older(s) ==
    [s EXCEPT
        !.events = {Aged(e) : e \in @},
        !.queue = [k \in Kinds |-> [t \in Teams |->
            [n \in DOMAIN @[k][t] |-> Aged(@[k][t][n])]]]]

UpdateEvents(s) ==
    LET ready == {e \in s.events : e.left = 0}
        removing == {e \in ready : /\ s.place[e.player] # "offline"
                                   /\ s.slot[e.player] # NoSlot
                                   /\ IsPlayerInvited(s.queue, e)}
        evicted == {e.player : e \in removing}
        telling == {e \in removing : /\ Exists(s, e.bg)
                                     /\ s.bg[e.bg].status # "leave"}
    IN  [RemovePlayers(s, evicted, TRUE) EXCEPT
            !.events = @ \ ready,
            !.slot = [p \in Players |-> IF p \in evicted THEN NoSlot ELSE @[p]],
            !.scheduled = @ \/ telling # {}]

UpdateScheduled(s, T) ==
    IF s.scheduled
    THEN BattlegroundQueueUpdate([s EXCEPT !.scheduled = FALSE], T)
    ELSE s

\* The battlegrounds are updated once in a second, the events and the queue
\* each time.
ManagerUpdates ==
    \E second \in BOOLEAN, last \in SUBSET UNION {MayGo(b) : b \in Bgs},
       T \in SUBSET {t \in Teams : queue["premade"][t] # <<>>} :
        /\ ~second => last = {}
        /\ \A b \in Bgs : Cardinality(last \cap bg[b].players) <= 1
        /\ LET updated == IF second THEN UpdateAll(Now, last) ELSE Now
               next == UpdateScheduled(UpdateEvents(Older(updated)), T)
           IN  ~next.cut /\ Become(next)

(***************************************************************************)
(* The players                                                             *)
(***************************************************************************)

\* _HandleBattlegroundJoin.
Join(p) ==
    /\ place[p] = "out" /\ slot[p] = NoSlot
    /\ Become(AddGroup(Now, {p}, "normal"))

\* The same for a party; one that is large enough is a premade.
JoinAsGroup(S) ==
    /\ Cardinality(S) \in 2 .. MaxPlayers
    /\ \A p, o \in S : TeamOf[p] = TeamOf[o]
    /\ \A p \in S : place[p] = "out" /\ slot[p] = NoSlot
    /\ Become(AddGroup(Now, S, IF Cardinality(S) >= MinPlayers
                               THEN "premade" ELSE "normal"))

\* HandleBattleFieldPortOpcode, action 1: out of the queue, still invited.
Port(p) ==
    /\ place[p] = "out" /\ p \in Queued(queue) /\ slot[p] \in Bgs
    /\ LET b == GroupOf(queue, p).bg
       IN  /\ Exists(Now, b)
           /\ Become([RemovePlayers(Now, {p}, FALSE) EXCEPT
                        !.at[p] = b, !.place[p] = "entering"])

\* Action 0, and action 1 of a player who may not enter any more.
LeaveQueue(p) ==
    /\ place[p] = "out" /\ p \in Queued(queue)
    /\ Become([RemovePlayers(Now, {p}, TRUE) EXCEPT
                    !.slot[p] = NoSlot, !.scheduled = TRUE])

\* HandleMoveWorldportAck into the battleground: if it is gone, so may be
\* its map, and the player is sent away; to a map that still is he goes.
Arrive(p) ==
    /\ place[p] = "entering"
    /\ LET b == at[p]
       IN  IF bg[b].status = "none"
           THEN Become([Now EXCEPT !.place[p] = "out", !.at[p] = None])
           ELSE IF Exists(Now, b) /\ slot[p] = b
           THEN Become([Now EXCEPT !.place[p] = "inside",
                                   !.bg[b].players = @ \cup {p}])
           ELSE Become([Now EXCEPT !.place[p] = "inside"])

\* HandleBattlefieldLeaveOpcode.
LeaveBattleground(p) ==
    /\ place[p] = "inside" /\ Exists(Now, at[p])
    /\ Become(RemovePlayerAtLeave(Now, p, at[p]))

\* TeleportTo another map, which leaves the battleground if it still is.
TeleportTo(p) ==
    /\ place[p] = "inside"
    /\ LET s == IF Exists(Now, at[p])
                THEN RemovePlayerAtLeave(Now, p, at[p]) ELSE Now
       IN  Become([s EXCEPT !.place[p] = "out", !.at[p] = None])

\* LogoutPlayer (a pending teleport ends first): the queue is told, but no
\* update is scheduled; in a battleground the place is kept for a while.
LogoutPlayer(p) ==
    /\ \/ place[p] = "inside"
       \/ place[p] = "out" /\ slot[p] # NoSlot
    /\ Become([RemovePlayers(Now, {p}, TRUE) EXCEPT
                    !.slot[p] = NoSlot,
                    !.place[p] = IF @ = "inside" THEN "offline" ELSE "out"])

\* LoadFromDB: back into the battleground that still counts the player, or
\* to the entry point.
Login(p) ==
    /\ place[p] = "offline"
    /\ LET b == at[p]
           counted == Exists(Now, b) /\ p \in bg[b].players
           outside(s) == [s EXCEPT !.place[p] = "out", !.at[p] = None]
       IN  IF counted /\ bg[b].status # "leave"
           THEN Become([Now EXCEPT !.place[p] = "inside", !.slot[p] = b])
           ELSE IF counted
           THEN Become(outside(RemovePlayerAtLeave(Now, p, b)))
           ELSE Become(outside(Now))

(***************************************************************************)
(* The battlegrounds                                                       *)
(***************************************************************************)

\* The doors open; it needs somebody inside.
Start(b) ==
    /\ bg[b].status = "join" /\ bg[b].players # {}
    /\ Become([Now EXCEPT !.bg[b].status = "progress"])

\* EndBattleground.
EndBattleground(b) ==
    /\ bg[b].status = "progress" /\ bg[b].players # {}
    /\ Become([Now EXCEPT !.bg[b].status = "leave",
                          !.freeSlots = RemoveFirst(@, b)])

\* MapInstanced::DestroyInstance: the map of a deleted battleground sends
\* away who is there, and its id is free.
DestroyInstance(b) ==
    /\ bg[b].status = "map"
    /\ LET sent == {p \in Players : place[p] = "inside" /\ at[p] = b}
       IN  Become([Now EXCEPT
                !.bg[b].status = "none",
                !.place = [p \in Players |-> IF p \in sent THEN "out" ELSE @[p]],
                !.at = [p \in Players |-> IF p \in sent THEN None ELSE @[p]]])

Next ==
    \/ ManagerUpdates
    \/ \E p \in Players :
        \/ Join(p) \/ Port(p) \/ LeaveQueue(p)
        \/ Arrive(p) \/ LeaveBattleground(p) \/ TeleportTo(p)
        \/ LogoutPlayer(p) \/ Login(p)
    \/ \E S \in SUBSET Players : JoinAsGroup(S)
    \/ \E b \in Bgs : Start(b) \/ EndBattleground(b) \/ DestroyInstance(b)

Spec == Init /\ [][Next]_vars

-----------------------------------------------------------------------------

Group == [players : (SUBSET Players) \ {{}}, bg : Bgs \cup {None},
          left : 0 .. Wait]

\* The state of the queue and the battlegrounds has its type: each queued
\* player is in one group, and a group in one queue.
TypeOK ==
    /\ DOMAIN queue = Kinds
    /\ \A k \in Kinds, t \in Teams : ToSet(queue[k][t]) \subseteq Group
    /\ \A g, h \in Groups(queue) : g # h => g.players \cap h.players = {}
    /\ events \subseteq [player : Players, bg : Bgs, left : 1 .. Wait]
    /\ slot \in [Players -> {NoSlot, None} \cup Bgs]
    /\ place \in [Players -> Places]
    /\ at \in [Players -> Bgs \cup {None}]
    /\ \A b \in Bgs :
        /\ bg[b].status \in {"none", "join", "progress", "leave", "map"}
        /\ bg[b].players \subseteq Players
        /\ bg[b].invited \in [Teams -> 0 .. CountSize - 1]
        /\ bg[b].delete \in BOOLEAN
    /\ ToSet(freeSlots) \subseteq Bgs
    /\ scheduled \in BOOLEAN
    /\ stale \subseteq Bgs

\* The invited count of a battleground is the number of players that hold a
\* place in it: with one more it would never be filled or deleted, with one
\* less it would be overbooked.  It holds of every battleground whose id
\* nobody held any more when it was made.  Of the others it does not: a
\* battleground that was marked (Battleground.cpp:1082) is still offered
\* (1067) and deleted under those who were invited to it
\* (BattlegroundMgr.cpp:86-95), and when their invitation ends, a new one
\* with the same id is told (BattleGroundQueue.cpp:338-340).
InvitedCountIsExact ==
    \A b \in Bgs \ stale, t \in Teams :
        Exists(Now, b) =>
            bg[b].invited[t] = Cardinality(InTeam(Holders(Now, b), t))

\* Every player of an invited group has an event that will end the
\* invitation, and it is of this invitation, not of an earlier one.
InvitationsRunOut ==
    \A g \in Groups(queue) : g.bg # None =>
        \A p \in g.players :
            [player |-> p, bg |-> g.bg, left |-> g.left] \in events

\* The update takes nobody out of the queue but who has had his invitation
\* for the whole time: the event of an earlier invitation to the same
\* battleground does nothing (the five cases above Execute).  The events
\* change in no other step.
OnlyOverdueAreRemoved ==
    [][events' # events =>
        \A p \in Queued(queue) \ Queued(queue') : GroupOf(queue, p).left = 1]_vars

\* Those invited into a battleground that runs do not unbalance it: after
\* an update the teams differ by no more than before, or by one.  A stale
\* battleground is excepted, as its counts are not those of its players.
Difference(record) ==
    LET a == record.invited["ally"]
        h == record.invited["horde"]
    IN  IF a >= h THEN a - h ELSE h - a

FillKeepsBalance ==
    [][\A b \in Bgs \ stale :
        (/\ bg[b].status = "progress" /\ bg'[b].status = "progress"
         /\ \E t \in Teams : bg'[b].invited[t] > bg[b].invited[t])
        => Difference(bg'[b]) <= 1 \/ Difference(bg'[b]) <= Difference(bg[b])]_vars

\* Battleground.cpp:1084: the function returns to prevent the addition of a
\* battleground that will be deleted to the queue of those with free slots.
DeletedAreNotOffered ==
    \A b \in ToSet(freeSlots) : ~bg[b].delete
=============================================================================
