---------------------- MODULE BattlegroundQueueProofs ----------------------
(***************************************************************************)
(* Proofs about BattlegroundQueue, for every finite set of players, any    *)
(* number of battlegrounds, any sizes of the teams and any time to accept: *)
(* that the invited counts are exact but for the battlegrounds whose id    *)
(* was still held when they were made, that every invitation runs out and  *)
(* none but those that have, and that filling a running battleground does  *)
(* not unbalance it.                                                       *)
(*                                                                         *)
(* First how the players leave a battleground and how it is deleted, then  *)
(* the events, then one lemma for each action, then the theorems.          *)
(***************************************************************************)
EXTENDS BattlegroundQueueLemmas

\* What the agreements are about is the same.
LEMMA SameKeeps ==
    ASSUME NEW s, Consistent(s), NEW r \in State,
           r.queue = s.queue, r.events = s.events, r.slot = s.slot,
           r.place = s.place, r.at = s.at, r.stale = s.stale, r.freeSlots = s.freeSlots,
           \A b \in Bgs : /\ Exists(r, b) <=> Exists(s, b)
                          /\ r.bg[b].players = s.bg[b].players
                          /\ r.bg[b].invited = s.bg[b].invited
    PROVE  Consistent(r)
<1>1. /\ s \in State /\ GroupsApart(s.queue)
      /\ SlotsAgree(s) /\ PlacesAgree(s) /\ ListsAgree(s)
      /\ FreeAgree(s) /\ CountsAgree(s) /\ EventsAgree(s)
  BY DEF Consistent
<1>2. \A c : Exists(r, c) <=> Exists(s, c)
  BY DEF Exists
<1>3. SlotsAgree(r) /\ PlacesAgree(r)
  BY <1>1, <1>2 DEF SlotsAgree, PlacesAgree
<1>4. ListsAgree(r)
  BY <1>1, <1>2 DEF ListsAgree
<1>5. FreeAgree(r) /\ EventsAgree(r)
  BY <1>1, <1>2 DEF FreeAgree, EventsAgree
<1>6. CountsAgree(r)
  <2>1. \A c \in Bgs : HoldersIn(r, c) = HoldersIn(s, c)
    BY DEF HoldersIn
  <2> QED
    BY <2>1, <1>1, <1>2 DEF CountsAgree
<1> QED
  BY <1>1, <1>3, <1>4, <1>5, <1>6 DEF Consistent

\* From s to r no count has risen but of battlegrounds that are stale.
CountsFall(r, s) ==
    \A c \in Bgs : c \notin s.stale /\ Exists(s, c) /\ Exists(r, c) =>
        \A t \in Teams : r.bg[c].invited[t] <= s.bg[c].invited[t]

LEMMA CountsFallRefl ==
    ASSUME NEW s \in State, NEW r,
           \A c \in Bgs, t \in Teams : r.bg[c].invited[t] = s.bg[c].invited[t]
    PROVE  CountsFall(r, s)
<1>1. \A c \in Bgs, t \in Teams : s.bg[c].invited[t] \in Int
  BY StateFields, BattlegroundFields
<1> QED
  BY <1>1 DEF CountsFall

LEMMA CountsFallTrans ==
    ASSUME NEW s \in State, NEW r \in State, NEW q \in State,
           r.stale = s.stale, \A c \in Bgs : Exists(q, c) => Exists(r, c),
           CountsFall(r, s), CountsFall(q, r)
    PROVE  CountsFall(q, s)
<1>1. \A c \in Bgs, t \in Teams : /\ s.bg[c].invited[t] \in Int
                                  /\ r.bg[c].invited[t] \in Int
                                  /\ q.bg[c].invited[t] \in Int
  BY StateFields, BattlegroundFields
<1>2. ASSUME NEW c \in Bgs, c \notin s.stale, Exists(s, c), Exists(q, c), NEW t \in Teams
      PROVE  q.bg[c].invited[t] <= s.bg[c].invited[t]
  <2>1. /\ q.bg[c].invited[t] <= r.bg[c].invited[t]
        /\ r.bg[c].invited[t] <= s.bg[c].invited[t]
    BY <1>2 DEF CountsFall
  <2> QED
    BY <2>1, <1>1
<1> QED
  BY <1>2 DEF CountsFall

\* Player p leaves the list of battleground b, which counts him no more.
LEMMA DelistedKeeps ==
    ASSUME NEW s, Consistent(s), NEW b \in Bgs, NEW p \in s.bg[b].players,
           NEW r \in State,
           r.queue = s.queue, r.events = s.events,
           r.place = s.place, r.at = s.at, r.stale = s.stale, r.freeSlots = s.freeSlots,
           \A o \in Players : \/ r.slot[o] = s.slot[o]
                              \/ o = p /\ r.slot[o] = NoSlot,
           \A c \in Bgs : r.bg[c].status = s.bg[c].status,
           \A c \in Bgs : c # b => r.bg[c] = s.bg[c],
           r.bg[b].players = s.bg[b].players \ {p},
           \A t \in Teams : r.bg[b].invited[t] =
               IF t = TeamOf[p] THEN Wrapped(s.bg[b].invited[t] - 1)
               ELSE s.bg[b].invited[t]
    PROVE  Consistent(r) /\ CountsFall(r, s)
<1>1. /\ s \in State /\ s.queue \in Queues /\ GroupsApart(s.queue)
      /\ SlotsAgree(s) /\ PlacesAgree(s) /\ ListsAgree(s)
      /\ FreeAgree(s) /\ CountsAgree(s) /\ EventsAgree(s)
      /\ s.bg[b] \in Battleground
  BY StateFields DEF Consistent
<1>2. \A c : Exists(r, c) <=> Exists(s, c)
  BY DEF Exists
<1>3. /\ p \in Players /\ Exists(s, b) /\ s.at[p] = b
      /\ s.place[p] \in {"inside", "offline"}
  BY <1>1, BattlegroundFields DEF ListsAgree
<1>4. Queued(s.queue) \in SUBSET Players /\ p \notin Queued(s.queue)
  <2>1. Queued(s.queue) \in SUBSET Players
    BY <1>1, GroupsAreGroups
  <2>2. ~(s.place[p] = "out")
    BY <1>3
  <2> QED
    BY <2>1, <2>2, <1>1, SlotOfQueued
<1>5. SlotsAgree(r)
  <2> SUFFICES ASSUME NEW g \in Groups(s.queue), NEW o \in g.players
               PROVE  s.place[o] = "out" /\ r.slot[o] = g.bg
    BY DEF SlotsAgree
  <2>1. o \in Queued(s.queue)
    BY InQueued
  <2> QED
    BY <2>1, <1>1, <1>4 DEF SlotsAgree
<1>7. PlacesAgree(r)
  BY <1>1, <1>3 DEF PlacesAgree
<1>8. ListsAgree(r)
  <2> SUFFICES ASSUME NEW c \in Bgs, NEW o \in r.bg[c].players
               PROVE  Exists(r, c) /\ r.at[o] = c /\ r.place[o] \in {"inside", "offline"}
    BY DEF ListsAgree
  <2>1. o \in s.bg[c].players
    OBVIOUS
  <2> QED
    BY <2>1, <1>1, <1>2 DEF ListsAgree
<1>9. FreeAgree(r) /\ EventsAgree(r)
  BY <1>1, <1>2 DEF FreeAgree, EventsAgree
<1>10. ASSUME NEW c \in Bgs, c \notin s.stale, Exists(s, c), NEW t \in Teams
       PROVE  /\ r.bg[c].invited[t] = Cardinality(InTeam(HoldersIn(r, c), t))
              /\ r.bg[c].invited[t] <= s.bg[c].invited[t]
  <2>1. /\ s.bg[c].invited[t] = Cardinality(InTeam(HoldersIn(s, c), t))
        /\ s.bg[c].invited[t] \in Int
    BY <1>1, <1>10, StateFields, BattlegroundFields DEF CountsAgree
  <2>2. {o \in Queued(r.queue) : r.slot[o] = c} = {o \in Queued(s.queue) : s.slot[o] = c}
    BY <1>4
  <2>3. CASE c # b
    <3>1. HoldersIn(r, c) = HoldersIn(s, c)
      BY <2>2, <2>3 DEF HoldersIn
    <3> QED
      BY <3>1, <2>1, <2>3
  <2>4. CASE c = b
    <3>1. HoldersIn(r, b) = HoldersIn(s, b) \ {p}
      BY <2>2, <2>4, <1>3, <1>4 DEF HoldersIn
    <3> DEFINE A == HoldersIn(s, b)
               m == Cardinality(InTeam(A, t))
               n == Cardinality(InTeam({p}, t))
    <3>2. A \in SUBSET Players /\ {p} \in SUBSET A
      BY <1>1, HoldersArePlayers DEF HoldersIn
    <3> HIDE DEF A
    <3>3. Cardinality(InTeam(A \ {p}, t)) = m - n /\ n <= m
      BY <3>2, TeamCountMinus
    <3>4. n = IF TeamOf[p] = t THEN 1 ELSE 0
      <4>1. p \in Players
        BY <1>3
      <4> QED
        BY <4>1, TeamCountOne, Zenon
    <3>5. m \in Counts /\ n \in Counts /\ m \in Int
      BY <3>2, <1>3, TeamCount
    <3>6. s.bg[b].invited[t] = m
      BY <2>1, <2>4 DEF A
    <3> HIDE DEF m, n
    <3>7. Wrapped(m - n) = m - n
      BY <3>3, <3>5, WrappedIs
    <3>8. r.bg[b].invited[t] = m - n /\ m - n <= m
      BY <3>4, <3>5, <3>6, <3>7
    <3> QED
      BY <3>1, <3>3, <3>6, <3>8, <2>4 DEF A
  <2> QED
    BY <2>3, <2>4
<1>11. CountsAgree(r) /\ CountsFall(r, s)
  BY <1>2, <1>10 DEF CountsAgree, CountsFall
<1> QED
  BY <1>1, <1>5, <1>7, <1>8, <1>9, <1>11 DEF Consistent

\* Players that no battleground lists go out.
LEMMA SentOutKeeps ==
    ASSUME NEW s, Consistent(s), NEW S \in SUBSET Players,
           \A p \in S : /\ s.place[p] \in {"inside", "offline"}
                        /\ \A c \in Bgs : p \notin s.bg[c].players,
           NEW r \in State,
           r.queue = s.queue, r.events = s.events, r.slot = s.slot,
           r.bg = s.bg, r.freeSlots = s.freeSlots, r.stale = s.stale,
           \A p \in Players :
               /\ r.place[p] = IF p \in S THEN "out" ELSE s.place[p]
               /\ r.at[p] = IF p \in S THEN None ELSE s.at[p]
    PROVE  Consistent(r)
<1>1. /\ s \in State /\ s.queue \in Queues /\ GroupsApart(s.queue)
      /\ SlotsAgree(s) /\ PlacesAgree(s) /\ ListsAgree(s)
      /\ FreeAgree(s) /\ CountsAgree(s) /\ EventsAgree(s)
  BY StateFields DEF Consistent
<1>2. \A c : Exists(r, c) <=> Exists(s, c)
  BY DEF Exists
<1>3. /\ \A g \in Groups(s.queue) : g.players \in SUBSET Players
      /\ \A c \in Bgs : s.bg[c].players \in SUBSET Players
  BY <1>1, GroupsAreGroups, GroupFields, StateFields DEF Battleground
<1>4. SlotsAgree(r)
  BY <1>1, <1>3 DEF SlotsAgree
<1>5. PlacesAgree(r)
  BY <1>1, <1>2 DEF PlacesAgree
<1>6. ListsAgree(r)
  <2> SUFFICES ASSUME NEW c \in Bgs, NEW o \in s.bg[c].players
               PROVE  Exists(r, c) /\ r.at[o] = c /\ r.place[o] \in {"inside", "offline"}
    BY DEF ListsAgree
  <2>1. o \in Players /\ o \notin S
    BY <1>3
  <2> QED
    BY <2>1, <1>1, <1>2 DEF ListsAgree
<1>7. FreeAgree(r) /\ EventsAgree(r)
  BY <1>1, <1>2 DEF FreeAgree, EventsAgree
<1>8. CountsAgree(r)
  <2>1. \A c \in Bgs : HoldersIn(r, c) = HoldersIn(s, c)
    <3> SUFFICES ASSUME NEW c \in Bgs
                 PROVE  {p \in Players : r.place[p] = "entering" /\ r.at[p] = c} =
                        {p \in Players : s.place[p] = "entering" /\ s.at[p] = c}
      BY DEF HoldersIn
    <3>1. \A p \in S : s.place[p] # "entering"
      OBVIOUS
    <3> QED
      BY <3>1
  <2> QED
    BY <2>1, <1>1, <1>2 DEF CountsAgree
<1> QED
  BY <1>1, <1>4, <1>5, <1>6, <1>7, <1>8 DEF Consistent

\* Those of X that are inside are in battleground b.
There(s, b, X) == \A p \in X : s.place[p] = "inside" => s.at[p] = b

\* From s to r some of the players X of battleground b have left it.
Left(r, s, b, X) ==
    /\ r \in State
    /\ r.queue = s.queue /\ r.events = s.events /\ r.stale = s.stale
    /\ \A c \in Bgs : r.bg[c].status = s.bg[c].status
    /\ Consistent(s) /\ There(s, b, X) =>
           Consistent(r) /\ There(r, b, X) /\ CountsFall(r, s)

\* Nobody leaves, or one after the other.
LEMMA LeftRefl ==
    ASSUME NEW s \in State, NEW b, NEW X
    PROVE  Left(s, s, b, X)
BY CountsFallRefl DEF Left

LEMMA LeftTrans ==
    ASSUME NEW s \in State, NEW r, NEW q, NEW b, NEW X, Left(r, s, b, X), Left(q, r, b, X)
    PROVE  Left(q, s, b, X)
<1>1. r \in State /\ q \in State /\ r.stale = s.stale
  BY DEF Left
<1>2. \A c \in Bgs : Exists(q, c) => Exists(r, c)
  BY DEF Left, Exists
<1>3. CountsFall(r, s) /\ CountsFall(q, r) => CountsFall(q, s)
  BY <1>1, <1>2, CountsFallTrans
<1> QED
  BY <1>1, <1>3 DEF Left

\* The record of a battleground that player p has left.
LEMMA DelistedRecord ==
    ASSUME NEW x \in Battleground, NEW p \in Players, NEW y,
           y = Delist(x, p)
    PROVE  /\ y \in Battleground
           /\ y.status = x.status /\ y.delete = x.delete /\ y.players = x.players \ {p}
           /\ \A t \in Teams : y.invited[t] =
                  IF t = TeamOf[p] THEN Wrapped(x.invited[t] - 1) ELSE x.invited[t]
<1> DEFINE z == [x EXCEPT !.players = @ \ {p}]
<1>1. /\ z \in Battleground /\ z.status = x.status /\ z.delete = x.delete
      /\ z.players = x.players \ {p} /\ z.invited = x.invited
  BY DEF Battleground
<1>2. y = Uninvite(z, TeamOf[p], 1) /\ TeamOf[p] \in Teams /\ 1 \in Counts
  <2>1. Cardinality(InTeam({p}, TeamOf[p])) = 1
    BY TeamCountOne, Zenon
  <2>2. Cardinality(InTeam({p}, TeamOf[p])) \in Counts
    BY TeamCount
  <2> QED
    BY <2>1, <2>2, Constants DEF Delist
<1> DEFINE n == 1
           u == TeamOf[p]
<1>3. y = Uninvite(z, u, n) /\ u \in Teams /\ n \in Counts /\ n = 1 /\ u = TeamOf[p]
  BY <1>2
<1> HIDE DEF z, n, u
<1>4. /\ Uninvite(z, u, n) \in Battleground
      /\ Uninvite(z, u, n).status = z.status
      /\ Uninvite(z, u, n).players = z.players
      /\ Uninvite(z, u, n).delete = z.delete
      /\ \A t \in Teams : Uninvite(z, u, n).invited[t] =
             IF t = u THEN Wrapped(z.invited[t] - n) ELSE z.invited[t]
  BY <1>1, <1>3, UninviteIs
<1> QED
  BY <1>1, <1>3, <1>4

\* The three things that RemovePlayerAtLeave may do.
Delisted(s, b, p, v, running) ==
    [s EXCEPT !.bg[b] = Delist(@, p),
              !.slot[p] = v,
              !.freeSlots = IF running /\ b \notin ToSet(@) THEN <<b>> \o @ ELSE @,
              !.scheduled = @ \/ running]

Marked(s, b) == [s EXCEPT !.bg[b].delete = TRUE]

Sent(s, p) == [s EXCEPT !.at[p] = None, !.place[p] = "out"]

\* What RemovePlayerAtLeave does to the lists and the counts.
LEMMA DelistedIs ==
    ASSUME NEW s \in State, NEW b \in Bgs, NEW p \in s.bg[b].players,
           NEW v \in {NoSlot, None} \cup Bgs, NEW running \in BOOLEAN, NEW r,
           r = Delisted(s, b, p, v, running),
           v = NoSlot \/ v = s.slot[p]
    PROVE  /\ r \in State /\ r.queue = s.queue /\ r.events = s.events
           /\ r.place = s.place /\ r.at = s.at /\ r.stale = s.stale /\ r.cut = s.cut
           /\ \A c \in Bgs : /\ r.bg[c].status = s.bg[c].status
                             /\ r.bg[c].delete = s.bg[c].delete
           /\ r.bg[b].players = s.bg[b].players \ {p}
           /\ Consistent(s) => Consistent(r) /\ CountsFall(r, s)
<1>1. /\ s.bg \in [Bgs -> Battleground] /\ s.bg[b] \in Battleground
      /\ s.slot \in [Players -> {NoSlot, None} \cup Bgs] /\ s.freeSlots \in Seq(Bgs)
      /\ s.scheduled \in BOOLEAN
  BY StateFields
<1>2. p \in Players
  BY <1>1, BattlegroundFields
<1> DEFINE y == Delist(s.bg[b], p)
           m == [s.bg EXCEPT ![b] = y]
           l == [s.slot EXCEPT ![p] = v]
           f == IF running /\ b \notin ToSet(s.freeSlots) THEN <<b>> \o s.freeSlots
                ELSE s.freeSlots
           w == s.scheduled \/ running
           d == [s EXCEPT !.bg = m, !.slot = l]
<1>3. r = [s EXCEPT !.bg = m, !.slot = l, !.freeSlots = f, !.scheduled = w]
  BY DEF Delisted
<1>4. /\ y \in Battleground
      /\ y.status = s.bg[b].status /\ y.delete = s.bg[b].delete
      /\ y.players = s.bg[b].players \ {p}
      /\ \A t \in Teams : y.invited[t] =
             IF t = TeamOf[p] THEN Wrapped(s.bg[b].invited[t] - 1)
             ELSE s.bg[b].invited[t]
  <2>1. y = Delist(s.bg[b], p)
    OBVIOUS
  <2> HIDE DEF y
  <2> QED
    BY <1>1, <1>2, <2>1, DelistedRecord
<1> HIDE DEF y
<1>5. m \in [Bgs -> Battleground] /\ m[b] = y /\ \A c \in Bgs : c # b => m[c] = s.bg[c]
  BY <1>1, <1>4
<1>6. l \in [Players -> {NoSlot, None} \cup Bgs]
  BY <1>1
<1>7. \A o \in Players : l[o] = s.slot[o] \/ (o = p /\ l[o] = NoSlot)
  BY <1>1, <1>2
<1>8. f \in Seq(Bgs) /\ (f = s.freeSlots \/ (f = <<b>> \o s.freeSlots /\ b \notin ToSet(s.freeSlots)))
  <2> DEFINE e == <<b>> \o s.freeSlots
  <2>1. e \in Seq(Bgs)
    BY <1>1, ElementsOfCons
  <2>2. f = IF running /\ b \notin ToSet(s.freeSlots) THEN e ELSE s.freeSlots
    OBVIOUS
  <2> HIDE DEF e, f
  <2>3. f \in Seq(Bgs) /\ (f = s.freeSlots \/ (f = e /\ b \notin ToSet(s.freeSlots)))
    BY <1>1, <2>1, <2>2
  <2> QED
    BY <2>3 DEF e
<1>9. w \in BOOLEAN
  BY <1>1
<1> HIDE DEF m, l, f, w
<1>10. /\ r \in State /\ r.queue = s.queue /\ r.events = s.events
       /\ r.place = s.place /\ r.at = s.at /\ r.stale = s.stale /\ r.cut = s.cut
       /\ r.bg = m /\ r.slot = l /\ r.freeSlots = f
  BY <1>3, <1>5, <1>6, <1>8, <1>9 DEF State
<1>11. /\ d \in State /\ d.queue = s.queue /\ d.events = s.events
       /\ d.place = s.place /\ d.at = s.at /\ d.stale = s.stale
       /\ d.bg = m /\ d.slot = l /\ d.freeSlots = s.freeSlots
  BY <1>5, <1>6 DEF State
<1> HIDE DEF d
<1>12. \A c \in Bgs : m[c].status = s.bg[c].status /\ m[c].delete = s.bg[c].delete
  BY <1>4, <1>5
<1>13. Consistent(s) => Consistent(r) /\ CountsFall(r, s)
  <2> SUFFICES ASSUME Consistent(s) PROVE Consistent(r) /\ CountsFall(r, s)
    OBVIOUS
  <2>1. \A c \in Bgs : d.bg[c].status = s.bg[c].status
    BY <1>11, <1>12
  <2>2. \A c \in Bgs : c # b => d.bg[c] = s.bg[c]
    BY <1>11, <1>5
  <2>3. /\ d.bg[b].players = s.bg[b].players \ {p}
        /\ \A t \in Teams : d.bg[b].invited[t] =
             IF t = TeamOf[p] THEN Wrapped(s.bg[b].invited[t] - 1)
             ELSE s.bg[b].invited[t]
    BY <1>11, <1>5, <1>4
  <2>4. \A o \in Players : d.slot[o] = s.slot[o] \/ (o = p /\ d.slot[o] = NoSlot)
    BY <1>11, <1>7
  <2>5. Consistent(d) /\ CountsFall(d, s)
    BY <1>11, <2>1, <2>2, <2>3, <2>4, DelistedKeeps
  <2>8. CountsFall(r, s)
    BY <2>5, <1>10, <1>11 DEF CountsFall, Exists
  <2>6. CASE f = s.freeSlots
    <3>1. \A c \in Bgs : /\ Exists(r, c) <=> Exists(d, c)
                         /\ r.bg[c].players = d.bg[c].players
                         /\ r.bg[c].invited = d.bg[c].invited
      BY <1>10, <1>11 DEF Exists
    <3> QED
      BY <2>5, <2>6, <2>8, <3>1, <1>10, <1>11, SameKeeps
  <2>7. CASE f = <<b>> \o s.freeSlots /\ b \notin ToSet(s.freeSlots)
    <3>1. Exists(d, b)
      <4>1. Exists(s, b)
        BY DEF Consistent, ListsAgree
      <4> QED
        BY <4>1, <2>1 DEF Exists
    <3> QED
      BY <2>5, <2>7, <2>8, <3>1, <1>10, <1>11, FreedKeeps
  <2> QED
    BY <1>8, <2>6, <2>7
<1> QED
  BY <1>4, <1>5, <1>10, <1>12, <1>13

\* A battleground is marked as to be deleted.
LEMMA MarkedIs ==
    ASSUME NEW s \in State, NEW b \in Bgs, NEW r, r = Marked(s, b)
    PROVE  /\ r \in State /\ r.queue = s.queue /\ r.events = s.events
           /\ r.place = s.place /\ r.at = s.at /\ r.stale = s.stale /\ r.cut = s.cut
           /\ \A c \in Bgs : /\ r.bg[c].status = s.bg[c].status
                             /\ r.bg[c].players = s.bg[c].players
                             /\ r.bg[c].invited = s.bg[c].invited
           /\ Consistent(s) => Consistent(r)
<1>1. s.bg \in [Bgs -> Battleground] /\ s.bg[b] \in Battleground
  BY StateFields
<1> DEFINE y == [s.bg[b] EXCEPT !.delete = TRUE]
           m == [s.bg EXCEPT ![b] = y]
<1>2. r = [s EXCEPT !.bg = m]
  BY DEF Marked
<1>3. /\ y \in Battleground /\ y.status = s.bg[b].status
      /\ y.players = s.bg[b].players /\ y.invited = s.bg[b].invited
  BY <1>1 DEF Battleground
<1> HIDE DEF y
<1>4. m \in [Bgs -> Battleground] /\ m[b] = y /\ \A c \in Bgs : c # b => m[c] = s.bg[c]
  BY <1>1, <1>3
<1> HIDE DEF m
<1>5. /\ r \in State /\ r.queue = s.queue /\ r.events = s.events /\ r.slot = s.slot
      /\ r.place = s.place /\ r.at = s.at /\ r.stale = s.stale /\ r.cut = s.cut
      /\ r.bg = m /\ r.freeSlots = s.freeSlots
  BY <1>2, <1>4 DEF State
<1>6. \A c \in Bgs : /\ r.bg[c].status = s.bg[c].status
                     /\ r.bg[c].players = s.bg[c].players
                     /\ r.bg[c].invited = s.bg[c].invited
  BY <1>3, <1>4, <1>5
<1>7. Consistent(s) => Consistent(r)
  <2> SUFFICES ASSUME Consistent(s) PROVE Consistent(r)
    OBVIOUS
  <2>1. \A c \in Bgs : Exists(r, c) <=> Exists(s, c)
    BY <1>6 DEF Exists
  <2> QED
    BY <2>1, <1>5, <1>6, SameKeeps
<1> QED
  BY <1>5, <1>6, <1>7

\* A player is sent out.
LEMMA SentIs ==
    ASSUME NEW s \in State, NEW p \in Players, NEW r, r = Sent(s, p)
    PROVE  /\ r \in State /\ r.queue = s.queue /\ r.events = s.events
           /\ r.bg = s.bg /\ r.stale = s.stale /\ r.cut = s.cut
           /\ \A o \in Players : /\ r.place[o] = IF o = p THEN "out" ELSE s.place[o]
                                 /\ r.at[o] = IF o = p THEN None ELSE s.at[o]
           /\ (/\ Consistent(s) /\ s.place[p] \in {"inside", "offline"}
               /\ p \notin s.bg[s.at[p]].players)
              => Consistent(r)
<1>1. s.place \in [Players -> Places] /\ s.at \in [Players -> Bgs \cup {None}]
  BY StateFields
<1> DEFINE a == [s.at EXCEPT ![p] = None]
           l == [s.place EXCEPT ![p] = "out"]
<1>2. r = [s EXCEPT !.at = a, !.place = l]
  BY DEF Sent
<1>3. a \in [Players -> Bgs \cup {None}] /\ l \in [Players -> Places]
  BY <1>1 DEF Places
<1>4. \A o \in Players : /\ l[o] = IF o = p THEN "out" ELSE s.place[o]
                         /\ a[o] = IF o = p THEN None ELSE s.at[o]
  BY <1>1
<1> HIDE DEF a, l
<1>5. /\ r \in State /\ r.queue = s.queue /\ r.events = s.events /\ r.slot = s.slot
      /\ r.place = l /\ r.at = a /\ r.stale = s.stale /\ r.cut = s.cut
      /\ r.bg = s.bg /\ r.freeSlots = s.freeSlots
  BY <1>2, <1>3 DEF State
<1>6. ASSUME Consistent(s), s.place[p] \in {"inside", "offline"},
             p \notin s.bg[s.at[p]].players
      PROVE  Consistent(r)
  <2>1. \A c \in Bgs : p \notin s.bg[c].players
    BY <1>6 DEF Consistent, ListsAgree
  <2> DEFINE S == {p}
  <2>2. /\ S \in SUBSET Players
        /\ \A o \in S : /\ s.place[o] \in {"inside", "offline"}
                        /\ \A c \in Bgs : o \notin s.bg[c].players
    BY <2>1, <1>6
  <2>3. \A o \in Players : /\ r.place[o] = IF o \in S THEN "out" ELSE s.place[o]
                           /\ r.at[o] = IF o \in S THEN None ELSE s.at[o]
    BY <1>4, <1>5
  <2> HIDE DEF S
  <2> QED
    BY <2>2, <2>3, <1>5, <1>6, SentOutKeeps
<1> QED
  BY <1>4, <1>5, <1>6

\* RemovePlayerAtLeave takes the player from the list and from the count in
\* the same step, and sends him out or leaves him where he is.
LEMMA RemovePlayerAtLeaveIs ==
    ASSUME NEW s \in State, NEW b \in Bgs, NEW p \in Players, NEW r,
           r = RemovePlayerAtLeave(s, p, b)
    PROVE  /\ r \in State /\ r.queue = s.queue /\ r.events = s.events
           /\ r.stale = s.stale
           /\ \A c \in Bgs : r.bg[c].status = s.bg[c].status
           /\ \A o \in Players : \/ r.place[o] = s.place[o] /\ r.at[o] = s.at[o]
                                 \/ o = p /\ r.place[o] = "out" /\ r.at[o] = None
           /\ p \notin r.bg[b].players
           /\ Consistent(s) => CountsFall(r, s)
           /\ (Consistent(s) /\ (s.place[p] = "inside" => s.at[p] = b)) => Consistent(r)
<1> DEFINE online == s.place[p] = "inside"
           running == s.bg[b].status # "leave"
           v == IF online THEN NoSlot ELSE s.slot[p]
           x == IF p \notin s.bg[b].players THEN s
                ELSE [s EXCEPT
                    !.bg[b] = Delist(@, p),
                    !.slot[p] = v,
                    !.freeSlots = IF running /\ b \notin ToSet(@) THEN <<b>> \o @ ELSE @,
                    !.scheduled = @ \/ running]
           empty == /\ x.bg[b].players = {}
                    /\ \A t \in Teams : x.bg[b].invited[t] = 0
           y == Marked(x, b)
           z == Sent(x, p)
<1>1. r = IF empty THEN y ELSE IF online THEN z ELSE x
  BY DEF RemovePlayerAtLeave, Marked, Sent
<1>2. /\ x \in State /\ x.queue = s.queue /\ x.events = s.events
      /\ x.place = s.place /\ x.at = s.at /\ x.stale = s.stale /\ x.cut = s.cut
      /\ \A c \in Bgs : x.bg[c].status = s.bg[c].status
      /\ p \notin x.bg[b].players
      /\ Consistent(s) => Consistent(x) /\ CountsFall(x, s)
  <2>1. CASE p \notin s.bg[b].players
    <3>1. x = s
      BY <2>1
    <3>2. CountsFall(s, s)
      BY CountsFallRefl
    <3> HIDE DEF x
    <3> QED
      BY <2>1, <3>1, <3>2
  <2>2. CASE p \in s.bg[b].players
    <3>1. x = Delisted(s, b, p, v, running)
      BY <2>2 DEF Delisted
    <3>2. v \in {NoSlot, None} \cup Bgs /\ (v = NoSlot \/ v = s.slot[p]) /\ running \in BOOLEAN
      BY StateFields
    <3> HIDE DEF x, v, running
    <3> DEFINE S == s.bg[b].players
    <3>3. p \in S
      BY <2>2
    <3>4. /\ x \in State /\ x.queue = s.queue /\ x.events = s.events
          /\ x.place = s.place /\ x.at = s.at /\ x.stale = s.stale /\ x.cut = s.cut
          /\ \A c \in Bgs : /\ x.bg[c].status = s.bg[c].status
                            /\ x.bg[c].delete = s.bg[c].delete
          /\ x.bg[b].players = s.bg[b].players \ {p}
          /\ Consistent(s) => Consistent(x) /\ CountsFall(x, s)
      BY <3>3, <3>1, <3>2, DelistedIs
    <3> QED
      BY <3>4
  <2> QED
    BY <2>1, <2>2
<1> HIDE DEF x
<1>3. /\ y \in State /\ y.queue = x.queue /\ y.events = x.events
      /\ y.place = x.place /\ y.at = x.at /\ y.stale = x.stale /\ y.cut = x.cut
      /\ \A c \in Bgs : /\ y.bg[c].status = x.bg[c].status
                        /\ y.bg[c].players = x.bg[c].players
                        /\ y.bg[c].invited = x.bg[c].invited
      /\ Consistent(x) => Consistent(y)
  <2>1. y = Marked(x, b)
    OBVIOUS
  <2> HIDE DEF y
  <2> QED
    BY <1>2, <2>1, MarkedIs
<1>4. /\ z \in State /\ z.queue = x.queue /\ z.events = x.events
      /\ z.bg = x.bg /\ z.stale = x.stale
      /\ \A o \in Players : /\ z.place[o] = IF o = p THEN "out" ELSE x.place[o]
                            /\ z.at[o] = IF o = p THEN None ELSE x.at[o]
      /\ (/\ Consistent(x) /\ x.place[p] \in {"inside", "offline"}
          /\ p \notin x.bg[x.at[p]].players)
         => Consistent(z)
  <2>1. z = Sent(x, p)
    OBVIOUS
  <2> HIDE DEF z
  <2> QED
    BY <1>2, <2>1, SentIs
<1> HIDE DEF y, z, empty
<1>8. Consistent(s) => CountsFall(y, s) /\ CountsFall(z, s)
  BY <1>2, <1>3, <1>4 DEF CountsFall, Exists
<1>5. CASE r = y
  BY <1>2, <1>3, <1>5, <1>8
<1>6. CASE r = z /\ online
  <2>1. (Consistent(s) /\ (s.place[p] = "inside" => s.at[p] = b)) => Consistent(r)
    BY <1>2, <1>4, <1>6
  <2> QED
    BY <1>2, <1>4, <1>6, <1>8, <2>1
<1>7. CASE r = x
  BY <1>2, <1>7
<1> QED
  BY <1>1, <1>5, <1>6, <1>7

\* For one of those who leave.
LEMMA RemovePlayerAtLeaveLeft ==
    ASSUME NEW s \in State, NEW b \in Bgs, NEW X \in SUBSET Players, NEW p \in X
    PROVE  Left(RemovePlayerAtLeave(s, p, b), s, b, X)
<1> DEFINE r == RemovePlayerAtLeave(s, p, b)
<1>1. r = RemovePlayerAtLeave(s, p, b) /\ p \in Players
  OBVIOUS
<1> HIDE DEF r
<1>2. /\ r \in State /\ r.queue = s.queue /\ r.events = s.events
      /\ r.stale = s.stale
      /\ \A c \in Bgs : r.bg[c].status = s.bg[c].status
      /\ \A o \in Players : \/ r.place[o] = s.place[o] /\ r.at[o] = s.at[o]
                            \/ o = p /\ r.place[o] = "out" /\ r.at[o] = None
      /\ Consistent(s) => CountsFall(r, s)
      /\ (Consistent(s) /\ (s.place[p] = "inside" => s.at[p] = b)) => Consistent(r)
  BY <1>1, RemovePlayerAtLeaveIs
<1>3. There(s, b, X) => There(r, b, X) /\ (s.place[p] = "inside" => s.at[p] = b)
  BY <1>2 DEF There
<1>4. Left(r, s, b, X)
  BY <1>2, <1>3 DEF Left
<1> QED
  BY <1>1, <1>4

\* For all of them, in the order FoldSet takes.
LEMMA LeaveAllLeft ==
    ASSUME NEW s \in State, NEW b \in Bgs, NEW X \in SUBSET Players, NEW D \in SUBSET X
    PROVE  Left(LeaveAll(s, b, D), s, b, X)
<1> DEFINE G == {r \in State : Left(r, s, b, X)}
           ch(x) == CHOOSE p \in x : TRUE
           eq(h) == h = [x \in SUBSET D |-> IF x = {} THEN s
                            ELSE RemovePlayerAtLeave(h[x \ {ch(x)}], ch(x), b)]
           f == CHOOSE h : eq(h)
<1>1. LeaveAll(s, b, D) = f[D]
  BY DEF LeaveAll, FoldSet, MapThenFoldSet
<1>2. IsFiniteSet(D) /\ D \in SUBSET Players
  <2>1. D \in SUBSET Players /\ IsFiniteSet(Players)
    BY Constants
  <2> QED
    BY <2>1, FS_Subset
<1>3. \A x \in SUBSET D : x # {} => ch(x) \in x
  OBVIOUS
<1>4. s \in G
  BY LeftRefl
<1>5. \A r \in G, p \in D : RemovePlayerAtLeave(r, p, b) \in G
  <2> SUFFICES ASSUME NEW r \in G, NEW p \in D
               PROVE  RemovePlayerAtLeave(r, p, b) \in G
    OBVIOUS
  <2>1. r \in State /\ Left(r, s, b, X) /\ p \in X
    OBVIOUS
  <2>2. Left(RemovePlayerAtLeave(r, p, b), r, b, X)
    BY <2>1, RemovePlayerAtLeaveLeft
  <2>3. Left(RemovePlayerAtLeave(r, p, b), s, b, X)
    BY <2>1, <2>2, LeftTrans
  <2>4. RemovePlayerAtLeave(r, p, b) \in State
    BY <2>2 DEF Left
  <2> QED
    BY <2>3, <2>4
<1> HIDE DEF G
<1>6. \E h : eq(h)
  <2> DEFINE F == [x \in G \X D |-> RemovePlayerAtLeave(x[1], x[2], b)]
  <2>1. F \in [G \X D -> G]
    BY <1>5
  <2>2. \A k \in G, p \in D : F[<<k, p>>] = RemovePlayerAtLeave(k, p, b)
    OBVIOUS
  <2> HIDE DEF F
  <2>3. PICK h : IsFold(h, D, G, s, [x \in SUBSET D |-> CHOOSE p \in x : TRUE], F)
    BY <1>2, <1>4, <2>1, SetFoldExists
  <2>4. h \in [SUBSET D -> G]
    BY <2>3 DEF IsFold
  <2>5. ASSUME NEW x \in SUBSET D
        PROVE  h[x] = IF x = {} THEN s ELSE RemovePlayerAtLeave(h[x \ {ch(x)}], ch(x), b)
    <3>1. h[x] = IF x = {} THEN s ELSE F[<<h[x \ {ch(x)}], ch(x)>>]
      BY <2>3 DEF IsFold
    <3>2. x # {} => h[x \ {ch(x)}] \in G /\ ch(x) \in D
      BY <2>4, <1>3
    <3> HIDE DEF ch
    <3> QED
      BY <3>1, <3>2, <2>2
  <2> HIDE DEF ch
  <2>6. h = [x \in SUBSET D |-> h[x]]
    BY <2>4
  <2>7. eq(h)
    BY <2>5, <2>6
  <2> QED
    BY <2>7
<1>7. \A x \in SUBSET D : f[x] = IF x = {} THEN s ELSE RemovePlayerAtLeave(f[x \ {ch(x)}], ch(x), b)
  <2>1. eq(f)
    BY <1>6
  <2> HIDE DEF f, ch
  <2> QED
    BY <2>1
<1> HIDE DEF f, ch
<1>8. \A x \in SUBSET D : f[x] \in G
  <2> DEFINE bad == {x \in SUBSET D : f[x] \notin G}
  <2> SUFFICES ASSUME bad # {} PROVE FALSE
    OBVIOUS
  <2>1. PICK x \in bad : \A u \in bad : u \subseteq x => u = x
    <3>1. bad \in SUBSET SUBSET D
      OBVIOUS
    <3> HIDE DEF bad
    <3> QED
      BY <3>1, <1>2, FiniteMin
  <2>2. x # {}
    BY <1>4, <1>7
  <2>3. ch(x) \in D /\ x \ {ch(x)} \in SUBSET D /\ x \ {ch(x)} \notin bad
    BY <2>1, <2>2, <1>3
  <2> QED
    BY <2>1, <2>2, <2>3, <1>5, <1>7
<1> QED
  BY <1>1, <1>8 DEF G

\* How the battlegrounds of r are those of s, some of them deleted: no
\* count has risen, and whoever is invited to one that is gone still is.
Deleted(r, s) ==
    /\ r \in State
    /\ r.queue = s.queue /\ r.events = s.events /\ r.stale = s.stale
    /\ \A b \in Bgs : r.bg[b].status = s.bg[b].status \/ r.bg[b].status = "map"
    /\ Consistent(s) => Consistent(r) /\ CountsFall(r, s)

\* One deletion after the other.
LEMMA DeletedTrans ==
    ASSUME NEW s \in State, NEW r, NEW q, Deleted(r, s), Deleted(q, r)
    PROVE  Deleted(q, s)
<1>1. r \in State /\ q \in State /\ r.stale = s.stale
  BY DEF Deleted
<1>2. \A c \in Bgs : Exists(q, c) => Exists(r, c)
  BY DEF Deleted, Exists
<1>3. CountsFall(r, s) /\ CountsFall(q, r) => CountsFall(q, s)
  BY <1>1, <1>2, CountsFallTrans
<1>4. \A b \in Bgs : q.bg[b].status = s.bg[b].status \/ q.bg[b].status = "map"
  BY DEF Deleted
<1> QED
  BY <1>1, <1>3, <1>4 DEF Deleted

\* Deleting a battleground keeps the rest, also those who were invited.
LEMMA DeleteIs ==
    ASSUME NEW s \in State, NEW b \in Bgs
    PROVE  Deleted(Delete(s, b), s)
<1>1. /\ s.bg \in [Bgs -> Battleground] /\ s.freeSlots \in Seq(Bgs)
  BY StateFields
<1> DEFINE r == Delete(s, b)
           y == [NoBg EXCEPT !.status = "map"]
           m == [s.bg EXCEPT ![b] = y]
           f == RemoveFirst(s.freeSlots, b)
           n == [s EXCEPT !.freeSlots = f]
<1>2. r = [s EXCEPT !.bg = m, !.freeSlots = f]
  BY DEF Delete
<1>3. n = [s EXCEPT !.freeSlots = RemoveFirst(@, b)]
  OBVIOUS
<1>4. /\ y \in Battleground /\ y.status = "map" /\ y.players = {}
      /\ \A t \in Teams : y.invited[t] = 0
  <2> DEFINE v == "map"
  <2>1. NoBg \in Battleground /\ v \in {"none", "join", "progress", "leave", "map"}
    BY NoBgIs
  <2> HIDE DEF v
  <2>2. /\ [NoBg EXCEPT !.status = v] \in Battleground
        /\ [NoBg EXCEPT !.status = v].status = v
        /\ [NoBg EXCEPT !.status = v].players = NoBg.players
        /\ [NoBg EXCEPT !.status = v].invited = NoBg.invited
    BY <2>1, NewStatus
  <2> QED
    BY <2>2, NoBgIs DEF v
<1> HIDE DEF y
<1>5. m \in [Bgs -> Battleground] /\ m[b] = y /\ \A d \in Bgs : d # b => m[d] = s.bg[d]
  BY <1>1, <1>4
<1>6. f \in Seq(Bgs)
  BY <1>1, RemoveFirstIs
<1> HIDE DEF r, m, f, n
<1>9. /\ r \in State /\ r.queue = s.queue /\ r.events = s.events /\ r.slot = s.slot
      /\ r.place = s.place /\ r.at = s.at /\ r.stale = s.stale /\ r.bg = m
      /\ r.freeSlots = f
  BY <1>2, <1>5, <1>6 DEF State
<1>10. ASSUME Consistent(s) PROVE Consistent(r)
  <2>1. /\ Consistent(n) /\ b \notin ToSet(n.freeSlots)
        /\ n.queue = s.queue /\ n.events = s.events /\ n.slot = s.slot
        /\ n.place = s.place /\ n.at = s.at /\ n.stale = s.stale /\ n.bg = s.bg
    BY <1>3, <1>10, NotFreeKeeps
  <2>2. n.freeSlots = f
    BY DEF n, State
  <2>3. /\ n \in State /\ GroupsApart(n.queue)
        /\ SlotsAgree(n) /\ PlacesAgree(n) /\ ListsAgree(n)
        /\ FreeAgree(n) /\ CountsAgree(n) /\ EventsAgree(n)
    BY <2>1 DEF Consistent
  <2>5. ~Exists(r, b) /\ \A d : d # b => (Exists(r, d) <=> Exists(n, d))
    BY <1>4, <1>5, <1>9, <2>1 DEF Exists
  <2>6. SlotsAgree(r) /\ PlacesAgree(r) /\ EventsAgree(r)
    BY <1>9, <2>1, <2>3 DEF SlotsAgree, PlacesAgree, EventsAgree
  <2>8. ListsAgree(r)
    BY <1>9, <1>5, <1>4, <2>1, <2>3, <2>5 DEF ListsAgree
  <2>9. FreeAgree(r)
    BY <1>9, <2>1, <2>2, <2>3, <2>5 DEF FreeAgree
  <2>10. CountsAgree(r)
    <3> SUFFICES ASSUME NEW d \in Bgs \ r.stale, NEW t \in Teams, Exists(r, d)
                 PROVE  r.bg[d].invited[t] = Cardinality(InTeam(HoldersIn(r, d), t))
      BY DEF CountsAgree
    <3>1. d # b
      BY <2>5
    <3>2. r.bg[d] = n.bg[d] /\ r.stale = n.stale
      BY <3>1, <1>5, <1>9, <2>1
    <3>3. HoldersIn(r, d) = HoldersIn(n, d)
      BY <3>2, <1>9, <2>1 DEF HoldersIn
    <3> QED
      BY <3>1, <3>2, <3>3, <2>3, <2>5 DEF CountsAgree
  <2> QED
    BY <1>9, <2>1, <2>3, <2>6, <2>8, <2>9, <2>10 DEF Consistent
<1>11. CountsFall(r, s)
  <2>1. \A d \in Bgs, t \in Teams : s.bg[d].invited[t] \in Int
    BY <1>1, BattlegroundFields
  <2>2. \A d \in Bgs : Exists(r, d) => r.bg[d] = s.bg[d]
    BY <1>4, <1>5, <1>9 DEF Exists
  <2> QED
    BY <2>1, <2>2 DEF CountsFall
<1>12. \A d \in Bgs : r.bg[d].status = s.bg[d].status \/ r.bg[d].status = "map"
  BY <1>4, <1>5, <1>9
<1>14. Deleted(r, s)
  BY <1>9, <1>10, <1>11, <1>12 DEF Deleted
<1> QED
  BY <1>14 DEF r

\* Battleground::Update and the deletion after it.
LEMMA UpdateIs ==
    ASSUME NEW s \in State, NEW b \in Bgs, NEW last \in SUBSET s.bg[b].players
    PROVE  Deleted(Update(s, b, last), s)
<1> DEFINE X == s.bg[b].players
           others == IF s.bg[b].status = "leave" /\ last # {} THEN X \ last ELSE {}
           o == LeaveAll(s, b, others)
           u == LeaveAll(o, b, last)
<1>1. Update(s, b, last) = IF u.bg[b].delete THEN Delete(u, b) ELSE u
  BY DEF Update
<1>2. X \in SUBSET Players /\ others \in SUBSET X /\ last \in SUBSET X
  BY StateFields, BattlegroundFields
<1>3. Consistent(s) => There(s, b, X)
  BY DEF There, Consistent, ListsAgree
<1> HIDE DEF X, others
<1>4. Left(o, s, b, X)
  BY <1>2, LeaveAllLeft
<1> HIDE DEF o
<1>5. Left(u, o, b, X) /\ o \in State
  <2>1. o \in State
    BY <1>4 DEF Left
  <2> QED
    BY <2>1, <1>2, LeaveAllLeft
<1> HIDE DEF u
<1>6. Left(u, s, b, X)
  BY <1>4, <1>5, LeftTrans
<1>7. Deleted(u, s)
  BY <1>3, <1>6 DEF Deleted, Left
<1>8. Deleted(Delete(u, b), u)
  BY <1>6, DeleteIs DEF Left
<1>9. Deleted(Delete(u, b), s)
  BY <1>7, <1>8, DeletedTrans
<1> QED
  BY <1>1, <1>7, <1>9

\* The battlegrounds one after the other.
LEMMA UpdateAllIs ==
    ASSUME NEW s \in State, NEW last
    PROVE  Deleted(UpdateAll(s, last), s)
<1> DEFINE D == DOMAIN [b \in Bgs |-> b]
           G == {r \in State : Deleted(r, s)}
           step(r, b) == Update(r, b, last \cap r.bg[b].players)
           eq(h) == h = [x \in SUBSET D |-> IF x = {} THEN s
                            ELSE step(h[x \ {Max(x)}], [b \in Bgs |-> b][Max(x)])]
           f == CHOOSE h : eq(h)
<1>1. UpdateAll(s, last) = f[D]
  BY DEF UpdateAll, FoldLeft, MapThenFoldSet
<1>2. D = Bgs /\ Bgs = 1 .. MaxBgs /\ MaxBgs \in Nat
  BY Constants DEF Bgs
<1>3. IsFiniteSet(D) /\ \A x \in SUBSET D : x # {} => Max(x) \in x
  BY <1>2, Positions
<1>4. s \in G
  <2>1. CountsFall(s, s)
    BY CountsFallRefl
  <2> QED
    BY <2>1 DEF Deleted
<1>5. \A r \in G, b \in D : step(r, b) \in G
  <2> SUFFICES ASSUME NEW r \in G, NEW b \in D
               PROVE  step(r, b) \in G
    OBVIOUS
  <2>1. b \in Bgs
    BY <1>2
  <2>2. r \in State /\ Deleted(r, s)
    OBVIOUS
  <2> DEFINE l == last \cap r.bg[b].players
  <2>3. l \in SUBSET r.bg[b].players
    OBVIOUS
  <2> HIDE DEF l
  <2>4. Deleted(Update(r, b, l), r)
    BY <2>1, <2>2, <2>3, UpdateIs
  <2>5. Deleted(Update(r, b, l), s)
    BY <2>2, <2>4, DeletedTrans
  <2>6. Update(r, b, l) \in State
    BY <2>5 DEF Deleted
  <2> QED
    BY <2>5, <2>6 DEF l
<1> HIDE DEF G, step
<1>6. \E h : eq(h)
  <2> DEFINE F == [x \in G \X (1 .. MaxBgs) |-> step(x[1], x[2])]
  <2> HIDE DEF D
  <2>1. F \in [G \X (1 .. MaxBgs) -> G]
    BY <1>5, <1>2
  <2>2. \A k \in G, i \in 1 .. MaxBgs : F[<<k, i>>] = step(k, i)
    OBVIOUS
  <2> HIDE DEF F
  <2>3. PICK h : IsFold(h, 1 .. MaxBgs, G, s, [x \in SUBSET (1 .. MaxBgs) |-> Max(x)], F)
    BY <1>4, <1>2, <2>1, SeqFoldExists
  <2>4. ASSUME NEW x \in SUBSET D
        PROVE  h[x] = IF x = {} THEN s ELSE step(h[x \ {Max(x)}], [b \in Bgs |-> b][Max(x)])
    <3>1. x # {} => Max(x) \in Bgs
      BY <1>2, <1>3
    <3> QED
      BY <3>1, <1>2, <2>2, <2>3, <1>3 DEF IsFold
  <2>5. eq(h)
    BY <1>2, <2>3, <2>4 DEF IsFold
  <2> QED
    BY <2>5
<1>7. \A x \in SUBSET D : f[x] = IF x = {} THEN s ELSE step(f[x \ {Max(x)}], Max(x))
  <2>1. eq(f)
    BY <1>6
  <2> HIDE DEF f, D
  <2>2. \A x \in SUBSET D : f[x] = IF x = {} THEN s
                            ELSE step(f[x \ {Max(x)}], [b \in Bgs |-> b][Max(x)])
    BY <2>1
  <2>3. \A x \in SUBSET D : x # {} => Max(x) \in Bgs
    BY <1>2, <1>3
  <2> QED
    BY <2>2, <2>3
<1> HIDE DEF f, D
<1>8. \A x \in SUBSET D : f[x] \in G
  <2> DEFINE bad == {x \in SUBSET D : f[x] \notin G}
  <2> SUFFICES ASSUME bad # {} PROVE FALSE
    OBVIOUS
  <2>1. PICK x \in bad : \A u \in bad : u \subseteq x => u = x
    <3>1. bad \in SUBSET SUBSET D
      OBVIOUS
    <3> HIDE DEF bad
    <3> QED
      BY <3>1, <1>3, FiniteMin
  <2>2. x # {}
    BY <1>4, <1>7
  <2>3. Max(x) \in D /\ x \ {Max(x)} \in SUBSET D /\ x \ {Max(x)} \notin bad
    BY <2>1, <2>2, <1>3
  <2> QED
    BY <2>1, <2>2, <2>3, <1>5, <1>7
<1> QED
  BY <1>1, <1>8 DEF G

\* Time passes for a group, an event, and the event of a group alike.
LEMMA AgedIs ==
    ASSUME NEW g \in Group
    PROVE  /\ Aged(g) \in Group /\ Aged(g).players = g.players /\ Aged(g).bg = g.bg
           /\ Aged(g).left = IF g.left > 0 THEN g.left - 1 ELSE 0
<1>1. g.left \in 0 .. Wait /\ Wait \in Nat
  BY GroupFields, Constants
<1> DEFINE n == IF g.left > 0 THEN g.left - 1 ELSE 0
<1>2. Aged(g) = [g EXCEPT !.left = n]
  BY DEF Aged
<1>3. n \in 0 .. Wait
  BY <1>1
<1> HIDE DEF n
<1>4. Aged(g) \in Group /\ Aged(g).players = g.players /\ Aged(g).bg = g.bg /\ Aged(g).left = n
  BY <1>2, <1>3 DEF Group
<1> QED
  BY <1>4 DEF n

LEMMA AgedEvent ==
    ASSUME NEW e \in Event
    PROVE  Aged(e) \in Event
<1>1. e.left \in 0 .. Wait /\ Wait \in Nat
  BY Constants DEF Event
<1> DEFINE n == IF e.left > 0 THEN e.left - 1 ELSE 0
<1>2. Aged(e) = [e EXCEPT !.left = n]
  BY DEF Aged
<1>3. n \in 0 .. Wait
  BY <1>1
<1> HIDE DEF n
<1> QED
  BY <1>2, <1>3 DEF Event

LEMMA AgedInvitation ==
    ASSUME NEW g \in Group, NEW p \in g.players, NEW e,
           e = [player |-> p, bg |-> g.bg, left |-> g.left]
    PROVE  Aged(e) = [player |-> p, bg |-> Aged(g).bg, left |-> Aged(g).left]
<1> DEFINE n == IF g.left > 0 THEN g.left - 1 ELSE 0
<1>1. Aged(e) = [e EXCEPT !.left = n]
  BY DEF Aged
<1>2. Aged(g).bg = g.bg /\ Aged(g).left = n
  BY AgedIs
<1> HIDE DEF n
<1> QED
  BY <1>1, <1>2

\* So a group that is invited still has its events.
LEMMA OlderKeeps ==
    ASSUME NEW s, Consistent(s), NEW r, r = Older(s)
    PROVE  /\ Consistent(r) /\ Queued(r.queue) = Queued(s.queue) /\ r.bg = s.bg
           /\ r.stale = s.stale
           /\ \A g \in Groups(r.queue) : \E h \in Groups(s.queue) : g = Aged(h)
<1>1. /\ s \in State /\ s.queue \in Queues /\ s.events \in SUBSET Event
      /\ GroupsApart(s.queue)
      /\ SlotsAgree(s) /\ PlacesAgree(s) /\ ListsAgree(s)
      /\ FreeAgree(s) /\ CountsAgree(s) /\ EventsAgree(s)
  BY StateFields DEF Consistent
<1> DEFINE m == [g \in Group |-> Aged(g)]
           q == [k \in Kinds |-> [t \in Teams |->
                    [n \in DOMAIN s.queue[k][t] |-> Aged(s.queue[k][t][n])]]]
           v == {Aged(e) : e \in s.events}
<1>2. r = [s EXCEPT !.events = v, !.queue = q]
  BY DEF Older
<1>3. m \in [Group -> Group] /\ \A g \in Group : m[g] = Aged(g)
  BY AgedIs
<1>4. q = MapQueue(s.queue, m)
  <2>1. \A k \in Kinds, t \in Teams : \A n \in DOMAIN s.queue[k][t] : s.queue[k][t][n] \in Group
    BY <1>1 DEF Queues
  <2> QED
    BY <2>1 DEF MapQueue
<1>5. v \in SUBSET Event /\ \A e \in s.events : Aged(e) \in v
  BY <1>1, AgedEvent
<1> HIDE DEF m, q, v
<1>6. /\ q \in Queues
      /\ \A k \in Kinds, t \in Teams : \A x :
             x \in GroupsIn(q, k, t) <=> \E g \in GroupsIn(s.queue, k, t) : x = m[g]
      /\ \A x : x \in Groups(q) <=> \E g \in Groups(s.queue) : x = m[g]
  BY <1>1, <1>3, <1>4, MappedQueue
<1>7. \A g \in Group : m[g].players = g.players
  BY <1>3, AgedIs
<1>8. GroupsApart(q) /\ Queued(q) = Queued(s.queue)
  BY <1>1, <1>3, <1>6, <1>7, MappedApart
<1>9. /\ r \in State /\ r.queue = q /\ r.events = v /\ r.slot = s.slot
      /\ r.place = s.place /\ r.at = s.at /\ r.stale = s.stale /\ r.bg = s.bg
      /\ r.freeSlots = s.freeSlots
  BY <1>1, <1>2, <1>5, <1>6 DEF State
<1>10. \A g \in Groups(q) : \E h \in Groups(s.queue) : h \in Group /\ g = Aged(h)
  <2>1. \A h \in Groups(s.queue) : h \in Group
    BY <1>1, GroupsAreGroups
  <2> QED
    BY <2>1, <1>3, <1>6
<1>11. \A c : Exists(r, c) <=> Exists(s, c)
  BY <1>9 DEF Exists
<1>12. SlotsAgree(r)
  <2> SUFFICES ASSUME NEW g \in Groups(q), NEW p \in g.players
               PROVE  s.place[p] = "out" /\ s.slot[p] = g.bg
    BY <1>9 DEF SlotsAgree
  <2>1. PICK h \in Groups(s.queue) : h \in Group /\ g = Aged(h)
    BY <1>10
  <2>2. g.players = h.players /\ g.bg = h.bg
    BY <2>1, AgedIs
  <2> QED
    BY <2>2, <1>1 DEF SlotsAgree
<1>13. PlacesAgree(r) /\ ListsAgree(r) /\ FreeAgree(r)
  BY <1>1, <1>9, <1>11 DEF PlacesAgree, ListsAgree, FreeAgree
<1>14. CountsAgree(r)
  <2>1. \A c \in Bgs : HoldersIn(r, c) = HoldersIn(s, c)
    BY <1>8, <1>9 DEF HoldersIn
  <2> QED
    BY <2>1, <1>1, <1>9, <1>11 DEF CountsAgree
<1>15. EventsAgree(r)
  <2> SUFFICES ASSUME NEW g \in Groups(q), g.bg # None, NEW p \in g.players
               PROVE  [player |-> p, bg |-> g.bg, left |-> g.left] \in v
    BY <1>9 DEF EventsAgree
  <2>1. PICK h \in Groups(s.queue) : h \in Group /\ g = Aged(h)
    BY <1>10
  <2>2. p \in h.players /\ h.bg # None
    BY <2>1, AgedIs
  <2> DEFINE e == [player |-> p, bg |-> h.bg, left |-> h.left]
  <2>3. e \in s.events
    BY <2>2, <1>1 DEF EventsAgree
  <2>4. Aged(e) = [player |-> p, bg |-> g.bg, left |-> g.left]
    BY <2>1, <2>2, AgedInvitation
  <2> HIDE DEF e
  <2> QED
    BY <2>3, <2>4, <1>5
<1>16. Consistent(r)
  BY <1>8, <1>9, <1>12, <1>13, <1>14, <1>15 DEF Consistent
<1> QED
  BY <1>8, <1>9, <1>10, <1>16

\* What the events do to the queue and to the battlegrounds.
EventsDone(r, s) ==
    /\ Consistent(r) /\ Fresh(r)
    /\ Queued(r.queue) \in SUBSET Queued(s.queue)
    /\ \A p \in Queued(s.queue) \ Queued(r.queue) :
            GroupOf(s.queue, p).bg # None /\ GroupOf(s.queue, p).left = 0
    /\ \A b \in Bgs : r.bg[b].status = s.bg[b].status
    /\ r.stale = s.stale /\ CountsFall(r, s)

\* Of those who are removed from the queue a battleground is told.
LEMMA UninvitedFall ==
    ASSUME NEW s, Consistent(s), NEW S, NEW r, Uninvited(r, s, S)
    PROVE  CountsFall(r, s)
BY RemovedCounts DEF CountsFall

\* A group whose time is over is evicted with all its players: each has an
\* event, and each passes the checks of Execute.  No other event does
\* anything.
LEMMA UpdateEventsIs ==
    ASSUME NEW s, Consistent(s)
    PROVE  EventsDone(UpdateEvents(s), s)
<1>1. /\ s \in State /\ s.queue \in Queues /\ s.events \in SUBSET Event
      /\ GroupsApart(s.queue) /\ SlotsAgree(s) /\ EventsAgree(s)
      /\ s.slot \in [Players -> {NoSlot, None} \cup Bgs] /\ s.scheduled \in BOOLEAN
      /\ s.bg \in [Bgs -> Battleground]
  BY StateFields DEF Consistent
<1> DEFINE r == UpdateEvents(s)
           ready == {e \in s.events : e.left = 0}
           removing == {e \in ready : /\ s.place[e.player] # "offline"
                                      /\ s.slot[e.player] # NoSlot
                                      /\ IsPlayerInvited(s.queue, e)}
           evicted == {e.player : e \in removing}
           telling == {e \in removing : /\ Exists(s, e.bg)
                                        /\ s.bg[e.bg].status # "leave"}
           x == RemovePlayers(s, evicted, TRUE)
           v == x.events \ ready
           l == [p \in Players |-> IF p \in evicted THEN NoSlot ELSE x.slot[p]]
           w == x.scheduled \/ telling # {}
           d == [x EXCEPT !.slot = l]
<1>2. r = [x EXCEPT !.events = v, !.slot = l, !.scheduled = w]
  BY DEF UpdateEvents
<1>3. /\ evicted \in SUBSET Players
      /\ \A p \in evicted : /\ p \in Queued(s.queue)
                            /\ GroupOf(s.queue, p).bg # None
                            /\ GroupOf(s.queue, p).left = 0
  <2> SUFFICES ASSUME NEW e \in removing
               PROVE  /\ e.player \in Players /\ e.player \in Queued(s.queue)
                      /\ GroupOf(s.queue, e.player).bg # None
                      /\ GroupOf(s.queue, e.player).left = 0
    OBVIOUS
  <2>1. e \in Event /\ e.left = 0 /\ IsPlayerInvited(s.queue, e)
    BY <1>1
  <2>2. e.player \in Players /\ e.bg # None
    BY <2>1, Constants DEF Event
  <2> QED
    BY <2>1, <2>2 DEF IsPlayerInvited
<1>4. \A p \in evicted : s.place[p] = "out"
  BY <1>1, <1>3, SlotOfQueued
<1>5. ASSUME NEW g \in Groups(s.queue), g.bg # None, g.left = 0, NEW p \in g.players
      PROVE  p \in evicted
  <2> DEFINE e == [player |-> p, bg |-> g.bg, left |-> g.left]
  <2>1. e \in s.events /\ e.left = 0 /\ e.player = p /\ e.bg = g.bg
    BY <1>1, <1>5 DEF EventsAgree
  <2>2. s.place[p] = "out" /\ s.slot[p] = g.bg
    BY <1>1 DEF SlotsAgree
  <2>3. g.bg # NoSlot
    <3>1. g \in Group
      BY <1>1, GroupsAreGroups
    <3> QED
      BY <3>1, GroupFields, Constants
  <2>4. p \in Queued(s.queue)
    BY InQueued
  <2>5. GroupOf(s.queue, p) = g
    BY <1>1, GroupOfIs
  <2>6. IsPlayerInvited(s.queue, e)
    BY <2>1, <2>4, <2>5, <1>5 DEF IsPlayerInvited
  <2> HIDE DEF e
  <2>7. e \in removing
    BY <2>1, <2>2, <2>3, <2>6
  <2> QED
    BY <2>1, <2>7
<1>6. Uninvited(x, s, evicted) /\ Removed(x, s, evicted, TRUE) /\ Consistent(x)
  <2> HIDE DEF evicted
  <2>1. Removed(x, s, evicted, TRUE)
    BY <1>3, RemovePlayersIs
  <2>2. Consistent(x)
    BY <1>3, RemovePlayersKeeps
  <2> QED
    BY <2>1, <2>2 DEF Uninvited
<1> HIDE DEF x
<1>7. /\ x \in State /\ x.queue \in Queues /\ Queued(x.queue) = Queued(s.queue) \ evicted
      /\ x.events = s.events /\ x.slot = s.slot /\ x.place = s.place
      /\ x.scheduled = s.scheduled /\ x.stale = s.stale
      /\ \A g \in Groups(x.queue) : \E h \in Groups(s.queue) :
             g.players = h.players \ evicted /\ g.bg = h.bg /\ g.left = h.left
  BY <1>6, StateFields DEF Removed
<1>8. /\ v \in SUBSET Event /\ v = s.events \ ready
      /\ \A e \in v : e.left \in 0 .. Wait /\ e.left # 0
  BY <1>1, <1>7 DEF Event
<1>9. /\ l \in [Players -> {NoSlot, None} \cup Bgs]
      /\ \A p \in Players : l[p] = IF p \in evicted THEN NoSlot ELSE x.slot[p]
  BY <1>1, <1>7
<1>10. w \in BOOLEAN
  OBVIOUS
<1> HIDE DEF evicted, l, w
<1>11. \A g \in Groups(x.queue) : g.bg # None =>
           \A p \in g.players : [player |-> p, bg |-> g.bg, left |-> g.left] \in v
  <2> SUFFICES ASSUME NEW g \in Groups(x.queue), g.bg # None, NEW p \in g.players
               PROVE  [player |-> p, bg |-> g.bg, left |-> g.left] \in v
    OBVIOUS
  <2>1. PICK h \in Groups(s.queue) :
             g.players = h.players \ evicted /\ g.bg = h.bg /\ g.left = h.left
    BY <1>7
  <2>2. p \in h.players /\ p \notin evicted /\ h.left # 0
    BY <2>1, <1>5
  <2> DEFINE e == [player |-> p, bg |-> g.bg, left |-> g.left]
  <2>3. e \in s.events /\ e.left # 0
    BY <2>1, <2>2, <1>1 DEF EventsAgree
  <2> HIDE DEF e
  <2>4. e \in v
    BY <2>3, <1>8
  <2> QED
    BY <2>4 DEF e
<1> HIDE DEF v, ready
<1>12. /\ d \in State /\ d.queue = x.queue /\ d.events = x.events /\ d.bg = x.bg
       /\ d.place = x.place /\ d.at = x.at /\ d.stale = x.stale /\ d.freeSlots = x.freeSlots /\ d.slot = l
  BY <1>7, <1>9 DEF State
<1> HIDE DEF d, removing, telling
<1>13. Consistent(d)
  <2>1. \A p \in evicted : p \notin Queued(x.queue) /\ x.place[p] # "entering"
    BY <1>4, <1>7
  <2> QED
    BY <2>1, <1>6, <1>9, <1>12, ClearedKeeps
<1>14. /\ r \in State /\ r.queue = x.queue /\ r.events = v /\ r.bg = x.bg
       /\ r.place = x.place /\ r.at = x.at /\ r.stale = x.stale /\ r.freeSlots = x.freeSlots /\ r.slot = l
  BY <1>2, <1>7, <1>8, <1>9, <1>10 DEF State
<1> HIDE DEF r
<1>15. Consistent(r)
  <2>1. /\ GroupsApart(d.queue) /\ SlotsAgree(d) /\ PlacesAgree(d)
        /\ ListsAgree(d) /\ FreeAgree(d) /\ CountsAgree(d)
    BY <1>13 DEF Consistent
  <2>2. \A c : Exists(r, c) <=> Exists(d, c)
    BY <1>12, <1>14 DEF Exists
  <2>3. SlotsAgree(r) /\ PlacesAgree(r) /\ ListsAgree(r) /\ FreeAgree(r)
    BY <2>1, <2>2, <1>12, <1>14
       DEF SlotsAgree, PlacesAgree, ListsAgree, FreeAgree
  <2>4. CountsAgree(r)
    <3>1. \A c \in Bgs : HoldersIn(r, c) = HoldersIn(d, c)
      BY <1>12, <1>14 DEF HoldersIn
    <3> QED
      BY <3>1, <2>1, <2>2, <1>12, <1>14 DEF CountsAgree
  <2>5. EventsAgree(r)
    BY <1>11, <1>14 DEF EventsAgree
  <2> QED
    BY <2>1, <2>3, <2>4, <2>5, <1>12, <1>14 DEF Consistent
<1>16. Fresh(r)
  BY <1>8, <1>14, Constants DEF Fresh
<1>17. /\ \A b \in Bgs : r.bg[b].status = s.bg[b].status
       /\ r.stale = s.stale /\ CountsFall(r, s)
  <2>1. \A b \in Bgs : r.bg[b].status = s.bg[b].status
    BY <1>6, <1>14 DEF Removed
  <2>2. CountsFall(x, s)
    BY <1>6, UninvitedFall
  <2> QED
    BY <2>1, <2>2, <1>7, <1>14 DEF CountsFall, Exists
<1>18. /\ Queued(r.queue) \in SUBSET Queued(s.queue)
       /\ \A p \in Queued(s.queue) \ Queued(r.queue) :
            GroupOf(s.queue, p).bg # None /\ GroupOf(s.queue, p).left = 0
  BY <1>3, <1>7, <1>14
<1>19. EventsDone(r, s)
  BY <1>15, <1>16, <1>17, <1>18 DEF EventsDone
<1> QED
  BY <1>19 DEF r

\* The record of the state.
LEMMA NowFields ==
    /\ Now.queue = queue /\ Now.events = events /\ Now.slot = slot /\ Now.place = place
    /\ Now.at = at /\ Now.bg = bg /\ Now.freeSlots = freeSlots
    /\ Now.scheduled = scheduled /\ Now.stale = stale /\ Now.cut = FALSE
BY DEF Now

\* The state after a step is consistent if the record it was made from is.
LEMMA Becomes ==
    ASSUME NEW r, Consistent(r), Fresh(r), Become(r)
    PROVE  IInv'
<1> DEFINE n == [queue |-> r.queue, events |-> r.events, slot |-> r.slot,
                 place |-> r.place, at |-> r.at, bg |-> r.bg,
                 freeSlots |-> r.freeSlots, scheduled |-> r.scheduled,
                 stale |-> r.stale, cut |-> FALSE]
<1>1. n = Now'
  BY DEF Become, Now
<1>2. /\ r \in State /\ GroupsApart(r.queue)
      /\ SlotsAgree(r) /\ PlacesAgree(r) /\ ListsAgree(r)
      /\ FreeAgree(r) /\ CountsAgree(r) /\ EventsAgree(r)
  BY DEF Consistent
<1>3. n \in State
  BY <1>2, StateFields DEF State
<1>4. /\ n.queue = r.queue /\ n.events = r.events /\ n.slot = r.slot
      /\ n.place = r.place /\ n.at = r.at /\ n.stale = r.stale /\ n.bg = r.bg
      /\ n.freeSlots = r.freeSlots
  OBVIOUS
<1> HIDE DEF n
<1>5. \A c : Exists(n, c) <=> Exists(r, c)
  BY <1>4 DEF Exists
<1>6. SlotsAgree(n) /\ PlacesAgree(n) /\ ListsAgree(n) /\ FreeAgree(n)
      /\ EventsAgree(n)
  BY <1>2, <1>4, <1>5
     DEF SlotsAgree, PlacesAgree, ListsAgree, FreeAgree, EventsAgree
<1>7. CountsAgree(n)
  <2>1. \A c \in Bgs : HoldersIn(n, c) = HoldersIn(r, c)
    BY <1>4 DEF HoldersIn
  <2> QED
    BY <2>1, <1>2, <1>4, <1>5 DEF CountsAgree
<1>8. Consistent(n)
  BY <1>2, <1>3, <1>4, <1>6, <1>7 DEF Consistent
<1>9. Fresh(n)
  BY <1>4 DEF Fresh
<1> QED
  BY <1>1, <1>8, <1>9 DEF IInv

\* Nothing is queued at first.
LEMMA InitIsConsistent ==
    ASSUME Init
    PROVE  IInv
<1> DEFINE s == Now
<1>1. /\ queue \in Queues /\ \A k \in Kinds, t \in Teams : GroupsIn(queue, k, t) = {}
  <2>1. <<>> \in Seq(Group) /\ ToSet(<<>>) = {}
    BY DEF ToSet
  <2> QED
    BY <2>1 DEF Init, Queues, GroupsIn
<1>2. Groups(queue) = {} /\ Queued(queue) = {}
  <2>1. Groups(queue) = {}
    BY <1>1, InGroups
  <2> QED
    BY <2>1 DEF Queued
<1>3. /\ events = {} /\ slot = [p \in Players |-> NoSlot] /\ place = [p \in Players |-> "out"]
      /\ at = [p \in Players |-> None] /\ bg = [b \in Bgs |-> NoBg]
      /\ freeSlots = <<>> /\ scheduled = FALSE /\ stale = {}
  BY DEF Init
<1>4. /\ bg \in [Bgs -> Battleground] /\ \A b \in Bgs : bg[b] = NoBg
  BY <1>3, NoBgIs
<1>5. freeSlots \in Seq(Bgs)
  BY <1>3
<1>6. s \in State
  BY <1>1, <1>3, <1>4, <1>5 DEF State, Now, Places
<1>7. \A c : ~Exists(s, c)
  BY <1>4, NoBgIs, NowFields DEF Exists
<1> HIDE DEF s
<1>8. /\ s.queue = queue /\ s.events = {} /\ s.bg = bg /\ s.freeSlots = <<>>
      /\ \A p \in Players : s.slot[p] = NoSlot /\ s.place[p] = "out" /\ s.at[p] = None
  BY <1>3, NowFields DEF s
<1>9. GroupsApart(s.queue) /\ SlotsAgree(s) /\ EventsAgree(s)
  BY <1>1, <1>2, <1>8 DEF GroupsApart, SlotsAgree, EventsAgree
<1>10. PlacesAgree(s)
  BY <1>8, Constants DEF PlacesAgree
<1>11. ListsAgree(s)
  BY <1>4, <1>8, NoBgIs DEF ListsAgree
<1>12. FreeAgree(s)
  BY <1>8 DEF FreeAgree, ToSet
<1>13. CountsAgree(s)
  BY <1>4, <1>7, <1>8, NoBgIs DEF CountsAgree
<1>14. Consistent(s) /\ Fresh(s)
  BY <1>6, <1>8, <1>9, <1>10, <1>11, <1>12, <1>13 DEF Consistent, Fresh
<1> QED
  BY <1>14 DEF IInv, s

\* Players that are out and hold no slot are queued.
LEMMA JoinKeeps ==
    ASSUME NEW s, Consistent(s), NEW S \in SUBSET Players, S # {},
           \A p, o \in S : TeamOf[p] = TeamOf[o],
           \A p \in S : s.place[p] = "out" /\ s.slot[p] = NoSlot,
           NEW kind \in Kinds, NEW r, r = AddGroup(s, S, kind)
    PROVE  /\ Consistent(r) /\ r.events = s.events /\ r.bg = s.bg
<1>1. /\ s \in State /\ s.queue \in Queues /\ GroupsApart(s.queue)
      /\ s.slot \in [Players -> {NoSlot, None} \cup Bgs]
      /\ SlotsAgree(s) /\ PlacesAgree(s) /\ ListsAgree(s)
      /\ FreeAgree(s) /\ CountsAgree(s) /\ EventsAgree(s)
  BY StateFields DEF Consistent
<1> DEFINE t == TeamOf[CHOOSE p \in S : TRUE]
           g == [players |-> S, bg |-> None, left |-> 0]
           q == [s.queue EXCEPT ![kind][t] = Append(@, g)]
           l == [p \in Players |-> IF p \in S THEN None ELSE s.slot[p]]
<1>2. r = [s EXCEPT !.queue = q, !.slot = l, !.scheduled = TRUE]
  BY DEF AddGroup
<1>3. t \in Teams /\ \A p \in S : TeamOf[p] = t
  <2>1. (CHOOSE p \in S : TRUE) \in S
    OBVIOUS
  <2> QED
    BY <2>1, Constants
<1>4. g \in Group /\ g.players = S /\ g.bg = None
  BY Constants DEF Group
<1> HIDE DEF t, g
<1> DEFINE old == s.queue[kind][t]
           new == Append(old, g)
<1>5. old \in Seq(Group) /\ new \in Seq(Group) /\ ToSet(new) = ToSet(old) \cup {g}
  <2>1. old \in Seq(Group)
    BY <1>1, <1>3 DEF Queues
  <2> HIDE DEF old
  <2>2. new \in Seq(Group)
    BY <2>1, <1>4
  <2> QED
    BY <2>1, <2>2, <1>4, ElementsOfAppend
<1>6. /\ q \in Queues
      /\ \A k \in Kinds, u \in Teams : q[k][u] = IF k = kind /\ u = t THEN new ELSE s.queue[k][u]
  <2>1. q = [s.queue EXCEPT ![kind][t] = new]
    OBVIOUS
  <2> HIDE DEF q, new, old
  <2> QED
    BY <2>1, <1>1, <1>3, <1>5 DEF Queues
<1> HIDE DEF q, new
<1>7. \A k \in Kinds, u \in Teams : \A h :
          h \in GroupsIn(q, k, u) <=> \/ h \in GroupsIn(s.queue, k, u)
                                      \/ h = g /\ k = kind /\ u = t
  BY <1>5, <1>6 DEF GroupsIn
<1> HIDE DEF old
<1>8. \A h : h \in Groups(q) <=> h \in Groups(s.queue) \/ h = g
  BY <1>3, <1>7, InGroups
<1>9. \A p : p \in Queued(q) <=> p \in Queued(s.queue) \/ p \in S
  BY <1>4, <1>8, InQueued
<1>10. \A p \in S : p \notin Queued(s.queue)
  <2> SUFFICES ASSUME NEW p \in S, p \in Queued(s.queue) PROVE FALSE
    OBVIOUS
  <2>1. PICK h \in Groups(s.queue) : p \in h.players /\ s.slot[p] = h.bg
    BY <1>1, SlotOfQueued
  <2>2. h \in Group
    BY <1>1, GroupsAreGroups
  <2> QED
    BY <2>1, <2>2, GroupFields, Constants
<1>11. l \in [Players -> {NoSlot, None} \cup Bgs]
  BY <1>1
<1>12. \A p \in Players : l[p] = IF p \in S THEN None ELSE s.slot[p]
  OBVIOUS
<1> HIDE DEF l
<1>13. /\ r \in State /\ r.queue = q /\ r.events = s.events /\ r.slot = l
       /\ r.place = s.place /\ r.at = s.at /\ r.stale = s.stale /\ r.bg = s.bg
       /\ r.freeSlots = s.freeSlots
  BY <1>1, <1>2, <1>6, <1>11 DEF State
<1>14. \A c : Exists(r, c) <=> Exists(s, c)
  BY <1>13 DEF Exists
<1>15. /\ \A h \in Groups(s.queue) : h.players \in SUBSET Players /\ h.players \cap S = {}
       /\ Queued(s.queue) \in SUBSET Players
  BY <1>1, <1>10, GroupsAreGroups, GroupFields, InQueued
<1>16. GroupsApart(q)
  <2>1. ASSUME NEW k \in Kinds, NEW u \in Teams, NEW h \in GroupsIn(q, k, u), NEW p \in h.players
        PROVE  TeamOf[p] = u
    BY <1>1, <1>3, <1>4, <1>7 DEF GroupsApart
  <2>2. ASSUME NEW h \in Groups(q), NEW i \in Groups(q), h # i
        PROVE  h.players \cap i.players = {}
    <3>1. CASE h \in Groups(s.queue) /\ i \in Groups(s.queue)
      BY <3>1, <2>2, <1>1 DEF GroupsApart
    <3>2. CASE h = g
      BY <3>2, <2>2, <1>4, <1>8, <1>15
    <3>3. CASE i = g
      BY <3>3, <2>2, <1>4, <1>8, <1>15
    <3> QED
      BY <3>1, <3>2, <3>3, <1>8
  <2> QED
    BY <2>1, <2>2 DEF GroupsApart
<1>17. SlotsAgree(r)
  <2> SUFFICES ASSUME NEW h \in Groups(q), NEW p \in h.players
               PROVE  s.place[p] = "out" /\ l[p] = h.bg
    BY <1>13 DEF SlotsAgree
  <2>1. CASE h = g
    BY <2>1, <1>4, <1>12
  <2>2. CASE h \in Groups(s.queue)
    BY <2>2, <1>1, <1>12, <1>15 DEF SlotsAgree
  <2> QED
    BY <2>1, <2>2, <1>8
<1>19. PlacesAgree(r)
  BY <1>1, <1>12, <1>13 DEF PlacesAgree
<1>20. ListsAgree(r) /\ FreeAgree(r)
  BY <1>1, <1>13, <1>14 DEF ListsAgree, FreeAgree
<1>21. CountsAgree(r)
  <2>1. ASSUME NEW c \in Bgs
        PROVE  \A p : p \in HoldersIn(r, c) <=> p \in HoldersIn(s, c)
    <3>1. \A p : (p \in Queued(q) /\ l[p] = c) <=> (p \in Queued(s.queue) /\ s.slot[p] = c)
      BY <1>9, <1>12, <1>15, Constants
    <3> QED
      BY <3>1, <1>13 DEF HoldersIn
  <2>2. \A c \in Bgs : HoldersIn(r, c) = HoldersIn(s, c)
    BY <2>1
  <2> QED
    BY <2>2, <1>1, <1>13, <1>14 DEF CountsAgree
<1>22. EventsAgree(r)
  BY <1>1, <1>4, <1>8, <1>13 DEF EventsAgree
<1> QED
  BY <1>13, <1>16, <1>17, <1>19, <1>20, <1>21, <1>22 DEF Consistent

\* A step that leaves the events alone and invites nobody.
Quiet(r, s) == r.events = s.events /\ CountsFall(r, s)

StepKeeps == \E r : Consistent(r) /\ Quiet(r, Now) /\ Become(r)

\* Steps that invite nobody.
LEMMA SameIsQuiet ==
    ASSUME NEW s \in State, NEW r, r.events = s.events,
           \A b \in Bgs : r.bg[b].invited = s.bg[b].invited
    PROVE  Quiet(r, s)
BY CountsFallRefl DEF Quiet

LEMMA QuietAfter ==
    ASSUME NEW s, NEW x, Quiet(x, s), NEW r, r.events = x.events, r.bg = x.bg
    PROVE  Quiet(r, s)
BY DEF Quiet, CountsFall, Exists

LEMMA UninvitedIsQuiet ==
    ASSUME NEW s, Consistent(s), NEW S, NEW r, Uninvited(r, s, S)
    PROVE  Quiet(r, s)
BY UninvitedFall DEF Quiet, Uninvited, Removed

\* A player in a battleground goes offline or comes back.
LEMMA PlaceKeeps ==
    ASSUME NEW s, Consistent(s), NEW p \in Players,
           s.place[p] \in {"inside", "offline"},
           NEW r \in State,
           r.queue = s.queue, r.events = s.events, r.at = s.at, r.bg = s.bg,
           r.freeSlots = s.freeSlots, r.stale = s.stale,
           \A o \in Players : o # p => r.place[o] = s.place[o] /\ r.slot[o] = s.slot[o],
           r.place[p] \in {"inside", "offline"}
    PROVE  Consistent(r)
<1>1. /\ s \in State /\ s.queue \in Queues /\ GroupsApart(s.queue)
      /\ SlotsAgree(s) /\ PlacesAgree(s) /\ ListsAgree(s)
      /\ FreeAgree(s) /\ CountsAgree(s) /\ EventsAgree(s)
  BY StateFields DEF Consistent
<1>2. \A c : Exists(r, c) <=> Exists(s, c)
  BY DEF Exists
<1>3. /\ Queued(s.queue) \in SUBSET Players /\ p \notin Queued(s.queue)
      /\ \A g \in Groups(s.queue) : \A o \in g.players : o \in Players /\ o # p
  <2>1. Queued(s.queue) \in SUBSET Players
    BY <1>1, GroupsAreGroups
  <2>2. p \notin Queued(s.queue)
    BY <1>1, SlotOfQueued
  <2> QED
    BY <2>1, <2>2, InQueued
<1>4. SlotsAgree(r)
  BY <1>1, <1>3 DEF SlotsAgree
<1>5. PlacesAgree(r)
  BY <1>1 DEF PlacesAgree
<1>6. ListsAgree(r)
  <2> SUFFICES ASSUME NEW c \in Bgs, NEW o \in s.bg[c].players
               PROVE  Exists(r, c) /\ r.at[o] = c /\ r.place[o] \in {"inside", "offline"}
    BY DEF ListsAgree
  <2>1. o \in Players
    BY <1>1, StateFields DEF Battleground
  <2> QED
    BY <2>1, <1>1, <1>2 DEF ListsAgree
<1>7. FreeAgree(r) /\ EventsAgree(r)
  BY <1>1, <1>2 DEF FreeAgree, EventsAgree
<1>8. CountsAgree(r)
  <2>1. ASSUME NEW c \in Bgs PROVE HoldersIn(r, c) = HoldersIn(s, c)
    <3>1. \A o : (o \in Queued(r.queue) /\ r.slot[o] = c) <=> (o \in Queued(s.queue) /\ s.slot[o] = c)
      BY <1>3
    <3>2. \A o \in Players : r.place[o] = "entering" <=> s.place[o] = "entering"
      OBVIOUS
    <3>3. \A o : o \in HoldersIn(r, c) <=> o \in HoldersIn(s, c)
      BY <3>1, <3>2 DEF HoldersIn
    <3> QED
      BY <3>3
  <2> QED
    BY <2>1, <1>1, <1>2 DEF CountsAgree
<1> QED
  BY <1>1, <1>4, <1>5, <1>6, <1>7, <1>8 DEF Consistent

\* A player is sent to the entry point.
Outside(s, p) == [s EXCEPT !.place[p] = "out", !.at[p] = None]

\* He is in no list any more.
LEMMA OutIs ==
    ASSUME NEW s, Consistent(s), NEW p \in Players,
           \/ s.place[p] = "out"
           \/ s.place[p] \in {"inside", "offline"} /\ p \notin s.bg[s.at[p]].players,
           NEW r, r = Outside(s, p)
    PROVE  /\ Consistent(r) /\ r.events = s.events /\ r.bg = s.bg
<1>1. /\ s \in State /\ s.place \in [Players -> Places]
      /\ s.at \in [Players -> Bgs \cup {None}] /\ PlacesAgree(s)
  BY StateFields DEF Consistent
<1> DEFINE x == Sent(s, p)
<1>2. x = Sent(s, p)
  OBVIOUS
<1>3. r = x
  <2> DEFINE a == [s.at EXCEPT ![p] = None]
             l == [s.place EXCEPT ![p] = "out"]
  <2>1. r = [s EXCEPT !.place = l, !.at = a] /\ x = [s EXCEPT !.at = a, !.place = l]
    BY DEF Sent, Outside
  <2> HIDE DEF x, a, l
  <2> QED
    BY <2>1, <1>1 DEF State
<1> HIDE DEF x
<1>4. /\ x \in State /\ x.queue = s.queue /\ x.events = s.events /\ x.bg = s.bg
      /\ (/\ Consistent(s) /\ s.place[p] \in {"inside", "offline"}
          /\ p \notin s.bg[s.at[p]].players)
         => Consistent(x)
  BY <1>1, <1>2, SentIs
<1>5. CASE s.place[p] = "out"
  <2> DEFINE a == [s.at EXCEPT ![p] = None]
             l == [s.place EXCEPT ![p] = "out"]
  <2>1. x = [s EXCEPT !.at = a, !.place = l]
    BY <1>2 DEF Sent
  <2>2. a = s.at /\ l = s.place
    BY <1>1, <1>5 DEF PlacesAgree
  <2> HIDE DEF a, l
  <2>3. x = s
    BY <2>1, <2>2, <1>1 DEF State
  <2> QED
    BY <2>3, <1>3
<1>6. CASE s.place[p] \in {"inside", "offline"} /\ p \notin s.bg[s.at[p]].players
  BY <1>3, <1>4, <1>6
<1> QED
  BY <1>5, <1>6

\* The handlers, one lemma for each.
LEMMA JoinStep ==
    ASSUME IInv, NEW p \in Players, Join(p)
    PROVE  StepKeeps
<1> DEFINE S == {p}
           s == Now
           r == AddGroup(s, S, "normal")
<1>1. /\ S \in SUBSET Players /\ S # {} /\ \A o, i \in S : TeamOf[o] = TeamOf[i]
      /\ \A o \in S : s.place[o] = "out" /\ s.slot[o] = NoSlot
  BY NowFields DEF Join
<1>2. Consistent(s) /\ "normal" \in Kinds
  BY DEF IInv, Kinds
<1>3. Become(r) /\ r = AddGroup(s, S, "normal")
  BY DEF Join
<1> HIDE DEF S, s, r
<1>4. Consistent(r) /\ r.events = s.events /\ r.bg = s.bg
  BY <1>1, <1>2, <1>3, JoinKeeps
<1>5. Quiet(r, s)
  BY <1>2, <1>4, SameIsQuiet DEF Consistent
<1> QED
  BY <1>3, <1>4, <1>5 DEF StepKeeps, s

LEMMA JoinAsGroupStep ==
    ASSUME IInv, NEW S \in SUBSET Players, JoinAsGroup(S)
    PROVE  StepKeeps
<1> DEFINE s == Now
           kind == IF Cardinality(S) >= MinPlayers THEN "premade" ELSE "normal"
           r == AddGroup(s, S, kind)
<1>1. /\ \A o, i \in S : TeamOf[o] = TeamOf[i]
      /\ \A o \in S : s.place[o] = "out" /\ s.slot[o] = NoSlot
  BY NowFields DEF JoinAsGroup
<1>2. S # {}
  <2>1. Cardinality(S) >= 2
    BY Constants DEF JoinAsGroup
  <2> QED
    BY <2>1, FS_EmptySet
<1>3. Consistent(s) /\ kind \in Kinds
  BY DEF IInv, Kinds
<1>4. Become(r) /\ r = AddGroup(s, S, kind)
  BY DEF JoinAsGroup
<1> HIDE DEF s, r, kind
<1>5. Consistent(r) /\ r.events = s.events /\ r.bg = s.bg
  BY <1>1, <1>2, <1>3, <1>4, JoinKeeps
<1>6. Quiet(r, s)
  BY <1>3, <1>5, SameIsQuiet DEF Consistent
<1> QED
  BY <1>4, <1>5, <1>6 DEF StepKeeps, s

\* Port: the player leaves the queue but still holds his place, on the way.
LEMMA PortStep ==
    ASSUME IInv, NEW p \in Players, Port(p)
    PROVE  StepKeeps
<1> DEFINE s == Now
           S == {p}
           b == GroupOf(queue, p).bg
           x == RemovePlayers(s, S, FALSE)
           r == [x EXCEPT !.at[p] = b, !.place[p] = "entering"]
<1>1. Consistent(s) /\ S \in SUBSET Players /\ FALSE \in BOOLEAN
  BY DEF IInv
<1>2. Become(r) /\ Exists(s, b) /\ s.place[p] = "out" /\ p \in Queued(s.queue)
  BY NowFields DEF Port
<1>3. x = RemovePlayers(s, S, FALSE) /\ s.queue = queue
  BY NowFields
<1> HIDE DEF s, x
<1>4. /\ s \in State /\ s.queue \in Queues /\ GroupsApart(s.queue)
      /\ SlotsAgree(s) /\ PlacesAgree(s) /\ ListsAgree(s)
      /\ FreeAgree(s) /\ CountsAgree(s) /\ EventsAgree(s)
  BY <1>1, StateFields DEF Consistent
<1>5. b \in Bgs /\ s.slot[p] = b
  <2>1. s.slot[p] = b
    <3>1. GroupOf(queue, p) \in Groups(queue) /\ p \in GroupOf(queue, p).players
      BY <1>2, <1>3, <1>4, GroupOfIs
    <3> QED
      BY <3>1, <1>3, <1>4 DEF SlotsAgree
  <2> QED
    BY <2>1, <1>2 DEF Exists
<1> HIDE DEF b, S
<1>6. Removed(x, s, S, FALSE)
  BY <1>1, <1>3, RemovePlayersIs
<1>7. /\ x \in State /\ GroupsApart(x.queue)
      /\ x.events = s.events /\ x.slot = s.slot /\ x.place = s.place
      /\ x.at = s.at /\ x.stale = s.stale /\ x.freeSlots = s.freeSlots
      /\ Queued(x.queue) = Queued(s.queue) \ S
      /\ \A g \in Groups(x.queue) : \E h \in Groups(s.queue) :
             g.players = h.players \ S /\ g.bg = h.bg /\ g.left = h.left
      /\ \A c \in Bgs : /\ x.bg[c].status = s.bg[c].status
                        /\ x.bg[c].players = s.bg[c].players
                        /\ \A t \in Teams : x.bg[c].invited[t] = s.bg[c].invited[t]
  BY <1>6 DEF Removed
<1> DEFINE a == [x.at EXCEPT ![p] = b]
           l == [x.place EXCEPT ![p] = "entering"]
<1>8. r = [x EXCEPT !.at = a, !.place = l]
  OBVIOUS
<1>9. /\ a \in [Players -> Bgs \cup {None}] /\ l \in [Players -> Places]
      /\ \A o \in Players : /\ a[o] = IF o = p THEN b ELSE s.at[o]
                            /\ l[o] = IF o = p THEN "entering" ELSE s.place[o]
  BY <1>5, <1>7, StateFields DEF Places
<1> HIDE DEF a, l, r
<1>10. /\ r \in State /\ r.queue = x.queue /\ r.events = s.events /\ r.slot = s.slot
       /\ r.place = l /\ r.at = a /\ r.bg = x.bg /\ r.freeSlots = s.freeSlots
       /\ r.stale = s.stale
  BY <1>7, <1>8, <1>9 DEF State
<1>11. \A c : Exists(r, c) <=> Exists(s, c)
  BY <1>7, <1>10 DEF Exists
<1>12. S = {p}
  BY DEF S
<1>13. \A g \in Groups(x.queue) : \E h \in Groups(s.queue) :
           /\ g.bg = h.bg /\ g.left = h.left
           /\ \A o \in g.players : o \in h.players /\ o \in Players /\ o # p
  <2>1. \A h \in Groups(s.queue) : h.players \in SUBSET Players
    BY <1>4, GroupsAreGroups, GroupFields
  <2> QED
    BY <2>1, <1>7, <1>12
<1>14. SlotsAgree(r) /\ EventsAgree(r)
  <2>1. ASSUME NEW g \in Groups(x.queue), NEW o \in g.players
        PROVE  /\ l[o] = "out" /\ s.slot[o] = g.bg
               /\ g.bg # None => [player |-> o, bg |-> g.bg, left |-> g.left] \in s.events
    <3>1. PICK h \in Groups(s.queue) :
                /\ g.bg = h.bg /\ g.left = h.left
                /\ o \in h.players /\ o \in Players /\ o # p
      BY <1>13
    <3>2. s.place[o] = "out" /\ s.slot[o] = h.bg
      BY <3>1, <1>4 DEF SlotsAgree
    <3> QED
      BY <3>1, <3>2, <1>4, <1>9 DEF EventsAgree
  <2> QED
    BY <2>1, <1>10 DEF SlotsAgree, EventsAgree
<1>15. PlacesAgree(r)
  BY <1>4, <1>5, <1>9, <1>10, Constants DEF PlacesAgree
<1>16. ListsAgree(r)
  <2> SUFFICES ASSUME NEW c \in Bgs, NEW o \in s.bg[c].players
               PROVE  Exists(r, c) /\ a[o] = c /\ l[o] \in {"inside", "offline"}
    BY <1>7, <1>10 DEF ListsAgree
  <2>1. o \in Players /\ Exists(s, c) /\ s.at[o] = c /\ s.place[o] \in {"inside", "offline"}
    BY <1>4, StateFields, BattlegroundFields DEF ListsAgree
  <2> QED
    BY <2>1, <1>2, <1>9, <1>11
<1>17. FreeAgree(r)
  BY <1>4, <1>10, <1>11 DEF FreeAgree
<1>18. CountsAgree(r)
  <2>1. ASSUME NEW c \in Bgs PROVE HoldersIn(r, c) = HoldersIn(s, c)
    <3>1. \A o : o \in Queued(r.queue) <=> (o \in Queued(s.queue) /\ o # p)
      BY <1>7, <1>10, <1>12
    <3>2. \A o : o \in HoldersIn(r, c) <=> o \in HoldersIn(s, c)
      BY <3>1, <1>2, <1>5, <1>7, <1>9, <1>10 DEF HoldersIn
    <3> QED
      BY <3>2
  <2> QED
    BY <2>1, <1>4, <1>7, <1>10, <1>11 DEF CountsAgree
<1>19. Consistent(r)
  BY <1>7, <1>10, <1>14, <1>15, <1>16, <1>17, <1>18 DEF Consistent
<1>20. Quiet(r, s)
  <2>1. CountsFall(r, s)
    BY <1>4, <1>7, <1>10, CountsFallRefl
  <2> QED
    BY <2>1, <1>10 DEF Quiet
<1> QED
  BY <1>2, <1>19, <1>20 DEF StepKeeps, s

\* From x to r the slots of the players S are cleared.
Cleared(r, x, S) ==
    /\ r \in State
    /\ r.queue = x.queue /\ r.events = x.events /\ r.bg = x.bg
    /\ r.place = x.place /\ r.at = x.at /\ r.stale = x.stale /\ r.freeSlots = x.freeSlots
    /\ \A p \in Players : r.slot[p] = IF p \in S THEN NoSlot ELSE x.slot[p]

\* They hold no place, so no count changes.
LEMMA ClearedIs ==
    ASSUME NEW x, Consistent(x), NEW S,
           \A p \in S : p \notin Queued(x.queue) /\ x.place[p] # "entering",
           NEW r, Cleared(r, x, S)
    PROVE  Consistent(r)
BY ClearedKeeps DEF Cleared

\* RemovePlayers and the slots of the players.
LEMMA RemoveAndClear ==
    ASSUME NEW s, Consistent(s), NEW S \in SUBSET Players,
           \A p \in S : s.place[p] # "entering",
           NEW r, Cleared(r, RemovePlayers(s, S, TRUE), S)
    PROVE  Consistent(r) /\ Quiet(r, s)
<1> DEFINE x == RemovePlayers(s, S, TRUE)
<1>1. Cleared(r, x, S)
  OBVIOUS
<1>2. Consistent(x)
  BY RemovePlayersKeeps
<1>3. Uninvited(x, s, S) /\ Removed(x, s, S, TRUE)
  BY RemovePlayersIs DEF Uninvited
<1> HIDE DEF x
<1>4. \A o \in S : o \notin Queued(x.queue) /\ x.place[o] # "entering"
  BY <1>3 DEF Removed
<1>5. Consistent(r)
  BY <1>1, <1>2, <1>4, ClearedIs
<1>6. Quiet(x, s)
  BY <1>3, UninvitedIsQuiet
<1>7. Quiet(r, s)
  BY <1>1, <1>6, QuietAfter DEF Cleared
<1> QED
  BY <1>5, <1>7

\* LeaveQueue: the slot is cleared when the group has gone.
LEMMA LeaveQueueStep ==
    ASSUME IInv, NEW p \in Players, LeaveQueue(p)
    PROVE  StepKeeps
<1> DEFINE s == Now
           S == {p}
           x == RemovePlayers(s, S, TRUE)
           l == [x.slot EXCEPT ![p] = NoSlot]
           r == [x EXCEPT !.slot[p] = NoSlot, !.scheduled = TRUE]
<1>1. Consistent(s) /\ s.place[p] # "entering"
  BY NowFields DEF IInv, LeaveQueue
<1>2. Become(r) /\ x = RemovePlayers(s, S, TRUE) /\ S \in SUBSET Players
      /\ \A o : o \in S <=> o = p
  BY DEF LeaveQueue
<1>3. r = [x EXCEPT !.slot = l, !.scheduled = TRUE]
  OBVIOUS
<1> HIDE DEF s, S
<1>9. Consistent(x)
  BY <1>1, <1>2, RemovePlayersKeeps
<1> HIDE DEF x
<1>4. x \in State /\ x.slot \in [Players -> {NoSlot, None} \cup Bgs]
  BY <1>9, StateFields DEF Consistent
<1>5. /\ l \in [Players -> {NoSlot, None} \cup Bgs]
      /\ \A o \in Players : l[o] = IF o = p THEN NoSlot ELSE x.slot[o]
  BY <1>4
<1> HIDE DEF l, r
<1>6. /\ r \in State /\ r.queue = x.queue /\ r.events = x.events /\ r.bg = x.bg
      /\ r.place = x.place /\ r.at = x.at /\ r.stale = x.stale
      /\ r.freeSlots = x.freeSlots /\ r.slot = l
  BY <1>3, <1>4, <1>5 DEF State
<1>7. Cleared(r, x, S) /\ \A o \in S : s.place[o] # "entering"
  BY <1>1, <1>2, <1>5, <1>6 DEF Cleared
<1>8. Consistent(r) /\ Quiet(r, s)
  BY <1>1, <1>2, <1>7, RemoveAndClear
<1> QED
  BY <1>2, <1>8 DEF StepKeeps, s

\* LogoutPlayer: the queue is told, the battleground keeps the place.
LEMMA LogoutPlayerStep ==
    ASSUME IInv, NEW p \in Players, LogoutPlayer(p)
    PROVE  StepKeeps
<1> DEFINE s == Now
           S == {p}
           x == RemovePlayers(s, S, TRUE)
           l == [x.slot EXCEPT ![p] = NoSlot]
           m == [x.place EXCEPT ![p] = IF @ = "inside" THEN "offline" ELSE "out"]
           d == [x EXCEPT !.slot = l]
           r == [x EXCEPT !.slot[p] = NoSlot,
                          !.place[p] = IF @ = "inside" THEN "offline" ELSE "out"]
<1>1. Consistent(s) /\ s.place[p] \in {"inside", "out"}
  BY NowFields DEF IInv, LogoutPlayer
<1>2. Become(r) /\ x = RemovePlayers(s, S, TRUE) /\ S \in SUBSET Players
      /\ \A o : o \in S <=> o = p
  BY DEF LogoutPlayer
<1>3. r = [x EXCEPT !.slot = l, !.place = m]
  OBVIOUS
<1> HIDE DEF s, x, S
<1>4. /\ x \in State /\ x.slot \in [Players -> {NoSlot, None} \cup Bgs]
      /\ x.place \in [Players -> Places] /\ x.place = s.place
  <2>1. TRUE \in BOOLEAN
    OBVIOUS
  <2>2. Removed(x, s, S, TRUE)
    BY <2>1, <1>1, <1>2, RemovePlayersIs
  <2> QED
    BY <2>2, StateFields DEF Removed
<1>5. /\ l \in [Players -> {NoSlot, None} \cup Bgs]
      /\ \A o \in Players : l[o] = IF o = p THEN NoSlot ELSE x.slot[o]
  BY <1>4
<1>6. /\ m \in [Players -> Places]
      /\ \A o \in Players : o # p => m[o] = x.place[o]
      /\ m[p] = IF x.place[p] = "inside" THEN "offline" ELSE "out"
  BY <1>4 DEF Places
<1> HIDE DEF l, m, r
<1>7. /\ d \in State /\ d.queue = x.queue /\ d.events = x.events /\ d.bg = x.bg
      /\ d.place = x.place /\ d.at = x.at /\ d.stale = x.stale
      /\ d.freeSlots = x.freeSlots /\ d.slot = l
  BY <1>4, <1>5 DEF State
<1> HIDE DEF d
<1>8. /\ r \in State /\ r.queue = x.queue /\ r.events = x.events /\ r.bg = x.bg
      /\ r.place = m /\ r.at = x.at /\ r.stale = x.stale
      /\ r.freeSlots = x.freeSlots /\ r.slot = l
  BY <1>3, <1>4, <1>5, <1>6 DEF State
<1>9. Consistent(d) /\ Quiet(d, s)
  <2>1. Cleared(d, x, S) /\ \A o \in S : s.place[o] # "entering"
    BY <1>1, <1>2, <1>5, <1>7 DEF Cleared
  <2> QED
    BY <1>1, <1>2, <2>1, RemoveAndClear
<1>10. CASE s.place[p] = "inside"
  <2>1. /\ d.place[p] \in {"inside", "offline"} /\ r.place[p] \in {"inside", "offline"}
        /\ \A o \in Players : o # p => r.place[o] = d.place[o] /\ r.slot[o] = d.slot[o]
    BY <1>4, <1>6, <1>7, <1>8, <1>10
  <2>2. /\ r.queue = d.queue /\ r.events = d.events /\ r.at = d.at /\ r.bg = d.bg
        /\ r.freeSlots = d.freeSlots /\ r.stale = d.stale
    BY <1>7, <1>8
  <2>3. Consistent(r)
    BY <1>8, <1>9, <2>1, <2>2, PlaceKeeps
  <2>4. Quiet(r, s)
    BY <1>9, <2>2, QuietAfter
  <2> QED
    BY <1>2, <2>3, <2>4 DEF StepKeeps, s
<1>11. CASE s.place[p] = "out"
  <2>1. m = x.place
    BY <1>4, <1>6, <1>11
  <2>2. \A c \in Bgs : /\ Exists(r, c) <=> Exists(d, c)
                       /\ r.bg[c].players = d.bg[c].players
                       /\ r.bg[c].invited = d.bg[c].invited
    BY <1>7, <1>8 DEF Exists
  <2>3. Consistent(r)
    BY <1>7, <1>8, <1>9, <2>1, <2>2, SameKeeps
  <2>4. Quiet(r, s)
    BY <1>7, <1>8, <1>9, QuietAfter
  <2> QED
    BY <1>2, <2>3, <2>4 DEF StepKeeps, s
<1> QED
  BY <1>1, <1>10, <1>11

\* The end of the way: into the list of the battleground if it still is,
\* and else inside what is left of its map, or out.
LEMMA ComeKeeps ==
    ASSUME NEW s, Consistent(s), NEW p \in Players, s.place[p] = "entering",
           NEW r \in State,
           r.queue = s.queue, r.events = s.events, r.slot = s.slot,
           r.freeSlots = s.freeSlots, r.stale = s.stale,
           \A o \in Players : o # p => r.place[o] = s.place[o] /\ r.at[o] = s.at[o],
           \/ r.place[p] = "inside" /\ r.at[p] = s.at[p]
           \/ r.place[p] = "out" /\ r.at[p] = None /\ ~Exists(s, s.at[p]),
           \A c \in Bgs :
               /\ r.bg[c].status = s.bg[c].status /\ r.bg[c].invited = s.bg[c].invited
               /\ c # s.at[p] \/ ~Exists(s, c) => r.bg[c].players = s.bg[c].players
               /\ c = s.at[p] /\ Exists(s, c) =>
                      r.bg[c].players = s.bg[c].players \cup {p}
    PROVE  Consistent(r) /\ Quiet(r, s)
<1>1. /\ s \in State /\ s.queue \in Queues /\ GroupsApart(s.queue)
      /\ s.bg \in [Bgs -> Battleground] /\ s.at \in [Players -> Bgs \cup {None}]
      /\ SlotsAgree(s) /\ PlacesAgree(s) /\ ListsAgree(s)
      /\ FreeAgree(s) /\ CountsAgree(s) /\ EventsAgree(s)
  BY StateFields DEF Consistent
<1>2. s.at[p] \in Bgs
  BY <1>1 DEF PlacesAgree
<1>3. \A c : Exists(r, c) <=> Exists(s, c)
  BY DEF Exists
<1>4. /\ Queued(s.queue) \in SUBSET Players /\ p \notin Queued(s.queue)
      /\ \A g \in Groups(s.queue) : \A o \in g.players : o \in Players /\ o # p
  <2>1. Queued(s.queue) \in SUBSET Players
    BY <1>1, GroupsAreGroups
  <2>2. p \notin Queued(s.queue)
    BY <1>1, SlotOfQueued
  <2> QED
    BY <2>1, <2>2, InQueued
<1>5. SlotsAgree(r)
  BY <1>1, <1>4 DEF SlotsAgree
<1>6. PlacesAgree(r)
  BY <1>1, <1>2, Constants DEF PlacesAgree
<1>7. ListsAgree(r)
  <2> SUFFICES ASSUME NEW c \in Bgs, NEW o \in r.bg[c].players
               PROVE  Exists(r, c) /\ r.at[o] = c /\ r.place[o] \in {"inside", "offline"}
    BY DEF ListsAgree
  <2>1. CASE o \in s.bg[c].players
    <3>1. o \in Players /\ Exists(s, c) /\ s.at[o] = c /\ s.place[o] \in {"inside", "offline"}
      BY <2>1, <1>1, BattlegroundFields DEF ListsAgree
    <3> QED
      BY <3>1, <1>3
  <2>2. CASE o = p /\ c = s.at[p] /\ Exists(s, c)
    BY <2>2, <1>3
  <2>3. o \in s.bg[c].players \/ (o = p /\ c = s.at[p] /\ Exists(s, c))
    OBVIOUS
  <2> QED
    BY <2>1, <2>2, <2>3
<1>8. FreeAgree(r) /\ EventsAgree(r)
  BY <1>1, <1>3 DEF FreeAgree, EventsAgree
<1>9. ASSUME NEW c \in Bgs, Exists(s, c) PROVE HoldersIn(r, c) = HoldersIn(s, c)
  <2>0. r.place[p] # "entering"
    OBVIOUS
  <2>1. \A o : (o \in Players /\ r.place[o] = "entering" /\ r.at[o] = c) <=>
               (o \in Players /\ o # p /\ s.place[o] = "entering" /\ s.at[o] = c)
    BY <2>0
  <2>2. \A o : o \in r.bg[c].players <=> (o \in s.bg[c].players \/ (o = p /\ s.at[p] = c))
    BY <1>9
  <2>3. \A o : o \in HoldersIn(r, c) <=> o \in HoldersIn(s, c)
    BY <2>1, <2>2 DEF HoldersIn
  <2> QED
    BY <2>3
<1>10. CountsAgree(r)
  <2> SUFFICES ASSUME NEW c \in Bgs, c \notin s.stale, NEW t \in Teams, Exists(s, c)
               PROVE  r.bg[c].invited[t] = Cardinality(InTeam(HoldersIn(r, c), t))
    BY <1>3 DEF CountsAgree
  <2>1. s.bg[c].invited[t] = Cardinality(InTeam(HoldersIn(s, c), t))
    BY <1>1 DEF CountsAgree
  <2> QED
    BY <2>1, <1>9
<1>11. Consistent(r)
  BY <1>1, <1>5, <1>6, <1>7, <1>8, <1>10 DEF Consistent
<1>12. Quiet(r, s)
  BY <1>1, SameIsQuiet
<1> QED
  BY <1>11, <1>12

\* Arrive: the three ways it may end.
LEMMA ArriveStep ==
    ASSUME IInv, NEW p \in Players, Arrive(p)
    PROVE  StepKeeps
<1> DEFINE s == Now
           b == at[p]
<1>1. Consistent(s) /\ s.place[p] = "entering" /\ b = s.at[p]
  BY NowFields DEF IInv, Arrive
<1>2. /\ s \in State /\ s.place \in [Players -> Places] /\ s.bg \in [Bgs -> Battleground]
      /\ s.at \in [Players -> Bgs \cup {None}] /\ PlacesAgree(s)
  BY <1>1, StateFields DEF Consistent
<1>3. b \in Bgs /\ s.slot[p] = b
  BY <1>1, <1>2 DEF PlacesAgree
<1>4. CASE bg[b].status = "none"
  <2> DEFINE r == [s EXCEPT !.place[p] = "out", !.at[p] = None]
             l == [s.place EXCEPT ![p] = "out"]
             a == [s.at EXCEPT ![p] = None]
  <2>1. Become(r)
    BY <1>4 DEF Arrive
  <2>2. ~Exists(s, b)
    BY <1>4, NowFields DEF Exists
  <2>3. r = [s EXCEPT !.place = l, !.at = a]
    OBVIOUS
  <2> HIDE DEF s, b
  <2>4. /\ l \in [Players -> Places] /\ a \in [Players -> Bgs \cup {None}]
        /\ \A o \in Players : o # p => l[o] = s.place[o] /\ a[o] = s.at[o]
        /\ l[p] = "out" /\ a[p] = None
    BY <1>2 DEF Places
  <2> HIDE DEF l, a, r
  <2>5. /\ r \in State /\ r.queue = s.queue /\ r.events = s.events /\ r.slot = s.slot
        /\ r.place = l /\ r.at = a /\ r.stale = s.stale /\ r.bg = s.bg
        /\ r.freeSlots = s.freeSlots
    BY <1>2, <2>3, <2>4 DEF State
  <2>6. \A c \in Bgs : ~(c = s.at[p] /\ Exists(s, c))
    BY <1>1, <2>2
  <2>7. ~Exists(s, s.at[p])
    BY <1>1, <2>2
  <2>8. Consistent(r) /\ Quiet(r, s)
    BY <1>1, <2>4, <2>5, <2>6, <2>7, ComeKeeps
  <2> QED
    BY <2>1, <2>8 DEF StepKeeps, s
<1>5. CASE bg[b].status # "none" /\ ~Exists(s, b)
  <2> DEFINE r == [s EXCEPT !.place[p] = "inside"]
             l == [s.place EXCEPT ![p] = "inside"]
  <2>1. Become(r)
    BY <1>5 DEF Arrive
  <2>2. r = [s EXCEPT !.place = l]
    OBVIOUS
  <2> HIDE DEF s, b
  <2>3. /\ l \in [Players -> Places] /\ l[p] = "inside"
        /\ \A o \in Players : o # p => l[o] = s.place[o]
    BY <1>2 DEF Places
  <2> HIDE DEF l, r
  <2>4. /\ r \in State /\ r.queue = s.queue /\ r.events = s.events /\ r.slot = s.slot
        /\ r.place = l /\ r.at = s.at /\ r.stale = s.stale /\ r.bg = s.bg
        /\ r.freeSlots = s.freeSlots
    BY <1>2, <2>2, <2>3 DEF State
  <2>5. \A c \in Bgs : ~(c = s.at[p] /\ Exists(s, c))
    BY <1>1, <1>5
  <2>6. Consistent(r) /\ Quiet(r, s)
    BY <1>1, <2>3, <2>4, <2>5, ComeKeeps
  <2> QED
    BY <2>1, <2>6 DEF StepKeeps, s
<1>6. CASE Exists(s, b)
  <2> DEFINE r == [s EXCEPT !.place[p] = "inside", !.bg[b].players = @ \cup {p}]
             y == [s.bg[b] EXCEPT !.players = @ \cup {p}]
             m == [s.bg EXCEPT ![b] = y]
             l == [s.place EXCEPT ![p] = "inside"]
  <2>1. Become(r)
    <3>1. bg[b].status # "none" /\ slot[p] = b
      BY <1>3, <1>6, NowFields DEF Exists
    <3> QED
      BY <3>1, <1>6 DEF Arrive
  <2>2. r = [s EXCEPT !.place = l, !.bg = m]
    OBVIOUS
  <2> HIDE DEF s, b
  <2>3. /\ y \in Battleground /\ y.status = s.bg[b].status
        /\ y.players = s.bg[b].players \cup {p} /\ y.invited = s.bg[b].invited
    <3>1. s.bg[b] \in Battleground
      BY <1>2, <1>3
    <3> QED
      BY <3>1 DEF Battleground
  <2> HIDE DEF y
  <2>4. m \in [Bgs -> Battleground] /\ m[b] = y /\ \A c \in Bgs : c # b => m[c] = s.bg[c]
    BY <1>2, <1>3, <2>3
  <2>5. /\ l \in [Players -> Places] /\ l[p] = "inside"
        /\ \A o \in Players : o # p => l[o] = s.place[o]
    BY <1>2 DEF Places
  <2> HIDE DEF m, l, r
  <2>6. /\ r \in State /\ r.queue = s.queue /\ r.events = s.events /\ r.slot = s.slot
        /\ r.place = l /\ r.at = s.at /\ r.stale = s.stale /\ r.bg = m
        /\ r.freeSlots = s.freeSlots
    BY <1>2, <2>2, <2>4, <2>5 DEF State
  <2>7. \A c \in Bgs :
            /\ r.bg[c].status = s.bg[c].status /\ r.bg[c].invited = s.bg[c].invited
            /\ c # s.at[p] \/ ~Exists(s, c) => r.bg[c].players = s.bg[c].players
            /\ c = s.at[p] /\ Exists(s, c) =>
                   r.bg[c].players = s.bg[c].players \cup {p}
    BY <1>1, <1>6, <2>3, <2>4, <2>6
  <2>8. Consistent(r) /\ Quiet(r, s)
    BY <1>1, <2>5, <2>6, <2>7, ComeKeeps
  <2> QED
    BY <2>1, <2>8 DEF StepKeeps, s
<1> QED
  BY <1>4, <1>5, <1>6

\* RemovePlayerAtLeave for a player of battleground b.
LEMMA LeaveKeeps ==
    ASSUME NEW s, Consistent(s), NEW p \in Players, NEW b, Exists(s, b), s.at[p] = b,
           NEW r, r = RemovePlayerAtLeave(s, p, b)
    PROVE  /\ Consistent(r) /\ Quiet(r, s) /\ p \notin r.bg[b].players
           /\ \/ r.place[p] = s.place[p] /\ r.at[p] = b
              \/ r.place[p] = "out"
<1>1. b \in Bgs /\ s \in State
  BY DEF Exists, Consistent
<1>2. /\ r.events = s.events /\ CountsFall(r, s)
      /\ \A o \in Players : \/ r.place[o] = s.place[o] /\ r.at[o] = s.at[o]
                            \/ o = p /\ r.place[o] = "out" /\ r.at[o] = None
      /\ p \notin r.bg[b].players
      /\ Consistent(r)
  BY <1>1, RemovePlayerAtLeaveIs
<1>3. Quiet(r, s)
  BY <1>2 DEF Quiet
<1> QED
  BY <1>2, <1>3

\* The three ways out of a battleground.
LEMMA LeaveBattlegroundStep ==
    ASSUME IInv, NEW p \in Players, LeaveBattleground(p)
    PROVE  StepKeeps
<1> DEFINE s == Now
           b == at[p]
           r == RemovePlayerAtLeave(s, p, b)
<1>1. Consistent(s) /\ Exists(s, b) /\ s.at[p] = b /\ Become(r)
  BY NowFields DEF IInv, LeaveBattleground
<1>2. r = RemovePlayerAtLeave(s, p, b)
  OBVIOUS
<1> HIDE DEF s, b, r
<1>3. Consistent(r) /\ Quiet(r, s)
  BY <1>1, <1>2, LeaveKeeps
<1> QED
  BY <1>1, <1>3 DEF StepKeeps, s

LEMMA TeleportToStep ==
    ASSUME IInv, NEW p \in Players, TeleportTo(p)
    PROVE  StepKeeps
<1> DEFINE s == Now
           b == at[p]
           x == IF Exists(s, b) THEN RemovePlayerAtLeave(s, p, b) ELSE s
           r == Outside(x, p)
<1>1. Consistent(s) /\ s.place[p] = "inside" /\ s.at[p] = b
  BY NowFields DEF IInv, TeleportTo
<1>2. Become(r)
  BY DEF TeleportTo, Outside
<1>3. x = (IF Exists(s, b) THEN RemovePlayerAtLeave(s, p, b) ELSE s)
  OBVIOUS
<1> HIDE DEF s, b, x
<1>4. /\ Consistent(x) /\ Quiet(x, s) /\ p \notin x.bg[b].players
      /\ \/ x.place[p] = "inside" /\ x.at[p] = b
         \/ x.place[p] = "out"
  <2>1. CASE Exists(s, b)
    BY <2>1, <1>1, <1>3, LeaveKeeps
  <2>2. CASE ~Exists(s, b)
    <3>1. x = s
      BY <2>2, <1>3
    <3>2. b \in Bgs
      BY <1>1, StateFields DEF Consistent, PlacesAgree
    <3>3. p \notin s.bg[b].players
      BY <2>2, <3>2, <1>1 DEF Consistent, ListsAgree
    <3> QED
      BY <3>1, <3>3, <1>1, SameIsQuiet DEF Consistent
  <2> QED
    BY <2>1, <2>2
<1>5. r = Outside(x, p)
  OBVIOUS
<1> HIDE DEF r
<1>6. Consistent(r) /\ r.events = x.events /\ r.bg = x.bg
  BY <1>4, <1>5, OutIs
<1>7. Quiet(r, s)
  BY <1>4, <1>6, QuietAfter
<1> QED
  BY <1>2, <1>6, <1>7 DEF StepKeeps, s

LEMMA LoginStep ==
    ASSUME IInv, NEW p \in Players, Login(p)
    PROVE  StepKeeps
<1> DEFINE s == Now
           b == at[p]
           counted == Exists(s, b) /\ p \in s.bg[b].players
<1>1. Consistent(s) /\ s.place[p] = "offline" /\ s.at[p] = b
  BY NowFields DEF IInv, Login
<1>2. b \in Bgs
  BY <1>1, StateFields DEF Consistent, PlacesAgree
<1>3. CASE counted /\ s.bg[b].status # "leave"
  <2> DEFINE r == [s EXCEPT !.place[p] = "inside", !.slot[p] = b]
             l == [s.place EXCEPT ![p] = "inside"]
             m == [s.slot EXCEPT ![p] = b]
  <2>1. Become(r)
    BY <1>3, NowFields DEF Login
  <2>2. r = [s EXCEPT !.place = l, !.slot = m]
    OBVIOUS
  <2> HIDE DEF s, b
  <2>3. /\ l \in [Players -> Places] /\ m \in [Players -> {NoSlot, None} \cup Bgs]
        /\ \A o \in Players : o # p => l[o] = s.place[o] /\ m[o] = s.slot[o]
        /\ l[p] = "inside" /\ m[p] = b
    BY <1>1, <1>2, StateFields DEF Places, Consistent
  <2> HIDE DEF l, m, r
  <2>4. /\ r \in State /\ r.queue = s.queue /\ r.events = s.events /\ r.slot = m
        /\ r.place = l /\ r.at = s.at /\ r.stale = s.stale /\ r.bg = s.bg
        /\ r.freeSlots = s.freeSlots
    BY <1>1, <2>2, <2>3 DEF State, Consistent
  <2>5. Consistent(r)
    BY <1>1, <1>3, <2>3, <2>4, PlaceKeeps
  <2>6. Quiet(r, s)
    BY <1>1, <2>4, SameIsQuiet DEF Consistent
  <2> QED
    BY <2>1, <2>5, <2>6 DEF StepKeeps, s
<1>4. CASE counted /\ s.bg[b].status = "leave"
  <2> DEFINE x == RemovePlayerAtLeave(s, p, b)
             r == Outside(x, p)
  <2>1. Become(r)
    BY <1>4, NowFields DEF Login, Outside
  <2>2. x = RemovePlayerAtLeave(s, p, b) /\ r = Outside(x, p)
    OBVIOUS
  <2> HIDE DEF s, b, x, r
  <2>3. /\ Consistent(x) /\ Quiet(x, s) /\ p \notin x.bg[b].players
        /\ \/ x.place[p] = "offline" /\ x.at[p] = b
           \/ x.place[p] = "out"
    BY <1>1, <1>4, <2>2, LeaveKeeps
  <2>4. Consistent(r) /\ r.events = x.events /\ r.bg = x.bg
    <3>1. \/ x.place[p] = "out"
          \/ x.place[p] \in {"inside", "offline"} /\ p \notin x.bg[x.at[p]].players
      BY <2>3
    <3> QED
      BY <2>2, <2>3, <3>1, OutIs
  <2>5. Quiet(r, s)
    BY <2>3, <2>4, QuietAfter
  <2> QED
    BY <2>1, <2>4, <2>5 DEF StepKeeps, s
<1>5. CASE ~counted
  <2> DEFINE r == Outside(s, p)
  <2>1. Become(r)
    BY <1>5, NowFields DEF Login, Outside
  <2>2. r = Outside(s, p)
    OBVIOUS
  <2> HIDE DEF s, b, r
  <2>3. p \notin s.bg[b].players
    BY <1>1, <1>2, <1>5 DEF Consistent, ListsAgree
  <2>4. Consistent(r) /\ r.events = s.events /\ r.bg = s.bg
    BY <1>1, <2>2, <2>3, OutIs
  <2>5. Quiet(r, s)
    BY <1>1, <2>4, SameIsQuiet DEF Consistent
  <2> QED
    BY <2>1, <2>4, <2>5 DEF StepKeeps, s
<1> QED
  BY <1>3, <1>4, <1>5

\* A status that does not change whether the battleground exists.
LEMMA StatusKeeps ==
    ASSUME NEW s, Consistent(s), NEW b \in Bgs,
           NEW v \in {"none", "join", "progress", "leave", "map"},
           v \in {"join", "progress", "leave"} <=> Exists(s, b),
           NEW r, r = [s EXCEPT !.bg[b].status = v]
    PROVE  /\ Consistent(r) /\ Quiet(r, s)
           /\ r.place = s.place /\ r.at = s.at /\ r.stale = s.stale
           /\ r.freeSlots = s.freeSlots
           /\ r.queue = s.queue /\ r.slot = s.slot
           /\ \A c \in Bgs : r.bg[c].players = s.bg[c].players
<1>1. s \in State /\ s.bg \in [Bgs -> Battleground] /\ s.bg[b] \in Battleground
  BY StateFields DEF Consistent
<1> DEFINE y == [s.bg[b] EXCEPT !.status = v]
           m == [s.bg EXCEPT ![b] = y]
<1>2. r = [s EXCEPT !.bg = m]
  OBVIOUS
<1>3. /\ y \in Battleground /\ y.status = v
      /\ y.players = s.bg[b].players /\ y.invited = s.bg[b].invited
  BY <1>1, NewStatus
<1> HIDE DEF y
<1>4. m \in [Bgs -> Battleground] /\ m[b] = y /\ \A c \in Bgs : c # b => m[c] = s.bg[c]
  BY <1>1, <1>3
<1> HIDE DEF m
<1>5. /\ r \in State /\ r.queue = s.queue /\ r.events = s.events /\ r.slot = s.slot
      /\ r.place = s.place /\ r.at = s.at /\ r.stale = s.stale
      /\ r.freeSlots = s.freeSlots /\ r.bg = m
  BY <1>1, <1>2, <1>4 DEF State
<1>6. \A c \in Bgs : /\ Exists(r, c) <=> Exists(s, c)
                     /\ r.bg[c].players = s.bg[c].players
                     /\ r.bg[c].invited = s.bg[c].invited
  BY <1>3, <1>4, <1>5 DEF Exists
<1>7. Consistent(r)
  BY <1>5, <1>6, SameKeeps
<1>8. Quiet(r, s)
  BY <1>1, <1>5, <1>6, SameIsQuiet
<1> QED
  BY <1>5, <1>6, <1>7, <1>8

\* The life of a battleground, one lemma for each step.
LEMMA StartStep ==
    ASSUME IInv, NEW b \in Bgs, Start(b)
    PROVE  StepKeeps
<1> DEFINE s == Now
           v == "progress"
           r == [s EXCEPT !.bg[b].status = v]
<1>1. Consistent(s) /\ Become(r)
  BY DEF IInv, Start
<1>2. /\ v \in {"none", "join", "progress", "leave", "map"}
      /\ v \in {"join", "progress", "leave"} /\ Exists(s, b)
  BY NowFields DEF Start, Exists
<1>3. r = [s EXCEPT !.bg[b].status = v]
  OBVIOUS
<1> HIDE DEF s, v, r
<1>4. Consistent(r) /\ Quiet(r, s)
  BY <1>1, <1>2, <1>3, StatusKeeps
<1> QED
  BY <1>1, <1>4 DEF StepKeeps, s

LEMMA EndBattlegroundStep ==
    ASSUME IInv, NEW b \in Bgs, EndBattleground(b)
    PROVE  StepKeeps
<1> DEFINE s == Now
           v == "leave"
           x == [s EXCEPT !.freeSlots = RemoveFirst(@, b)]
           y == [x EXCEPT !.bg[b].status = v]
           r == [s EXCEPT !.bg[b].status = v, !.freeSlots = RemoveFirst(@, b)]
<1>1. Consistent(s) /\ Become(r)
  BY DEF IInv, EndBattleground
<1>2. /\ v \in {"none", "join", "progress", "leave", "map"}
      /\ v \in {"join", "progress", "leave"} /\ Exists(s, b)
  BY NowFields DEF EndBattleground, Exists
<1>3. x = [s EXCEPT !.freeSlots = RemoveFirst(@, b)] /\ y = [x EXCEPT !.bg[b].status = v]
  OBVIOUS
<1> HIDE DEF s
<1>4. s \in State
  BY <1>1 DEF Consistent
<1>5. r = y
  <2> DEFINE m == [s.bg EXCEPT ![b].status = v]
             f == RemoveFirst(s.freeSlots, b)
  <2>1. r = [s EXCEPT !.bg = m, !.freeSlots = f]
    OBVIOUS
  <2>2. x = [s EXCEPT !.freeSlots = f]
    OBVIOUS
  <2>3. x.bg = s.bg
    BY <2>2, <1>4 DEF State
  <2>4. y = [x EXCEPT !.bg = m]
    <3> HIDE DEF x
    <3> QED
      BY <2>3
  <2> HIDE DEF r, x, y, m, f
  <2> QED
    BY <2>1, <2>2, <2>4, <1>4 DEF State
<1> HIDE DEF x, y, r, v
<1>6. Consistent(x) /\ x.bg = s.bg /\ x.events = s.events /\ x.stale = s.stale
  BY <1>1, <1>3, NotFreeKeeps
<1>7. Exists(x, b)
  BY <1>2, <1>6 DEF Exists
<1>10. v \in {"join", "progress", "leave"} <=> Exists(x, b)
  BY <1>2, <1>7
<1>8. Consistent(y) /\ Quiet(y, x)
  <2>1. y = [x EXCEPT !.bg[b].status = v]
    BY <1>3
  <2>2. Consistent(x) /\ v \in {"none", "join", "progress", "leave", "map"}
    BY <1>2, <1>6
  <2> QED
    BY <2>1, <2>2, <1>10, StatusKeeps
<1>9. Quiet(y, s)
  BY <1>6, <1>8 DEF Quiet, CountsFall, Exists
<1> QED
  BY <1>1, <1>5, <1>8, <1>9 DEF StepKeeps, s

LEMMA DestroyInstanceStep ==
    ASSUME IInv, NEW b \in Bgs, DestroyInstance(b)
    PROVE  StepKeeps
<1> DEFINE s == Now
           S == {p \in Players : place[p] = "inside" /\ at[p] = b}
           v == "none"
           x == [s EXCEPT !.bg[b].status = v]
           l == [p \in Players |-> IF p \in S THEN "out" ELSE s.place[p]]
           a == [p \in Players |-> IF p \in S THEN None ELSE s.at[p]]
           m == [s.bg EXCEPT ![b].status = v]
           r == [s EXCEPT !.bg = m, !.place = l, !.at = a]
<1>1. Consistent(s) /\ s.bg[b].status = "map"
  BY NowFields DEF IInv, DestroyInstance
<1>2. Become(r)
  BY NowFields DEF DestroyInstance
<1>3. /\ v \in {"none", "join", "progress", "leave", "map"}
      /\ ~(v \in {"join", "progress", "leave"}) /\ ~Exists(s, b)
  BY <1>1 DEF Exists
<1>4. x = [s EXCEPT !.bg[b].status = v] /\ x = [s EXCEPT !.bg = m]
  OBVIOUS
<1>5. S \in SUBSET Players /\ \A p \in S : s.place[p] = "inside" /\ s.at[p] = b
  BY NowFields
<1> HIDE DEF s, S, x, v
<1>6. /\ Consistent(x) /\ Quiet(x, s)
      /\ x.place = s.place /\ x.at = s.at /\ x.stale = s.stale
      /\ x.freeSlots = s.freeSlots
      /\ x.queue = s.queue /\ x.slot = s.slot
      /\ \A c \in Bgs : x.bg[c].players = s.bg[c].players
  BY <1>1, <1>3, <1>4, StatusKeeps
<1>7. /\ s \in State /\ x \in State /\ ListsAgree(s)
      /\ s.place \in [Players -> Places] /\ s.at \in [Players -> Bgs \cup {None}]
  BY <1>1, <1>6, StateFields DEF Consistent
<1>8. /\ l \in [Players -> Places] /\ a \in [Players -> Bgs \cup {None}]
      /\ \A p \in Players : /\ l[p] = IF p \in S THEN "out" ELSE s.place[p]
                            /\ a[p] = IF p \in S THEN None ELSE s.at[p]
  BY <1>7 DEF Places
<1> HIDE DEF l, a, m, r
<1>9. r = [s EXCEPT !.bg = m, !.place = l, !.at = a]
  BY DEF r
<1>10. x.bg = m /\ x.events = s.events
  BY <1>4, <1>7 DEF State
<1>11. m \in [Bgs -> Battleground]
  BY <1>7, <1>10, StateFields
<1>12. /\ r \in State /\ r.queue = x.queue /\ r.events = x.events /\ r.slot = x.slot
       /\ r.bg = x.bg /\ r.freeSlots = x.freeSlots /\ r.place = l /\ r.at = a
       /\ r.stale = x.stale
  BY <1>6, <1>7, <1>8, <1>9, <1>10, <1>11 DEF State
<1>13. \A p \in S : /\ x.place[p] \in {"inside", "offline"}
                    /\ \A c \in Bgs : p \notin x.bg[c].players
  <2> SUFFICES ASSUME NEW p \in S, NEW c \in Bgs, p \in s.bg[c].players PROVE FALSE
    BY <1>5, <1>6
  <2>1. Exists(s, c) /\ s.at[p] = c
    BY <1>7 DEF ListsAgree
  <2> QED
    BY <2>1, <1>3, <1>5
<1>14. \A p \in Players : /\ r.place[p] = IF p \in S THEN "out" ELSE x.place[p]
                          /\ r.at[p] = IF p \in S THEN None ELSE x.at[p]
  BY <1>6, <1>8, <1>12
<1>15. Consistent(r)
  <2>1. Consistent(x) /\ S \in SUBSET Players
    BY <1>5, <1>6
  <2>2. /\ r \in State /\ r.queue = x.queue /\ r.events = x.events /\ r.slot = x.slot
        /\ r.bg = x.bg /\ r.freeSlots = x.freeSlots /\ r.stale = x.stale
    BY <1>12
  <2> QED
    BY <2>1, <2>2, <1>13, <1>14, SentOutKeeps
<1>16. Quiet(r, s)
  BY <1>6, <1>12, QuietAfter
<1> QED
  BY <1>2, <1>15, <1>16 DEF StepKeeps, s

\* What the update of the manager makes of the state.
ManagerKeeps ==
    \E r : /\ Consistent(r) /\ Fresh(r) /\ Become(r)
           /\ \A p \in Queued(queue) \ Queued(r.queue) : GroupOf(queue, p).left = 1
           /\ \A b \in Bgs \ stale :
                bg[b].status = "progress" /\ r.bg[b].status = "progress" =>
                    \E x \in Battleground :
                        /\ \A t \in Teams : x.invited[t] <= bg[b].invited[t]
                        /\ r.bg[b] \in Battleground /\ Fits(x, r.bg[b])

\* BattlegroundMgr::Update, one part after the other.
LEMMA ManagerStep ==
    ASSUME IInv, ManagerUpdates
    PROVE  ManagerKeeps
<1>1. PICK second \in BOOLEAN, last \in SUBSET UNION {MayGo(b) : b \in Bgs},
           T \in SUBSET {t \in Teams : queue["premade"][t] # <<>>} :
          LET updated == IF second THEN UpdateAll(Now, last) ELSE Now
              next == UpdateScheduled(UpdateEvents(Older(updated)), T)
          IN  ~next.cut /\ Become(next)
  BY DEF ManagerUpdates
<1> DEFINE s == Now
           u == IF second THEN UpdateAll(s, last) ELSE s
           o == Older(u)
           e == UpdateEvents(o)
           r == UpdateScheduled(e, T)
<1>2. Become(r)
  BY <1>1
<1>3. s \in State /\ Consistent(s) /\ Fresh(s)
  BY DEF IInv, Consistent
<1>4. Deleted(u, s)
  <2>1. Deleted(UpdateAll(s, last), s)
    <3> HIDE DEF s
    <3> QED
      BY <1>3, UpdateAllIs
  <2>2. Deleted(s, s)
    <3> HIDE DEF s
    <3> QED
      BY <1>3, CountsFallRefl DEF Deleted
  <2> QED
    BY <2>1, <2>2
<1> HIDE DEF s, u
<1>5. /\ Consistent(u) /\ u.queue = s.queue /\ u.events = s.events
      /\ u.stale = s.stale /\ CountsFall(u, s)
  BY <1>3, <1>4 DEF Deleted
<1>6. /\ Consistent(o) /\ Queued(o.queue) = Queued(u.queue) /\ o.bg = u.bg
      /\ o.stale = u.stale
      /\ \A g \in Groups(o.queue) : \E h \in Groups(u.queue) : g = Aged(h)
  BY <1>5, OlderKeeps
<1> HIDE DEF o
<1>7. EventsDone(e, o)
  BY <1>6, UpdateEventsIs
<1> HIDE DEF e
<1>8. Filled(r, e)
  BY <1>7, UpdateScheduledKeeps DEF EventsDone
<1> HIDE DEF r
<1>9. Consistent(r) /\ Fresh(r)
  BY <1>7, <1>8 DEF Filled, EventsDone
<1>10. ASSUME NEW p \in Queued(s.queue) \ Queued(r.queue)
       PROVE  GroupOf(s.queue, p).left = 1
  <2> DEFINE g == GroupOf(o.queue, p)
  <2>1. p \in Queued(o.queue) /\ p \notin Queued(e.queue)
    BY <1>5, <1>6, <1>8 DEF Filled
  <2>2. g.bg # None /\ g.left = 0
    BY <2>1, <1>7 DEF EventsDone
  <2>3. GroupsApart(o.queue) /\ GroupsApart(s.queue) /\ s.queue \in Queues
    BY <1>3, <1>6, StateFields DEF Consistent
  <2>4. g \in Groups(o.queue) /\ p \in g.players
    BY <2>1, <2>3, GroupOfIs
  <2> HIDE DEF g
  <2>5. PICK h \in Groups(s.queue) : g = Aged(h)
    BY <2>4, <1>5, <1>6
  <2>6. h \in Group
    BY <2>3, GroupsAreGroups
  <2>7. p \in h.players /\ h.bg # None /\ g.left = IF h.left > 0 THEN h.left - 1 ELSE 0
    BY <2>2, <2>4, <2>5, <2>6, AgedIs
  <2> DEFINE i == [player |-> p, bg |-> h.bg, left |-> h.left]
  <2>8. i \in s.events
    BY <2>7, <1>3 DEF Consistent, EventsAgree
  <2>9. h.left >= 1
    BY <2>8, <1>3 DEF Fresh
  <2>10. h.left \in Nat
    BY <2>6, GroupFields
  <2>11. h.left = 1
    BY <2>2, <2>7, <2>9, <2>10
  <2>12. h = GroupOf(s.queue, p)
    BY <2>3, <2>7, GroupOfIs
  <2> QED
    BY <2>11, <2>12
<1>11. ASSUME NEW b \in Bgs \ s.stale,
              s.bg[b].status = "progress", r.bg[b].status = "progress"
       PROVE  \E x \in Battleground :
                  /\ \A t \in Teams : x.invited[t] <= s.bg[b].invited[t]
                  /\ r.bg[b] \in Battleground /\ Fits(x, r.bg[b])
  <2>1. e.bg[b] \in Battleground /\ u.bg[b] \in Battleground
        /\ s.bg[b] \in Battleground /\ r.bg[b] \in Battleground
    BY <1>3, <1>5, <1>7, <1>9, StateFields DEF EventsDone, Consistent
  <2>2. u.bg[b].status = "progress" \/ u.bg[b].status = "map"
    BY <1>4, <1>11 DEF Deleted
  <2>3. e.bg[b].status = u.bg[b].status
    BY <1>6, <1>7 DEF EventsDone
  <2>4. r.bg[b].status = e.bg[b].status
    BY <2>2, <2>3, <1>8 DEF Filled
  <2>5. u.bg[b].status = "progress" /\ e.bg[b].status = "progress"
    BY <2>2, <2>3, <2>4, <1>11
  <2>6. b \notin e.stale /\ Exists(s, b) /\ Exists(u, b) /\ Exists(e, b)
    BY <2>5, <1>5, <1>6, <1>7, <1>11 DEF Exists, EventsDone
  <2>7. Fits(e.bg[b], r.bg[b])
    BY <2>5, <2>6, <1>8 DEF Filled
  <2>8. \A t \in Teams : /\ u.bg[b].invited[t] <= s.bg[b].invited[t]
                         /\ e.bg[b].invited[t] <= u.bg[b].invited[t]
    <3>1. Exists(o, b) /\ CountsFall(e, o)
      BY <2>6, <1>6, <1>7 DEF Exists, EventsDone
    <3> QED
      BY <3>1, <2>6, <1>5, <1>6, <1>11 DEF CountsFall
  <2>9. \A t \in Teams : /\ s.bg[b].invited[t] \in Int /\ u.bg[b].invited[t] \in Int
                         /\ e.bg[b].invited[t] \in Int
    BY <2>1, BattlegroundFields
  <2>10. \A t \in Teams : e.bg[b].invited[t] <= s.bg[b].invited[t]
    BY <2>8, <2>9
  <2> QED
    BY <2>1, <2>7, <2>10
<1>12. s.queue = queue /\ s.bg = bg /\ s.stale = stale
  BY NowFields DEF s
<1> QED
  BY <1>2, <1>9, <1>10, <1>11, <1>12 DEF ManagerKeeps

\* A step is one of the manager, or it leaves the events alone.
LEMMA NextSteps ==
    ASSUME IInv, Next
    PROVE  StepKeeps \/ ManagerKeeps
<1>1. CASE ManagerUpdates
  BY <1>1, ManagerStep
<1>2. CASE \E p \in Players : Join(p)
  BY <1>2, JoinStep
<1>3. CASE \E p \in Players : Port(p)
  BY <1>3, PortStep
<1>4. CASE \E p \in Players : LeaveQueue(p)
  BY <1>4, LeaveQueueStep
<1>5. CASE \E p \in Players : Arrive(p)
  BY <1>5, ArriveStep
<1>6. CASE \E p \in Players : LeaveBattleground(p)
  BY <1>6, LeaveBattlegroundStep
<1>7. CASE \E p \in Players : TeleportTo(p)
  BY <1>7, TeleportToStep
<1>8. CASE \E p \in Players : LogoutPlayer(p)
  BY <1>8, LogoutPlayerStep
<1>9. CASE \E p \in Players : Login(p)
  BY <1>9, LoginStep
<1>10. CASE \E S \in SUBSET Players : JoinAsGroup(S)
  BY <1>10, JoinAsGroupStep
<1>11. CASE \E b \in Bgs : Start(b)
  BY <1>11, StartStep
<1>12. CASE \E b \in Bgs : EndBattleground(b)
  BY <1>12, EndBattlegroundStep
<1>13. CASE \E b \in Bgs : DestroyInstance(b)
  BY <1>13, DestroyInstanceStep
<1> QED
  BY <1>1, <1>2, <1>3, <1>4, <1>5, <1>6, <1>7, <1>8, <1>9, <1>10, <1>11, <1>12, <1>13
     DEF Next

\* In every state the record of it is consistent and no event is due: slots,
\* places, lists and events of the invitations agree, and so do the counts
\* of every battleground that is not stale.  Battlegrounds are deleted under
\* those who were invited, as BattlegroundMgr.cpp:86-95 does, and ids are
\* given out again; only an update that needs more than MaxBgs ids is out.
THEOREM InductiveInvariant == Spec => []IInv
<1>1. Init => IInv
  BY InitIsConsistent
<1>2. IInv /\ [Next]_vars => IInv'
  <2> SUFFICES ASSUME IInv, [Next]_vars PROVE IInv'
    OBVIOUS
  <2>1. CASE Next
    <3>1. CASE StepKeeps
      <4>1. PICK r : Consistent(r) /\ Quiet(r, Now) /\ Become(r)
        BY <3>1 DEF StepKeeps
      <4>2. Fresh(r)
        BY <4>1 DEF Quiet, IInv, Fresh
      <4> QED
        BY <4>1, <4>2, Becomes
    <3>2. CASE ManagerKeeps
      BY <3>2, Becomes DEF ManagerKeeps
    <3> QED
      BY <2>1, <3>1, <3>2, NextSteps
  <2>2. CASE UNCHANGED vars
    BY <2>2 DEF vars, IInv, Now
  <2> QED
    BY <2>1, <2>2
<1> QED
  BY <1>1, <1>2, PTL DEF Spec

\* The elements of a queue.
LEMMA SetOfGroups ==
    ASSUME NEW groups \in Seq(Group)
    PROVE  ToSet(groups) \subseteq Group
BY DEF ToSet

\* The variables keep their types, the unsigned counts of Battleground.h by
\* going round, and each player is in one group.
THEOREM TypeCorrect == Spec => []TypeOK
<1>1. IInv => TypeOK
  <2> SUFFICES ASSUME IInv PROVE TypeOK
    OBVIOUS
  <2> DEFINE s == Now
  <2>1. /\ s \in State /\ GroupsApart(s.queue) /\ Fresh(s)
    BY DEF IInv, Consistent
  <2>2. /\ queue = s.queue /\ events = s.events /\ slot = s.slot /\ place = s.place
        /\ at = s.at /\ bg = s.bg /\ freeSlots = s.freeSlots /\ scheduled = s.scheduled
        /\ stale = s.stale
    BY NowFields
  <2> HIDE DEF s
  <2>3. /\ s.queue \in Queues /\ s.events \in SUBSET Event
        /\ s.slot \in [Players -> {NoSlot, None} \cup Bgs]
        /\ s.place \in [Players -> Places] /\ s.at \in [Players -> Bgs \cup {None}]
        /\ s.bg \in [Bgs -> Battleground] /\ s.freeSlots \in Seq(Bgs)
        /\ s.scheduled \in BOOLEAN /\ s.stale \in SUBSET Bgs
    BY <2>1, StateFields
  <2>4. DOMAIN queue = Kinds /\ \A k \in Kinds, t \in Teams : ToSet(queue[k][t]) \subseteq Group
    BY <2>2, <2>3, SetOfGroups DEF Queues
  <2>5. \A g, h \in Groups(queue) : g # h => g.players \cap h.players = {}
    BY <2>1, <2>2 DEF GroupsApart
  <2>6. events \subseteq [player : Players, bg : Bgs, left : 1 .. Wait]
    <3> SUFFICES ASSUME NEW e \in events
                 PROVE  e \in [player : Players, bg : Bgs, left : 1 .. Wait]
      OBVIOUS
    <3>1. e \in Event /\ e.left >= 1
      BY <2>1, <2>2, <2>3 DEF Fresh
    <3> QED
      BY <3>1, Constants DEF Event
  <2>7. ASSUME NEW b \in Bgs
        PROVE  /\ bg[b].status \in {"none", "join", "progress", "leave", "map"}
               /\ bg[b].players \subseteq Players
               /\ bg[b].invited \in [Teams -> 0 .. CountSize - 1]
               /\ bg[b].delete \in BOOLEAN
    <3>1. bg[b] \in Battleground
      BY <2>2, <2>3
    <3> QED
      BY <3>1, BattlegroundFields DEF Counts
  <2>8. ToSet(freeSlots) \subseteq Bgs
    BY <2>2, <2>3 DEF ToSet
  <2> QED
    BY <2>2, <2>3, <2>4, <2>5, <2>6, <2>7, <2>8 DEF TypeOK
<1> QED
  BY <1>1, InductiveInvariant, PTL

\* m_InvitedAlliance and m_InvitedHorde are the numbers of the players that
\* hold a place: every handler that takes one away subtracts him once.  The
\* exception is a battleground whose id was still held by players who were
\* invited to an earlier one when it was made.
THEOREM InvitedCountCorrect == Spec => []InvitedCountIsExact
<1>1. IInv => InvitedCountIsExact
  <2> SUFFICES ASSUME IInv, NEW b \in Bgs \ stale, NEW t \in Teams, Exists(Now, b)
               PROVE  bg[b].invited[t] = Cardinality(InTeam(Holders(Now, b), t))
    BY DEF InvitedCountIsExact
  <2> DEFINE s == Now
  <2>1. GroupsApart(s.queue) /\ SlotsAgree(s) /\ CountsAgree(s)
    BY DEF IInv, Consistent
  <2>2. bg = s.bg /\ stale = s.stale
    BY NowFields
  <2>3. Exists(s, b)
    OBVIOUS
  <2> HIDE DEF s
  <2>4. Holders(s, b) = HoldersIn(s, b)
    BY <2>1, HoldersAre
  <2>5. bg[b].invited[t] = Cardinality(InTeam(Holders(s, b), t))
    BY <2>1, <2>2, <2>3, <2>4 DEF CountsAgree
  <2> QED
    BY <2>5 DEF s
<1> QED
  BY <1>1, InductiveInvariant, PTL

\* Who is invited has a BGQueueRemoveEvent of his own that will end the
\* invitation (InviteGroupToBG makes one for each member).
THEOREM InvitationsEnd == Spec => []InvitationsRunOut
<1>1. IInv => InvitationsRunOut
  BY NowFields DEF IInv, Consistent, EventsAgree, InvitationsRunOut
<1> QED
  BY <1>1, InductiveInvariant, PTL

\* BGQueueRemoveEvent::Execute removes nobody whose invitation is newer than
\* the event (the comparison with removeTime in IsPlayerInvited).
THEOREM OnlyTheOverdueGo == Spec => OnlyOverdueAreRemoved
<1>1. IInv /\ [Next]_vars =>
        [events' # events =>
          \A p \in Queued(queue) \ Queued(queue') : GroupOf(queue, p).left = 1]_vars
  <2> SUFFICES ASSUME IInv, Next, events' # events
               PROVE  \A p \in Queued(queue) \ Queued(queue') : GroupOf(queue, p).left = 1
    BY DEF vars
  <2>1. CASE StepKeeps
    <3>1. events' = events
      BY <2>1, NowFields DEF StepKeeps, Quiet, Become
    <3> QED
      BY <3>1
  <2>2. CASE ManagerKeeps
    BY <2>2 DEF ManagerKeeps, Become
  <2> QED
    BY <2>1, <2>2, NextSteps
<1> QED
  BY <1>1, InductiveInvariant, PTL DEF Spec, OnlyOverdueAreRemoved

\* The arithmetic of the balance.
LEMMA FitsIsBalanced ==
    ASSUME NEW x \in Battleground, NEW y \in Battleground, NEW z \in Battleground,
           \A t \in Teams : x.invited[t] <= z.invited[t], Fits(x, y),
           NEW u \in Teams, y.invited[u] > z.invited[u]
    PROVE  Difference(y) <= 1 \/ Difference(y) <= Difference(z)
<1> DEFINE xa == x.invited["ally"]
           xh == x.invited["horde"]
           ya == y.invited["ally"]
           yh == y.invited["horde"]
           za == z.invited["ally"]
           zh == z.invited["horde"]
<1>1. xa \in Int /\ xh \in Int /\ ya \in Int /\ yh \in Int /\ za \in Int /\ zh \in Int
  BY TwoTeams, BattlegroundFields
<1>2. xa <= za /\ xh <= zh
  BY TwoTeams
<1>3. /\ Difference(y) = IF ya >= yh THEN ya - yh ELSE yh - ya
      /\ Difference(z) = IF za >= zh THEN za - zh ELSE zh - za
  BY DEF Difference
<1>4. ya > za \/ yh > zh
  BY TwoTeams
<1>5. \/ xa = ya /\ xh = yh
      \/ Difference(y) <= 1
      \/ xa < ya /\ ya <= yh /\ yh = xh
      \/ xh < yh /\ yh <= ya /\ ya = xa
  BY TwoTeams DEF Fits
<1> HIDE DEF xa, xh, ya, yh, za, zh
<1> QED
  BY <1>1, <1>2, <1>3, <1>4, <1>5

\* FillPlayersToBG fills the smaller side of a running battleground, and the
\* other by one at most (GetFreeSlotsForTeam), if its counts are those of
\* its players.
THEOREM FillingKeepsBalance == Spec => FillKeepsBalance
<1> DEFINE Balanced ==
        \A b \in Bgs \ stale :
            (/\ bg[b].status = "progress" /\ bg'[b].status = "progress"
             /\ \E t \in Teams : bg'[b].invited[t] > bg[b].invited[t])
            => Difference(bg'[b]) <= 1 \/ Difference(bg'[b]) <= Difference(bg[b])
<1>1. IInv /\ [Next]_vars => [Balanced]_vars
  <2> SUFFICES ASSUME IInv, Next PROVE Balanced
    BY DEF vars
  <2>1. bg \in [Bgs -> Battleground]
    BY NowFields, StateFields DEF IInv, Consistent
  <2>2. SUFFICES ASSUME NEW b \in Bgs \ stale,
                        bg[b].status = "progress", bg'[b].status = "progress",
                        NEW t \in Teams, bg'[b].invited[t] > bg[b].invited[t]
                 PROVE  Difference(bg'[b]) <= 1 \/ Difference(bg'[b]) <= Difference(bg[b])
    OBVIOUS
  <2>3. CASE StepKeeps
    <3>1. PICK r : Consistent(r) /\ Quiet(r, Now) /\ Become(r)
      BY <2>3 DEF StepKeeps
    <3>2. bg' = r.bg /\ r.bg \in [Bgs -> Battleground]
      BY <3>1, StateFields DEF Become, Consistent
    <3>3. r.bg[b].invited[t] <= bg[b].invited[t]
      <4>1. Exists(Now, b) /\ Exists(r, b)
        BY <2>2, <3>2, NowFields DEF Exists
      <4> QED
        BY <3>1, <4>1, NowFields DEF Quiet, CountsFall
    <3>4. r.bg[b].invited[t] \in Int /\ bg[b].invited[t] \in Int
      BY <3>2, <2>1, BattlegroundFields
    <3> QED
      BY <3>2, <3>3, <3>4, <2>2
  <2>4. CASE ManagerKeeps
    <3>1. PICK r : /\ Become(r)
                   /\ bg[b].status = "progress" /\ r.bg[b].status = "progress" =>
                        \E x \in Battleground :
                          /\ \A v \in Teams : x.invited[v] <= bg[b].invited[v]
                          /\ r.bg[b] \in Battleground /\ Fits(x, r.bg[b])
      BY <2>4 DEF ManagerKeeps
    <3>2. bg' = r.bg
      BY <3>1 DEF Become
    <3>3. PICK x \in Battleground :
               /\ \A v \in Teams : x.invited[v] <= bg[b].invited[v]
               /\ r.bg[b] \in Battleground /\ Fits(x, r.bg[b])
      BY <3>1, <3>2, <2>2
    <3> DEFINE y == r.bg[b]
               z == bg[b]
    <3>4. z \in Battleground /\ y \in Battleground /\ Fits(x, y)
          /\ (\A v \in Teams : x.invited[v] <= z.invited[v])
          /\ y.invited[t] > z.invited[t] /\ y = bg'[b]
      BY <3>2, <3>3, <2>1, <2>2
    <3> HIDE DEF y, z
    <3>5. Difference(y) <= 1 \/ Difference(y) <= Difference(z)
      BY <3>3, <3>4, FitsIsBalanced
    <3> QED
      BY <3>4, <3>5 DEF z
  <2> QED
    BY <2>3, <2>4, NextSteps
<1> QED
  BY <1>1, InductiveInvariant, PTL DEF Spec, FillKeepsBalance
=============================================================================
