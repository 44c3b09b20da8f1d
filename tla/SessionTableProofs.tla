------------------------- MODULE SessionTableProofs -------------------------
(***************************************************************************)
(* Proofs about SessionTable, for every finite set of accounts, any number *)
(* of sessions of each and any limits: that the table holds exactly the    *)
(* live sessions, that the login queue holds those that wait, told their   *)
(* places, that nobody gets past it, and that no place is left empty while *)
(* somebody waits.                                                         *)
(*                                                                         *)
(* What a handler does to the queue it does to a record, the room.  So the *)
(* first half proves what RemoveQueuedPlayer, PlaceSession and the like    *)
(* make of an orderly room; the second is one lemma for each action.       *)
(***************************************************************************)
EXTENDS SessionTable, SequenceTheorems, FiniteSetTheorems, TLAPS

NoRepeats(q) == \A i, j \in DOMAIN q : q[i] = q[j] => i = j

RoomType ==
    [queue : Seq(Sessions), inQueue : [Sessions -> BOOLEAN],
     init : [Sessions -> {"none", "asked", "ready", "done"}],
     told : [Sessions -> Nat]]

\* The queue of a room has each session once; they wait, and know their places.
Orderly(r) ==
    /\ r \in RoomType
    /\ NoRepeats(r.queue)
    /\ \A i \in DOMAIN r.queue :
         /\ r.init[r.queue[i]] = "none"
         /\ r.inQueue[r.queue[i]]
         /\ r.told[r.queue[i]] = i

TableInv ==
    /\ TableHoldsTheLiving
    /\ \A a \in Listed : AccountOf[sessions[a]] = a

\* Nothing is known of a session that is not in the table.
UnlistedInv ==
    \A s \in Sessions : life[s] # "listed" =>
        init[s] = "none" /\ char[s] = "none" /\ ~inQueue[s]

AddQueueInv ==
    /\ NoRepeats(addQueue)
    /\ \A i \in DOMAIN addQueue : life[addQueue[i]] = "adding"

QueueInv ==
    /\ Orderly(Room)
    /\ \A i \in DOMAIN queue : life[queue[i]] = "listed"

\* Who has not been let through is still marked as waiting, in the queue or,
\* after KickAll, out of it.
WaitingInv ==
    \A s \in Sessions : life[s] = "listed" /\ init[s] = "none" => inQueue[s]

\* The loop of UpdateSessions visits sessions that are in the table.
TodoInv ==
    /\ todo \subseteq Listed
    /\ wpc # "updating" => todo = {}

IInv ==
    /\ TypeOK
    /\ TableInv
    /\ UnlistedInv
    /\ AddQueueInv
    /\ QueueInv
    /\ WaitingInv
    /\ TodoInv
    /\ NobodySkipsTheQueue
    /\ PlacesAreUsed

---------------------------------------------------------------------------
(* Sequences                                                               *)

LEMMA DomainIsInterval ==
    ASSUME NEW q \in Seq(Sessions)
    PROVE  /\ Len(q) \in Nat /\ DOMAIN q = 1 .. Len(q)
           /\ \A i \in DOMAIN q : q[i] \in Sessions
  OBVIOUS

\* The place of a queued session, and there is only one.
LEMMA PositionFound ==
    ASSUME NEW q \in Seq(Sessions), NoRepeats(q), NEW i \in DOMAIN q
    PROVE  Queued(q, q[i]) /\ Position(q, q[i]) = i
<1>1. \E j \in DOMAIN q : q[j] = q[i]
  OBVIOUS
<1>2. Position(q, q[i]) \in DOMAIN q /\ q[Position(q, q[i])] = q[i]
  BY <1>1, Zenon DEF Position
<1> QED BY <1>1, <1>2 DEF NoRepeats, Queued

LEMMA WithoutOne ==
    ASSUME NEW q \in Seq(Sessions), NoRepeats(q), NEW k \in DOMAIN q
    PROVE  LET w == Without(q, k)
           IN  /\ w \in Seq(Sessions) /\ NoRepeats(w)
               /\ Len(w) = Len(q) - 1
               /\ \A j \in DOMAIN w : /\ w[j] # q[k]
                                      /\ w[j] = IF j < k THEN q[j] ELSE q[j + 1]
<1> DEFINE u == SubSeq(q, 1, k - 1)
           v == SubSeq(q, k + 1, Len(q))
           w == Without(q, k)
<1>1. Len(q) \in Nat /\ k \in 1 .. Len(q) /\ \A i \in 1 .. Len(q) : q[i] \in Sessions
  OBVIOUS
<1>2. /\ u \in Seq(Sessions) /\ Len(u) = k - 1
      /\ \A i \in 1 .. k - 1 : u[i] = q[i]
  BY <1>1, SubSeqProperties
<1>3. /\ v \in Seq(Sessions) /\ Len(v) = Len(q) - k
      /\ \A i \in 1 .. Len(q) - k : v[i] = q[k + i]
  BY <1>1, SubSeqProperties
<1>4. w = u \o v
  BY DEF Without
<1> HIDE DEF u, v, w
<1>5. w \in Seq(Sessions) /\ Len(w) = Len(q) - 1
  BY <1>1, <1>2, <1>3, <1>4, ConcatProperties
<1>6. ASSUME NEW j \in 1 .. Len(q) - 1
      PROVE  w[j] = IF j < k THEN q[j] ELSE q[j + 1]
  <2>1. w[j] = IF j <= Len(u) THEN u[j] ELSE v[j - Len(u)]
    <3>1. j \in 1 .. Len(u) + Len(v)
      BY <1>1, <1>2, <1>3
    <3> QED BY <1>2, <1>3, <1>4, <3>1, ConcatProperties
  <2>2. CASE j < k
    BY <1>1, <1>2, <2>1, <2>2
  <2>3. CASE ~(j < k)
    <3>1. j - (k - 1) \in 1 .. Len(q) - k /\ k + (j - (k - 1)) = j + 1
      BY <1>1, <2>3
    <3> QED BY <1>1, <1>2, <1>3, <2>1, <2>3, <3>1
  <2> QED BY <2>2, <2>3
<1>7. DOMAIN w = 1 .. Len(q) - 1
  BY <1>1, <1>5
<1>8. ASSUME NEW i \in DOMAIN w, NEW j \in DOMAIN w, w[i] = w[j] PROVE i = j
  <2>1. q[IF i < k THEN i ELSE i + 1] = q[IF j < k THEN j ELSE j + 1]
    BY <1>6, <1>7, <1>8
  <2>2. /\ (IF i < k THEN i ELSE i + 1) \in DOMAIN q
        /\ (IF j < k THEN j ELSE j + 1) \in DOMAIN q
    BY <1>1, <1>7
  <2>3. (IF i < k THEN i ELSE i + 1) = (IF j < k THEN j ELSE j + 1)
    BY <2>1, <2>2, Zenon DEF NoRepeats
  <2> QED BY <1>1, <1>7, <2>3
<1>9. ASSUME NEW j \in DOMAIN w PROVE w[j] # q[k]
  <2>1. (IF j < k THEN j ELSE j + 1) \in DOMAIN q /\ (IF j < k THEN j ELSE j + 1) # k
    BY <1>1, <1>7
  <2>2. q[IF j < k THEN j ELSE j + 1] # q[k]
    BY <2>1 DEF NoRepeats
  <2> QED BY <1>6, <1>7, <2>2
<1>10. NoRepeats(w)
  BY <1>8, Zenon DEF NoRepeats
<1> QED BY <1>5, <1>6, <1>7, <1>9, <1>10 DEF w

LEMMA TailOfQueue ==
    ASSUME NEW q \in Seq(Sessions), NoRepeats(q), q # <<>>
    PROVE  /\ Tail(q) \in Seq(Sessions) /\ NoRepeats(Tail(q))
           /\ Head(q) \in Sessions /\ Head(q) = q[1] /\ 1 \in DOMAIN q
           /\ Len(Tail(q)) = Len(q) - 1 /\ Len(q) > 0
           /\ \A j \in DOMAIN Tail(q) : /\ j + 1 \in DOMAIN q
                                        /\ Tail(q)[j] = q[j + 1]
                                        /\ Tail(q)[j] # Head(q)
<1>1. /\ Head(q) = q[1] /\ Head(q) \in Sessions /\ Tail(q) \in Seq(Sessions)
      /\ Len(Tail(q)) = Len(q) - 1 /\ Len(q) > 0
      /\ \A i \in 1 .. Len(Tail(q)) : Tail(q)[i] = q[i + 1]
  BY HeadTailProperties
<1> QED BY <1>1 DEF NoRepeats

---------------------------------------------------------------------------
(* Rooms                                                                   *)

LEMMA InitializeSessionRoom ==
    ASSUME NEW r \in RoomType, NEW s \in Sessions
    PROVE  LET p == InitializeSession(r, s)
           IN  /\ p \in RoomType
               /\ p.queue = r.queue /\ p.inQueue = r.inQueue /\ p.told = r.told
               /\ p.init[s] = "asked"
               /\ \A x \in Sessions : x # s => p.init[x] = r.init[x]
  BY DEF RoomType, InitializeSession

\* Those of q from place k on are told; the others knew.
LEMMA SendPositionsOrderly ==
    ASSUME NEW r \in RoomType, NEW q \in Seq(Sessions), NoRepeats(q),
           NEW k \in Nat,
           \A i \in DOMAIN q : /\ r.init[q[i]] = "none" /\ r.inQueue[q[i]]
                               /\ i < k => r.told[q[i]] = i
    PROVE  LET p == SendPositions(r, q, k)
           IN  /\ Orderly(p)
               /\ p.queue = q /\ p.inQueue = r.inQueue /\ p.init = r.init
<1> DEFINE p == SendPositions(r, q, k)
           f == [x \in Sessions |-> IF Queued(q, x) /\ Position(q, x) >= k
                                    THEN Position(q, x) ELSE r.told[x]]
<1>1. /\ p.queue = q /\ p.inQueue = r.inQueue /\ p.init = r.init /\ p.told = f
      /\ p = [queue |-> q, inQueue |-> r.inQueue, init |-> r.init, told |-> f]
  <2>1. p = [r EXCEPT !.queue = q, !.told = f]
    BY Zenon DEF SendPositions
  <2> HIDE DEF p, f
  <2> QED BY <2>1 DEF RoomType
<1>2. ASSUME NEW i \in DOMAIN q PROVE f[q[i]] = i
  <2>1. q[i] \in Sessions /\ i \in Nat
    OBVIOUS
  <2>2. Queued(q, q[i]) /\ Position(q, q[i]) = i
    BY PositionFound
  <2> QED BY <2>1, <2>2
<1>3. f \in [Sessions -> Nat]
  <2>1. ASSUME NEW x \in Sessions, Queued(q, x) PROVE Position(q, x) \in Nat
    <3>1. PICK i \in DOMAIN q : q[i] = x
      BY <2>1 DEF Queued
    <3> QED BY <3>1, PositionFound
  <2> QED BY <2>1 DEF RoomType
<1>4. p \in RoomType
  BY <1>1, <1>3 DEF RoomType
<1> HIDE DEF p, f
<1> QED BY <1>1, <1>2, <1>4 DEF Orderly, p

\* What RemoveQueuedPlayer makes of an orderly room: s is out of the queue,
\* and if there is a place and somebody to take it the front is initialised.
\* Nobody else is touched.
LEMMA RemoveQueuedPlayerRoom ==
    ASSUME NEW r, Orderly(r), NEW s \in Sessions, NEW active \in Int
    PROVE  LET p     == RemoveQueuedPlayer(r, s, active)
               found == Queued(r.queue, s)
               stay  == IF found THEN Len(r.queue) - 1 ELSE Len(r.queue)
               moves == stay > 0 /\ HasPlace(CountOthers(found, active))
           IN  /\ Orderly(p)
               /\ ~Queued(p.queue, s)
               /\ Len(p.queue) = IF moves THEN stay - 1 ELSE stay
               /\ \A x \in Sessions : Queued(p.queue, x) => Queued(r.queue, x)
               /\ \A x \in Sessions : x # s => p.inQueue[x] = r.inQueue[x]
               /\ found \/ p.inQueue[s] = r.inQueue[s]
               /\ \A x \in Sessions : p.init[x] # r.init[x] =>
                                         Queued(r.queue, x) /\ p.init[x] = "asked"
<1> DEFINE found == Queued(r.queue, s)
           at == IF found THEN Position(r.queue, s) ELSE Len(r.queue) + 1
           rest == IF found THEN Without(r.queue, at) ELSE r.queue
           left == IF found THEN [r EXCEPT !.inQueue[s] = FALSE] ELSE r
           moves == rest # <<>> /\ HasPlace(CountOthers(found, active))
           p == RemoveQueuedPlayer(r, s, active)
<1>1. /\ r \in RoomType /\ r.queue \in Seq(Sessions) /\ NoRepeats(r.queue)
      /\ Len(r.queue) \in Nat /\ DOMAIN r.queue = 1 .. Len(r.queue)
      /\ r.inQueue \in [Sessions -> BOOLEAN]
  BY DEF Orderly, RoomType
<1>2. p = IF moves
          THEN SendPositions(InitializeSession(left, Head(rest)), Tail(rest), 1)
          ELSE SendPositions(left, rest, at)
  BY DEF RemoveQueuedPlayer
<1>3. /\ left \in RoomType /\ left.init = r.init /\ left.told = r.told
      /\ \A x \in Sessions : x # s => left.inQueue[x] = r.inQueue[x]
      /\ found \/ left.inQueue = r.inQueue
  BY <1>1 DEF RoomType
<1>4. /\ rest \in Seq(Sessions) /\ NoRepeats(rest) /\ at \in Nat
      /\ Len(rest) = IF found THEN Len(r.queue) - 1 ELSE Len(r.queue)
      /\ \A j \in DOMAIN rest :
           /\ rest[j] # s /\ Queued(r.queue, rest[j])
           /\ r.init[rest[j]] = "none" /\ r.inQueue[rest[j]]
           /\ j < at => r.told[rest[j]] = j
  <2>1. CASE found
    <3>1. PICK k \in DOMAIN r.queue : r.queue[k] = s
      BY <2>1 DEF Queued
    <3>2. at = k /\ rest = Without(r.queue, k)
      BY <1>1, <2>1, <3>1, PositionFound
    <3> HIDE DEF at, rest
    <3>3. LET w == Without(r.queue, k)
          IN  /\ w \in Seq(Sessions) /\ NoRepeats(w)
              /\ Len(w) = Len(r.queue) - 1
              /\ \A j \in DOMAIN w :
                   /\ w[j] # r.queue[k]
                   /\ w[j] = IF j < k THEN r.queue[j] ELSE r.queue[j + 1]
      BY <1>1, <3>1, WithoutOne
    <3>4. /\ rest \in Seq(Sessions) /\ NoRepeats(rest)
          /\ Len(rest) = Len(r.queue) - 1 /\ DOMAIN rest = 1 .. Len(rest)
          /\ \A j \in DOMAIN rest :
               /\ rest[j] # s
               /\ rest[j] = IF j < k THEN r.queue[j] ELSE r.queue[j + 1]
      BY <3>1, <3>2, <3>3
    <3>5. ASSUME NEW j \in DOMAIN rest
          PROVE  /\ Queued(r.queue, rest[j])
                 /\ r.init[rest[j]] = "none" /\ r.inQueue[rest[j]]
                 /\ j < k => r.told[rest[j]] = j
      <4>1. PICK n \in DOMAIN r.queue : rest[j] = r.queue[n] /\ (j < k => n = j)
        <5>1. (IF j < k THEN j ELSE j + 1) \in DOMAIN r.queue
          BY <1>1, <3>1, <3>4
        <5> QED BY <3>4, <5>1
      <4> QED BY <4>1 DEF Orderly, Queued
    <3> QED BY <1>1, <2>1, <3>1, <3>2, <3>4, <3>5
  <2>2. CASE ~found
    BY <1>1, <2>2 DEF Orderly, Queued
  <2> QED BY <2>1, <2>2
<1>5. \A j \in DOMAIN rest : left.inQueue[rest[j]]
  BY <1>3, <1>4
<1>6. DOMAIN rest = 1 .. Len(rest) /\ Len(rest) \in Nat /\ (rest # <<>> <=> Len(rest) > 0)
  BY <1>4
<1> HIDE DEF rest, left, at, found, moves, p
<1>7. ASSUME moves
      PROVE  /\ Orderly(p) /\ p.queue = Tail(rest) /\ p.inQueue = left.inQueue
             /\ rest # <<>> /\ p.init[Head(rest)] = "asked" /\ Queued(r.queue, Head(rest))
             /\ \A x \in Sessions : x # Head(rest) => p.init[x] = r.init[x]
  <2> DEFINE h == Head(rest)
             i == InitializeSession(left, h)
             q == Tail(rest)
  <2>1. rest # <<>>
    BY <1>7 DEF moves
  <2>2. /\ q \in Seq(Sessions) /\ NoRepeats(q) /\ h \in Sessions
        /\ h = rest[1] /\ 1 \in DOMAIN rest
        /\ \A j \in DOMAIN q : j + 1 \in DOMAIN rest /\ q[j] = rest[j + 1] /\ q[j] # h
    BY <1>4, <2>1, TailOfQueue
  <2>3. /\ i \in RoomType /\ i.inQueue = left.inQueue /\ i.init[h] = "asked"
        /\ \A x \in Sessions : x # h => i.init[x] = r.init[x]
    <3> HIDE DEF h
    <3>1. /\ i \in RoomType /\ i.inQueue = left.inQueue /\ i.init[h] = "asked"
          /\ \A x \in Sessions : x # h => i.init[x] = left.init[x]
      BY <1>3, <2>2, InitializeSessionRoom, Zenon
    <3> QED BY <1>3, <3>1
  <2>4. p = SendPositions(i, q, 1)
    BY <1>2, <1>7
  <2> HIDE DEF i, q, h
  <2>5. ASSUME NEW j \in DOMAIN q
        PROVE  /\ i.init[q[j]] = "none" /\ i.inQueue[q[j]]
               /\ j < 1 => i.told[q[j]] = j
    BY <1>4, <1>5, <1>6, <2>2, <2>3
  <2>6. Orderly(p) /\ p.queue = q /\ p.inQueue = i.inQueue /\ p.init = i.init
    BY <2>2, <2>3, <2>4, <2>5, SendPositionsOrderly
  <2> QED BY <1>4, <2>1, <2>2, <2>3, <2>6 DEF q, h
<1>8. ASSUME ~moves
      PROVE  Orderly(p) /\ p.queue = rest /\ p.inQueue = left.inQueue /\ p.init = r.init
  <2>1. p = SendPositions(left, rest, at)
    BY <1>2, <1>8
  <2> QED BY <1>3, <1>4, <1>5, <2>1, SendPositionsOrderly
<1>9. ~Queued(p.queue, s) /\ \A x \in Sessions : Queued(p.queue, x) => Queued(r.queue, x)
  <2>1. CASE moves
    <3>1. /\ p.queue = Tail(rest)
          /\ \A j \in DOMAIN Tail(rest) : /\ j + 1 \in DOMAIN rest
                                         /\ Tail(rest)[j] = rest[j + 1]
      BY <1>4, <1>7, <2>1, TailOfQueue
    <3>2. \A j \in DOMAIN p.queue : p.queue[j] # s /\ Queued(r.queue, p.queue[j])
      BY <1>4, <3>1
    <3> QED BY <3>2, Zenon DEF Queued
  <2>2. CASE ~moves
    BY <1>4, <1>8, <2>2 DEF Queued
  <2> QED BY <2>1, <2>2
<1>10. Len(p.queue) = IF moves THEN Len(rest) - 1 ELSE Len(rest)
  BY <1>4, <1>7, <1>8, TailOfQueue
<1>11. moves <=> Len(rest) > 0 /\ HasPlace(CountOthers(found, active))
  BY <1>6 DEF moves
<1>12. Orderly(p) /\ p.inQueue = left.inQueue
  BY <1>7, <1>8
<1>13. \A x \in Sessions : p.init[x] # r.init[x] =>
                               Queued(r.queue, x) /\ p.init[x] = "asked"
  <2>1. CASE moves
    BY <1>7, <2>1, Zenon
  <2>2. CASE ~moves
    BY <1>8, <2>2, Zenon
  <2> QED BY <2>1, <2>2
<1> QED BY <1>3, <1>4, <1>9, <1>10, <1>11, <1>12, <1>13, Zenon DEF found, p

\* From room r to room p nobody but s is touched, except that some who were
\* queued have been let through; and nobody but s has entered the queue.
TouchesOnly(s, r, p) ==
    /\ \A x \in Sessions : x # s =>
         /\ p.inQueue[x] = r.inQueue[x]
         /\ p.init[x] # r.init[x] => Queued(r.queue, x) /\ p.init[x] = "asked"
    /\ \A x \in Sessions : Queued(p.queue, x) /\ x # s => Queued(r.queue, x)

LEMMA TouchesTwice ==
    ASSUME NEW s \in Sessions, NEW r, NEW p, NEW q,
           TouchesOnly(s, r, p), TouchesOnly(s, p, q)
    PROVE  TouchesOnly(s, r, q)
  BY Zenon DEF TouchesOnly

LEMMA RemoveTouchesOnly ==
    ASSUME NEW r, Orderly(r), NEW s \in Sessions, NEW active \in Int
    PROVE  TouchesOnly(s, r, RemoveQueuedPlayer(r, s, active))
<1> DEFINE p == RemoveQueuedPlayer(r, s, active)
<1>1. /\ \A x \in Sessions : Queued(p.queue, x) => Queued(r.queue, x)
      /\ \A x \in Sessions : x # s => p.inQueue[x] = r.inQueue[x]
      /\ \A x \in Sessions : p.init[x] # r.init[x] => Queued(r.queue, x) /\ p.init[x] = "asked"
  BY RemoveQueuedPlayerRoom
<1> QED BY <1>1, Zenon DEF TouchesOnly

\* A session that is not queued is forgotten.
LEMMA FreedRoom ==
    ASSUME NEW r, Orderly(r), NEW s \in Sessions, ~Queued(r.queue, s)
    PROVE  LET p == Freed(r, s)
           IN  /\ Orderly(p) /\ p.queue = r.queue /\ TouchesOnly(s, r, p)
               /\ p.init[s] = "none" /\ ~p.inQueue[s]
<1> DEFINE p == Freed(r, s)
<1>1. r \in RoomType
  BY DEF Orderly
<1>2. /\ p \in RoomType /\ p.queue = r.queue
      /\ p.init[s] = "none" /\ ~p.inQueue[s]
      /\ \A x \in Sessions : x # s => /\ p.init[x] = r.init[x]
                                      /\ p.inQueue[x] = r.inQueue[x]
                                      /\ p.told[x] = r.told[x]
  BY <1>1 DEF RoomType, Freed
<1> HIDE DEF p
<1>3. \A i \in DOMAIN r.queue : r.queue[i] \in Sessions /\ r.queue[i] # s
  BY <1>1 DEF RoomType, Queued
<1>4. Orderly(p)
  BY <1>2, <1>3 DEF Orderly
<1> QED BY <1>2, <1>4 DEF TouchesOnly, p

\* A session that is not queued is initialised.
LEMMA InitializeOrderly ==
    ASSUME NEW r, Orderly(r), NEW s \in Sessions, ~Queued(r.queue, s)
    PROVE  LET p == InitializeSession(r, s)
           IN  /\ Orderly(p) /\ p.queue = r.queue /\ TouchesOnly(s, r, p)
               /\ p.init[s] = "asked"
<1> DEFINE p == InitializeSession(r, s)
<1>1. r \in RoomType
  BY DEF Orderly
<1>2. /\ p \in RoomType
      /\ p.queue = r.queue /\ p.inQueue = r.inQueue /\ p.told = r.told
      /\ p.init[s] = "asked"
      /\ \A x \in Sessions : x # s => p.init[x] = r.init[x]
  BY <1>1, InitializeSessionRoom
<1> HIDE DEF p
<1>3. \A i \in DOMAIN r.queue : r.queue[i] \in Sessions /\ r.queue[i] # s
  BY <1>1 DEF RoomType, Queued
<1>4. Orderly(p)
  BY <1>2, <1>3 DEF Orderly
<1> QED BY <1>2, <1>4 DEF TouchesOnly, p

\* A session that is not queued, and for which nothing was asked, goes to the
\* back and is told so.
LEMMA AddQueuedPlayerRoom ==
    ASSUME NEW r, Orderly(r), NEW s \in Sessions, ~Queued(r.queue, s),
           r.init[s] = "none"
    PROVE  LET p == AddQueuedPlayer(r, s)
           IN  /\ Orderly(p) /\ TouchesOnly(s, r, p)
               /\ Len(p.queue) = Len(r.queue) + 1
               /\ Queued(p.queue, s) /\ p.inQueue[s]
<1> DEFINE p == AddQueuedPlayer(r, s)
           q == Append(r.queue, s)
<1>1. r \in RoomType /\ r.queue \in Seq(Sessions)
  BY DEF Orderly, RoomType
<1>2. /\ q \in Seq(Sessions) /\ Len(q) = Len(r.queue) + 1 /\ Len(r.queue) \in Nat
      /\ DOMAIN q = 1 .. Len(r.queue) + 1 /\ DOMAIN r.queue = 1 .. Len(r.queue)
      /\ \A i \in DOMAIN r.queue : q[i] = r.queue[i]
      /\ q[Len(r.queue) + 1] = s
  BY <1>1, AppendProperties
<1>3. /\ p \in RoomType /\ p.queue = q /\ p.init = r.init
      /\ p.inQueue[s] /\ p.told[s] = Len(r.queue) + 1
      /\ \A x \in Sessions : x # s => /\ p.inQueue[x] = r.inQueue[x]
                                      /\ p.told[x] = r.told[x]
  <2> HIDE DEF q
  <2>1. p = [r EXCEPT !.queue = q, !.inQueue[s] = TRUE, !.told[s] = Len(r.queue) + 1]
    BY <1>1 DEF AddQueuedPlayer, RoomType, q
  <2>2. /\ p = [queue |-> q, inQueue |-> [r.inQueue EXCEPT ![s] = TRUE], init |-> r.init,
               told |-> [r.told EXCEPT ![s] = Len(r.queue) + 1]]
    <3> HIDE DEF p
    <3> QED BY <1>1, <2>1 DEF RoomType
  <2>3. [r.inQueue EXCEPT ![s] = TRUE] \in [Sessions -> BOOLEAN]
    BY <1>1 DEF RoomType
  <2>4. [r.told EXCEPT ![s] = Len(r.queue) + 1] \in [Sessions -> Nat]
    BY <1>1, <1>2 DEF RoomType
  <2> HIDE DEF p
  <2> QED BY <1>1, <1>2, <2>2, <2>3, <2>4 DEF RoomType
<1> HIDE DEF p, q
<1>4. \A i \in DOMAIN r.queue : r.queue[i] \in Sessions /\ r.queue[i] # s
  BY <1>1 DEF RoomType, Queued
<1>5. \A i \in DOMAIN q : i \in DOMAIN r.queue \/ i = Len(r.queue) + 1
  BY <1>2
<1>6. NoRepeats(q)
  BY <1>2, <1>4, <1>5 DEF NoRepeats, Orderly
<1>7. Orderly(p)
  <2> SUFFICES ASSUME NEW i \in DOMAIN q
               PROVE  p.init[q[i]] = "none" /\ p.inQueue[q[i]] /\ p.told[q[i]] = i
    BY <1>3, <1>6 DEF Orderly
  <2>1. CASE i \in DOMAIN r.queue
    BY <1>2, <1>3, <1>4, <2>1 DEF Orderly
  <2>2. CASE i = Len(r.queue) + 1
    BY <1>2, <1>3, <2>2
  <2> QED BY <1>5, <2>1, <2>2
<1>8. Queued(q, s) /\ \A x \in Sessions : Queued(q, x) /\ x # s => Queued(r.queue, x)
  <2>1. Len(r.queue) + 1 \in DOMAIN q
    BY <1>2
  <2> QED BY <1>2, <1>5, <2>1 DEF Queued
<1> QED BY <1>2, <1>3, <1>7, <1>8 DEF TouchesOnly, p

\* The answer of the database is taken; who waits has not asked for one.
LEMMA AfterCallbackRoom ==
    ASSUME Orderly(Room), NEW s \in Sessions
    PROVE  LET p == AfterCallback(s)
           IN  /\ Orderly(p) /\ p.queue = queue /\ TouchesOnly(s, Room, p)
               /\ p.init[s] = "none" <=> init[s] = "none"
               /\ init[s] = "none" => p.inQueue[s] = inQueue[s]
<1> DEFINE p == AfterCallback(s)
<1>1. /\ Room \in RoomType /\ Room.queue = queue /\ Room.inQueue = inQueue
      /\ Room.init = init /\ Room.told = told
  BY DEF Orderly, Room
<1>2. CASE init[s] = "ready"
  <2>1. p = [Room EXCEPT !.init[s] = "done", !.inQueue[s] = FALSE, !.told[s] = 0]
    BY <1>2 DEF AfterCallback
  <2>2. /\ p \in RoomType /\ p.queue = Room.queue /\ p.init[s] = "done"
        /\ \A x \in Sessions : x # s => /\ p.init[x] = Room.init[x]
                                        /\ p.inQueue[x] = Room.inQueue[x]
                                        /\ p.told[x] = Room.told[x]
    <3> HIDE DEF p
    <3> QED BY <1>1, <2>1 DEF RoomType
  <2> HIDE DEF p
  <2>3. \A i \in DOMAIN queue : queue[i] \in Sessions /\ queue[i] # s
    BY <1>1, <1>2 DEF RoomType, Orderly
  <2>4. Orderly(p)
    BY <1>1, <2>2, <2>3 DEF Orderly
  <2> QED BY <1>1, <1>2, <2>2, <2>4 DEF TouchesOnly, p
<1>3. CASE init[s] # "ready"
  BY <1>1, <1>3 DEF AfterCallback, TouchesOnly
<1> QED BY <1>2, <1>3

\* A room that has been taken is the next one.
LEMMA RoomTaken ==
    ASSUME NEW r \in RoomType, TakeRoom(r)
    PROVE  Room' = r /\ queue' = r.queue /\ inQueue' = r.inQueue /\ init' = r.init
  BY DEF TakeRoom, Room, RoomType

\* The newcomer is held back, or let through.
HeldBack(s, others) ==
    /\ ~Unlimited
    /\ others >= limit
    /\ ~Privileged(AccountOf[s])

LEMMA PlaceSessionRoom ==
    ASSUME NEW r, Orderly(r), NEW s \in Sessions, ~Queued(r.queue, s),
           r.init[s] = "none", NEW others, PlaceSession(r, s, others)
    PROVE  /\ Orderly(Room') /\ TouchesOnly(s, r, Room')
           /\ Len(queue') = IF HeldBack(s, others) THEN Len(r.queue) + 1 ELSE Len(r.queue)
           /\ IF HeldBack(s, others)
              THEN Queued(queue', s) /\ inQueue'[s]
              ELSE queue' = r.queue /\ init'[s] = "asked"
<1>1. CASE HeldBack(s, others)
  <2>1. TakeRoom(AddQueuedPlayer(r, s))
    BY <1>1 DEF PlaceSession, HeldBack, Privileged
  <2>2. Orderly(AddQueuedPlayer(r, s))
    BY AddQueuedPlayerRoom
  <2>3. /\ Room' = AddQueuedPlayer(r, s) /\ queue' = AddQueuedPlayer(r, s).queue
        /\ inQueue' = AddQueuedPlayer(r, s).inQueue
    BY <2>1, <2>2, RoomTaken DEF Orderly
  <2> QED BY <1>1, <2>3, AddQueuedPlayerRoom
<1>2. CASE ~HeldBack(s, others)
  <2>1. TakeRoom(InitializeSession(r, s))
    BY <1>2 DEF PlaceSession, HeldBack, Privileged
  <2>2. Orderly(InitializeSession(r, s))
    BY InitializeOrderly
  <2>3. /\ Room' = InitializeSession(r, s) /\ queue' = InitializeSession(r, s).queue
        /\ init' = InitializeSession(r, s).init
    BY <2>1, <2>2, RoomTaken DEF Orderly
  <2> QED BY <1>2, <2>3, InitializeOrderly
<1> QED BY <1>1, <1>2

---------------------------------------------------------------------------
(* How many sessions there are                                             *)

Count(table) == Cardinality({a \in Accounts : table[a] # None})

LEMMA TableCount ==
    ASSUME NEW table, NEW q \in Seq(Sessions)
    PROVE  /\ Count(table) \in Nat /\ Len(q) \in Nat
           /\ Active(table, q) = Count(table) - Len(q)
<1>1. IsFiniteSet({a \in Accounts : table[a] # None})
  BY SessionConstants, FS_Subset, Zenon
<1> QED BY <1>1, FS_CardinalityType DEF Count, Active

\* An account comes in, comes back or goes.
LEMMA CountChanges ==
    ASSUME NEW table \in [Accounts -> Sessions \cup {None}], NEW a \in Accounts,
           NEW s \in Sessions
    PROVE  /\ Count([table EXCEPT ![a] = s]) =
                  IF table[a] = None THEN Count(table) + 1 ELSE Count(table)
           /\ table[a] # None => Count([table EXCEPT ![a] = None]) = Count(table) - 1
<1> DEFINE S == {b \in Accounts : table[b] # None}
           in == {b \in Accounts : [table EXCEPT ![a] = s][b] # None}
           out == {b \in Accounts : [table EXCEPT ![a] = None][b] # None}
<1>1. IsFiniteSet(S)
  BY SessionConstants, FS_Subset, Zenon
<1>2. in = S \cup {a}
  BY SessionConstants
<1>3. out = S \ {a}
  OBVIOUS
<1>4. a \in S <=> table[a] # None
  OBVIOUS
<1> HIDE DEF S, in, out
<1>5. Cardinality(S) \in Nat
  BY <1>1, FS_CardinalityType
<1>6. Cardinality(in) = IF a \in S THEN Cardinality(S) ELSE Cardinality(S) + 1
  BY <1>1, <1>2, FS_AddElement
<1>7. Cardinality(out) = IF a \in S THEN Cardinality(S) - 1 ELSE Cardinality(S)
  BY <1>1, <1>3, FS_RemoveElement
<1> QED BY <1>4, <1>5, <1>6, <1>7 DEF Count, S, in, out

---------------------------------------------------------------------------
(* The invariant: the initial state, and the actions that leave the table  *)
(* and the queue alone                                                     *)

LEMMA InvInit == Init => IInv
<1> SUFFICES ASSUME Init PROVE IInv
  OBVIOUS
<1> USE SessionConstants DEF Init
<1>1. TypeOK
  <2>1. queue \in Seq(Sessions) /\ addQueue \in Seq(Sessions)
    OBVIOUS
  <2>2. disconnects \in [Accounts -> 0 .. MaxTime \cup {Never}]
    OBVIOUS
  <2>3. /\ open \in [Sessions -> BOOLEAN] /\ forced \in [Sessions -> BOOLEAN]
        /\ inQueue \in [Sessions -> BOOLEAN]
    OBVIOUS
  <2>4. expire \in [Sessions -> 0 .. Grace] /\ told \in [Sessions -> Nat]
    OBVIOUS
  <2>5. /\ init \in [Sessions -> {"none", "asked", "ready", "done"}]
        /\ char \in [Sessions -> {"none", "loading", "ready", "playing"}]
        /\ life \in [Sessions -> {"new", "adding", "listed", "deleted"}]
    OBVIOUS
  <2>6. sessions \in [Accounts -> Sessions \cup {None}]
    OBVIOUS
  <2>7. /\ limit \in Limits /\ time \in 0 .. MaxTime /\ todo \subseteq Accounts
        /\ wpc \in {"outside", "adding", "updating", "stopped"}
    OBVIOUS
  <2>8. stopping \in BOOLEAN /\ raised \in BOOLEAN
    BY Zenon
  <2> HIDE DEF Init
  <2> QED BY <2>1, <2>2, <2>3, <2>4, <2>5, <2>6, <2>7, <2>8, Zenon DEF TypeOK
<1>2. Orderly(Room) /\ NoRepeats(addQueue)
  BY DEF Orderly, Room, RoomType, NoRepeats
<1>3. TableInv
  BY DEF TableInv, TableHoldsTheLiving, Listed
<1>4. UnlistedInv /\ AddQueueInv /\ QueueInv /\ WaitingInv /\ TodoInv
  BY <1>2 DEF UnlistedInv, AddQueueInv, QueueInv, WaitingInv, TodoInv
<1> QED BY <1>1, <1>3, <1>4 DEF IInv, NobodySkipsTheQueue, PlacesAreUsed

\* Nobody leaves the table and the queue stands still.
LEMMA QueueStays ==
    ASSUME QueueInv, UNCHANGED <<queue, inQueue, init, told>>,
           \A s \in Sessions : life[s] = "listed" => life'[s] = "listed"
    PROVE  QueueInv'
<1>1. Room' = Room
  BY DEF Room
<1>2. queue \in Seq(Sessions)
  BY DEF QueueInv, Orderly, Room, RoomType
<1>3. \A i \in DOMAIN queue : queue[i] \in Sessions
  BY <1>2
<1> QED BY <1>1, <1>3 DEF QueueInv, Orderly

LEMMA PlacesStay ==
    ASSUME PlacesAreUsed, UNCHANGED <<sessions, queue, limit, raised>>
    PROVE  PlacesAreUsed'
  BY DEF PlacesAreUsed, Active, Unlimited

LEMMA InvAddSession ==
    ASSUME IInv, NEW s \in Sessions, AddSession(s)
    PROVE  IInv'
<1> USE DEF IInv, AddSession, sessionVars, worldVars
<1>1. TypeOK'
  BY AppendProperties DEF TypeOK
<1>2. /\ addQueue \in Seq(Sessions) /\ \A i \in DOMAIN addQueue : addQueue[i] # s
      /\ life'[s] = "adding" /\ \A x \in Sessions : x # s => life'[x] = life[x]
      /\ \A x \in Sessions : life'[x] = "listed" <=> life[x] = "listed"
  BY DEF TypeOK, AddQueueInv
<1>3. TableInv' /\ UnlistedInv' /\ WaitingInv' /\ TodoInv' /\ NobodySkipsTheQueue'
  BY <1>2 DEF TableInv, TableHoldsTheLiving, Listed, UnlistedInv, WaitingInv, TodoInv,
     NobodySkipsTheQueue
<1>4. AddQueueInv'
  <2>1. /\ Len(addQueue) \in Nat /\ DOMAIN addQueue = 1 .. Len(addQueue)
        /\ DOMAIN addQueue' = 1 .. Len(addQueue) + 1
        /\ \A i \in DOMAIN addQueue : addQueue'[i] = addQueue[i] /\ addQueue[i] \in Sessions
        /\ addQueue'[Len(addQueue) + 1] = s
    BY <1>2, AppendProperties
  <2>2. \A i \in DOMAIN addQueue' : i \in DOMAIN addQueue \/ i = Len(addQueue) + 1
    BY <2>1
  <2> QED BY <1>2, <2>1, <2>2 DEF AddQueueInv, NoRepeats
<1> QED BY <1>1, <1>2, <1>3, <1>4, QueueStays, PlacesStay

LEMMA InvCloseSocket ==
    ASSUME IInv, NEW s \in Sessions, CloseSocket(s)
    PROVE  IInv'
<1> USE DEF IInv, CloseSocket, sessionVars, worldVars
<1>1. TypeOK'
  BY DEF TypeOK
<1>2. /\ TableInv' /\ UnlistedInv' /\ WaitingInv' /\ TodoInv' /\ NobodySkipsTheQueue'
      /\ AddQueueInv'
  BY DEF TableInv, TableHoldsTheLiving, Listed, UnlistedInv, WaitingInv, TodoInv,
     NobodySkipsTheQueue, AddQueueInv
<1> QED BY <1>1, <1>2, QueueStays, PlacesStay

LEMMA InvInitQueriesDone ==
    ASSUME IInv, NEW s \in Sessions, InitQueriesDone(s)
    PROVE  IInv'
<1> USE DEF IInv, InitQueriesDone, sessionVars, worldVars
<1>1. TypeOK' /\ \A x \in Sessions : x # s => init'[x] = init[x]
  BY DEF TypeOK
<1>2. init'[s] = "ready"
  BY DEF TypeOK
<1>3. /\ TableInv' /\ UnlistedInv' /\ WaitingInv' /\ TodoInv' /\ NobodySkipsTheQueue'
      /\ AddQueueInv'
  BY <1>1, <1>2 DEF TableInv, TableHoldsTheLiving, Listed, UnlistedInv, WaitingInv,
     TodoInv, NobodySkipsTheQueue, AddQueueInv
<1>4. QueueInv'
  <2>1. \A i \in DOMAIN queue : queue[i] \in Sessions /\ queue[i] # s
    BY DEF TypeOK, QueueInv, Orderly, Room
  <2>2. Room' \in RoomType
    BY <1>1 DEF TypeOK, Room, RoomType
  <2> QED BY <1>1, <2>1, <2>2 DEF QueueInv, Orderly, Room
<1> QED BY <1>1, <1>3, <1>4, PlacesStay

LEMMA InvLoginQueriesDone ==
    ASSUME IInv, NEW s \in Sessions, LoginQueriesDone(s)
    PROVE  IInv'
<1> USE DEF IInv, LoginQueriesDone, sessionVars, worldVars
<1>1. TypeOK'
  BY DEF TypeOK
<1>2. \A x \in Sessions : char'[x] # "none" => char[x] # "none"
  BY DEF TypeOK
<1>3. /\ TableInv' /\ UnlistedInv' /\ WaitingInv' /\ TodoInv' /\ NobodySkipsTheQueue'
      /\ AddQueueInv'
  BY <1>2 DEF TableInv, TableHoldsTheLiving, Listed, UnlistedInv, WaitingInv,
     TodoInv, NobodySkipsTheQueue, AddQueueInv, TypeOK
<1> QED BY <1>1, <1>3, QueueStays, PlacesStay

\* Time, and which thread is where, are not part of the invariant.
LEMMA InvUpdateGameTime ==
    ASSUME IInv, UpdateGameTime
    PROVE  IInv'
<1> USE DEF IInv, UpdateGameTime, sessionVars, worldVars
<1>1. TypeOK'
  BY SessionConstants DEF TypeOK
<1>2. /\ TableInv' /\ UnlistedInv' /\ WaitingInv' /\ TodoInv' /\ NobodySkipsTheQueue'
      /\ AddQueueInv'
  BY DEF TableInv, TableHoldsTheLiving, Listed, UnlistedInv, WaitingInv,
     TodoInv, NobodySkipsTheQueue, AddQueueInv
<1> QED BY <1>1, <1>2, QueueStays, PlacesStay

\* A lower limit still has no place left; a higher one is remembered.
LEMMA InvSetPlayerLimit ==
    ASSUME IInv, NEW l \in Limits, SetPlayerLimit(l)
    PROVE  IInv'
<1> USE DEF IInv, SetPlayerLimit, sessionVars, worldVars
<1>1. TypeOK'
  BY DEF TypeOK
<1>2. /\ TableInv' /\ UnlistedInv' /\ WaitingInv' /\ TodoInv' /\ NobodySkipsTheQueue'
      /\ AddQueueInv'
  BY DEF TableInv, TableHoldsTheLiving, Listed, UnlistedInv, WaitingInv,
     TodoInv, NobodySkipsTheQueue, AddQueueInv
<1>3. QueueInv'
  BY QueueStays
<1>4. Active(sessions', queue') = Active(sessions, queue) /\ Active(sessions, queue) \in Int
  <2>1. sessions' = sessions /\ queue' = queue /\ queue \in Seq(Sessions)
    BY DEF TypeOK
  <2>2. Active(sessions, queue) \in Int
    BY <2>1, TableCount
  <2> QED BY <2>1, <2>2 DEF Active
<1>5. PlacesAreUsed'
  <2> SUFFICES ASSUME queue' # <<>>, ~raised'
               PROVE  ~Unlimited' /\ Active(sessions', queue') >= limit'
    BY DEF PlacesAreUsed
  <2>1. /\ ~raised /\ ~(l <= 0 \/ l > limit)
        /\ l > 0 /\ l <= limit /\ l \in Int /\ limit \in Int
    <3>1. ~raised /\ queue # <<>> /\ ~(queue # <<>> /\ (l <= 0 \/ l > limit))
      BY Zenon
    <3>2. l \in Int /\ limit \in Int
      BY SessionConstants DEF TypeOK
    <3> QED BY <3>1, <3>2
  <2>2. Active(sessions, queue) >= limit
    BY <2>1 DEF PlacesAreUsed
  <2> HIDE DEF IInv
  <2>3. limit' = l
    OBVIOUS
  <2> QED BY <1>4, <2>1, <2>2, <2>3 DEF Unlimited
<1> QED BY <1>1, <1>2, <1>3, <1>5

LEMMA KickedType ==
    ASSUME NEW S, Kicked(S)
    PROVE  open' \in [Sessions -> BOOLEAN] /\ forced' \in [Sessions -> BOOLEAN]
  BY Zenon DEF Kicked

LEMMA InvKicks ==
    ASSUME IInv, KickAllLess \/ KickAll
    PROVE  IInv'
<1> USE DEF IInv, KickAllLess, KickAll, sessionVars, worldVars
<1>1. TypeOK'
  <2>1. open' \in [Sessions -> BOOLEAN] /\ forced' \in [Sessions -> BOOLEAN]
    BY KickedType
  <2>2. queue' \in Seq(Sessions)
    <3>1. queue' = queue \/ queue' = <<>>
      BY Zenon
    <3>2. queue \in Seq(Sessions) /\ <<>> \in Seq(Sessions)
      BY DEF TypeOK
    <3> HIDE DEF IInv, KickAll, KickAllLess
    <3> QED BY <3>1, <3>2, Zenon
  <2> QED BY <2>1, <2>2 DEF TypeOK
<1>2. /\ TableInv' /\ UnlistedInv' /\ WaitingInv' /\ TodoInv' /\ NobodySkipsTheQueue'
      /\ AddQueueInv'
  BY DEF TableInv, TableHoldsTheLiving, Listed, UnlistedInv, WaitingInv,
     TodoInv, NobodySkipsTheQueue, AddQueueInv
<1>3. CASE KickAllLess
  BY <1>1, <1>2, <1>3, QueueStays, PlacesStay
<1>4. CASE KickAll
  <2>1. Room' \in RoomType /\ queue' = <<>>
    BY <1>1, <1>4 DEF TypeOK, Room, RoomType
  <2>2. QueueInv' /\ PlacesAreUsed'
    BY <2>1 DEF QueueInv, Orderly, NoRepeats, Room, PlacesAreUsed
  <2> QED BY <1>1, <1>2, <2>2
<1> QED BY <1>3, <1>4

LEMMA InvRounds ==
    ASSUME IInv, BeginUpdateSessions \/ SessionsAdded \/ EndUpdateSessions
    PROVE  IInv'
<1> USE DEF IInv, BeginUpdateSessions, SessionsAdded, EndUpdateSessions,
        sessionVars, worldVars
<1>1. UNCHANGED <<sessions, queue, addQueue, disconnects, sessionVars, limit, time,
                  stopping, raised>>
  OBVIOUS
<1>2. Listed \subseteq Accounts
  BY DEF Listed
<1>3. TypeOK'
  BY <1>2 DEF TypeOK
<1>4. TodoInv'
  BY DEF TodoInv, Listed
<1>5. /\ TableInv' /\ UnlistedInv' /\ WaitingInv' /\ NobodySkipsTheQueue' /\ AddQueueInv'
  BY <1>1 DEF TableInv, TableHoldsTheLiving, Listed, UnlistedInv, WaitingInv,
     NobodySkipsTheQueue, AddQueueInv
<1> QED BY <1>1, <1>3, <1>4, <1>5, QueueStays, PlacesStay

---------------------------------------------------------------------------
(* AddSession_                                                             *)

\* The first of those handed over, and what is left of them.
LEMMA NextNewcomer ==
    ASSUME IInv, addQueue # <<>>, addQueue' = Tail(addQueue)
    PROVE  /\ Head(addQueue) \in Sessions /\ life[Head(addQueue)] = "adding"
           /\ addQueue' \in Seq(Sessions) /\ NoRepeats(addQueue')
           /\ \A j \in DOMAIN addQueue' : /\ addQueue'[j] \in Sessions
                                          /\ addQueue'[j] # Head(addQueue)
                                          /\ life[addQueue'[j]] = "adding"
<1>1. /\ addQueue \in Seq(Sessions) /\ NoRepeats(addQueue)
      /\ \A i \in DOMAIN addQueue : life[addQueue[i]] = "adding"
  BY DEF IInv, TypeOK, AddQueueInv
<1>2. /\ Tail(addQueue) \in Seq(Sessions) /\ NoRepeats(Tail(addQueue))
      /\ Head(addQueue) \in Sessions /\ Head(addQueue) = addQueue[1] /\ 1 \in DOMAIN addQueue
      /\ \A j \in DOMAIN Tail(addQueue) : /\ j + 1 \in DOMAIN addQueue
                                          /\ Tail(addQueue)[j] = addQueue[j + 1]
                                          /\ Tail(addQueue)[j] # Head(addQueue)
  BY <1>1, TailOfQueue
<1>3. \A i \in DOMAIN addQueue : addQueue[i] \in Sessions
  BY <1>1
<1> QED BY <1>1, <1>2, <1>3

LEMMA InvRefuse ==
    ASSUME IInv, addQueue # <<>>, addQueue' = Tail(addQueue),
           RefuseSession(Head(addQueue)), raised' = (raised /\ queue' # <<>>),
           UNCHANGED <<disconnects, limit, time, wpc, todo, stopping>>
    PROVE  IInv'
<1> DEFINE s == Head(addQueue)
<1>1. /\ s \in Sessions /\ life[s] = "adding" /\ addQueue' \in Seq(Sessions)
      /\ NoRepeats(addQueue')
      /\ \A j \in DOMAIN addQueue' : /\ addQueue'[j] \in Sessions /\ addQueue'[j] # s
                                     /\ life[addQueue'[j]] = "adding"
  BY NextNewcomer
<1>2. RefuseSession(s)
  OBVIOUS
<1> HIDE DEF s
<1> USE DEF IInv, RefuseSession
<1>3. raised' \in BOOLEAN /\ (~raised' => ~raised \/ queue' = <<>>)
  BY Zenon
<1>4. TypeOK'
  BY <1>1, <1>2, <1>3 DEF TypeOK
<1>5. /\ life'[s] = "deleted" /\ \A x \in Sessions : x # s => life'[x] = life[x]
      /\ \A x \in Sessions : life'[x] = "listed" <=> life[x] = "listed"
  BY <1>1, <1>2 DEF TypeOK
<1>6. TableInv' /\ UnlistedInv' /\ WaitingInv' /\ TodoInv' /\ NobodySkipsTheQueue'
  BY <1>2, <1>5 DEF TableInv, TableHoldsTheLiving, Listed, UnlistedInv, WaitingInv, TodoInv,
     NobodySkipsTheQueue
<1>7. AddQueueInv'
  BY <1>1, <1>5 DEF AddQueueInv
<1>8. QueueInv'
  BY <1>2, <1>5, QueueStays
<1>9. PlacesAreUsed'
  BY <1>2, <1>3 DEF PlacesAreUsed, Active, Unlimited
<1> QED BY <1>4, <1>6, <1>7, <1>8, <1>9

\* In the room that the newcomer finds, and in the one it makes, its account's
\* session is the only one touched: the queue is orderly, and long enough.
LEMMA AcceptedRoom ==
    ASSUME IInv, NEW s \in Sessions, life[s] = "adding", AcceptSession(s)
    PROVE  LET a      == AccountOf[s]
               old    == sessions[a]
           IN  /\ Orderly(Room')
               /\ \A x \in Sessions :
                    Queued(queue', x) => x # old /\ (Queued(queue, x) \/ x = s)
               /\ \A x \in Sessions : x # s /\ x # old =>
                    /\ inQueue'[x] = inQueue[x]
                    /\ init'[x] # init[x] => init'[x] = "asked" /\ Queued(queue, x)
               /\ (Queued(queue', s) /\ inQueue'[s]) \/ init'[s] = "asked"
               /\ old # None => init'[old] = "none" /\ ~inQueue'[old]
<1> DEFINE a == AccountOf[s]
           old == sessions[a]
           size == Cardinality({b \in Accounts : [sessions EXCEPT ![a] = s][b] # None})
<1>1. /\ a \in Accounts /\ old \in Sessions \cup {None} /\ old # s
      /\ old # None => life[old] = "listed"
      /\ Orderly(Room) /\ Room.queue = queue /\ Room.init = init /\ Room.inQueue = inQueue
      /\ ~Queued(queue, s) /\ init[s] = "none"
  <2>1. a \in Accounts /\ old \in Sessions \cup {None}
    BY SessionConstants DEF IInv, TypeOK
  <2>2. old # None => old \in Sessions /\ AccountOf[old] = a /\ life[old] = "listed"
    BY <2>1 DEF IInv, TableInv, TableHoldsTheLiving, Listed
  <2>3. ~Queued(queue, s) /\ init[s] = "none"
    BY DEF IInv, QueueInv, UnlistedInv, Queued
  <2> QED BY <2>1, <2>2, <2>3, SessionConstants DEF IInv, QueueInv, Room
<1>2. CASE old = None
  <2>1. PICK others : PlaceSession(Room, s, others)
    BY <1>2 DEF AcceptSession
  <2>2. /\ Orderly(Room') /\ TouchesOnly(s, Room, Room')
        /\ (Queued(queue', s) /\ inQueue'[s]) \/ init'[s] = "asked"
    BY <1>1, <2>1, PlaceSessionRoom
  <2>3. Room'.queue = queue' /\ Room'.init = init' /\ Room'.inQueue = inQueue'
    BY DEF Room
  <2>4. \A x \in Sessions : x # old
    BY <1>2, SessionConstants
  <2> HIDE DEF a, old
  <2>5. \A x \in Sessions : Queued(queue', x) => Queued(queue, x) \/ x = s
    BY <1>1, <2>2, <2>3, Zenon DEF TouchesOnly
  <2>6. \A x \in Sessions : x # s =>
          /\ inQueue'[x] = inQueue[x]
          /\ init'[x] # init[x] => init'[x] = "asked" /\ Queued(queue, x)
    BY <1>1, <2>2, <2>3, Zenon DEF TouchesOnly
  <2> QED BY <1>2, <2>2, <2>4, <2>5, <2>6, Zenon DEF a, old
<1>3. CASE old # None
  <2> DEFINE left == RemoveQueuedPlayer(Room, old, Active(sessions, queue))
             r == Freed(left, old)
  <2>1. PICK others : PlaceSession(r, s, others)
    BY <1>3 DEF AcceptSession
  <2>2. Active(sessions, queue) \in Int /\ old \in Sessions
    BY <1>1, <1>3, TableCount DEF IInv, TypeOK
  <2>3. /\ Orderly(left) /\ ~Queued(left.queue, old) /\ TouchesOnly(old, Room, left)
    BY <1>1, <2>2, RemoveQueuedPlayerRoom, RemoveTouchesOnly
  <2> HIDE DEF left
  <2>4. /\ Orderly(r) /\ r.queue = left.queue /\ TouchesOnly(old, left, r)
        /\ r.init[old] = "none" /\ ~r.inQueue[old]
    BY <2>2, <2>3, FreedRoom
  <2> HIDE DEF r
  <2>5. TouchesOnly(old, Room, r)
    BY <2>2, <2>3, <2>4, TouchesTwice
  <2>6. ~Queued(r.queue, s) /\ r.init[s] = "none"
    BY <1>1, <2>5 DEF TouchesOnly
  <2>7. /\ Orderly(Room') /\ TouchesOnly(s, r, Room')
        /\ (Queued(queue', s) /\ inQueue'[s]) \/ init'[s] = "asked"
    BY <2>1, <2>4, <2>6, PlaceSessionRoom
  <2>8. Room'.queue = queue' /\ Room'.init = init' /\ Room'.inQueue = inQueue'
    BY DEF Room
  <2>9. ~Queued(queue', old) /\ init'[old] = "none" /\ ~inQueue'[old]
    BY <1>1, <2>2, <2>3, <2>4, <2>7, <2>8 DEF TouchesOnly
  <2> HIDE DEF a, old
  <2>10. \A x \in Sessions : Queued(queue', x) => x # old /\ (Queued(queue, x) \/ x = s)
    BY <1>1, <2>5, <2>7, <2>8, <2>9, Zenon DEF TouchesOnly
  <2>11. ASSUME NEW x \in Sessions, x # s, x # old
         PROVE  /\ inQueue'[x] = inQueue[x]
                /\ init'[x] # init[x] => init'[x] = "asked" /\ Queued(queue, x)
    <3>1. /\ inQueue'[x] = r.inQueue[x] /\ r.inQueue[x] = inQueue[x]
          /\ init'[x] # r.init[x] => Queued(r.queue, x) /\ init'[x] = "asked"
          /\ r.init[x] # init[x] => Queued(queue, x) /\ r.init[x] = "asked"
          /\ Queued(r.queue, x) => Queued(queue, x)
      BY <1>1, <2>5, <2>7, <2>8, <2>11, Zenon DEF TouchesOnly
    <3> QED BY <3>1
  <2> QED BY <2>7, <2>9, <2>10, <2>11, Zenon DEF a, old
<1> QED BY <1>2, <1>3

\* The numbers: what the newcomer counts before itself, and how long the queue
\* is when the session it replaces has left.
LEMMA AcceptedCount ==
    ASSUME IInv, NEW s \in Sessions, life[s] = "adding", AcceptSession(s)
    PROVE  LET old == sessions[AccountOf[s]]
               n   == Count(sessions)
               L   == Len(queue)
           IN  /\ n \in Nat /\ L \in Nat
               /\ Count(sessions') = IF old = None THEN n + 1 ELSE n
               /\ \E others, len \in Int :
                    /\ Len(queue') = IF HeldBack(s, others) THEN len + 1 ELSE len
                    /\ HeldBack(s, others) => Queued(queue', s)
                    /\ \/ old = None /\ others = n /\ len = L
                       \/ /\ old # None /\ L > 0 /\ others = n
                          /\ len = IF L - 1 > 0 /\ HasPlace(n - L) THEN L - 2 ELSE L - 1
                       \/ /\ old # None /\ others = n - 1
                          /\ len = IF L > 0 /\ HasPlace(CountOthers(FALSE, n - L))
                                   THEN L - 1 ELSE L
<1> DEFINE a == AccountOf[s]
           old == sessions[a]
           n == Count(sessions)
           L == Len(queue)
<1>1. /\ a \in Accounts /\ old \in Sessions \cup {None} /\ old # s
      /\ old # None => life[old] = "listed"
      /\ Orderly(Room) /\ Room.queue = queue /\ Room.init = init
      /\ ~Queued(queue, s) /\ init[s] = "none"
      /\ sessions \in [Accounts -> Sessions \cup {None}] /\ queue \in Seq(Sessions)
  <2>1. a \in Accounts /\ old \in Sessions \cup {None}
    BY SessionConstants DEF IInv, TypeOK
  <2>2. old # None => old \in Sessions /\ AccountOf[old] = a /\ life[old] = "listed"
    BY <2>1 DEF IInv, TableInv, TableHoldsTheLiving, Listed
  <2>3. ~Queued(queue, s) /\ init[s] = "none"
    BY DEF IInv, QueueInv, UnlistedInv, Queued
  <2> QED BY <2>1, <2>2, <2>3, SessionConstants DEF IInv, TypeOK, QueueInv, Room
<1>2. n \in Nat /\ L \in Nat /\ Active(sessions, queue) = n - L
  BY <1>1, TableCount
<1>3. /\ sessions' = [sessions EXCEPT ![a] = s]
      /\ Count(sessions') = IF old = None THEN n + 1 ELSE n
  <2>1. sessions' = [sessions EXCEPT ![a] = s]
    BY DEF AcceptSession
  <2>2. Count([sessions EXCEPT ![a] = s]) = IF old = None THEN n + 1 ELSE n
    BY <1>1, CountChanges
  <2> QED BY <2>1, <2>2
<1> DEFINE size == Cardinality({b \in Accounts : [sessions EXCEPT ![a] = s][b] # None})
<1>4. size = IF old = None THEN n + 1 ELSE n
  BY <1>1, CountChanges DEF Count
<1>5. CASE old = None
  <2>1. PlaceSession(Room, s, size - 1) /\ size - 1 = n
    BY <1>2, <1>4, <1>5 DEF AcceptSession
  <2> HIDE DEF size, n, L
  <2>2. /\ Len(queue') = IF HeldBack(s, n) THEN L + 1 ELSE L
        /\ HeldBack(s, n) => Queued(queue', s)
    BY <1>1, <2>1, PlaceSessionRoom DEF L
  <2> QED BY <1>2, <1>3, <1>5, <2>2 DEF n, L
<1>6. CASE old # None
  <2> DEFINE found == Queued(queue, old)
             left == RemoveQueuedPlayer(Room, old, n - L)
             r == Freed(left, old)
             others == IF found THEN n ELSE n - 1
             stay == IF found THEN L - 1 ELSE L
             len == IF stay > 0 /\ HasPlace(CountOthers(found, n - L)) THEN stay - 1 ELSE stay
  <2>1. PlaceSession(r, s, others)
    BY <1>2, <1>4, <1>6 DEF AcceptSession
  <2>2. n - L \in Int /\ old \in Sessions
    BY <1>1, <1>2, <1>6
  <2>3. Orderly(left) /\ ~Queued(left.queue, old) /\ TouchesOnly(old, Room, left)
    BY <1>1, <2>2, RemoveQueuedPlayerRoom, RemoveTouchesOnly
  <2>4. Len(left.queue) = len
    BY <1>1, <2>2, RemoveQueuedPlayerRoom
  <2> HIDE DEF left
  <2>5. Orderly(r) /\ r.queue = left.queue /\ TouchesOnly(old, left, r)
    BY <2>2, <2>3, FreedRoom
  <2> HIDE DEF r
  <2>6. TouchesOnly(old, Room, r)
    BY <2>2, <2>3, <2>5, TouchesTwice
  <2>7. ~Queued(r.queue, s) /\ r.init[s] = "none"
    BY <1>1, <2>6 DEF TouchesOnly
  <2> HIDE DEF others, len, n, L
  <2>8. /\ Len(queue') = IF HeldBack(s, others) THEN len + 1 ELSE len
        /\ HeldBack(s, others) => Queued(queue', s)
    BY <2>1, <2>4, <2>5, <2>7, PlaceSessionRoom
  <2>9. CASE found
    <3>1. L > 0
      BY <1>1, <2>9 DEF Queued, L
    <3>2. others = n /\ len = IF L - 1 > 0 /\ HasPlace(n - L) THEN L - 2 ELSE L - 1
      BY <1>2, <2>9 DEF others, len, stay, CountOthers
    <3>3. len \in Int /\ others \in Int
      BY <1>2, <3>2
    <3> HIDE DEF old, found
    <3> QED BY <1>2, <1>3, <1>6, <2>8, <3>1, <3>2, <3>3, Zenon DEF n, L, old
  <2>10. CASE ~found
    <3>1. others = n - 1
      BY <2>10 DEF others
    <3>2. len = IF L > 0 /\ HasPlace(CountOthers(FALSE, n - L)) THEN L - 1 ELSE L
      <4>1. stay = L /\ CountOthers(found, n - L) = CountOthers(FALSE, n - L)
        BY <2>10 DEF CountOthers
      <4> QED BY <4>1 DEF len
    <3>3. len \in Int /\ others \in Int
      BY <1>2, <3>1, <3>2
    <3> HIDE DEF old, found
    <3> QED BY <1>2, <1>3, <1>6, <2>8, <3>1, <3>2, <3>3, Zenon DEF n, L, old
  <2> QED BY <2>9, <2>10
<1> QED BY <1>5, <1>6

\* A newcomer leaves no place empty, fills none it may not have, and passes
\* nobody.
LEMMA AcceptedPlaces ==
    ASSUME IInv, NEW s \in Sessions, life[s] = "adding", AcceptSession(s),
           queue' \in Seq(Sessions)
    PROVE  LET before == Active(sessions, queue)
               after  == Active(sessions', queue')
           IN  /\ queue' # <<>> /\ ~raised => ~Unlimited /\ after >= limit
               /\ after > before /\ ~Unlimited /\ after > limit => Privileged(AccountOf[s])
               /\ queue' # <<>> /\ ~raised /\ ~Queued(queue', s) => Privileged(AccountOf[s])
<1> DEFINE old == sessions[AccountOf[s]]
           n == Count(sessions)
           L == Len(queue)
           priv == Privileged(AccountOf[s])
<1>1. /\ n \in Nat /\ L \in Nat
      /\ Count(sessions') = IF old = None THEN n + 1 ELSE n
  BY AcceptedCount
<1>2. PICK others \in Int, len \in Int :
        /\ Len(queue') = IF HeldBack(s, others) THEN len + 1 ELSE len
        /\ HeldBack(s, others) => Queued(queue', s)
        /\ \/ old = None /\ others = n /\ len = L
           \/ /\ old # None /\ L > 0 /\ others = n
              /\ len = IF L - 1 > 0 /\ HasPlace(n - L) THEN L - 2 ELSE L - 1
           \/ /\ old # None /\ others = n - 1
              /\ len = IF L > 0 /\ HasPlace(CountOthers(FALSE, n - L)) THEN L - 1 ELSE L
  BY AcceptedCount
<1>3. /\ limit \in Int /\ queue \in Seq(Sessions)
      /\ Active(sessions, queue) = n - L
      /\ Active(sessions', queue') = Count(sessions') - Len(queue')
      /\ (queue # <<>> <=> L > 0) /\ (queue' # <<>> <=> Len(queue') > 0)
  BY SessionConstants, TableCount DEF IInv, TypeOK
<1>4. L > 0 /\ ~raised => ~(limit <= 0) /\ n - L >= limit
  BY <1>3 DEF IInv, PlacesAreUsed, Unlimited
<1>5. HeldBack(s, others) <=> ~(limit <= 0) /\ others >= limit /\ ~priv
  BY DEF HeldBack, Unlimited
<1>6. \A c \in Int : HasPlace(c) <=> limit <= 0 \/ c < limit
  BY DEF HasPlace, Unlimited
<1> HIDE DEF old, n, L, priv
<1>7. CASE old = None /\ others = n /\ len = L
  BY <1>1, <1>2, <1>3, <1>4, <1>5, <1>7 DEF Unlimited, priv
<1>8. CASE /\ old # None /\ L > 0 /\ others = n
           /\ len = IF L - 1 > 0 /\ HasPlace(n - L) THEN L - 2 ELSE L - 1
  <2>1. HasPlace(n - L) <=> limit <= 0 \/ n - L < limit
    BY <1>1, <1>6
  <2> QED BY <1>1, <1>2, <1>3, <1>4, <1>5, <1>8, <2>1 DEF Unlimited, priv
<1>9. CASE /\ old # None /\ others = n - 1
            /\ len = IF L > 0 /\ HasPlace(CountOthers(FALSE, n - L)) THEN L - 1 ELSE L
  <2> DEFINE count == CountOthers(FALSE, n - L)
  <2>2. count \in Int /\ (count = n - L - 1 \/ (count = 0 /\ n - L = 0))
    BY <1>1 DEF CountOthers
  <2> HIDE DEF count
  <2>1. HasPlace(count) <=> limit <= 0 \/ count < limit
    BY <1>6, <2>2
  <2>3. len = IF L > 0 /\ (limit <= 0 \/ count < limit) THEN L - 1 ELSE L
    BY <1>9, <2>1 DEF count
  <2>4. old # None /\ others = n - 1
    BY <1>9
  <2> QED BY <1>1, <1>2, <1>3, <1>4, <1>5, <2>2, <2>3, <2>4 DEF Unlimited, priv
<1> QED BY <1>2, <1>7, <1>8, <1>9

LEMMA InvAccept ==
    ASSUME IInv, addQueue # <<>>, addQueue' = Tail(addQueue),
           AcceptSession(Head(addQueue)), raised' = (raised /\ queue' # <<>>),
           wpc = "adding", UNCHANGED <<disconnects, limit, time, wpc, todo, stopping>>
    PROVE  IInv'
<1> DEFINE s == Head(addQueue)
           a == AccountOf[s]
           old == sessions[a]
<1>1. /\ s \in Sessions /\ life[s] = "adding" /\ addQueue' \in Seq(Sessions)
      /\ NoRepeats(addQueue')
      /\ \A j \in DOMAIN addQueue' : /\ addQueue'[j] \in Sessions /\ addQueue'[j] # s
                                     /\ life[addQueue'[j]] = "adding"
  BY NextNewcomer
<1>2. AcceptSession(s)
  OBVIOUS
<1> HIDE DEF s
<1>3. /\ Orderly(Room')
      /\ \A x \in Sessions : Queued(queue', x) => x # old /\ (Queued(queue, x) \/ x = s)
      /\ \A x \in Sessions : x # s /\ x # old =>
           /\ inQueue'[x] = inQueue[x]
           /\ init'[x] # init[x] => init'[x] = "asked" /\ Queued(queue, x)
      /\ (Queued(queue', s) /\ inQueue'[s]) \/ init'[s] = "asked"
      /\ old # None => init'[old] = "none" /\ ~inQueue'[old]
  BY <1>1, <1>2, AcceptedRoom
<1>4. /\ a \in Accounts /\ old \in Sessions \cup {None} /\ old # s
      /\ old # None => old \in Sessions /\ AccountOf[old] = a /\ life[old] = "listed"
      /\ \A x \in Sessions : x = old => old # None
  BY <1>1, SessionConstants DEF IInv, TypeOK, TableInv, TableHoldsTheLiving, Listed
<1>5. /\ sessions' = [sessions EXCEPT ![a] = s] /\ life' = ListedFor(s, old)
      /\ \/ old = None /\ UNCHANGED <<char, open, forced, expire>>
         \/ /\ old # None /\ char' = [char EXCEPT ![old] = "none"]
            /\ Kicked({old}) /\ expire' = [expire EXCEPT ![old] = Grace]
  BY <1>2 DEF AcceptSession
<1>6. /\ queue' \in Seq(Sessions) /\ inQueue' \in [Sessions -> BOOLEAN]
      /\ init' \in [Sessions -> {"none", "asked", "ready", "done"}]
      /\ told' \in [Sessions -> Nat]
  BY <1>3 DEF Orderly, Room, RoomType
<1> HIDE DEF a, old
<1>7. raised' \in BOOLEAN /\ (~raised' => ~raised \/ queue' = <<>>)
  BY Zenon
<1>8. /\ life' \in [Sessions -> {"new", "adding", "listed", "deleted"}]
      /\ life'[s] = "listed" /\ (old # None => life'[old] = "deleted")
      /\ \A x \in Sessions : x # s /\ x # old => life'[x] = life[x]
  BY <1>1, <1>4, <1>5 DEF ListedFor, IInv, TypeOK
<1>9. /\ char' \in [Sessions -> {"none", "loading", "ready", "playing"}]
      /\ open' \in [Sessions -> BOOLEAN] /\ forced' \in [Sessions -> BOOLEAN]
      /\ expire' \in [Sessions -> 0 .. Grace]
      /\ \A x \in Sessions : x # old => char'[x] = char[x]
      /\ old # None => char'[old] = "none"
  <2>1. CASE old = None
    BY <1>5, <2>1 DEF IInv, TypeOK
  <2>2. CASE old # None
    <3>1. open' \in [Sessions -> BOOLEAN] /\ forced' \in [Sessions -> BOOLEAN]
      BY <1>5, <2>2, KickedType, Zenon
    <3>2. Grace \in 0 .. Grace
      BY SessionConstants
    <3> QED BY <1>4, <1>5, <2>2, <3>1, <3>2 DEF IInv, TypeOK
  <2> QED BY <2>1, <2>2
<1>10. TypeOK'
  <2>1. sessions' \in [Accounts -> Sessions \cup {None}]
    BY <1>1, <1>5 DEF IInv, TypeOK
  <2> QED BY <1>1, <1>6, <1>7, <1>8, <1>9, <2>1 DEF IInv, TypeOK
<1>11. /\ sessions'[a] = s /\ AccountOf[s] = a
       /\ \A b \in Accounts : b # a => sessions'[b] = sessions[b]
  BY <1>1, <1>4, <1>5 DEF IInv, TypeOK, a
<1>12. TableInv'
  <2>1. ASSUME NEW x \in Sessions PROVE life'[x] = "listed" <=> sessions'[AccountOf[x]] = x
    <3>1. AccountOf[x] \in Accounts
      BY SessionConstants
    <3>2. life[x] = "listed" <=> sessions[AccountOf[x]] = x
      BY DEF IInv, TableInv, TableHoldsTheLiving
    <3>3. CASE x = s
      BY <1>8, <1>11, <3>3
    <3>4. CASE x # s /\ x = old
      BY <1>4, <1>8, <1>11, <3>4, SessionConstants
    <3>5. CASE x # s /\ x # old
      BY <1>8, <1>11, <3>1, <3>2, <3>5 DEF old
    <3> QED BY <3>3, <3>4, <3>5
  <2>2. ASSUME NEW b \in Accounts, sessions'[b] # None PROVE AccountOf[sessions'[b]] = b
    BY <1>11, <2>2 DEF IInv, TableInv, Listed
  <2> QED BY <2>1, <2>2 DEF TableInv, TableHoldsTheLiving, Listed
<1>13. UnlistedInv'
  <2> SUFFICES ASSUME NEW x \in Sessions, life'[x] # "listed"
               PROVE  init'[x] = "none" /\ char'[x] = "none" /\ ~inQueue'[x]
    BY DEF UnlistedInv
  <2>1. CASE x = old
    BY <1>3, <1>4, <1>9, <2>1
  <2>2. CASE x # old
    <3>1. x # s /\ life[x] # "listed"
      BY <1>8, <2>2
    <3>2. init[x] = "none" /\ char[x] = "none" /\ ~inQueue[x] /\ ~Queued(queue, x)
      BY <3>1 DEF IInv, UnlistedInv, QueueInv, Queued
    <3> QED BY <1>3, <1>9, <2>2, <3>1, <3>2
  <2> QED BY <2>1, <2>2
<1>14. AddQueueInv'
  <2>1. \A j \in DOMAIN addQueue' : addQueue'[j] # old
    BY <1>1, <1>4
  <2> QED BY <1>1, <1>8, <2>1 DEF AddQueueInv
<1>15. QueueInv'
  <2>1. ASSUME NEW i \in DOMAIN queue' PROVE life'[queue'[i]] = "listed"
    <3>1. queue'[i] \in Sessions /\ Queued(queue', queue'[i])
      BY <1>6 DEF Queued
    <3>2. CASE queue'[i] = s
      BY <1>8, <3>2
    <3>3. CASE queue'[i] # s
      <4>1. queue'[i] # old /\ \E k \in DOMAIN queue : queue[k] = queue'[i]
        BY <1>3, <3>1, <3>3 DEF Queued
      <4> QED BY <1>8, <3>1, <3>3, <4>1 DEF IInv, QueueInv
    <3> QED BY <3>2, <3>3
  <2> QED BY <1>3, <2>1 DEF QueueInv
<1>16. WaitingInv'
  <2> SUFFICES ASSUME NEW x \in Sessions, life'[x] = "listed", init'[x] = "none"
               PROVE  inQueue'[x]
    BY DEF WaitingInv
  <2>1. x # old
    BY <1>4, <1>8
  <2>2. CASE x = s
    BY <1>3, <2>2
  <2>3. CASE x # s
    BY <1>3, <1>8, <2>1, <2>3 DEF IInv, WaitingInv
  <2> QED BY <2>2, <2>3
<1>17. TodoInv'
  BY DEF IInv, TodoInv
<1>18. NobodySkipsTheQueue'
  <2> SUFFICES ASSUME NEW x \in Sessions, char'[x] # "none"
               PROVE  init'[x] # "none"
    BY DEF NobodySkipsTheQueue
  <2>1. x # old /\ char[x] # "none"
    BY <1>4, <1>9
  <2>2. x # s
    BY <1>1, <2>1 DEF IInv, UnlistedInv
  <2> QED BY <1>3, <2>1, <2>2 DEF IInv, NobodySkipsTheQueue
<1>19. PlacesAreUsed'
  BY <1>1, <1>2, <1>6, <1>7, AcceptedPlaces DEF PlacesAreUsed, Unlimited
<1> QED BY <1>10, <1>12, <1>13, <1>14, <1>15, <1>16, <1>17, <1>18, <1>19 DEF IInv

LEMMA InvAddSession_ ==
    ASSUME IInv, AddSession_
    PROVE  IInv'
  BY InvRefuse, InvAccept, Zenon DEF AddSession_

---------------------------------------------------------------------------
(* UpdateSession                                                           *)

\* The session of an account that the loop visits.
LEMMA SessionVisited ==
    ASSUME IInv, NEW a \in Accounts, a \in todo
    PROVE  /\ sessions[a] \in Sessions /\ sessions[a] # None
           /\ AccountOf[sessions[a]] = a /\ life[sessions[a]] = "listed"
  BY DEF IInv, TypeOK, TodoInv, TableInv, TableHoldsTheLiving, Listed

\* The session stays: its callback may have run and its character changed.
LEMMA InvStay ==
    ASSUME IInv, NEW a \in Accounts, a \in todo, wpc = "updating",
           NEW c \in CharAfter(sessions[a]),
           NEW left, left = expire[sessions[a]] \/ left = CountDown(expire[sessions[a]]),
           TakeRoom(AfterCallback(sessions[a])),
           char' = [char EXCEPT ![sessions[a]] = c],
           expire' = [expire EXCEPT ![sessions[a]] = left],
           todo' = todo \ {a}, raised' = (raised /\ queue' # <<>>),
           UNCHANGED <<sessions, disconnects, open, forced, life, addQueue, limit,
                       time, wpc, stopping>>
    PROVE  IInv'
<1> DEFINE s == sessions[a]
           p == AfterCallback(s)
<1>1. s \in Sessions /\ life[s] = "listed"
  BY SessionVisited
<1>2. /\ Room.queue = queue /\ Room.init = init /\ Room.inQueue = inQueue
      /\ Orderly(Room)
  BY DEF Room, IInv, QueueInv
<1>3. /\ Orderly(p) /\ p.queue = queue /\ TouchesOnly(s, Room, p)
      /\ p.init[s] = "none" <=> init[s] = "none"
      /\ init[s] = "none" => p.inQueue[s] = inQueue[s]
  BY <1>1, <1>2, AfterCallbackRoom
<1>4. Room' = p /\ queue' = queue /\ inQueue' = p.inQueue /\ init' = p.init
  BY <1>3, RoomTaken DEF Orderly
<1>5. c \in {"none", "loading", "ready", "playing"} /\ left \in 0 .. Grace
  BY <1>1, SessionConstants DEF CharAfter, CountDown, IInv, TypeOK
<1>6. c # "none" => init[s] # "none"
  <2>1. c # "none" => char[s] # "none" \/ ~inQueue[s]
    BY <1>1 DEF CharAfter, IInv, TypeOK
  <2> QED BY <1>1, <2>1 DEF IInv, NobodySkipsTheQueue, WaitingInv
<1> HIDE DEF p, s
<1>7. raised' \in BOOLEAN /\ (~raised' => ~raised \/ queue' = <<>>)
  BY Zenon
<1>8. \A x \in Sessions : x # s => /\ inQueue'[x] = inQueue[x]
                                   /\ init'[x] # init[x] => init'[x] = "asked"
  BY <1>2, <1>3, <1>4 DEF TouchesOnly
<1>9. /\ queue' \in Seq(Sessions) /\ inQueue' \in [Sessions -> BOOLEAN]
      /\ init' \in [Sessions -> {"none", "asked", "ready", "done"}]
      /\ told' \in [Sessions -> Nat]
  BY <1>3, <1>4 DEF Orderly, Room, RoomType
<1>10. /\ char' \in [Sessions -> {"none", "loading", "ready", "playing"}]
       /\ expire' \in [Sessions -> 0 .. Grace] /\ char'[s] = c
       /\ \A x \in Sessions : x # s => char'[x] = char[x]
  BY <1>1, <1>5 DEF IInv, TypeOK, s
<1>11. TypeOK'
  BY <1>7, <1>9, <1>10 DEF IInv, TypeOK
<1>12. TableInv' /\ AddQueueInv' /\ TodoInv'
  BY DEF IInv, TableInv, TableHoldsTheLiving, Listed, AddQueueInv, TodoInv
<1>13. QueueInv'
  BY <1>3, <1>4 DEF IInv, QueueInv
<1>14. UnlistedInv' /\ WaitingInv' /\ NobodySkipsTheQueue'
  <2>1. UnlistedInv'
    <3> SUFFICES ASSUME NEW x \in Sessions, life[x] # "listed"
                 PROVE  init'[x] = "none" /\ char'[x] = "none" /\ ~inQueue'[x]
      BY DEF UnlistedInv
    <3>1. x # s /\ init[x] = "none" /\ char[x] = "none" /\ ~inQueue[x] /\ ~Queued(queue, x)
      BY <1>1 DEF IInv, UnlistedInv, QueueInv, Queued
    <3> QED BY <1>2, <1>3, <1>4, <1>10, <3>1 DEF TouchesOnly
  <2>2. WaitingInv'
    BY <1>1, <1>3, <1>4, <1>8 DEF IInv, WaitingInv
  <2>3. NobodySkipsTheQueue'
    BY <1>3, <1>4, <1>6, <1>8, <1>10 DEF IInv, NobodySkipsTheQueue
  <2> QED BY <2>1, <2>2, <2>3
<1>15. PlacesAreUsed'
  BY <1>4, <1>7 DEF IInv, PlacesAreUsed, Active, Unlimited
<1> QED BY <1>11, <1>12, <1>13, <1>14, <1>15 DEF IInv

\* The room that a session leaves: it is not touched itself, nor is anybody
\* who did not wait; and no place is left empty.
LEMMA RemovedRoom ==
    ASSUME IInv, NEW a \in Accounts, a \in todo,
           RemoveSession(a, AfterCallback(sessions[a]))
    PROVE  LET s == sessions[a]
               before == Active(sessions, queue)
               after  == Active(sessions', queue')
           IN  /\ Orderly(Room') /\ TouchesOnly(s, Room, Room') /\ ~Queued(queue', s)
               /\ init'[s] = "none" /\ ~inQueue'[s]
               /\ queue' # <<>> /\ ~raised => ~Unlimited /\ after >= limit
               /\ after > before /\ ~Unlimited => after <= limit
<1> DEFINE s == sessions[a]
           p == AfterCallback(s)
           n == Count(sessions)
           L == Len(queue)
           once == RemoveQueuedPlayer(p, s, Active(sessions, p.queue))
           twice == RemoveQueuedPlayer(once, s, Active(sessions, once.queue))
           r == Freed(twice, s)
<1>1. /\ s \in Sessions /\ s # None
      /\ sessions \in [Accounts -> Sessions \cup {None}] /\ queue \in Seq(Sessions)
      /\ limit \in Int
  BY SessionVisited, SessionConstants DEF IInv, TypeOK
<1>2. Orderly(Room) /\ Room.queue = queue
  BY DEF Room, IInv, QueueInv
<1>3. Orderly(p) /\ p.queue = queue /\ TouchesOnly(s, Room, p)
  BY <1>1, <1>2, AfterCallbackRoom
<1>4. TakeRoom(r) /\ sessions' = [sessions EXCEPT ![a] = None]
  BY DEF RemoveSession
<1>5. /\ n \in Nat /\ L \in Nat
      /\ \A q \in Seq(Sessions) : Active(sessions, q) = n - Len(q) /\ Len(q) \in Nat
      /\ Count(sessions') = n - 1
      /\ \A q \in Seq(Sessions) : Active(sessions', q) = n - 1 - Len(q)
  <2>1. n \in Nat /\ L \in Nat
    BY <1>1, TableCount
  <2>2. ASSUME NEW q \in Seq(Sessions)
        PROVE  /\ Active(sessions, q) = n - Len(q) /\ Len(q) \in Nat
               /\ Active(sessions', q) = Count(sessions') - Len(q)
    BY TableCount
  <2>3. Count(sessions') = n - 1
    BY <1>1, <1>4, CountChanges
  <2> HIDE DEF n, L
  <2> QED BY <2>1, <2>2, <2>3
<1>6. /\ Orderly(once) /\ ~Queued(once.queue, s) /\ TouchesOnly(s, p, once)
      /\ once.queue \in Seq(Sessions)
      /\ LET found == Queued(queue, s)
             stay == IF found THEN L - 1 ELSE L
         IN  Len(once.queue) = IF stay > 0 /\ HasPlace(CountOthers(found, n - L))
                               THEN stay - 1 ELSE stay
  <2> HIDE DEF p
  <2>1. Active(sessions, p.queue) = n - L /\ n - L \in Int
    BY <1>1, <1>3, <1>5
  <2>2. once = RemoveQueuedPlayer(p, s, n - L)
    BY <2>1
  <2> HIDE DEF once, s, n
  <2>3. Orderly(once) /\ ~Queued(once.queue, s) /\ TouchesOnly(s, p, once)
    BY <1>1, <1>3, <2>1, <2>2, RemoveQueuedPlayerRoom, RemoveTouchesOnly
  <2>4. LET found == Queued(p.queue, s)
            stay == IF found THEN Len(p.queue) - 1 ELSE Len(p.queue)
        IN  Len(once.queue) = IF stay > 0 /\ HasPlace(CountOthers(found, n - L))
                              THEN stay - 1 ELSE stay
    BY <1>1, <1>3, <2>1, <2>2, RemoveQueuedPlayerRoom
  <2> QED BY <1>3, <2>3, <2>4 DEF Orderly, RoomType
<1> HIDE DEF once
<1>7. /\ Orderly(twice) /\ ~Queued(twice.queue, s) /\ TouchesOnly(s, once, twice)
      /\ LET m == Len(once.queue)
         IN  Len(twice.queue) = IF m > 0 /\ HasPlace(CountOthers(FALSE, n - m))
                                THEN m - 1 ELSE m
  <2> DEFINE m == Len(once.queue)
  <2>1. Active(sessions, once.queue) = n - m /\ n - m \in Int
    BY <1>5, <1>6
  <2>2. twice = RemoveQueuedPlayer(once, s, n - m)
    BY <2>1
  <2> HIDE DEF twice, s, n, m
  <2>3. Orderly(twice) /\ ~Queued(twice.queue, s) /\ TouchesOnly(s, once, twice)
    BY <1>1, <1>6, <2>1, <2>2, RemoveQueuedPlayerRoom, RemoveTouchesOnly
  <2>4. Len(twice.queue) = IF m > 0 /\ HasPlace(CountOthers(FALSE, n - m))
                           THEN m - 1 ELSE m
    <3>1. CountOthers(Queued(once.queue, s), n - m) = CountOthers(FALSE, n - m)
      BY <1>6 DEF CountOthers
    <3>2. LET found == Queued(once.queue, s)
              stay == IF found THEN Len(once.queue) - 1 ELSE Len(once.queue)
          IN  Len(twice.queue) = IF stay > 0 /\ HasPlace(CountOthers(found, n - m))
                                 THEN stay - 1 ELSE stay
      BY <1>1, <1>6, <2>1, <2>2, RemoveQueuedPlayerRoom
    <3> QED BY <1>6, <3>1, <3>2 DEF m
  <2> QED BY <2>3, <2>4 DEF m
<1> HIDE DEF twice
<1>8. /\ Orderly(r) /\ r.queue = twice.queue /\ TouchesOnly(s, twice, r)
      /\ r.init[s] = "none" /\ ~r.inQueue[s]
  BY <1>1, <1>7, FreedRoom
<1> HIDE DEF r, p
<1>9. TouchesOnly(s, Room, r)
  <2>1. TouchesOnly(s, Room, once)
    BY <1>1, <1>3, <1>6, TouchesTwice
  <2>2. TouchesOnly(s, Room, twice)
    BY <1>1, <1>7, <2>1, TouchesTwice
  <2> QED BY <1>1, <1>8, <2>2, TouchesTwice
<1>10. Room' = r /\ queue' = r.queue /\ inQueue' = r.inQueue /\ init' = r.init
  BY <1>4, <1>8, RoomTaken DEF Orderly
<1>11. /\ queue' \in Seq(Sessions) /\ Len(queue') = Len(twice.queue)
       /\ Active(sessions, queue) = n - L /\ Active(sessions', queue') = n - 1 - Len(queue')
  BY <1>1, <1>5, <1>8, <1>10 DEF Orderly, RoomType
<1> HIDE DEF s, n, L
<1>12. /\ queue' # <<>> /\ ~raised => ~Unlimited /\ n - 1 - Len(queue') >= limit
       /\ n - 1 - Len(queue') > n - L /\ ~Unlimited => n - 1 - Len(queue') <= limit
  <2> DEFINE found == Queued(queue, s)
             m == Len(once.queue)
             stay == IF found THEN L - 1 ELSE L
             first == CountOthers(found, n - L)
             second == CountOthers(FALSE, n - m)
             len == Len(queue')
  <2>1. L > 0 /\ ~raised => ~(limit <= 0) /\ n - L >= limit
    BY <1>1, <1>11 DEF IInv, PlacesAreUsed, Unlimited, L
  <2>2. found => L > 0
    BY <1>1 DEF Queued, L
  <2>3. /\ first \in Int /\ first = IF found \/ n - L = 0 THEN n - L ELSE n - L - 1
    BY <1>5 DEF CountOthers
  <2>4. m \in Nat
    BY <1>6
  <2>5. /\ second \in Int /\ second = IF n - m = 0 THEN n - m ELSE n - m - 1
    BY <1>5, <2>4 DEF CountOthers
  <2> HIDE DEF first, second
  <2>6. \A c \in Int : HasPlace(c) <=> limit <= 0 \/ c < limit
    BY DEF HasPlace, Unlimited
  <2>7. m = IF stay > 0 /\ (limit <= 0 \/ first < limit) THEN stay - 1 ELSE stay
    BY <1>6, <2>3, <2>6 DEF first
  <2>8. len = IF m > 0 /\ (limit <= 0 \/ second < limit) THEN m - 1 ELSE m
    BY <1>7, <1>11, <2>5, <2>6 DEF second
  <2>9. queue' # <<>> <=> len > 0
    BY <1>11
  <2> HIDE DEF m, len, found
  <2> QED BY <1>1, <1>5, <2>1, <2>2, <2>3, <2>4, <2>5, <2>7, <2>8, <2>9 DEF Unlimited, len
<1> QED BY <1>7, <1>8, <1>9, <1>10, <1>11, <1>12 DEF s

LEMMA InvRemove ==
    ASSUME IInv, NEW a \in Accounts, a \in todo, wpc = "updating",
           RemoveSession(a, AfterCallback(sessions[a])),
           todo' = todo \ {a}, raised' = (raised /\ queue' # <<>>),
           UNCHANGED <<addQueue, limit, time, wpc, stopping>>
    PROVE  IInv'
<1> DEFINE s == sessions[a]
<1>1. s \in Sessions /\ s # None /\ AccountOf[s] = a /\ life[s] = "listed"
  BY SessionVisited
<1>2. /\ Orderly(Room') /\ TouchesOnly(s, Room, Room') /\ ~Queued(queue', s)
      /\ init'[s] = "none" /\ ~inQueue'[s]
      /\ queue' # <<>> /\ ~raised => ~Unlimited /\ Active(sessions', queue') >= limit
  BY RemovedRoom
<1>3. /\ sessions' = [sessions EXCEPT ![a] = None]
      /\ life' = [life EXCEPT ![s] = "deleted"]
      /\ char' = [char EXCEPT ![s] = "none"]
      /\ expire' = [expire EXCEPT ![s] = Grace]
      /\ Kicked({s})
      /\ disconnects' = disconnects \/ disconnects' = [disconnects EXCEPT ![a] = time]
  BY Zenon DEF RemoveSession
<1> HIDE DEF s
<1>4. raised' \in BOOLEAN /\ (~raised' => ~raised \/ queue' = <<>>)
  BY Zenon
<1>5. /\ queue' \in Seq(Sessions) /\ inQueue' \in [Sessions -> BOOLEAN]
      /\ init' \in [Sessions -> {"none", "asked", "ready", "done"}]
      /\ told' \in [Sessions -> Nat]
  BY <1>2 DEF Orderly, Room, RoomType
<1>6. /\ \A x \in Sessions : x # s =>
           /\ inQueue'[x] = inQueue[x]
           /\ init'[x] # init[x] => init'[x] = "asked" /\ Queued(queue, x)
      /\ \A x \in Sessions : Queued(queue', x) => x # s /\ Queued(queue, x)
  BY <1>2 DEF TouchesOnly, Room
<1>7. /\ life' \in [Sessions -> {"new", "adding", "listed", "deleted"}]
      /\ char' \in [Sessions -> {"none", "loading", "ready", "playing"}]
      /\ life'[s] = "deleted" /\ char'[s] = "none"
      /\ \A x \in Sessions : x # s => life'[x] = life[x] /\ char'[x] = char[x]
  BY <1>1, <1>3 DEF IInv, TypeOK
<1>8. /\ sessions' \in [Accounts -> Sessions \cup {None}] /\ sessions'[a] = None
      /\ \A b \in Accounts : b # a => sessions'[b] = sessions[b]
  BY <1>3 DEF IInv, TypeOK
<1>9. TypeOK'
  <2>1. open' \in [Sessions -> BOOLEAN] /\ forced' \in [Sessions -> BOOLEAN]
    BY <1>3, KickedType, Zenon
  <2>2. Grace \in 0 .. Grace
    BY SessionConstants
  <2>3. expire' \in [Sessions -> 0 .. Grace]
    BY <1>3, <2>2 DEF IInv, TypeOK
  <2>4. disconnects' \in [Accounts -> 0 .. MaxTime \cup {Never}]
    BY <1>3 DEF IInv, TypeOK
  <2>5. todo' \subseteq Accounts
    BY DEF IInv, TypeOK
  <2> QED BY <1>4, <1>5, <1>7, <1>8, <2>1, <2>3, <2>4, <2>5 DEF IInv, TypeOK
<1>10. TableInv'
  <2>1. ASSUME NEW x \in Sessions PROVE life'[x] = "listed" <=> sessions'[AccountOf[x]] = x
    <3>1. AccountOf[x] \in Accounts /\ x # None
      BY SessionConstants
    <3>2. life[x] = "listed" <=> sessions[AccountOf[x]] = x
      BY DEF IInv, TableInv, TableHoldsTheLiving
    <3>3. CASE x = s
      BY <1>1, <1>7, <1>8, <3>1, <3>3
    <3>4. CASE x # s
      BY <1>7, <1>8, <3>1, <3>2, <3>4 DEF s
    <3> QED BY <3>3, <3>4
  <2>2. ASSUME NEW b \in Accounts, sessions'[b] # None PROVE AccountOf[sessions'[b]] = b
    BY <1>8, <2>2 DEF IInv, TableInv, Listed
  <2> QED BY <2>1, <2>2 DEF TableInv, TableHoldsTheLiving, Listed
<1>11. UnlistedInv'
  <2> SUFFICES ASSUME NEW x \in Sessions, life'[x] # "listed"
               PROVE  init'[x] = "none" /\ char'[x] = "none" /\ ~inQueue'[x]
    BY DEF UnlistedInv
  <2>1. CASE x = s
    BY <1>2, <1>7, <2>1
  <2>2. CASE x # s
    <3>1. init[x] = "none" /\ char[x] = "none" /\ ~inQueue[x] /\ ~Queued(queue, x)
      BY <1>7, <2>2 DEF IInv, UnlistedInv, QueueInv, Queued
    <3> QED BY <1>6, <1>7, <2>2, <3>1
  <2> QED BY <2>1, <2>2
<1>12. AddQueueInv'
  <2>1. \A i \in DOMAIN addQueue : addQueue[i] \in Sessions /\ addQueue[i] # s
    BY <1>1 DEF IInv, TypeOK, AddQueueInv
  <2> QED BY <1>7, <2>1 DEF IInv, AddQueueInv
<1>13. QueueInv'
  <2>1. ASSUME NEW i \in DOMAIN queue' PROVE life'[queue'[i]] = "listed"
    <3>1. queue'[i] \in Sessions /\ Queued(queue', queue'[i])
      BY <1>5 DEF Queued
    <3>2. queue'[i] # s /\ \E k \in DOMAIN queue : queue[k] = queue'[i]
      BY <1>6, <3>1 DEF Queued
    <3> QED BY <1>7, <3>1, <3>2 DEF IInv, QueueInv
  <2> QED BY <1>2, <2>1 DEF QueueInv
<1>14. WaitingInv'
  BY <1>6, <1>7 DEF IInv, WaitingInv
<1>15. TodoInv'
  BY <1>8 DEF IInv, TodoInv, Listed, TypeOK
<1>16. NobodySkipsTheQueue'
  BY <1>6, <1>7 DEF IInv, NobodySkipsTheQueue
<1>17. PlacesAreUsed'
  BY <1>2, <1>4 DEF PlacesAreUsed, Unlimited
<1> QED BY <1>9, <1>10, <1>11, <1>12, <1>13, <1>14, <1>15, <1>16, <1>17 DEF IInv

\* What one visit does: the session stays, or it is removed.
LEMMA Visited ==
    ASSUME NEW a \in Accounts, UpdateSession(a)
    PROVE  /\ a \in todo /\ wpc = "updating" /\ todo' = todo \ {a}
           /\ raised' = (raised /\ queue' # <<>>)
           /\ UNCHANGED <<addQueue, limit, time, wpc, stopping>>
           /\ \/ RemoveSession(a, AfterCallback(sessions[a]))
              \/ \E c \in CharAfter(sessions[a]),
                    left \in {expire[sessions[a]], CountDown(expire[sessions[a]])} :
                   /\ TakeRoom(AfterCallback(sessions[a]))
                   /\ char' = [char EXCEPT ![sessions[a]] = c]
                   /\ expire' = [expire EXCEPT ![sessions[a]] = left]
                   /\ UNCHANGED <<sessions, disconnects, open, forced, life>>
<1> DEFINE s == sessions[a]
<1>1. /\ a \in todo /\ wpc = "updating" /\ todo' = todo \ {a}
      /\ raised' = (raised /\ queue' # <<>>)
      /\ UNCHANGED <<addQueue, limit, time, wpc, stopping>>
  BY Zenon DEF UpdateSession
<1>2. PICK c \in CharAfter(s) :
         LET failed == char[s] = "ready" /\ c = "none"
             closed == failed \/ ~open[s]
             left   == IF closed THEN CountDown(expire[s]) ELSE expire[s]
         IN IF closed /\ (left = 0 \/ failed \/ forced[s] \/ c # "playing")
            THEN RemoveSession(a, AfterCallback(s))
            ELSE /\ TakeRoom(AfterCallback(s))
                 /\ char' = [char EXCEPT ![s] = c]
                 /\ expire' = [expire EXCEPT ![s] = left]
                 /\ UNCHANGED <<sessions, disconnects, open, forced, life>>
  BY Zenon DEF UpdateSession
<1> HIDE DEF s
<1> DEFINE failed == char[s] = "ready" /\ c = "none"
           closed == failed \/ ~open[s]
           left   == IF closed THEN CountDown(expire[s]) ELSE expire[s]
           ended  == closed /\ (left = 0 \/ failed \/ forced[s] \/ c # "playing")
<1>3. left \in {expire[s], CountDown(expire[s])}
  OBVIOUS
<1>4. IF ended THEN RemoveSession(a, AfterCallback(s))
      ELSE /\ TakeRoom(AfterCallback(s))
           /\ char' = [char EXCEPT ![s] = c]
           /\ expire' = [expire EXCEPT ![s] = left]
           /\ UNCHANGED <<sessions, disconnects, open, forced, life>>
  BY <1>2
<1> HIDE DEF ended, left, closed, failed
<1> QED BY <1>1, <1>3, <1>4, Zenon DEF s

LEMMA InvUpdateSession ==
    ASSUME IInv, NEW a \in Accounts, UpdateSession(a)
    PROVE  IInv'
<1>1. CASE RemoveSession(a, AfterCallback(sessions[a]))
  BY <1>1, Visited, InvRemove
<1>2. CASE ~RemoveSession(a, AfterCallback(sessions[a]))
  <2>1. /\ a \in todo /\ wpc = "updating" /\ todo' = todo \ {a}
        /\ raised' = (raised /\ queue' # <<>>)
        /\ UNCHANGED <<addQueue, limit, time, wpc, stopping>>
    BY Visited
  <2>2. PICK c \in CharAfter(sessions[a]),
             left \in {expire[sessions[a]], CountDown(expire[sessions[a]])} :
          /\ TakeRoom(AfterCallback(sessions[a]))
          /\ char' = [char EXCEPT ![sessions[a]] = c]
          /\ expire' = [expire EXCEPT ![sessions[a]] = left]
          /\ UNCHANGED <<sessions, disconnects, open, forced, life>>
    BY <1>2, Visited
  <2> QED BY <2>1, <2>2, InvStay
<1> QED BY <1>1, <1>2

---------------------------------------------------------------------------
(* The theorems                                                            *)

LEMMA InvStutter ==
    ASSUME IInv, UNCHANGED vars
    PROVE  IInv'
<1> USE DEF IInv, vars, sessionVars, worldVars
<1>1. TypeOK'
  BY DEF TypeOK
<1>2. /\ TableInv' /\ UnlistedInv' /\ WaitingInv' /\ TodoInv' /\ NobodySkipsTheQueue'
      /\ AddQueueInv'
  BY DEF TableInv, TableHoldsTheLiving, Listed, UnlistedInv, WaitingInv,
     TodoInv, NobodySkipsTheQueue, AddQueueInv
<1> QED BY <1>1, <1>2, QueueStays, PlacesStay

LEMMA InvNext ==
    ASSUME IInv, [Next]_vars
    PROVE  IInv'
<1>1. CASE WorldThread
  <2>1. CASE BeginUpdateSessions \/ SessionsAdded \/ EndUpdateSessions
    BY <2>1, InvRounds
  <2>2. CASE AddSession_
    BY <2>2, InvAddSession_
  <2>3. CASE \E a \in Accounts : UpdateSession(a)
    BY <2>3, InvUpdateSession
  <2> QED BY <1>1, <2>1, <2>2, <2>3 DEF WorldThread
<1>2. CASE Database
  BY <1>2, InvInitQueriesDone, InvLoginQueriesDone DEF Database
<1>3. CASE Network
  BY <1>3, InvAddSession, InvCloseSocket DEF Network
<1>4. CASE Commands
  BY <1>4, InvUpdateGameTime, InvKicks, InvSetPlayerLimit DEF Commands
<1>5. CASE UNCHANGED vars
  BY <1>5, InvStutter
<1> QED BY <1>1, <1>2, <1>3, <1>4, <1>5 DEF Next

\* The invariant of the table and of the queue, which all the others rest on.
THEOREM InductiveInvariant == Spec => []IInv
  BY InvInit, InvNext, PTL DEF Spec

\* Every variable keeps its type.
THEOREM TypeCorrect == Spec => []TypeOK
  BY InductiveInvariant, PTL DEF IInv

\* m_sessions holds exactly the sessions that were taken in and are not
\* deleted, and each account's is its own (World::AddSession_ and the removal
\* in World::UpdateSessions).
THEOREM SessionsAreKept == Spec => []TableHoldsTheLiving
<1>1. IInv => TableHoldsTheLiving
  BY DEF IInv, TableInv
<1> QED BY <1>1, InductiveInvariant, PTL

\* m_QueuedPlayer holds live sessions, each once, that wait and for which
\* nothing was asked yet.
THEOREM QueueIsOfTheWaiting == Spec => []QueueHoldsTheWaiting
<1>1. IInv => QueueHoldsTheWaiting
  BY DEF IInv, QueueInv, Orderly, NoRepeats, Room, QueueHoldsTheWaiting
<1> QED BY <1>1, InductiveInvariant, PTL

\* Each client in the queue was last told the place it has (SendAuthWaitQue).
THEOREM PositionsAreRight == Spec => []PositionsAreTold
<1>1. IInv => PositionsAreTold
  BY DEF IInv, QueueInv, Orderly, Room, PositionsAreTold
<1> QED BY <1>1, InductiveInvariant, PTL

\* No character is loaded for a session that the queue has not let through:
\* m_inQueue is enough of a guard for the handlers of WorldSession::Update.
THEOREM QueueIsNotSkipped == Spec => []NobodySkipsTheQueue
<1>1. IInv => NobodySkipsTheQueue
  BY DEF IInv
<1> QED BY <1>1, InductiveInvariant, PTL

\* RemoveQueuedPlayer, called once or twice for a session that goes, leaves no
\* place empty while somebody waits.
THEOREM PlacesAreNotWasted == Spec => []PlacesAreUsed
<1>1. IInv => PlacesAreUsed
  BY DEF IInv
<1> QED BY <1>1, InductiveInvariant, PTL

---------------------------------------------------------------------------
(* What a step may not do                                                  *)

\* Only AddSession_ and UpdateSession touch the table, only they and the
\* shutdown the queue, and only AddSession_ lists a session or deletes one
\* that the loop does not visit.
LEMMA OtherSteps ==
    ASSUME IInv, [Next]_vars, ~AddSession_, ~\E a \in Accounts : UpdateSession(a)
    PROVE  /\ sessions' = sessions
           /\ queue' = queue \/ stopping'
           /\ \A s \in Sessions : life'[s] = life[s] \/ life'[s] = "adding"
<1>1. CASE WorldThread
  BY <1>1 DEF WorldThread, BeginUpdateSessions, SessionsAdded, EndUpdateSessions, sessionVars
<1>2. CASE Database
  BY <1>2 DEF Database, InitQueriesDone, LoginQueriesDone
<1>3. CASE Network
  BY <1>3 DEF Network, AddSession, CloseSocket, IInv, TypeOK
<1>4. CASE Commands
  <2>1. sessions' = sessions /\ life' = life /\ (queue' = queue \/ stopping' = TRUE)
    BY <1>4, Zenon DEF Commands, UpdateGameTime, KickAllLess, KickAll, SetPlayerLimit,
       sessionVars
  <2> QED BY <2>1
<1>5. CASE UNCHANGED vars
  BY <1>5 DEF vars, sessionVars
<1> QED BY <1>1, <1>2, <1>3, <1>4, <1>5 DEF Next

\* A step of AddSession_ refuses the newcomer, or takes it in.
LEMMA Taken ==
    ASSUME IInv, AddSession_
    PROVE  LET s   == Head(addQueue)
               old == sessions[AccountOf[s]]
           IN  /\ s \in Sessions /\ life[s] = "adding" /\ queue' \in Seq(Sessions)
               /\ (raised' <=> raised /\ queue' # <<>>)
               /\ \/ /\ UNCHANGED <<sessions, queue>>
                     /\ life' = [life EXCEPT ![s] = "deleted"]
                  \/ /\ AcceptSession(s) /\ ~(old # None /\ PlayerLoading(old))
                     /\ life' = ListedFor(s, old)
<1> DEFINE s == Head(addQueue)
           old == sessions[AccountOf[s]]
<1>1. s \in Sessions /\ life[s] = "adding"
  BY NextNewcomer DEF AddSession_
<1>2. IInv'
  BY InvAddSession_
<1>3. queue' \in Seq(Sessions)
  BY <1>2 DEF IInv, TypeOK
<1>4. raised' <=> raised /\ queue' # <<>>
  BY Zenon DEF AddSession_
<1>5. CASE old # None /\ PlayerLoading(old)
  BY <1>1, <1>3, <1>4, <1>5 DEF AddSession_, RefuseSession
<1>6. CASE ~(old # None /\ PlayerLoading(old))
  <2>1. AcceptSession(s)
    BY <1>6 DEF AddSession_
  <2>2. life' = ListedFor(s, old)
    BY <2>1 DEF AcceptSession
  <2> QED BY <1>1, <1>3, <1>4, <1>6, <2>1, <2>2
<1> QED BY <1>5, <1>6

\* A visit that changes the table deletes the session it finds.
LEMMA VisitedOnly ==
    ASSUME IInv, NEW a \in Accounts, UpdateSession(a)
    PROVE  \/ UNCHANGED <<sessions, queue, life>>
           \/ /\ a \in todo /\ RemoveSession(a, AfterCallback(sessions[a]))
              /\ life' = [life EXCEPT ![sessions[a]] = "deleted"]
              /\ Kicked({sessions[a]})
<1>1. CASE RemoveSession(a, AfterCallback(sessions[a]))
  BY <1>1, Visited DEF RemoveSession
<1>2. CASE ~RemoveSession(a, AfterCallback(sessions[a]))
  <2>1. sessions[a] \in Sessions /\ Orderly(Room)
    BY Visited, SessionVisited DEF IInv, QueueInv
  <2>2. TakeRoom(AfterCallback(sessions[a])) /\ UNCHANGED <<sessions, life>>
    BY <1>2, Visited
  <2> QED BY <2>1, <2>2, AfterCallbackRoom DEF TakeRoom
<1> QED BY <1>1, <1>2

\* World::AddSession_ refuses the newcomer while the session of its account
\* loads a player; so a session that loads one goes only when the loop visits
\* it, with its socket closed.
THEOREM LoadingGoesOn == Spec => LoadingIsNotCutOff
<1> DEFINE Kept(s) ==
             PlayerLoading(s) /\ life[s] = "listed" /\ life'[s] = "deleted"
                => ~open'[s] /\ AccountOf[s] \in todo
<1>1. ASSUME IInv, [Next]_vars, NEW s \in Sessions PROVE Kept(s)
  <2> SUFFICES ASSUME PlayerLoading(s), life[s] = "listed", life'[s] = "deleted"
               PROVE  ~open'[s] /\ AccountOf[s] \in todo
    OBVIOUS
  <2>1. CASE AddSession_
    BY <1>1, <2>1, Taken, SessionConstants DEF ListedFor, IInv, TypeOK
  <2>2. CASE \E a \in Accounts : UpdateSession(a)
    <3>1. PICK a \in Accounts : UpdateSession(a)
      BY <2>2
    <3>2. /\ a \in todo /\ Kicked({sessions[a]})
          /\ life' = [life EXCEPT ![sessions[a]] = "deleted"]
      BY <1>1, <3>1, VisitedOnly
    <3>3. s = sessions[a]
      BY <3>2 DEF IInv, TypeOK
    <3>4. AccountOf[s] = a
      BY <1>1, <3>2, <3>3, SessionVisited
    <3>5. ~open'[s]
      BY <3>2, <3>3, Zenon DEF Kicked
    <3> QED BY <3>2, <3>4, <3>5
  <2>3. CASE ~AddSession_ /\ ~\E a \in Accounts : UpdateSession(a)
    BY <1>1, <2>3, OtherSteps
  <2> QED BY <2>1, <2>2, <2>3
<1>2. IInv /\ [Next]_vars => [\A s \in Sessions : Kept(s)]_vars
  BY <1>1
<1> QED BY <1>2, InductiveInvariant, PTL DEF Spec, LoadingIsNotCutOff

\* A newcomer whom the limit holds for is put behind those who wait
\* (World::AddSession_), also when the session it replaces leaves a place.
THEOREM NobodyIsOvertaken == Spec => NoOvertaking
<1> DEFINE Behind(s) ==
             /\ life[s] = "adding"
             /\ life'[s] = "listed"
             /\ queue' # <<>>
             /\ ~raised'
             /\ ~Queued(queue', s)
             => Privileged(AccountOf[s])
<1>1. ASSUME IInv, [Next]_vars, NEW s \in Sessions PROVE Behind(s)
  <2> SUFFICES ASSUME life[s] = "adding", life'[s] = "listed", queue' # <<>>, ~raised',
                      ~Queued(queue', s)
               PROVE  Privileged(AccountOf[s])
    OBVIOUS
  <2>1. CASE AddSession_
    <3>1. /\ s = Head(addQueue) /\ AcceptSession(s) /\ ~raised /\ queue' \in Seq(Sessions)
      BY <1>1, <2>1, Taken DEF ListedFor, IInv, TypeOK
    <3> QED BY <1>1, <3>1, AcceptedPlaces
  <2>2. CASE \E a \in Accounts : UpdateSession(a)
    BY <1>1, <2>2, VisitedOnly DEF IInv, TypeOK
  <2>3. CASE ~AddSession_ /\ ~\E a \in Accounts : UpdateSession(a)
    BY <1>1, <2>3, OtherSteps
  <2> QED BY <2>1, <2>2, <2>3
<1>2. IInv /\ [Next]_vars => [\A s \in Sessions : Behind(s)]_vars
  BY <1>1
<1> QED BY <1>2, InductiveInvariant, PTL DEF Spec, NoOvertaking

\* A step that makes the active sessions more than the limit takes in a
\* session whom the limit does not hold for: neither the places given to the
\* queue nor the newcomers it holds for go beyond it.
THEOREM LimitHolds == Spec => LimitIsKept
<1> DEFINE before == Active(sessions, queue)
           after == Active(sessions', queue')
           Within ==
             after > before /\ ~Unlimited /\ after > limit /\ ~stopping'
               => \E s \in Sessions : /\ life[s] # "listed"
                                      /\ life'[s] = "listed"
                                      /\ Privileged(AccountOf[s])
<1>1. ASSUME IInv, [Next]_vars PROVE Within
  <2> SUFFICES ASSUME after > before, ~Unlimited, after > limit, ~stopping'
               PROVE  \E s \in Sessions : /\ life[s] # "listed"
                                          /\ life'[s] = "listed"
                                          /\ Privileged(AccountOf[s])
    OBVIOUS
  <2>1. before \in Int /\ limit \in Int
    BY <1>1, TableCount, SessionConstants DEF IInv, TypeOK
  <2>2. sessions' = sessions /\ queue' = queue => after = before
    BY DEF Active
  <2>3. IInv'
    BY <1>1, InvNext
  <2>4. after \in Int
    BY <2>3, TableCount DEF IInv, TypeOK
  <2> HIDE DEF before, after
  <2>5. ~(sessions' = sessions /\ queue' = queue)
    BY <2>1, <2>2
  <2>6. CASE AddSession_
    <3>1. PICK s \in Sessions : /\ life[s] = "adding" /\ AcceptSession(s)
                                /\ queue' \in Seq(Sessions)
                                /\ life' = ListedFor(s, sessions[AccountOf[s]])
      BY <1>1, <2>5, <2>6, Taken
    <3>2. Privileged(AccountOf[s])
      BY <1>1, <3>1, AcceptedPlaces DEF before, after
    <3>3. life'[s] = "listed"
      BY <3>1 DEF ListedFor
    <3> QED BY <3>1, <3>2, <3>3
  <2>7. CASE \E a \in Accounts : UpdateSession(a)
    <3>1. PICK a \in Accounts : a \in todo /\ RemoveSession(a, AfterCallback(sessions[a]))
      BY <1>1, <2>5, <2>7, VisitedOnly
    <3>2. after <= limit
      BY <1>1, <3>1, RemovedRoom DEF before, after
    <3> QED BY <2>1, <2>4, <3>2
  <2>8. CASE ~AddSession_ /\ ~\E a \in Accounts : UpdateSession(a)
    BY <1>1, <2>5, <2>8, OtherSteps
  <2> QED BY <2>6, <2>7, <2>8
<1>2. IInv /\ [Next]_vars => [Within]_vars
  BY <1>1
<1> QED BY <1>2, InductiveInvariant, PTL DEF Spec, LimitIsKept
=====
