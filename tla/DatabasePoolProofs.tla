------------------------- MODULE DatabasePoolProofs -------------------------
(***************************************************************************)
(* Proofs about DatabasePool, for every set of characters, any number of   *)
(* saves, faults and restarts.  The types hold for any number of workers;  *)
(* the rest for one, as it is configured (worldserver.conf.dist:           *)
(* CharacterDatabase.WorkerThreads): that row and items of a character in  *)
(* the database come from the same save, that the saves reach it in the    *)
(* order they were queued, and that a login reads what was saved before.   *)
(*                                                                         *)
(* A save is somewhere: in the queue, held by the worker, in the database  *)
(* or refused.  The invariant says in which order they can be so.          *)
(***************************************************************************)
EXTENDS DatabasePool, Integers, SequenceTheorems, FiniteSetTheorems, TLAPS

OneWorker == \A v, w \in Workers : v = w

Saves == {op \in Operations : op.kind = "save" /\ op.ver # 0}
Loads == {op \in Operations : op.kind = "load"}
Ops == queue.items

\* The saves a worker has taken, and those that wait in the queue.
Held == {op \in Saves : \E w \in Workers : worker[w].at # "idle" /\ worker[w].op = op}
Waits == {op \in Saves : \E m \in DOMAIN Ops : Ops[m] = op}
Ended(c) == items[c] \cup refused[c]
Settled(op) == op.ver \in Ended(op.char) \/ torn[op.char]

\* What the transaction of a save has written after n statements.
Written(op, n) == {[part |-> Parts[i], char |-> op.char, ver |-> op.ver] : i \in 1..n}

---------------------------------------------------------------------------
(* The invariant for any number of workers.                                *)

\* What a worker is at, and what its connection has: my is the worker, its the
\* connection, lost the characters with a torn save.
WorkerOk(my, its, lost) ==
    /\ my.at \in {"idle", "read"} => ~my.again
    /\ my.at \in {"begin", "statement", "commit", "retry"} => my.op \in Saves
    /\ my.at = "read" => my.op \in Loads
    /\ my.at \in {"statement", "read"} => my.next \in 1..2
    /\ my.at \notin {"statement", "commit"} => its = Fresh
    /\ my.at = "statement" /\ its.open => its.writes = Written(my.op, my.next - 1)
    /\ my.at = "commit" /\ its.open => its.writes = Written(my.op, 2)
    /\ my.at \in {"statement", "commit"} /\ ~its.open => its = Fresh /\ lost[my.op.char]

WorkerInv == \A w \in Workers : WorkerOk(worker[w], conn[w], torn)

QueueInv ==
    /\ \A m \in DOMAIN Ops : Ops[m] \in Saves \cup Loads
    /\ server = "closed" => Ops = <<>>

\* There is a last one of the saves whose items are stored.
StoredInv ==
    \A c \in Chars : \E m \in {0} \cup items[c] : \A v \in items[c] : v <= m

\* The parts of TypeOK, by who has the variables.
WorkerTypes ==
    [at : {"idle", "begin", "statement", "commit", "retry", "read"},
     op : Operations \cup {None}, next : 1..3, again : BOOLEAN]

ThreadsType ==
    /\ queue \in [items : Seq(Operations), shutdown : BOOLEAN]
    /\ worker \in [Workers -> WorkerTypes]
    /\ deadlockLock # None => deadlockLock \in Workers /\ worker[deadlockLock].again

DataType ==
    /\ conn \in [Workers -> [open : BOOLEAN, writes : SUBSET Writes]]
    /\ rows \in [Chars -> Nat]
    /\ items \in [Chars -> SUBSET (Nat \ {0})]

GameType ==
    /\ place \in [Chars -> {"none", "offline", "loading", "online"}]
    /\ version \in [Chars -> Nat]
    /\ loaded \in [Chars -> [row : Nat, items : SUBSET (Nat \ {0}),
                           ready : BOOLEAN, failed : BOOLEAN]]
    /\ future \in [Chars -> {"none", "pending", "set", "broken"}]
    /\ server \in {"running", "kicked", "closed"}

BookType ==
    /\ faults \in 0..MaxFaults /\ restarts \in 0..MaxRestarts
    /\ refused \in [Chars -> SUBSET (Nat \ {0})]
    /\ torn \in [Chars -> BOOLEAN]
    /\ order \in Seq(Operations)

TypeInv == TypeOK /\ WorkerInv /\ QueueInv /\ StoredInv

---------------------------------------------------------------------------
(* The invariant for one worker.                                           *)

\* A save still to be done is later than those of its character that are done.
VersionInv ==
    /\ \A c \in Chars : Ended(c) \subseteq 1..version[c] /\ rows[c] <= version[c]
    /\ \A op \in Held \cup Waits :
         /\ op.ver <= version[op.char]
         /\ torn[op.char] \/ \A v \in Ended(op.char) : v < op.ver
    /\ \A m, n \in DOMAIN Ops :
         Ops[m] \in Saves /\ Ops[n] \in Saves /\ Ops[m].char = Ops[n].char /\ m < n =>
            Ops[m].ver < Ops[n].ver
    /\ \A a \in Held, b \in Waits : a.char = b.char => a.ver < b.ver

\* Each save of a character is done, held or waits, and those before one that
\* is done or held are done.
SettledInv ==
    \A c \in Chars : ~torn[c] =>
        /\ items[c] \cap refused[c] = {}
        /\ server # "closed" => \A v \in 1..version[c] :
             v \in Ended(c) \/ Save(c, v) \in Held \cup Waits
        /\ \A v \in 1..version[c] : v \in Ended(c) \/ Save(c, v) \in Held =>
                1..(v - 1) \subseteq Ended(c)

\* The same across characters, by the order in which they were queued.
OrderInv ==
    /\ order \in Seq(Saves)
    /\ \A i \in DOMAIN order : order[i].ver <= version[order[i].char]
    /\ \A i, j \in DOMAIN order : order[i] = order[j] => i = j
    /\ \A op \in Held \cup Waits : \E j \in DOMAIN order : order[j] = op
    /\ server # "closed" => \A i \in DOMAIN order :
         Settled(order[i]) \/ order[i] \in Held \cup Waits
    /\ \A i, j \in DOMAIN order : i < j /\ ~Settled(order[i]) =>
         order[j].ver \notin items[order[j].char] /\ order[j] \notin Held
    /\ \A i, j \in DOMAIN order, m \in DOMAIN Ops : i < j /\ Ops[m] = order[i] =>
            \E n \in DOMAIN Ops : m < n /\ Ops[n] = order[j]

\* No save of c is on its way.
Quiet(c) == \A op \in Held \cup Waits : op.char # c

\* A load in the queue is the only one of its character, after all its saves.
LoadQueued ==
    server = "running" => \A m \in DOMAIN Ops :
        LET c == Ops[m].char IN
        Ops[m].kind = "load" =>
            /\ place[c] = "loading" /\ loaded[c] = NoHolder
            /\ \A w \in Workers : worker[w].at = "read" => worker[w].op.char # c
            /\ \A n \in DOMAIN Ops :
                 n > m \/ (n # m /\ Ops[n].kind = "load") => Ops[n].char # c

\* A worker that reads finds all the saves of the character done.
LoadReads ==
    server = "running" => \A w \in Workers :
        LET c == worker[w].op.char IN
        worker[w].at = "read" =>
            /\ place[c] = "loading" /\ ~loaded[c].ready /\ Quiet(c)
            /\ worker[w].next = 1 => loaded[c] = NoHolder
            /\ worker[w].next = 2 /\ ~loaded[c].failed /\ ~torn[c] =>
                 loaded[c].row = rows[c]

\* What was read stays true until HandlePlayerLogin uses it.
LoadReady ==
    \A c \in Chars :
        /\ place[c] = "loading" => server = "running"
        /\ place[c] = "loading" /\ loaded[c].ready =>
             /\ Quiet(c)
             /\ ~loaded[c].failed /\ ~torn[c] =>
                  loaded[c].items = items[c] /\ loaded[c].row = rows[c]
        /\ server = "running" /\ place[c] # "loading" => loaded[c] = NoHolder

LoadInv == LoadQueued /\ LoadReads /\ LoadReady

\* What SavesToDB puts into the queue.
NewSaves(s) == [i \in DOMAIN s |-> Save(s[i], version[s[i]] + 1)]

---------------------------------------------------------------------------
(* What the MySQL server does with writes.                                 *)

LEMMA SaveIsRecord ==
    ASSUME NEW op \in Saves
    PROVE  /\ op = Save(op.char, op.ver) /\ op.kind = "save"
           /\ op.char \in Chars /\ op.ver \in Nat /\ op.ver > 0
  BY DEF Saves, Operations, Save

LEMMA WrittenParts ==
    ASSUME NEW op
    PROVE  /\ Written(op, 0) = {}
           /\ Written(op, 1) = {[part |-> "row", char |-> op.char, ver |-> op.ver]}
           /\ Written(op, 2) = {[part |-> "row", char |-> op.char, ver |-> op.ver],
                                [part |-> "items", char |-> op.char, ver |-> op.ver]}
<1>1. 1..0 = {} /\ 1..1 = {1} /\ 1..2 = {1, 2}
  OBVIOUS
<1>2. Parts[1] = "row" /\ Parts[2] = "items"
  BY DEF Parts
<1> QED
  BY <1>1, <1>2 DEF Written

LEMMA WrittenType ==
    ASSUME NEW op \in Saves, NEW n \in 0..2
    PROVE  Written(op, n) \in SUBSET Writes
<1>1. n = 0 \/ n = 1 \/ n = 2
  OBVIOUS
<1> QED
  BY <1>1, WrittenParts, SaveIsRecord DEF Writes

LEMMA ApplyNothing ==
    ASSUME TypeOK, Apply({})
    PROVE  rows' = rows /\ items' = items
<1>1. \A c \in Chars : {x.ver : x \in {y \in {} : y.part = "row" /\ y.char = c}} = {}
  OBVIOUS
<1>2. \A c \in Chars : {x.ver : x \in {y \in {} : y.part = "items" /\ y.char = c}} = {}
  OBVIOUS
<1>3. rows \in [Chars -> Nat] /\ items \in [Chars -> SUBSET (Nat \ {0})]
  BY DEF TypeOK
<1>4. rows' = [c \in Chars |-> rows[c]]
  BY <1>1 DEF Apply
<1>5. items' = [c \in Chars |-> items[c]]
  BY <1>2 DEF Apply
<1> QED
  BY <1>3, <1>4, <1>5

LEMMA ChooseOnly == \A v : (CHOOSE x \in {v} : TRUE) = v
  OBVIOUS

LEMMA VersionsOfOne ==
    ASSUME NEW x, NEW p, NEW c
    PROVE  {z.ver : z \in {y \in {x} : y.part = p /\ y.char = c}} =
             IF x.part = p /\ x.char = c THEN {x.ver} ELSE {}
  OBVIOUS

\* A row or items are written.
LEMMA ApplyPart ==
    ASSUME TypeOK, NEW op \in Saves, NEW n \in 1..2,
           Apply({[part |-> Parts[n], char |-> op.char, ver |-> op.ver]})
    PROVE  /\ rows' = IF n = 1 THEN [rows EXCEPT ![op.char] = op.ver] ELSE rows
           /\ items' = IF n = 2 THEN [items EXCEPT ![op.char] = @ \cup {op.ver}] ELSE items
<1> DEFINE x == [part |-> Parts[n], char |-> op.char, ver |-> op.ver]
           of(p, c) == {z.ver : z \in {y \in {x} : y.part = p /\ y.char = c}}
<1>1. rows \in [Chars -> Nat] /\ items \in [Chars -> SUBSET (Nat \ {0})]
  BY DEF TypeOK
<1>2. x.part = (IF n = 1 THEN "row" ELSE "items") /\ x.char = op.char /\ x.ver = op.ver
  BY DEF Parts
<1>9. \A p, c : of(p, c) = IF x.part = p /\ x.char = c THEN {x.ver} ELSE {}
  <2> HIDE DEF x
  <2> QED
    BY VersionsOfOne, Zenon
<1>3. \A c \in Chars : of("row", c) = IF n = 1 /\ c = op.char THEN {op.ver} ELSE {}
  <2> HIDE DEF of, x
  <2> QED
    BY <1>2, <1>9
<1>4. \A c \in Chars : of("items", c) = IF n = 2 /\ c = op.char THEN {op.ver} ELSE {}
  <2> HIDE DEF of, x
  <2> QED
    BY <1>2, <1>9
<1>5. rows' = [c \in Chars |-> IF of("row", c) = {} THEN rows[c]
                               ELSE CHOOSE v \in of("row", c) : TRUE]
  BY DEF Apply
<1>6. items' = [c \in Chars |-> items[c] \cup of("items", c)]
  BY DEF Apply
<1> HIDE DEF of, x
<1>7. rows' = [c \in Chars |-> IF n = 1 /\ c = op.char THEN op.ver ELSE rows[c]]
  BY <1>3, <1>5, ChooseOnly
<1>8. items' = [c \in Chars |-> IF n = 2 /\ c = op.char THEN items[c] \cup {op.ver} ELSE items[c]]
  BY <1>4, <1>6
<1> QED
  BY <1>1, <1>7, <1>8

\* A transaction with both.
LEMMA ApplyBoth ==
    ASSUME TypeOK, NEW op \in Saves, Apply(Written(op, 2))
    PROVE  /\ rows' = [rows EXCEPT ![op.char] = op.ver]
           /\ items' = [items EXCEPT ![op.char] = @ \cup {op.ver}]
<1> DEFINE a == [part |-> "row", char |-> op.char, ver |-> op.ver]
           b == [part |-> "items", char |-> op.char, ver |-> op.ver]
           of(p, c) == {z.ver : z \in {y \in Written(op, 2) : y.part = p /\ y.char = c}}
<1>1. rows \in [Chars -> Nat] /\ items \in [Chars -> SUBSET (Nat \ {0})]
  BY DEF TypeOK
<1>2. Written(op, 2) = {a, b}
  BY WrittenParts
<1>9. /\ a.part = "row" /\ a.char = op.char /\ a.ver = op.ver
      /\ b.part = "items" /\ b.char = op.char /\ b.ver = op.ver
  OBVIOUS
<1>3. \A c \in Chars : of("row", c) = IF c = op.char THEN {op.ver} ELSE {}
  <2>0. \A c \in Chars : \A v : v \in of("row", c) <=>
             \E z \in Written(op, 2) : z.part = "row" /\ z.char = c /\ v = z.ver
    OBVIOUS
  <2> HIDE DEF of, a, b
  <2>1. \A c \in Chars : \A v : v \in of("row", c) <=> c = op.char /\ v = op.ver
    BY <2>0, <1>2, <1>9
  <2> HIDE DEF of
  <2> QED
    BY <2>1
<1>4. \A c \in Chars : of("items", c) = IF c = op.char THEN {op.ver} ELSE {}
  <2>0. \A c \in Chars : \A v : v \in of("items", c) <=>
             \E z \in Written(op, 2) : z.part = "items" /\ z.char = c /\ v = z.ver
    OBVIOUS
  <2> HIDE DEF of, a, b
  <2>1. \A c \in Chars : \A v : v \in of("items", c) <=> c = op.char /\ v = op.ver
    BY <2>0, <1>2, <1>9
  <2> HIDE DEF of
  <2> QED
    BY <2>1
<1>5. rows' = [c \in Chars |-> IF of("row", c) = {} THEN rows[c]
                               ELSE CHOOSE v \in of("row", c) : TRUE]
  BY DEF Apply
<1>6. items' = [c \in Chars |-> items[c] \cup of("items", c)]
  BY DEF Apply
<1> HIDE DEF of
<1>7. rows' = [c \in Chars |-> IF c = op.char THEN op.ver ELSE rows[c]]
  BY <1>3, <1>5, ChooseOnly
<1>8. items' = [c \in Chars |-> IF c = op.char THEN items[c] \cup {op.ver} ELSE items[c]]
  BY <1>4, <1>6
<1> QED
  BY <1>1, <1>7, <1>8

---------------------------------------------------------------------------
(* What SavesToDB queues.                                                  *)

LEMMA TypeParts == TypeOK <=> ThreadsType /\ DataType /\ GameType /\ BookType
  BY DEF TypeOK, ThreadsType, WorkerTypes, DataType, GameType, BookType

LEMMA TypePartsNext == TypeOK' <=> ThreadsType' /\ DataType' /\ GameType' /\ BookType'
  BY DEF TypeOK, ThreadsType, WorkerTypes, DataType, GameType, BookType

LEMMA OnlineInTurn ==
    ASSUME NEW S \in SUBSET Chars, NEW s \in SetToSeqs(S)
    PROVE  /\ s \in Seq(Chars)
           /\ \A i \in DOMAIN s : s[i] \in S
           /\ \A i, j \in DOMAIN s : s[i] = s[j] => i = j
<1>1. IsFiniteSet(S)
  BY PoolConstants, FS_Subset
<1>2. Cardinality(S) \in Nat
  BY <1>1, FS_CardinalityType
<1> QED
  BY <1>2 DEF SetToSeqs

LEMMA SavesMade ==
    ASSUME TypeOK, NEW s \in Seq(Chars),
           \A i, j \in DOMAIN s : s[i] = s[j] => i = j,
           SavesToDB(s)
    PROVE  /\ NewSaves(s) \in Seq(Saves) /\ Len(NewSaves(s)) = Len(s)
           /\ \A i \in 1..Len(s) : NewSaves(s)[i] = Save(s[i], version[s[i]] + 1)
           /\ queue' = [queue EXCEPT !.items = @ \o NewSaves(s)]
           /\ order' = order \o NewSaves(s)
           /\ version' \in [Chars -> Nat]
           /\ \A c \in Chars : version'[c] =
                IF \E i \in 1..Len(s) : s[i] = c THEN version[c] + 1 ELSE version[c]
<1>1. version \in [Chars -> Nat]
  BY DEF TypeOK
<1>2. DOMAIN s = 1..Len(s) /\ Len(s) \in Nat /\ \A i \in 1..Len(s) : s[i] \in Chars
  OBVIOUS
<1>3. \A c \in Chars, v \in Nat : Save(c, v + 1) \in Saves
  BY DEF Save, Saves, Operations
<1>4. NewSaves(s) = [i \in 1..Len(s) |-> Save(s[i], version[s[i]] + 1)]
  BY <1>2 DEF NewSaves
<1>5. NewSaves(s) \in [1..Len(s) -> Saves]
  BY <1>1, <1>2, <1>3, <1>4
<1>6. NewSaves(s) \in Seq(Saves) /\ Len(NewSaves(s)) = Len(s)
  BY <1>2, <1>5
<1>7. /\ queue' = [queue EXCEPT !.items = @ \o NewSaves(s)]
      /\ order' = order \o NewSaves(s)
      /\ version' = [c \in Chars |-> version[c] + Cardinality({i \in DOMAIN s : s[i] = c})]
  BY DEF SavesToDB, NewSaves
<1>8. ASSUME NEW c \in Chars
      PROVE  Cardinality({i \in DOMAIN s : s[i] = c}) =
               IF \E i \in 1..Len(s) : s[i] = c THEN 1 ELSE 0
  <2>1. CASE \E i \in 1..Len(s) : s[i] = c
    <3>1. PICK i \in 1..Len(s) : s[i] = c
      BY <2>1
    <3>2. {k \in DOMAIN s : s[k] = c} = {i}
      BY <3>1, <1>2
    <3> QED
      BY <3>2, <2>1, FS_Singleton
  <2>2. CASE ~\E i \in 1..Len(s) : s[i] = c
    <3>1. {k \in DOMAIN s : s[k] = c} = {}
      BY <2>2, <1>2
    <3> QED
      BY <3>1, <2>2, FS_EmptySet
  <2> QED
    BY <2>1, <2>2
<1>9. /\ version' \in [Chars -> Nat]
      /\ \A c \in Chars : version'[c] =
           IF \E i \in 1..Len(s) : s[i] = c THEN version[c] + 1 ELSE version[c]
  <2>1. \A c \in Chars : version'[c] = version[c] + Cardinality({i \in DOMAIN s : s[i] = c})
    BY <1>7
  <2>2. ASSUME NEW c \in Chars
        PROVE  /\ version'[c] \in Nat
               /\ version'[c] = IF \E i \in 1..Len(s) : s[i] = c THEN version[c] + 1
                                ELSE version[c]
    <3>1. CASE \E i \in 1..Len(s) : s[i] = c
      <4>1. Cardinality({i \in DOMAIN s : s[i] = c}) = 1
        BY <1>8, <3>1
      <4> QED
        BY <4>1, <3>1, <2>1, <1>1
    <3>2. CASE ~\E i \in 1..Len(s) : s[i] = c
      <4>1. Cardinality({i \in DOMAIN s : s[i] = c}) = 0
        BY <1>8, <3>2
      <4> QED
        BY <4>1, <3>2, <2>1, <1>1
    <3> QED
      BY <3>1, <3>2
  <2> QED
    BY <2>2, <1>7
<1> QED
  BY <1>4, <1>6, <1>7, <1>9

LEMMA OneSaveMade ==
    ASSUME TypeOK, NEW c \in Chars, SaveToDB(c)
    PROVE  /\ <<c>> \in Seq(Chars) /\ Len(<<c>>) = 1
           /\ \A i, j \in DOMAIN <<c>> : <<c>>[i] = <<c>>[j] => i = j
           /\ \A i \in DOMAIN <<c>> : <<c>>[i] = c
           /\ SavesToDB(<<c>>)
  BY DEF SaveToDB

---------------------------------------------------------------------------
(* Types, for any number of workers.                                       *)

LEMMA InitTypes == Init => TypeInv
<1> SUFFICES ASSUME Init
             PROVE  TypeInv
  OBVIOUS
<1>1. ThreadsType
  BY DEF Init, ThreadsType, WorkerTypes, NewQueue, Waiting, Operations
<1>2. DataType
  BY DEF Init, DataType, Fresh, Writes
<1>3. GameType
  BY DEF Init, GameType, NoHolder
<1>4. BookType
  BY PoolConstants DEF Init, BookType
<1>5. WorkerInv
  BY DEF Init, WorkerInv, WorkerOk, Waiting
<1>6. QueueInv
  BY EmptySeq DEF Init, QueueInv, NewQueue, Ops
<1>7. StoredInv
  BY DEF Init, StoredInv
<1> QED
  BY <1>1, <1>2, <1>3, <1>4, <1>5, <1>6, <1>7, TypeParts DEF TypeInv

\* What is needed of a step that leaves the database alone.
LEMMA StoredAlone ==
    ASSUME StoredInv, UNCHANGED <<rows, items>>
    PROVE  StoredInv'
  BY DEF StoredInv

LEMMA WorkersAlone ==
    ASSUME WorkerInv, UNCHANGED <<worker, conn, torn>>
    PROVE  WorkerInv'
  BY DEF WorkerInv, WorkerOk

\* One worker goes on.
LEMMA OneWorks ==
    ASSUME TypeOK, WorkerInv, NEW w \in Workers, NEW state, NEW connection,
           worker' = [worker EXCEPT ![w] = state],
           conn' = [conn EXCEPT ![w] = connection],
           torn' = torn,
           WorkerOk(state, connection, torn)
    PROVE  WorkerInv'
<1>1. worker \in [Workers -> WorkerTypes] /\ DOMAIN conn = Workers
  BY DEF TypeOK, WorkerTypes
<1>2. ASSUME NEW v \in Workers
      PROVE  WorkerOk(worker'[v], conn'[v], torn')
  <2>1. CASE v = w
    <3>1. worker'[v] = state /\ conn'[v] = connection
      BY <2>1, <1>1
    <3> QED
      BY <3>1
  <2>2. CASE v # w
    <3>1. worker'[v] = worker[v] /\ conn'[v] = conn[v]
      BY <2>2, <1>1
    <3> QED
      BY <3>1 DEF WorkerInv
  <2> QED
    BY <2>1, <2>2
<1> QED
  BY <1>2 DEF WorkerInv

\* The sessions do not touch the workers, nor the database.
LEMMA SavesTypes ==
    ASSUME TypeInv, NEW s \in Seq(Chars),
           \A i, j \in DOMAIN s : s[i] = s[j] => i = j,
           SavesToDB(s), server' # "closed", server = "running",
           UNCHANGED <<worker, deadlockLock, mysql, bounds, refused, torn>>,
           GameType'
    PROVE  TypeInv'
<1> USE DEF TypeInv, Ops
<1>0. ThreadsType /\ DataType /\ BookType /\ Ops \in Seq(Operations)
  BY TypeParts DEF ThreadsType
<1>1. /\ NewSaves(s) \in Seq(Saves)
      /\ queue' = [queue EXCEPT !.items = @ \o NewSaves(s)]
      /\ order' = order \o NewSaves(s)
  BY SavesMade
<1>2. NewSaves(s) \in Seq(Operations)
  BY <1>1 DEF Saves
<1>3. Ops' = Ops \o NewSaves(s) /\ Ops' \in Seq(Operations)
  BY <1>0, <1>1, <1>2 DEF ThreadsType
<1>4. ThreadsType'
  BY <1>0, <1>1, <1>3 DEF ThreadsType
<1>5. DataType'
  BY <1>0 DEF DataType, mysql
<1>6. BookType'
  BY <1>0, <1>1, <1>2 DEF BookType, bounds
<1>7. WorkerInv'
  BY WorkersAlone DEF mysql
<1>8. QueueInv'
  <2>1. \A m \in DOMAIN Ops : Ops[m] \in Saves \cup Loads
    BY DEF QueueInv
  <2>2. \A m \in DOMAIN Ops' : Ops'[m] \in Saves \cup Loads
    BY <1>0, <1>1, <1>2, <1>3, <2>1
  <2> QED
    BY <2>2 DEF QueueInv
<1>9. StoredInv'
  BY StoredAlone DEF mysql
<1> QED
  BY <1>4, <1>5, <1>6, <1>7, <1>8, <1>9, TypePartsNext

\* A session that saves nothing.
LEMMA SessionTypes ==
    ASSUME TypeInv, UNCHANGED <<worker, deadlockLock, mysql, bounds, history>>,
           ThreadsType', GameType', QueueInv'
    PROVE  TypeInv'
<1> USE DEF TypeInv
<1>0. DataType /\ BookType
  BY TypeParts
<1>1. DataType'
  BY <1>0 DEF DataType, mysql
<1>2. BookType'
  BY <1>0 DEF BookType, bounds, history
<1>3. WorkerInv'
  BY WorkersAlone DEF mysql, history
<1>4. StoredInv'
  BY StoredAlone DEF mysql
<1> QED
  BY <1>1, <1>2, <1>3, <1>4, TypePartsNext

LEMMA CreateTypes ==
    ASSUME TypeInv, NEW c \in Chars, Create(c)
    PROVE  TypeInv'
<1>1. GameType
  BY TypeParts DEF TypeInv
<1>2. version' \in [Chars -> Nat]
  BY OneSaveMade, SavesMade DEF TypeInv, Create
<1>3. GameType'
  BY <1>1, <1>2 DEF GameType, Create
<1> QED
  BY <1>3, OneSaveMade, SavesTypes DEF TypeInv, Create

LEMMA SaveOnlineTypes ==
    ASSUME TypeInv, NEW c \in Chars, SaveOnline(c)
    PROVE  TypeInv'
<1>1. GameType
  BY TypeParts DEF TypeInv
<1>2. version' \in [Chars -> Nat]
  BY OneSaveMade, SavesMade DEF TypeInv, SaveOnline
<1>3. GameType'
  BY <1>1, <1>2 DEF GameType, SaveOnline
<1> QED
  BY <1>3, OneSaveMade, SavesTypes DEF TypeInv, SaveOnline

LEMMA KickAllTypes ==
    ASSUME TypeInv, KickAll
    PROVE  TypeInv'
<1> DEFINE S == {c \in Chars : place[c] = "online"}
<1>0. PICK s \in SetToSeqs(S) : SavesToDB(s)
  BY DEF KickAll
<1>1. GameType
  BY TypeParts DEF TypeInv
<1>2. s \in Seq(Chars) /\ \A i, j \in DOMAIN s : s[i] = s[j] => i = j
  BY OnlineInTurn
<1> HIDE DEF S
<1>3. version' \in [Chars -> Nat]
  BY <1>0, <1>2, SavesMade DEF TypeInv
<1>4. GameType'
  BY <1>1, <1>3 DEF GameType, KickAll, NoHolder
<1>5. /\ server' # "closed" /\ server = "running"
      /\ UNCHANGED <<worker, deadlockLock, mysql, bounds, refused, torn>>
  BY DEF KickAll
<1> QED
  BY <1>0, <1>2, <1>4, <1>5, SavesTypes

LEMMA CreateCallbackTypes ==
    ASSUME TypeInv, NEW c \in Chars, CreateCallback(c)
    PROVE  TypeInv'
<1> USE DEF CreateCallback
<1>1. ThreadsType /\ GameType /\ QueueInv
  BY TypeParts DEF TypeInv
<1>2. ThreadsType'
  BY <1>1 DEF ThreadsType, threads
<1>3. GameType'
  BY <1>1 DEF GameType
<1>4. QueueInv'
  BY <1>1 DEF QueueInv, threads, Ops
<1> QED
  BY <1>2, <1>3, <1>4, SessionTypes DEF threads

LEMMA HandlePlayerLoginTypes ==
    ASSUME TypeInv, NEW c \in Chars, HandlePlayerLogin(c)
    PROVE  TypeInv'
<1> USE DEF HandlePlayerLogin
<1>1. ThreadsType /\ GameType /\ QueueInv
  BY TypeParts DEF TypeInv
<1>2. ThreadsType'
  BY <1>1 DEF ThreadsType, threads
<1>3. GameType'
  BY <1>1 DEF GameType, NoHolder
<1>4. QueueInv'
  BY <1>1 DEF QueueInv, threads, Ops
<1> QED
  BY <1>2, <1>3, <1>4, SessionTypes DEF threads

\* DelayQueryHolder puts the load at the end.
LEMMA LoadQueuedLast ==
    ASSUME TypeOK, NEW c \in Chars, Delayed(Load(c))
    PROVE  /\ Load(c) \in Loads /\ Load(c) \notin Saves
           /\ queue' = [queue EXCEPT !.items = Append(@, Load(c))]
           /\ Ops \in Seq(Operations) /\ Ops' \in Seq(Operations)
           /\ Len(Ops') = Len(Ops) + 1 /\ Len(Ops) \in Nat
           /\ DOMAIN Ops = 1..Len(Ops) /\ DOMAIN Ops' = 1..(Len(Ops) + 1)
           /\ \A m \in DOMAIN Ops : Ops'[m] = Ops[m]
           /\ Ops'[Len(Ops) + 1] = Load(c)
<1>1. Load(c) \in Loads /\ Load(c) \notin Saves /\ Load(c) \in Operations
  BY DEF Load, Loads, Saves, Operations
<1>2. queue' = [queue EXCEPT !.items = Append(@, Load(c))]
  BY DEF Delayed, Pushed
<1>3. queue \in [items : Seq(Operations), shutdown : BOOLEAN]
  BY DEF TypeOK
<1>4. Ops \in Seq(Operations) /\ Ops' = Append(Ops, Load(c))
  BY <1>2, <1>3 DEF Ops
<1> QED
  BY <1>1, <1>2, <1>4

LEMMA LoginTypes ==
    ASSUME TypeInv, NEW c \in Chars, Login(c)
    PROVE  TypeInv'
<1>1. ThreadsType /\ GameType /\ QueueInv
  BY TypeParts DEF TypeInv
<1>0. /\ Load(c) \in Loads
      /\ queue' = [queue EXCEPT !.items = Append(@, Load(c))]
      /\ Ops' \in Seq(Operations)
      /\ DOMAIN Ops = 1..Len(Ops) /\ DOMAIN Ops' = 1..(Len(Ops) + 1) /\ Len(Ops) \in Nat
      /\ \A m \in DOMAIN Ops : Ops'[m] = Ops[m]
      /\ Ops'[Len(Ops) + 1] = Load(c)
  BY LoadQueuedLast DEF Login, TypeInv
<1>2. ThreadsType'
  <2>1. queue' \in [items : Seq(Operations), shutdown : BOOLEAN]
    BY <1>0, <1>1 DEF ThreadsType, Ops
  <2> QED
    BY <2>1, <1>1 DEF ThreadsType, Login
<1>3. GameType'
  BY <1>1 DEF GameType, Login
<1>4. QueueInv'
  <2>1. \A m \in DOMAIN Ops' : Ops'[m] \in Saves \cup Loads
    BY <1>0, <1>1 DEF QueueInv
  <2> QED
    BY <2>1 DEF QueueInv, Login
<1> QED
  BY <1>2, <1>3, <1>4, SessionTypes DEF Login

LEMMA CloseTypes ==
    ASSUME TypeInv, Close
    PROVE  TypeInv'
<1> USE DEF Close
<1>1. ThreadsType /\ GameType
  BY TypeParts DEF TypeInv
<1>0. queue' = [items |-> <<>>, shutdown |-> TRUE]
  BY DEF Cancelled
<1>2. ThreadsType'
  BY <1>0, <1>1, EmptySeq DEF ThreadsType
<1>3. GameType'
  BY <1>1 DEF GameType
<1>4. QueueInv'
  BY <1>0, EmptySeq DEF QueueInv, Ops
<1> QED
  BY <1>2, <1>3, <1>4, SessionTypes

\* A worker goes on; what it does to _deadlockLock fits what it does.
LEMMA LockIsRight ==
    ASSUME ThreadsType, NEW w \in Workers, NEW state \in WorkerTypes,
           worker' = [worker EXCEPT ![w] = state],
           \/ deadlockLock' = deadlockLock /\ (state.again \/ ~worker[w].again)
           \/ deadlockLock' = Unlocked(w)
           \/ deadlockLock' = w /\ state.again
    PROVE  /\ worker' \in [Workers -> WorkerTypes]
           /\ deadlockLock' # None => deadlockLock' \in Workers /\ worker'[deadlockLock'].again
<1>1. worker \in [Workers -> WorkerTypes]
  BY DEF ThreadsType
<1>2. worker' \in [Workers -> WorkerTypes]
  BY <1>1
<1>3. worker'[w] = state /\ \A v \in Workers \ {w} : worker'[v] = worker[v]
  BY <1>1
<1>4. deadlockLock # None => deadlockLock \in Workers /\ worker[deadlockLock].again
  BY DEF ThreadsType
<1>5. CASE deadlockLock' = deadlockLock /\ (state.again \/ ~worker[w].again)
  BY <1>2, <1>3, <1>4, <1>5, Zenon
<1>6. CASE deadlockLock' = Unlocked(w)
  BY <1>2, <1>3, <1>4, <1>6, Zenon DEF Unlocked
<1>7. CASE deadlockLock' = w /\ state.again
  BY <1>2, <1>3, <1>7, Zenon
<1> QED
  BY <1>5, <1>6, <1>7

\* A worker goes on, and nothing is written.
LEMMA WorkTypes ==
    ASSUME TypeInv, NEW w \in Workers, NEW state \in WorkerTypes,
           NEW connection \in [open : BOOLEAN, writes : SUBSET Writes],
           worker' = [worker EXCEPT ![w] = state],
           conn' = [conn EXCEPT ![w] = connection],
           WorkerOk(state, connection, torn), torn' = torn,
           \/ deadlockLock' = deadlockLock /\ (state.again \/ ~worker[w].again)
           \/ deadlockLock' = Unlocked(w)
           \/ deadlockLock' = w /\ state.again,
           queue' \in [items : Seq(Operations), shutdown : BOOLEAN], QueueInv',
           rows' \in [Chars -> Nat], items' \in [Chars -> SUBSET (Nat \ {0})],
           StoredInv', GameType', BookType'
    PROVE  TypeInv'
<1>0. ThreadsType /\ DataType /\ TypeOK /\ WorkerInv
  BY TypeParts DEF TypeInv
<1>1. ThreadsType'
  BY <1>0, LockIsRight DEF ThreadsType
<1>2. DataType'
  BY <1>0 DEF DataType
<1>3. WorkerInv'
  BY <1>0, OneWorks
<1> QED
  BY <1>1, <1>2, <1>3, TypePartsNext DEF TypeInv

\* One version of one character is written.
LEMMA StoredGrows ==
    ASSUME TypeOK, StoredInv, NEW op \in Saves,
           rows' = rows \/ rows' = [rows EXCEPT ![op.char] = op.ver],
           items' = items \/ items' = [items EXCEPT ![op.char] = @ \cup {op.ver}]
    PROVE  /\ rows' \in [Chars -> Nat] /\ items' \in [Chars -> SUBSET (Nat \ {0})]
           /\ StoredInv'
<1>1. rows \in [Chars -> Nat] /\ items \in [Chars -> SUBSET (Nat \ {0})]
  BY DEF TypeOK
<1>2. op.char \in Chars /\ op.ver \in Nat \ {0}
  BY SaveIsRecord
<1>3. rows' \in [Chars -> Nat] /\ items' \in [Chars -> SUBSET (Nat \ {0})]
  BY <1>1, <1>2
<1>4. ASSUME NEW c \in Chars
      PROVE  \E m \in {0} \cup items'[c] : \A v \in items'[c] : v <= m
  <2>1. PICK m \in {0} \cup items[c] : \A v \in items[c] : v <= m
    BY DEF StoredInv
  <2>2. CASE items'[c] = items[c]
    BY <2>1, <2>2
  <2>3. CASE items'[c] = items[c] \cup {op.ver}
    <3>1. CASE m <= op.ver
      BY <3>1, <2>1, <2>3, <1>1, <1>2
    <3>2. CASE ~(m <= op.ver)
      BY <3>2, <2>1, <2>3, <1>1, <1>2
    <3> QED
      BY <3>1, <3>2
  <2> QED
    BY <2>2, <2>3, <1>1
<1> QED
  BY <1>3, <1>4 DEF StoredInv

\* Facts about a worker that every action starts from.
LEMMA WorkerFacts ==
    ASSUME TypeInv, NEW w \in Workers
    PROVE  /\ worker[w] \in WorkerTypes
           /\ conn[w] \in [open : BOOLEAN, writes : SUBSET Writes]
           /\ WorkerOk(worker[w], conn[w], torn)
           /\ worker \in [Workers -> WorkerTypes]
           /\ DOMAIN conn = Workers
           /\ ThreadsType /\ DataType /\ GameType /\ BookType /\ QueueInv /\ StoredInv
  BY TypeParts DEF TypeInv, WorkerInv, ThreadsType, DataType

LEMMA WaitingIsOk ==
    /\ Waiting \in WorkerTypes
    /\ Fresh \in [open : BOOLEAN, writes : SUBSET Writes]
    /\ WorkerOk(Waiting, Fresh, torn)
  BY DEF Waiting, WorkerTypes, Fresh, WorkerOk

Points == {"idle", "begin", "statement", "commit", "retry", "read"}

\* my at another point, with another statement next.
Moved(my, at, n) == [my EXCEPT !.at = at, !.next = n]

LEMMA WorkerMoved ==
    ASSUME NEW my \in WorkerTypes, NEW at \in Points, NEW n \in 1..3
    PROVE  /\ Moved(my, at, n) \in WorkerTypes
           /\ Moved(my, at, n).at = at
           /\ Moved(my, at, n).next = n
           /\ Moved(my, at, n).op = my.op
           /\ Moved(my, at, n).again = my.again
  BY DEF WorkerTypes, Points, Moved

LEMMA SameConnection ==
    ASSUME TypeInv, NEW w \in Workers, conn' = conn
    PROVE  conn' = [conn EXCEPT ![w] = conn[w]]
  BY WorkerFacts DEF DataType

LEMMA LoseTypes ==
    ASSUME TypeInv, NEW w \in Workers, Lose(w)
    PROVE  TypeInv'
<1> USE DEF Lose
<1>0. /\ ThreadsType /\ DataType /\ GameType /\ BookType /\ QueueInv /\ StoredInv
      /\ WorkerInv
  BY WorkerFacts DEF TypeInv
<1>1. ThreadsType'
  BY <1>0 DEF ThreadsType, threads
<1>2. DataType'
  BY <1>0, WaitingIsOk DEF DataType, Keep
<1>3. GameType'
  BY <1>0 DEF GameType, game
<1>4. worker[w].op \in Saves /\ worker[w].op.char \in Chars
  BY WorkerFacts, SaveIsRecord DEF WorkerOk
<1>5. BookType'
  <2>1. faults' \in 0..MaxFaults
    BY <1>0, PoolConstants DEF BookType
  <2>2. torn' \in [Chars -> BOOLEAN]
    BY <1>0 DEF BookType
  <2> QED
    BY <1>0, <2>1, <2>2 DEF BookType
<1>6. WorkerInv'
  <2>1. ASSUME NEW v \in Workers
        PROVE  WorkerOk(worker'[v], conn'[v], torn')
    <3>1. WorkerOk(worker[v], conn[v], torn) /\ worker'[v] = worker[v]
      BY <1>0 DEF WorkerInv, threads
    <3>2. torn \in [Chars -> BOOLEAN] /\ \A c \in Chars : torn[c] => torn'[c]
      BY <1>0, <1>4 DEF BookType
    <3>3. CASE v = w
      <4>1. conn'[v] = Fresh
        BY <3>3, WorkerFacts DEF Keep
      <4>2. torn'[worker[w].op.char]
        BY <1>4, <3>2
      <4>3. ~Fresh.open
        BY DEF Fresh
      <4> HIDE DEF Lose
      <4> QED
        BY <3>1, <3>3, <4>1, <4>2, <4>3 DEF WorkerOk
    <3>4. CASE v # w
      <4>1. conn'[v] = conn[v]
        BY <3>4, WorkerFacts DEF Keep
      <4>2. worker[v].op \in Saves => worker[v].op.char \in Chars
        BY SaveIsRecord
      <4> HIDE DEF Lose
      <4> QED
        BY <3>1, <3>2, <4>1, <4>2 DEF WorkerOk
    <3> QED
      BY <3>3, <3>4
  <2> QED
    BY <2>1 DEF WorkerInv
<1>7. QueueInv'
  BY <1>0 DEF QueueInv, Ops, threads, game
<1>8. StoredInv'
  BY <1>0, StoredAlone
<1> QED
  BY <1>1, <1>2, <1>3, <1>5, <1>6, <1>7, <1>8, TypePartsNext DEF TypeInv

\* WaitAndPop takes the first of the queue.
LEMMA TakenFirst ==
    ASSUME TypeInv, Poppable(queue), queue' = Popped(queue)
    PROVE  /\ Len(Ops) \in Nat /\ Len(Ops) > 0 /\ server # "closed"
           /\ DOMAIN Ops = 1..Len(Ops) /\ DOMAIN Ops' = 1..(Len(Ops) - 1)
           /\ \A m \in DOMAIN Ops' : m + 1 \in DOMAIN Ops /\ Ops'[m] = Ops[m + 1]
           /\ Head(Ops) = Ops[1] /\ Ops[1] \in Saves \cup Loads /\ Ops[1] \in Operations
           /\ queue' \in [items : Seq(Operations), shutdown : BOOLEAN]
           /\ \A m \in DOMAIN Ops' : Ops'[m] \in Saves \cup Loads
<1>1. queue \in [items : Seq(Operations), shutdown : BOOLEAN] /\ QueueInv
  BY TypeParts DEF TypeInv, ThreadsType
<1>2. Ops \in Seq(Operations) /\ Ops # <<>> /\ Ops' = Tail(Ops)
  BY <1>1 DEF Ops, Poppable, Popped
<1>3. Len(Ops) \in Nat /\ Len(Ops) > 0 /\ DOMAIN Ops = 1..Len(Ops) /\ Head(Ops) = Ops[1]
  BY <1>2
<1>4. /\ Ops' \in Seq(Operations) /\ DOMAIN Ops' = 1..(Len(Ops) - 1)
      /\ \A m \in DOMAIN Ops' : m + 1 \in DOMAIN Ops /\ Ops'[m] = Ops[m + 1]
  BY <1>2, <1>3, HeadTailProperties
<1>5. queue' \in [items : Seq(Operations), shutdown : BOOLEAN]
  BY <1>1, <1>2, <1>4 DEF Ops, Popped
<1>6. Ops[1] \in Operations /\ Ops[1] \in Saves \cup Loads /\ server # "closed"
  BY <1>1, <1>2, <1>3 DEF QueueInv
<1>7. \A m \in DOMAIN Ops' : Ops'[m] \in Saves \cup Loads
  BY <1>1, <1>4 DEF QueueInv
<1> QED
  BY <1>1, <1>3, <1>4, <1>5, <1>6, <1>7

\* my with an operation to begin at a point.
Given(my, op, at) == [my EXCEPT !.op = op, !.at = at]

LEMMA WorkerGiven ==
    ASSUME NEW my \in WorkerTypes, NEW op \in Operations, NEW at \in Points
    PROVE  /\ Given(my, op, at) \in WorkerTypes
           /\ Given(my, op, at).at = at
           /\ Given(my, op, at).op = op
           /\ Given(my, op, at).next = my.next
           /\ Given(my, op, at).again = my.again
  BY DEF WorkerTypes, Points, Given

\* What a worker is once it has taken op.
Taken(op) == Given(Waiting, op, IF op.kind = "save" THEN "begin" ELSE "read")

LEMMA TakenFields ==
    ASSUME NEW op \in Operations
    PROVE  /\ Taken(op) \in WorkerTypes
           /\ Taken(op).at = IF op.kind = "save" THEN "begin" ELSE "read"
           /\ Taken(op).op = op /\ Taken(op).next = 1 /\ ~Taken(op).again
<1> DEFINE at == IF op.kind = "save" THEN "begin" ELSE "read"
<1>1. at \in Points
  BY DEF Points
<1>2. Waiting.next = 1 /\ ~Waiting.again
  BY DEF Waiting
<1>3. Taken(op) = Given(Waiting, op, at)
  BY DEF Taken
<1> HIDE DEF at
<1>4. /\ Taken(op) \in WorkerTypes /\ Taken(op).at = at /\ Taken(op).op = op
      /\ Taken(op).next = Waiting.next /\ Taken(op).again = Waiting.again
  BY <1>1, <1>3, WaitingIsOk, WorkerGiven
<1> QED
  BY <1>2, <1>4 DEF at

LEMMA TakeIs ==
    ASSUME NEW w \in Workers, Take(w)
    PROVE  /\ worker[w].at = "idle" /\ Poppable(queue) /\ queue' = Popped(queue)
           /\ worker' = [worker EXCEPT ![w] = Taken(Head(Ops))]
           /\ UNCHANGED <<deadlockLock, mysql, game, bounds, history>>
  BY DEF Take, Taken, Given, Go, At, Ops

LEMMA TakeTypes ==
    ASSUME TypeInv, NEW w \in Workers, Take(w)
    PROVE  TypeInv'
<1> DEFINE op == Head(Ops)
<1>1. /\ worker[w].at = "idle"
      /\ worker' = [worker EXCEPT ![w] = Taken(op)]
      /\ UNCHANGED <<deadlockLock, mysql, game, bounds, history>>
      /\ Poppable(queue) /\ queue' = Popped(queue)
  BY TakeIs
<1>2. /\ op \in Saves \cup Loads /\ op \in Operations /\ server # "closed"
      /\ queue' \in [items : Seq(Operations), shutdown : BOOLEAN]
      /\ \A m \in DOMAIN Ops' : Ops'[m] \in Saves \cup Loads
  BY <1>1, TakenFirst
<1>3. WorkerOk(worker[w], conn[w], torn) /\ conn[w] = Fresh /\ ~worker[w].again
  BY <1>1, WorkerFacts DEF WorkerOk
<1> HIDE DEF op
<1>4. /\ Taken(op) \in WorkerTypes
      /\ Taken(op).at = IF op.kind = "save" THEN "begin" ELSE "read"
      /\ Taken(op).op = op /\ Taken(op).next = 1 /\ ~Taken(op).again
  BY <1>2, TakenFields
<1>5. WorkerOk(Taken(op), conn[w], torn)
  BY <1>2, <1>3, <1>4 DEF WorkerOk, Saves, Loads
<1>6. conn' = [conn EXCEPT ![w] = conn[w]] /\ rows' = rows /\ items' = items
  BY <1>1, SameConnection DEF mysql
<1>7. QueueInv'
  BY <1>1, <1>2 DEF QueueInv, game
<1>8. StoredInv'
  BY <1>6, WorkerFacts, StoredAlone
<1>9. rows' \in [Chars -> Nat] /\ items' \in [Chars -> SUBSET (Nat \ {0})]
  BY <1>6, WorkerFacts DEF DataType
<1>10. GameType'
  BY <1>1, WorkerFacts DEF GameType, game
<1>11. BookType'
  BY <1>1, WorkerFacts DEF BookType, bounds, history
<1> QED
  BY <1>1, <1>2, <1>3, <1>4, <1>5, <1>6, <1>7, <1>8, <1>9, <1>10, <1>11, WorkerFacts, WorkTypes
     DEF history

\* A worker goes on; the queue and the sessions see nothing.
LEMMA InsideTypes ==
    ASSUME TypeInv, NEW w \in Workers, NEW state \in WorkerTypes,
           NEW connection \in [open : BOOLEAN, writes : SUBSET Writes],
           worker' = [worker EXCEPT ![w] = state],
           conn' = [conn EXCEPT ![w] = connection],
           WorkerOk(state, connection, torn),
           \/ deadlockLock' = deadlockLock /\ (state.again \/ ~worker[w].again)
           \/ deadlockLock' = Unlocked(w)
           \/ deadlockLock' = w /\ state.again,
           UNCHANGED <<queue, place, version, server, restarts, torn, order>>,
           rows' \in [Chars -> Nat], items' \in [Chars -> SUBSET (Nat \ {0})],
           StoredInv',
           loaded' = loaded \/ GameType',
           future' = future \/ GameType',
           faults' = faults \/ BookType',
           refused' = refused \/ BookType'
    PROVE  TypeInv'
<1>1. QueueInv' /\ queue' \in [items : Seq(Operations), shutdown : BOOLEAN]
  BY WorkerFacts DEF QueueInv, Ops, ThreadsType
<1>2. GameType'
  BY WorkerFacts DEF GameType
<1>3. BookType'
  BY WorkerFacts DEF BookType
<1> QED
  BY <1>1, <1>2, <1>3, WorkTypes

LEMMA NothingWritten ==
    ASSUME TypeInv, UNCHANGED <<rows, items>>
    PROVE  /\ rows' \in [Chars -> Nat] /\ items' \in [Chars -> SUBSET (Nat \ {0})]
           /\ StoredInv'
<1>1. DataType /\ StoredInv
  BY TypeParts DEF TypeInv
<1> QED
  BY <1>1, StoredAlone DEF DataType

LEMMA DiscardTypes ==
    ASSUME TypeInv, NEW w \in Workers, Discard(w)
    PROVE  TypeInv'
<1>1. worker[w].at \in {"begin", "read"} /\ worker' = [worker EXCEPT ![w] = Waiting]
  BY DEF Discard, Done, Go
<1>2. conn[w] = Fresh
  BY <1>1, WorkerFacts DEF WorkerOk
<1>3. UNCHANGED <<queue, deadlockLock, mysql, game, bounds, history>> /\ ~worker[w].again
  BY DEF Discard
<1>4. conn' = [conn EXCEPT ![w] = Fresh]
  BY <1>2, <1>3, SameConnection DEF mysql
<1> QED
  BY <1>1, <1>3, <1>4, WaitingIsOk, NothingWritten, InsideTypes DEF mysql, game, bounds, history

LEMMA BeginTypes ==
    ASSUME TypeInv, NEW w \in Workers, Begin(w)
    PROVE  TypeInv'
<1> DEFINE state == Moved(worker[w], "statement", 1)
           connection == [open |-> TRUE, writes |-> {}]
<1>0. /\ worker[w] \in WorkerTypes /\ WorkerOk(worker[w], conn[w], torn)
      /\ worker[w].at = "begin"
  BY WorkerFacts DEF Begin, At
<1>1. conn[w] = Fresh /\ worker[w].op \in Saves
  BY <1>0 DEF WorkerOk
<1>2. UNCHANGED <<rows, items>>
  BY <1>1, ApplyNothing DEF Begin, Fresh, TypeInv
<1>3. /\ worker' = [worker EXCEPT ![w] = state]
      /\ conn' = [conn EXCEPT ![w] = connection]
      /\ UNCHANGED <<queue, deadlockLock, game, bounds, history>>
  BY DEF Begin, Go, Keep, Moved
<1>4. /\ state \in WorkerTypes /\ state.again = worker[w].again
      /\ state.at = "statement" /\ state.next = 1 /\ state.op = worker[w].op
  BY <1>0, WorkerMoved DEF Points
<1>5. WorkerOk(state, connection, torn)
  <2>1. connection.open /\ connection.writes = {}
    OBVIOUS
  <2>2. Written(state.op, state.next - 1) = {}
    BY <1>4, WrittenParts
  <2> HIDE DEF state, connection
  <2> QED
    BY <1>1, <1>4, <2>1, <2>2 DEF WorkerOk
<1>6. connection \in [open : BOOLEAN, writes : SUBSET Writes]
  OBVIOUS
<1>7. state.again \/ ~worker[w].again
  BY <1>0, <1>4 DEF WorkerTypes
<1> HIDE DEF state, connection
<1> QED
  BY <1>2, <1>3, <1>4, <1>5, <1>6, <1>7, NothingWritten, InsideTypes DEF game, bounds, history

\* What a statement writes.
Part(w) == [part |-> Parts[worker[w].next], char |-> worker[w].op.char,
            ver |-> worker[w].op.ver]

\* The worker after a statement.
After(my) == Moved(my, IF my.next = 2 THEN "commit" ELSE "statement", my.next + 1)

LEMMA StatementIs ==
    ASSUME TypeInv, NEW w \in Workers, Statement(w)
    PROVE  /\ worker[w].at = "statement" /\ worker[w].next \in 1..2
           /\ worker[w].op \in Saves
           /\ UNCHANGED <<queue, deadlockLock, game, bounds, history>>
           /\ worker' = [worker EXCEPT ![w] = After(worker[w])]
           /\ After(worker[w]) \in WorkerTypes
           /\ After(worker[w]).next = worker[w].next + 1 /\ After(worker[w]).op = worker[w].op
           /\ After(worker[w]).again = worker[w].again
           /\ After(worker[w]).at = IF worker[w].next = 2 THEN "commit" ELSE "statement"
           /\ \/ /\ conn[w].open
                 /\ conn' = [conn EXCEPT ![w] = [conn[w] EXCEPT !.writes = @ \cup {Part(w)}]]
                 /\ UNCHANGED <<rows, items>>
              \/ /\ ~conn[w].open /\ torn[worker[w].op.char]
                 /\ conn' = [conn EXCEPT ![w] = Fresh]
                 /\ Apply({Part(w)})
<1>1. worker[w].at = "statement"
  BY DEF Statement, At
<1>2. worker[w].next \in 1..2 /\ worker[w].op \in Saves
  BY <1>1, WorkerFacts DEF WorkerOk
<1>3. ~conn[w].open => torn[worker[w].op.char]
  BY <1>1, WorkerFacts DEF WorkerOk
<1>5. Len(Parts) = 2
  BY DEF Parts
<1>4. /\ UNCHANGED <<queue, deadlockLock, game, bounds, history>>
      /\ worker' = [worker EXCEPT ![w] = After(worker[w])]
  <2>1. worker' = [worker EXCEPT ![w] =
           [worker[w] EXCEPT !.next = @ + 1,
                             !.at = IF worker[w].next = Len(Parts) THEN "commit" ELSE @]]
    BY DEF Statement, Go
  <2>2. After(worker[w]) =
           [worker[w] EXCEPT !.next = @ + 1,
                             !.at = IF worker[w].next = Len(Parts) THEN "commit" ELSE @]
    BY <1>1, <1>5, WorkerFacts DEF After, Moved, WorkerTypes
  <2> QED
    BY <2>1, <2>2 DEF Statement
<1>6. /\ After(worker[w]) \in WorkerTypes
      /\ After(worker[w]).next = worker[w].next + 1 /\ After(worker[w]).op = worker[w].op
      /\ After(worker[w]).again = worker[w].again
      /\ After(worker[w]).at = IF worker[w].next = 2 THEN "commit" ELSE "statement"
  <2> DEFINE at == IF worker[w].next = 2 THEN "commit" ELSE "statement"
             n == worker[w].next + 1
  <2>1. worker[w] \in WorkerTypes /\ n \in 1..3 /\ at \in Points
    BY <1>2, WorkerFacts DEF Points
  <2>2. After(worker[w]) = Moved(worker[w], at, n)
    BY DEF After
  <2> HIDE DEF at, n
  <2>3. /\ After(worker[w]) \in WorkerTypes /\ After(worker[w]).next = n
        /\ After(worker[w]).op = worker[w].op
        /\ After(worker[w]).again = worker[w].again /\ After(worker[w]).at = at
    BY <2>1, <2>2, WorkerMoved
  <2> QED
    BY <2>3 DEF at, n
<1>7. \/ /\ conn[w].open
         /\ conn' = [conn EXCEPT ![w] = [conn[w] EXCEPT !.writes = @ \cup {Part(w)}]]
         /\ UNCHANGED <<rows, items>>
      \/ /\ ~conn[w].open
         /\ conn' = [conn EXCEPT ![w] = Fresh]
         /\ Apply({Part(w)})
  BY DEF Statement, Keep, Part, Char
<1> QED
  BY <1>1, <1>2, <1>3, <1>4, <1>6, <1>7

LEMMA StatementTypes ==
    ASSUME TypeInv, NEW w \in Workers, Statement(w)
    PROVE  TypeInv'
<1> DEFINE state == After(worker[w])
           op == worker[w].op
           connection == [conn[w] EXCEPT !.writes = @ \cup {Part(w)}]
<1>0. /\ worker[w].at = "statement" /\ worker[w].next \in 1..2 /\ op \in Saves
      /\ UNCHANGED <<queue, deadlockLock, game, bounds, history>>
      /\ worker' = [worker EXCEPT ![w] = state] /\ state \in WorkerTypes
      /\ state.next = worker[w].next + 1 /\ state.op = op
      /\ state.again = worker[w].again
      /\ state.at = IF worker[w].next = 2 THEN "commit" ELSE "statement"
  BY StatementIs
<1>1. WorkerOk(worker[w], conn[w], torn) /\ worker[w] \in WorkerTypes
  BY WorkerFacts
<1>2. state.again \/ ~worker[w].again
  BY <1>0, <1>1 DEF WorkerTypes
<1>3. CASE /\ conn[w].open
           /\ conn' = [conn EXCEPT ![w] = connection]
           /\ UNCHANGED <<rows, items>>
  <2>1. conn[w].writes = Written(op, worker[w].next - 1)
    BY <1>0, <1>1, <1>3 DEF WorkerOk
  <2>2. /\ connection.open
        /\ connection.writes = Written(op, worker[w].next - 1) \cup {Part(w)}
    BY <1>3, <2>1, WorkerFacts
  <2>3. connection.writes = Written(op, worker[w].next)
    <3>1. CASE worker[w].next = 1
      BY <2>2, <3>1, WrittenParts DEF Part, Parts
    <3>2. CASE worker[w].next = 2
      BY <2>2, <3>2, WrittenParts DEF Part, Parts
    <3> QED
      BY <1>0, <3>1, <3>2
  <2>4. connection \in [open : BOOLEAN, writes : SUBSET Writes]
    BY <2>3, <1>0, WrittenType, WorkerFacts
  <2> HIDE DEF connection, state, op
  <2>5. WorkerOk(state, connection, torn)
    <3>1. CASE worker[w].next = 1
      BY <1>0, <2>2, <2>3, <3>1 DEF WorkerOk
    <3>2. CASE worker[w].next = 2
      BY <1>0, <2>2, <2>3, <3>2 DEF WorkerOk
    <3> QED
      BY <1>0, <3>1, <3>2
  <2> QED
    BY <1>0, <1>2, <1>3, <2>4, <2>5, NothingWritten, InsideTypes DEF game, bounds, history
<1>4. CASE /\ ~conn[w].open /\ torn[op.char]
           /\ conn' = [conn EXCEPT ![w] = Fresh]
           /\ Apply({Part(w)})
  <2>1. /\ rows' = rows \/ rows' = [rows EXCEPT ![op.char] = op.ver]
        /\ items' = items \/ items' = [items EXCEPT ![op.char] = @ \cup {op.ver}]
    <3>1. /\ rows' = IF worker[w].next = 1 THEN [rows EXCEPT ![op.char] = op.ver] ELSE rows
          /\ items' = IF worker[w].next = 2 THEN [items EXCEPT ![op.char] = @ \cup {op.ver}]
                      ELSE items
      BY <1>0, <1>4, ApplyPart DEF Part, TypeInv
    <3> QED
      BY <3>1
  <2> HIDE DEF state, op
  <2>2. /\ rows' \in [Chars -> Nat] /\ items' \in [Chars -> SUBSET (Nat \ {0})]
        /\ StoredInv'
    BY <1>0, <2>1, StoredGrows DEF TypeInv
  <2>3. ~Fresh.open
    BY DEF Fresh
  <2>4. WorkerOk(state, Fresh, torn)
    BY <1>0, <1>4, <2>3 DEF WorkerOk
  <2> QED
    BY <1>0, <1>2, <1>4, <2>2, <2>4, WaitingIsOk, InsideTypes DEF game, bounds, history
<1> HIDE DEF connection, op
<1> QED
  BY <1>3, <1>4, StatementIs DEF connection, op

\* The promise of the first save of a character.
LEMMA AnswerTypes ==
    ASSUME GameType, NEW c, NEW v, NEW answer \in {"set", "broken"},
           Answer(c, v, answer), UNCHANGED <<place, version, loaded, server>>
    PROVE  GameType'
<1>1. future' = [future EXCEPT ![c] = answer] \/ future' = future
  BY DEF Answer
<1>2. future' \in [Chars -> {"none", "pending", "set", "broken"}]
  BY <1>1 DEF GameType
<1> QED
  BY <1>2 DEF GameType

\* COMMIT, with what it writes.
LEMMA CommitIs ==
    ASSUME TypeInv, NEW w \in Workers, Commit(w)
    PROVE  /\ worker[w].at = "commit" /\ worker[w].op \in Saves
           /\ worker' = [worker EXCEPT ![w] = Waiting]
           /\ conn' = [conn EXCEPT ![w] = Fresh]
           /\ \/ /\ rows' = [rows EXCEPT ![worker[w].op.char] = worker[w].op.ver]
                 /\ items' = [items EXCEPT ![worker[w].op.char] = @ \cup {worker[w].op.ver}]
              \/ torn[worker[w].op.char] /\ UNCHANGED <<rows, items>>
           /\ deadlockLock' = Unlocked(w)
           /\ UNCHANGED <<queue, place, version, loaded, server, bounds, history>>
<1>1. worker[w].at = "commit"
  BY DEF Commit, At
<1>2. worker[w].op \in Saves
  BY <1>1, WorkerFacts DEF WorkerOk
<1>3. \/ /\ rows' = [rows EXCEPT ![worker[w].op.char] = worker[w].op.ver]
         /\ items' = [items EXCEPT ![worker[w].op.char] = @ \cup {worker[w].op.ver}]
      \/ torn[worker[w].op.char] /\ UNCHANGED <<rows, items>>
  <2>1. CASE conn[w].open
    <3>1. conn[w].writes = Written(worker[w].op, 2)
      BY <1>1, <2>1, WorkerFacts DEF WorkerOk
    <3> QED
      BY <1>2, <3>1, ApplyBoth DEF Commit, TypeInv
  <2>2. CASE ~conn[w].open
    <3>1. conn[w] = Fresh /\ torn[worker[w].op.char]
      BY <1>1, <2>2, WorkerFacts DEF WorkerOk
    <3>2. conn[w].writes = {}
      BY <3>1 DEF Fresh
    <3> QED
      BY <3>1, <3>2, ApplyNothing DEF Commit, TypeInv
  <2> QED
    BY <2>1, <2>2
<1> QED
  BY <1>1, <1>2, <1>3 DEF Commit, Keep, Done, Go

LEMMA CommitTypes ==
    ASSUME TypeInv, NEW w \in Workers, Commit(w)
    PROVE  TypeInv'
<1>1. rows' \in [Chars -> Nat] /\ items' \in [Chars -> SUBSET (Nat \ {0})] /\ StoredInv'
  BY CommitIs, StoredGrows, NothingWritten DEF TypeInv
<1>2. GameType'
  <2>1. Answer(Char(w), worker[w].op.ver, IF worker[w].again THEN "broken" ELSE "set")
    BY DEF Commit
  <2>2. (IF worker[w].again THEN "broken" ELSE "set") \in {"set", "broken"}
    OBVIOUS
  <2> QED
    BY <2>1, <2>2, AnswerTypes, WorkerFacts DEF Commit
<1> QED
  BY <1>1, <1>2, CommitIs, WaitingIsOk, InsideTypes DEF bounds, history

\* A statement is refused, and rolled back.
LEMMA FailsIs ==
    ASSUME TypeInv, NEW w \in Workers, Fails(w)
    PROVE  /\ worker[w].at = "statement" /\ worker[w].op \in Saves
           /\ worker[w].op.char \in Chars /\ worker[w].op.ver \in Nat \ {0}
           /\ worker[w] \in WorkerTypes
           /\ conn' = [conn EXCEPT ![w] = Fresh]
           /\ faults' \in 0..MaxFaults
           /\ UNCHANGED <<rows, items, place, version, loaded, server, restarts,
                          torn, order>>
<1>1. worker[w].at = "statement" /\ worker[w] \in WorkerTypes
  BY WorkerFacts DEF Fails, At
<1>2. worker[w].op \in Saves
  BY <1>1, WorkerFacts DEF WorkerOk
<1>3. worker[w].op.char \in Chars /\ worker[w].op.ver \in Nat \ {0}
  BY <1>2, SaveIsRecord
<1>4. faults' \in 0..MaxFaults
  BY WorkerFacts, PoolConstants DEF Fails, BookType
<1> QED
  BY <1>1, <1>2, <1>3, <1>4 DEF Fails, RolledBack, Keep

\* The transaction ends without success.
LEMMA RefuseIs ==
    ASSUME TypeInv, NEW w \in Workers, Fails(w), Refuse(w)
    PROVE  /\ refused' = [refused EXCEPT ![worker[w].op.char] = @ \cup {worker[w].op.ver}]
           /\ worker' = [worker EXCEPT ![w] = Waiting]
           /\ deadlockLock' = Unlocked(w) /\ queue' = queue
           /\ GameType'
<1>1. Answer(Char(w), worker[w].op.ver, "broken")
  BY DEF Refuse
<1>2. GameType'
  BY <1>1, FailsIs, WorkerFacts, AnswerTypes
<1> QED
  BY <1>2 DEF Refuse, Done, Go, Char

LEMMA RefuseTypes ==
    ASSUME TypeInv, NEW w \in Workers, Fails(w), Refuse(w)
    PROVE  TypeInv'
<1>1. BookType'
  <2>1. BookType
    BY WorkerFacts
  <2>2. refused' \in [Chars -> SUBSET (Nat \ {0})]
    BY <2>1, FailsIs, RefuseIs DEF BookType
  <2> QED
    BY <2>1, <2>2, FailsIs DEF BookType
<1> QED
  BY <1>1, FailsIs, RefuseIs, WaitingIsOk, NothingWritten, InsideTypes

\* The worker after a deadlock, or after an error in a retry.
Back(my, at) == [my EXCEPT !.at = at]

LEMMA WorkerBack ==
    ASSUME NEW my \in WorkerTypes, NEW at \in Points
    PROVE  /\ Back(my, at) \in WorkerTypes
           /\ Back(my, at).at = at /\ Back(my, at).op = my.op
           /\ Back(my, at).next = my.next /\ Back(my, at).again = my.again
  BY DEF WorkerTypes, Points, Back

LEMMA AgainTypes ==
    ASSUME TypeInv, NEW w \in Workers, Fails(w), NEW at \in {"retry", "begin"},
           Goto(w, at), UNCHANGED <<queue, deadlockLock, future, refused>>
    PROVE  TypeInv'
<1> DEFINE state == Back(worker[w], at)
<1>1. worker' = [worker EXCEPT ![w] = state]
  BY DEF Goto, Go, Back
<1>2. /\ state \in WorkerTypes /\ state.at = at /\ state.op = worker[w].op
      /\ state.again = worker[w].again
  BY FailsIs, WorkerBack DEF Points
<1>3. WorkerOk(state, Fresh, torn)
  <2> HIDE DEF state
  <2> QED
    BY <1>2, FailsIs DEF WorkerOk
<1>4. state.again \/ ~worker[w].again
  <2> HIDE DEF state
  <2> QED
    BY <1>2, FailsIs DEF WorkerTypes
<1>5. BookType'
  BY WorkerFacts, FailsIs DEF BookType
<1> HIDE DEF state
<1> QED
  BY <1>1, <1>2, <1>3, <1>4, <1>5, FailsIs, WaitingIsOk, NothingWritten, InsideTypes

\* The state of the worker after Retry.
Again(my) == [my EXCEPT !.at = "begin", !.again = TRUE]

LEMMA WorkerAgain ==
    ASSUME NEW my \in WorkerTypes
    PROVE  /\ Again(my) \in WorkerTypes
           /\ Again(my).at = "begin" /\ Again(my).op = my.op
           /\ Again(my).next = my.next /\ Again(my).again
  BY DEF WorkerTypes, Again

LEMMA RetryIs ==
    ASSUME TypeInv, NEW w \in Workers, Retry(w)
    PROVE  /\ worker[w].at = "retry" /\ worker[w].op \in Saves /\ conn[w] = Fresh
           /\ worker[w] \in WorkerTypes
           /\ deadlockLock' = w /\ worker' = [worker EXCEPT ![w] = Again(worker[w])]
           /\ UNCHANGED <<queue, mysql, game, bounds, history>>
<1>1. worker[w].at = "retry"
  BY DEF Retry, At
<1>2. worker[w].op \in Saves /\ conn[w] = Fresh /\ worker[w] \in WorkerTypes
  BY <1>1, WorkerFacts DEF WorkerOk
<1> QED
  BY <1>1, <1>2 DEF Retry, Go, Again

LEMMA RetryTypes ==
    ASSUME TypeInv, NEW w \in Workers, Retry(w)
    PROVE  TypeInv'
<1> DEFINE state == Again(worker[w])
<1>1. /\ state \in WorkerTypes /\ state.at = "begin" /\ state.op = worker[w].op
      /\ state.again
  BY RetryIs, WorkerAgain
<1> HIDE DEF state
<1>2. WorkerOk(state, Fresh, torn)
  BY <1>1, RetryIs DEF WorkerOk
<1>3. conn' = [conn EXCEPT ![w] = Fresh]
  BY RetryIs, SameConnection DEF mysql
<1>4. deadlockLock' = w /\ worker' = [worker EXCEPT ![w] = state]
  BY RetryIs DEF state
<1> QED
  BY <1>1, <1>2, <1>3, <1>4, RetryIs, WaitingIsOk, NothingWritten, InsideTypes
     DEF mysql, game, bounds, history

\* What a query of the holder makes of it; ok says whether it succeeds.
RowRead(holder, row, ok) ==
    [[holder EXCEPT !.row = IF ok THEN row ELSE 0] EXCEPT !.failed = @ \/ ~ok]
ItemsRead(holder, all, ok) ==
    [[holder EXCEPT !.items = IF ok THEN all ELSE {}, !.ready = TRUE]
        EXCEPT !.failed = @ \/ ~ok]

Holders == [row : Nat, items : SUBSET (Nat \ {0}), ready : BOOLEAN, failed : BOOLEAN]

LEMMA RowReadFields ==
    ASSUME NEW holder \in Holders, NEW row \in Nat, NEW ok \in BOOLEAN
    PROVE  /\ RowRead(holder, row, ok) \in Holders
           /\ ok => RowRead(holder, row, ok).row = row
           /\ RowRead(holder, row, ok).ready = holder.ready
           /\ ~RowRead(holder, row, ok).failed => ok /\ ~holder.failed
<1> DEFINE v == IF ok THEN row ELSE 0
           one == [holder EXCEPT !.row = v]
<1>1. v \in Nat
  OBVIOUS
<1>2. RowRead(holder, row, ok) = [one EXCEPT !.failed = @ \/ ~ok]
  BY DEF RowRead
<1>3. ok => v = row
  OBVIOUS
<1> HIDE DEF v
<1>4. one \in Holders /\ one.row = v /\ one.ready = holder.ready /\ one.failed = holder.failed
  BY <1>1 DEF Holders
<1> HIDE DEF one
<1>5. [one EXCEPT !.failed = @ \/ ~ok] = [one EXCEPT !.failed = one.failed \/ ~ok]
  BY <1>4 DEF Holders
<1> DEFINE f == one.failed \/ ~ok
<1>6. f \in BOOLEAN /\ (~f => ok /\ ~one.failed)
  BY <1>4 DEF Holders
<1> HIDE DEF f
<1>7. /\ [one EXCEPT !.failed = f] \in Holders
      /\ [one EXCEPT !.failed = f].row = one.row
      /\ [one EXCEPT !.failed = f].ready = one.ready
      /\ [one EXCEPT !.failed = f].failed = f
  BY <1>4, <1>6 DEF Holders
<1> QED
  BY <1>2, <1>3, <1>4, <1>5, <1>6, <1>7, Zenon DEF f

LEMMA ItemsReadFields ==
    ASSUME NEW holder \in Holders, NEW all \in SUBSET (Nat \ {0}), NEW ok \in BOOLEAN
    PROVE  /\ ItemsRead(holder, all, ok) \in Holders
           /\ ItemsRead(holder, all, ok).row = holder.row
           /\ ok => ItemsRead(holder, all, ok).items = all
           /\ ItemsRead(holder, all, ok).ready
           /\ ~ItemsRead(holder, all, ok).failed => ok /\ ~holder.failed
<1> DEFINE v == IF ok THEN all ELSE {}
           one == [holder EXCEPT !.items = v, !.ready = TRUE]
<1>1. v \in SUBSET (Nat \ {0})
  OBVIOUS
<1>2. ItemsRead(holder, all, ok) = [one EXCEPT !.failed = @ \/ ~ok]
  BY DEF ItemsRead
<1>3. ok => v = all
  OBVIOUS
<1> HIDE DEF v
<1>4. /\ one \in Holders /\ one.row = holder.row /\ one.items = v
      /\ one.ready /\ one.failed = holder.failed
  BY <1>1 DEF Holders
<1> HIDE DEF one
<1> DEFINE f == one.failed \/ ~ok
<1>5. [one EXCEPT !.failed = @ \/ ~ok] = [one EXCEPT !.failed = f]
  BY <1>4 DEF Holders
<1>6. f \in BOOLEAN /\ (~f => ok /\ ~one.failed)
  BY <1>4 DEF Holders
<1> HIDE DEF f
<1>7. /\ [one EXCEPT !.failed = f] \in Holders
      /\ [one EXCEPT !.failed = f].row = one.row
      /\ [one EXCEPT !.failed = f].items = one.items
      /\ [one EXCEPT !.failed = f].ready = one.ready
      /\ [one EXCEPT !.failed = f].failed = f
  BY <1>4, <1>6 DEF Holders
<1> QED
  BY <1>2, <1>3, <1>4, <1>5, <1>6, <1>7, Zenon

\* The worker after the first query.
Onward(my) == [my EXCEPT !.next = @ + 1]

LEMMA WorkerOnward ==
    ASSUME NEW my \in WorkerTypes, my.next = 1
    PROVE  /\ Onward(my) \in WorkerTypes
           /\ Onward(my).at = my.at /\ Onward(my).op = my.op
           /\ Onward(my).next = 2 /\ Onward(my).again = my.again
  BY DEF WorkerTypes, Onward

LEMMA ReadIs ==
    ASSUME TypeInv, NEW w \in Workers, NEW ok \in BOOLEAN, Read(w, ok)
    PROVE  /\ worker[w].at = "read" /\ worker[w].op \in Loads /\ worker[w].next \in 1..2
           /\ worker[w].op.char \in Chars /\ ~worker[w].again
           /\ conn' = [conn EXCEPT ![w] = Fresh]
           /\ faults' \in 0..MaxFaults
           /\ loaded[worker[w].op.char] \in Holders
           /\ loaded' = [loaded EXCEPT ![worker[w].op.char] =
                IF worker[w].next = 1
                THEN RowRead(loaded[worker[w].op.char], rows[worker[w].op.char], ok)
                ELSE ItemsRead(loaded[worker[w].op.char], items[worker[w].op.char], ok)]
           /\ \/ worker[w].next = 2 /\ worker' = [worker EXCEPT ![w] = Waiting]
              \/ worker[w].next = 1 /\ worker' = [worker EXCEPT ![w] = Onward(worker[w])]
           /\ UNCHANGED <<queue, deadlockLock, mysql, place, version, future,
                          server, restarts, history>>
<1>1. worker[w].at = "read" /\ worker[w] \in WorkerTypes
  BY WorkerFacts DEF Read, At
<1>2. /\ worker[w].op \in Loads /\ worker[w].next \in 1..2 /\ ~worker[w].again
      /\ conn[w] = Fresh
  BY <1>1, WorkerFacts DEF WorkerOk
<1>3. worker[w].op.char \in Chars
  BY <1>2 DEF Loads, Operations
<1>4. UNCHANGED <<queue, deadlockLock, mysql, place, version, future,
                  server, restarts, history>>
  BY DEF Read
<1>5. conn' = [conn EXCEPT ![w] = Fresh]
  BY <1>2, <1>4, SameConnection DEF mysql
<1>6. faults' \in 0..MaxFaults
  BY WorkerFacts, PoolConstants DEF Read, BookType
<1>7. loaded' = [loaded EXCEPT ![worker[w].op.char] =
           IF worker[w].next = 1
           THEN RowRead(loaded[worker[w].op.char], rows[worker[w].op.char], ok)
           ELSE ItemsRead(loaded[worker[w].op.char], items[worker[w].op.char], ok)]
  BY DEF Read, RowRead, ItemsRead, Char
<1>8. Len(Parts) = 2
  BY DEF Parts
<1>9. worker[w].next = 2 => worker' = [worker EXCEPT ![w] = Waiting]
  BY <1>8 DEF Read, Done, Go
<1>10. worker[w].next = 1 => worker' = [worker EXCEPT ![w] = Onward(worker[w])]
  BY <1>8 DEF Read, Go, Onward
<1>11. loaded[worker[w].op.char] \in Holders
  BY <1>3, WorkerFacts DEF GameType, Holders
<1> QED
  BY <1>1, <1>2, <1>3, <1>4, <1>5, <1>6, <1>7, <1>9, <1>10, <1>11

LEMMA ReadTypes ==
    ASSUME TypeInv, NEW w \in Workers, NEW ok \in BOOLEAN, Read(w, ok)
    PROVE  TypeInv'
<1> DEFINE c == worker[w].op.char
           got == IF worker[w].next = 1 THEN RowRead(loaded[c], rows[c], ok)
                  ELSE ItemsRead(loaded[c], items[c], ok)
<1>1. c \in Chars /\ loaded[c] \in Holders /\ rows[c] \in Nat /\ items[c] \in SUBSET (Nat \ {0})
  BY ReadIs, WorkerFacts DEF DataType
<1>2. got \in Holders
  <2>1. RowRead(loaded[c], rows[c], ok) \in Holders
    BY <1>1, RowReadFields
  <2>2. ItemsRead(loaded[c], items[c], ok) \in Holders
    BY <1>1, ItemsReadFields
  <2> QED
    BY <2>1, <2>2
<1>3. loaded' = [loaded EXCEPT ![c] = got]
  BY ReadIs
<1> HIDE DEF got
<1>4. GameType'
  <2>1. loaded' \in [Chars -> Holders]
    BY <1>1, <1>2, <1>3, WorkerFacts DEF GameType, Holders
  <2> QED
    BY <2>1, ReadIs, WorkerFacts DEF GameType, Holders
<1>5. BookType'
  BY ReadIs, WorkerFacts DEF BookType, history
<1>6. UNCHANGED <<rows, items, torn, order>> /\ ~worker[w].again
  BY ReadIs DEF mysql, history
<1>7. CASE worker' = [worker EXCEPT ![w] = Waiting]
  BY <1>4, <1>5, <1>6, <1>7, ReadIs, WaitingIsOk, NothingWritten, InsideTypes
<1>8. CASE worker[w].next = 1 /\ worker' = [worker EXCEPT ![w] = Onward(worker[w])]
  <2> DEFINE state == Onward(worker[w])
  <2>1. /\ state \in WorkerTypes /\ state.at = "read" /\ state.next = 2
        /\ state.op = worker[w].op /\ state.again = worker[w].again
    BY <1>8, ReadIs, WorkerFacts, WorkerOnward
  <2>2. worker' = [worker EXCEPT ![w] = state]
    BY <1>8
  <2> HIDE DEF state
  <2>3. WorkerOk(state, Fresh, torn)
    BY <2>1, ReadIs DEF WorkerOk
  <2> QED
    BY <1>4, <1>5, <1>6, <2>1, <2>2, <2>3, ReadIs, WaitingIsOk, NothingWritten, InsideTypes
<1> QED
  BY <1>7, <1>8, ReadIs

\* What a restart counts as saved.
LEMMA StoredIs ==
    ASSUME TypeOK, StoredInv, NEW c \in Chars
    PROVE  /\ Stored(c) \in {0, rows[c]} \cup items[c] /\ Stored(c) \in Nat
           /\ \A v \in {0, rows[c]} \cup items[c] : v <= Stored(c)
<1>1. rows[c] \in Nat /\ items[c] \in SUBSET (Nat \ {0})
  BY DEF TypeOK
<1>2. PICK m \in {0} \cup items[c] : \A v \in items[c] : v <= m
  BY DEF StoredInv
<1> DEFINE S == {0, rows[c]} \cup items[c]
<1>3. \E x \in S : \A y \in S : x >= y
  <2>1. CASE m >= rows[c]
    BY <1>1, <1>2, <2>1
  <2>2. CASE ~(m >= rows[c])
    BY <1>1, <1>2, <2>2
  <2> QED
    BY <2>1, <2>2
<1>4. Stored(c) = CHOOSE x \in S : \A y \in S : x >= y
  BY DEF Stored, Max
<1> HIDE DEF S
<1>5. Stored(c) \in S /\ \A y \in S : Stored(c) >= y
  BY <1>3, <1>4
<1> QED
  BY <1>1, <1>5 DEF S

LEMMA RestartTypes ==
    ASSUME TypeInv, Restart
    PROVE  TypeInv'
<1>0. ThreadsType /\ DataType /\ GameType /\ BookType /\ QueueInv /\ StoredInv /\ TypeOK
  BY TypeParts DEF TypeInv
<1>1. \A c \in Chars : Stored(c) \in Nat
  BY <1>0, StoredIs
<1>2. ThreadsType'
  BY EmptySeq, WaitingIsOk DEF Restart, ThreadsType, NewQueue
<1>3. DataType'
  BY <1>0, WaitingIsOk DEF Restart, DataType
<1>4. GameType'
  BY <1>1 DEF Restart, GameType, NoHolder
<1>5. BookType'
  <2>1. restarts' \in 0..MaxRestarts
    BY <1>0, PoolConstants DEF Restart, BookType
  <2>2. refused' \in [Chars -> SUBSET (Nat \ {0})]
    BY <1>0 DEF Restart, BookType
  <2> QED
    BY <1>0, <2>1, <2>2, EmptySeq DEF Restart, BookType
<1>6. WorkerInv'
  BY DEF Restart, WorkerInv, WorkerOk, Waiting
<1>7. QueueInv'
  BY EmptySeq DEF Restart, QueueInv, NewQueue, Ops
<1>8. StoredInv'
  BY <1>0, StoredAlone DEF Restart
<1> QED
  BY <1>2, <1>3, <1>4, <1>5, <1>6, <1>7, <1>8, TypePartsNext DEF TypeInv

LEMMA StutterTypes ==
    ASSUME TypeInv, UNCHANGED vars
    PROVE  TypeInv'
<1> USE DEF vars, threads, mysql, game, bounds, history
<1>1. TypeOK'
  BY DEF TypeInv, TypeOK
<1>2. WorkerInv'
  BY WorkersAlone DEF TypeInv
<1>3. QueueInv'
  BY DEF TypeInv, QueueInv, Ops
<1>4. StoredInv'
  BY StoredAlone DEF TypeInv
<1> QED
  BY <1>1, <1>2, <1>3, <1>4 DEF TypeInv

LEMMA StepTypes ==
    ASSUME TypeInv, [Next]_vars
    PROVE  TypeInv'
<1>1. ASSUME NEW c \in Chars, Session(c)
      PROVE  TypeInv'
  BY <1>1, CreateTypes, CreateCallbackTypes, LoginTypes, HandlePlayerLoginTypes,
     SaveOnlineTypes DEF Session
<1>2. ASSUME NEW w \in Workers, Work(w)
      PROVE  TypeInv'
  BY <1>2, TakeTypes, BeginTypes, StatementTypes, CommitTypes, ReadTypes, RetryTypes
     DEF Work
<1>3. ASSUME NEW w \in Workers, Trouble(w)
      PROVE  TypeInv'
  <2>1. Refused(w) \/ GiveUp(w) => TypeInv'
    BY RefuseTypes DEF Refused, GiveUp
  <2>2. Deadlocked(w) \/ RetryFails(w) => TypeInv'
    BY AgainTypes DEF Deadlocked, RetryFails
  <2> QED
    BY <1>3, <2>1, <2>2, LoseTypes, ReadTypes DEF Trouble
<1>4. ASSUME NEW w \in Workers, Discard(w)
      PROVE  TypeInv'
  BY <1>4, DiscardTypes
<1> QED
  BY <1>1, <1>2, <1>3, <1>4, KickAllTypes, CloseTypes, RestartTypes, StutterTypes DEF Next

\* The types of the variables, for any number of workers; who holds _deadlockLock
\* is a worker that tries a transaction again (TransactionTask::Execute), so that
\* the lock is never left behind.
THEOREM TypeCorrect == Spec => []TypeOK
<1>1. Init => TypeInv
  BY InitTypes
<1>2. TypeInv /\ [Next]_vars => TypeInv'
  BY StepTypes
<1>3. TypeInv => TypeOK
  BY DEF TypeInv
<1> QED
  BY <1>1, <1>2, <1>3, PTL DEF Spec

---------------------------------------------------------------------------
(* The versions and the order of the saves, by what a step does to them.   *)

SavesInv == VersionInv /\ SettledInv /\ OrderInv

LEMMA SaveTypes ==
    ASSUME TypeInv
    PROVE  /\ \A c \in Chars : /\ items[c] \in SUBSET (Nat \ {0})
                               /\ refused[c] \in SUBSET (Nat \ {0})
                               /\ version[c] \in Nat /\ torn[c] \in BOOLEAN
                               /\ rows[c] \in Nat
           /\ Ops \in Seq(Operations) /\ Len(Ops) \in Nat /\ DOMAIN Ops = 1..Len(Ops)
           /\ \A m \in DOMAIN Ops : Ops[m] \in Saves \cup Loads
<1>1. ThreadsType /\ DataType /\ GameType /\ BookType /\ QueueInv
  BY TypeParts DEF TypeInv
<1>2. Ops \in Seq(Operations)
  BY <1>1 DEF ThreadsType, Ops
<1>3. \A m \in DOMAIN Ops : Ops[m] \in Saves \cup Loads
  BY <1>1 DEF QueueInv
<1> QED
  BY <1>1, <1>2, <1>3 DEF DataType, GameType, BookType

LEMMA HeldByOne ==
    ASSUME OneWorker, NEW w \in Workers
    PROVE  Held = IF worker[w].at # "idle" /\ worker[w].op \in Saves
                  THEN {worker[w].op} ELSE {}
  BY DEF Held, OneWorker

LEMMA HeldByOneNext ==
    ASSUME OneWorker, TypeInv, NEW w \in Workers, NEW state,
           worker' = [worker EXCEPT ![w] = state]
    PROVE  Held' = IF state.at # "idle" /\ state.op \in Saves THEN {state.op} ELSE {}
<1>1. worker'[w] = state /\ \A v \in Workers : v = w
  BY WorkerFacts DEF OneWorker
<1> QED
  BY <1>1 DEF Held

\* Loads do not belong to the saves.
LEMMA LoadIsNoSave ==
    ASSUME NEW op \in Loads
    PROVE  op \notin Saves
  BY DEF Loads, Saves

\* A step that no save notices.
LEMMA NeutralSaves ==
    ASSUME TypeInv, SavesInv,
           UNCHANGED <<rows, items, refused, version, order, server>>,
           Held' = Held,
           \A m \in DOMAIN Ops : m \in DOMAIN Ops' /\ Ops'[m] = Ops[m],
           \A m \in DOMAIN Ops' : Ops'[m] \in Saves => m \in DOMAIN Ops,
           \A c \in Chars : torn[c] => torn'[c]
    PROVE  SavesInv'
<1>1. Waits' = Waits
  BY DEF Waits
<1>2. \A op \in Saves : op.char \in Chars
  BY SaveIsRecord
<1>3. Held \subseteq Saves /\ Waits \subseteq Saves
  BY DEF Held, Waits
<1>4. VersionInv'
  <2> USE DEF Ended
  <2>1. \A c \in Chars : Ended(c)' \subseteq 1..version'[c] /\ rows'[c] <= version'[c]
    BY DEF SavesInv, VersionInv
  <2>2. \A op \in Held' \cup Waits' :
          /\ op.ver <= version'[op.char]
          /\ torn'[op.char] \/ \A v \in Ended(op.char)' : v < op.ver
    BY <1>1, <1>2, <1>3 DEF SavesInv, VersionInv
  <2>3. \A m, n \in DOMAIN Ops' :
          Ops'[m] \in Saves /\ Ops'[n] \in Saves /\ Ops'[m].char = Ops'[n].char /\ m < n =>
             Ops'[m].ver < Ops'[n].ver
    BY DEF SavesInv, VersionInv
  <2>4. \A a \in Held', b \in Waits' : a.char = b.char => a.ver < b.ver
    BY <1>1 DEF SavesInv, VersionInv
  <2> QED
    BY <2>1, <2>2, <2>3, <2>4 DEF VersionInv
<1>5. SettledInv'
  BY <1>1 DEF SavesInv, SettledInv, Ended
<1>6. OrderInv'
  <2>1. \A i \in DOMAIN order : order[i] \in Saves
    BY DEF SavesInv, OrderInv
  <2>2. \A i \in DOMAIN order : Settled(order[i]) => Settled(order[i])'
    BY <1>2, <2>1 DEF Settled, Ended
  <2>3. /\ order' \in Seq(Saves)
        /\ \A i \in DOMAIN order' : order'[i].ver <= version'[order'[i].char]
        /\ \A i, j \in DOMAIN order' : order'[i] = order'[j] => i = j
        /\ \A op \in Held' \cup Waits' : \E j \in DOMAIN order' : order'[j] = op
    BY <1>1 DEF SavesInv, OrderInv
  <2>4. server' # "closed" => \A i \in DOMAIN order' :
           Settled(order[i])' \/ order'[i] \in Held' \cup Waits'
    BY <1>1, <2>2 DEF SavesInv, OrderInv
  <2>5. \A i, j \in DOMAIN order' : i < j /\ ~Settled(order[i])' =>
           order'[j].ver \notin items'[order'[j].char] /\ order'[j] \notin Held'
    BY <2>2 DEF SavesInv, OrderInv
  <2>6. \A i, j \in DOMAIN order', m \in DOMAIN Ops' : i < j /\ Ops'[m] = order'[i] =>
           \E n \in DOMAIN Ops' : m < n /\ Ops'[n] = order'[j]
    BY <2>1 DEF SavesInv, OrderInv
  <2> QED
    BY <2>3, <2>4, <2>5, <2>6 DEF OrderInv
<1> QED
  BY <1>4, <1>5, <1>6 DEF SavesInv

\* SavesToDB: the next version of each character goes to the end of the queue.
LEMMA AppendedSaves ==
    ASSUME TypeInv, SavesInv, server = "running", server' # "closed",
           NEW s \in Seq(Chars), \A i, j \in DOMAIN s : s[i] = s[j] => i = j,
           SavesToDB(s),
           UNCHANGED <<rows, items, refused, torn, worker>>
    PROVE  SavesInv'
<1> DEFINE new == NewSaves(s)
           n0 == Len(Ops)
           k0 == Len(order)
<1>1. /\ new \in Seq(Saves) /\ Len(new) = Len(s)
      /\ \A i \in 1..Len(s) : new[i] = Save(s[i], version[s[i]] + 1)
      /\ queue' = [queue EXCEPT !.items = @ \o new]
      /\ order' = order \o new
      /\ version' \in [Chars -> Nat]
      /\ \A c \in Chars : version'[c] =
           IF \E i \in 1..Len(s) : s[i] = c THEN version[c] + 1 ELSE version[c]
  BY SavesMade DEF TypeInv
<1>2. /\ \A c \in Chars : /\ items[c] \in SUBSET (Nat \ {0})
                          /\ refused[c] \in SUBSET (Nat \ {0})
                          /\ version[c] \in Nat /\ torn[c] \in BOOLEAN
                          /\ rows[c] \in Nat
      /\ Ops \in Seq(Operations) /\ n0 \in Nat /\ DOMAIN Ops = 1..n0
      /\ \A m \in DOMAIN Ops : Ops[m] \in Saves \cup Loads
  BY SaveTypes
<1>3. Len(s) \in Nat /\ DOMAIN s = 1..Len(s) /\ \A i \in 1..Len(s) : s[i] \in Chars
  OBVIOUS
<1>4. order \in Seq(Saves) /\ k0 \in Nat /\ DOMAIN order = 1..k0
      /\ \A i \in 1..k0 : order[i] \in Saves
  BY DEF SavesInv, OrderInv
<1>5. \A i \in 1..Len(s) : /\ new[i] \in Saves /\ new[i].char = s[i] /\ new[i].char \in Chars
                           /\ new[i].ver = version[s[i]] + 1
                           /\ new[i].ver = version'[s[i]]
  <2>1. \A i \in 1..Len(s) : new[i] \in Saves
    BY <1>1
  <2>2. \A i \in 1..Len(s) : new[i].char = s[i] /\ new[i].ver = version[s[i]] + 1
    <3> SUFFICES ASSUME NEW i \in 1..Len(s)
                 PROVE  new[i].char = s[i] /\ new[i].ver = version[s[i]] + 1
      OBVIOUS
    <3>1. new[i] = Save(s[i], version[s[i]] + 1)
      BY <1>1
    <3> HIDE DEF new
    <3> QED
      BY <3>1 DEF Save
  <2> QED
    BY <1>1, <1>3, <2>1, <2>2
<1>6. /\ DOMAIN Ops' = 1..(n0 + Len(s))
      /\ \A m \in 1..n0 : Ops'[m] = Ops[m]
      /\ \A i \in 1..Len(s) : Ops'[n0 + i] = new[i]
  <2>1. queue \in [items : Seq(Operations), shutdown : BOOLEAN]
    BY DEF TypeInv, TypeOK
  <2>2. Ops' = Ops \o new
    BY <1>1, <2>1 DEF Ops
  <2>3. new \in Seq(Operations)
    BY <1>1 DEF Saves
  <2>4. Len(new) = Len(s) /\ Ops \in Seq(Operations) /\ n0 \in Nat
    BY <1>1, <1>2
  <2> HIDE DEF new
  <2>5. /\ Ops' \in Seq(Operations) /\ Len(Ops') = n0 + Len(s)
        /\ \A i \in 1..(n0 + Len(s)) :
             Ops'[i] = IF i <= n0 THEN Ops[i] ELSE new[i - n0]
    <3>1. /\ Ops \o new \in Seq(Operations)
          /\ Len(Ops \o new) = Len(Ops) + Len(new)
          /\ \A i \in 1..Len(Ops) + Len(new) :
               (Ops \o new)[i] = IF i <= Len(Ops) THEN Ops[i] ELSE new[i - Len(Ops)]
      BY <2>3, <2>4, ConcatProperties
    <3> QED
      BY <2>2, <2>4, <3>1
  <2>6. DOMAIN Ops' = 1..(n0 + Len(s))
    BY <2>5
  <2> HIDE DEF n0
  <2> QED
    BY <2>4, <2>5, <2>6, <1>3
<1>7. /\ DOMAIN order' = 1..(k0 + Len(s)) /\ order' \in Seq(Saves)
      /\ \A i \in 1..k0 : order'[i] = order[i]
      /\ \A i \in 1..Len(s) : order'[k0 + i] = new[i]
  <2>1. /\ new \in Seq(Saves) /\ Len(new) = Len(s) /\ order' = order \o new
        /\ order \in Seq(Saves) /\ k0 \in Nat
    BY <1>1, <1>4
  <2> HIDE DEF new
  <2>2. /\ order' \in Seq(Saves) /\ Len(order') = k0 + Len(s)
        /\ \A i \in 1..(k0 + Len(s)) :
             order'[i] = IF i <= k0 THEN order[i] ELSE new[i - k0]
    <3>1. /\ order \o new \in Seq(Saves)
          /\ Len(order \o new) = Len(order) + Len(new)
          /\ \A i \in 1..Len(order) + Len(new) :
               (order \o new)[i] = IF i <= Len(order) THEN order[i] ELSE new[i - Len(order)]
      BY <2>1, ConcatProperties
    <3> QED
      BY <2>1, <3>1
  <2>3. DOMAIN order' = 1..(k0 + Len(s))
    BY <2>2
  <2> HIDE DEF k0
  <2> QED
    BY <2>1, <2>2, <2>3, <1>3
<1>8. Held' = Held
  BY DEF Held
<1>9. \A i, j \in 1..Len(s) : new[i].char = new[j].char => i = j
  BY <1>3, <1>5
<1>10. \A c \in Chars : version'[c] \in Nat /\ version[c] <= version'[c]
  <2> SUFFICES ASSUME NEW c \in Chars
               PROVE  version'[c] \in Nat /\ version[c] <= version'[c]
    OBVIOUS
  <2>1. version'[c] = version[c] + 1 \/ version'[c] = version[c]
    BY <1>1
  <2> QED
    BY <2>1, <1>2
<1>11. \A m \in 1..(n0 + Len(s)) : m \in 1..n0 \/ \E i \in 1..Len(s) : m = n0 + i
  <2>1. ASSUME NEW m \in 1..(n0 + Len(s)), m \notin 1..n0
        PROVE  \E i \in 1..Len(s) : m = n0 + i
    <3>1. m - n0 \in 1..Len(s) /\ m = n0 + (m - n0)
      BY <2>1, <1>2, <1>3
    <3> QED
      BY <3>1
  <2> QED
    BY <2>1
<1>12. \A m \in 1..(k0 + Len(s)) : m \in 1..k0 \/ \E i \in 1..Len(s) : m = k0 + i
  <2>1. ASSUME NEW m \in 1..(k0 + Len(s)), m \notin 1..k0
        PROVE  \E i \in 1..Len(s) : m = k0 + i
    <3>1. m - k0 \in 1..Len(s) /\ m = k0 + (m - k0)
      BY <2>1, <1>3, <1>4
    <3> QED
      BY <3>1
  <2> QED
    BY <2>1
<1>13. Waits' = Waits \cup {new[i] : i \in 1..Len(s)}
  <2>1. \A op \in Waits' : op \in Waits \/ \E i \in 1..Len(s) : op = new[i]
    <3> SUFFICES ASSUME NEW op \in Waits', \A i \in 1..Len(s) : op # new[i]
                 PROVE  op \in Waits
      OBVIOUS
    <3>1. PICK m \in DOMAIN Ops' : Ops'[m] = op
      BY DEF Waits
    <3>2. m \in 1..n0
      BY <3>1, <1>6, <1>11
    <3> QED
      BY <3>1, <3>2, <1>2, <1>6 DEF Waits
  <2>2. \A op \in Waits : op \in Waits'
    BY <1>2, <1>3, <1>6 DEF Waits
  <2>3. \A i \in 1..Len(s) : n0 + i \in DOMAIN Ops'
    BY <1>2, <1>3, <1>6
  <2>4. \A i \in 1..Len(s) : new[i] \in Waits'
    BY <1>5, <1>6, <2>3 DEF Waits
  <2> HIDE DEF new
  <2> QED
    BY <2>1, <2>2, <2>4
<1>14. Held \subseteq Saves /\ Waits \subseteq Saves
  BY DEF Held, Waits
\* What was queued, held or done before is of an earlier version.
<1>15. /\ \A op \in Held \cup Waits : op.char \in Chars /\ op.ver <= version[op.char]
       /\ \A c \in Chars : \A v \in Ended(c) : v <= version[c] /\ v \in Nat
       /\ \A i \in 1..k0 : order[i].char \in Chars /\ order[i].ver <= version[order[i].char]
  <2>1. \A op \in Saves : op.char \in Chars /\ op.ver \in Nat
    BY SaveIsRecord
  <2>2. \A op \in Held \cup Waits : op.char \in Chars /\ op.ver <= version[op.char]
    BY <1>14, <2>1 DEF SavesInv, VersionInv
  <2>3. \A c \in Chars : \A v \in Ended(c) : v <= version[c] /\ v \in Nat
    <3>1. \A c \in Chars : Ended(c) \subseteq 1..version[c]
      BY DEF SavesInv, VersionInv
    <3> QED
      BY <3>1, <1>2
  <2>4. \A i \in 1..k0 : order[i].char \in Chars /\ order[i].ver <= version[order[i].char]
    BY <1>4, <2>1 DEF SavesInv, OrderInv
  <2> QED
    BY <2>2, <2>3, <2>4
<1>16. \A c \in Chars : Ended(c)' = Ended(c)
  BY DEF Ended
<1> HIDE DEF new, n0, k0
<1>20. VersionInv'
  <2>1. \A c \in Chars : Ended(c)' \subseteq 1..version'[c] /\ rows'[c] <= version'[c]
    <3>1. \A c \in Chars : Ended(c) \subseteq 1..version[c] /\ rows[c] <= version[c]
      BY DEF SavesInv, VersionInv
    <3> QED
      BY <3>1, <1>2, <1>10, <1>16
  <2>2. ASSUME NEW op \in Held' \cup Waits'
        PROVE  /\ op.ver <= version'[op.char]
               /\ torn'[op.char] \/ \A v \in Ended(op.char)' : v < op.ver
    <3>1. CASE op \in Held \cup Waits
      <4>1. op.char \in Chars /\ op.ver <= version[op.char] /\ op.ver \in Nat
        BY <3>1, <1>14, <1>15, SaveIsRecord
      <4>2. torn[op.char] \/ \A v \in Ended(op.char) : v < op.ver
        BY <3>1 DEF SavesInv, VersionInv
      <4> QED
        BY <4>1, <4>2, <1>2, <1>10, <1>16
    <3>2. CASE \E i \in 1..Len(s) : op = new[i]
      <4>1. /\ op.char \in Chars /\ op.ver = version[op.char] + 1
            /\ op.ver = version'[op.char]
        BY <3>2, <1>5
      <4>2. \A v \in Ended(op.char) : v < op.ver
        BY <4>1, <1>2, <1>15
      <4> QED
        BY <4>1, <4>2, <1>10, <1>16
    <3> QED
      BY <3>1, <3>2, <1>8, <1>13
  <2>3. ASSUME NEW m \in DOMAIN Ops', NEW n \in DOMAIN Ops',
               Ops'[m] \in Saves, Ops'[n] \in Saves, Ops'[m].char = Ops'[n].char, m < n
        PROVE  Ops'[m].ver < Ops'[n].ver
    <3>1. CASE n \in 1..n0
      <4>1. m \in 1..n0
        BY <2>3, <3>1, <1>2, <1>6
      <4> QED
        BY <2>3, <3>1, <4>1, <1>2, <1>6 DEF SavesInv, VersionInv
    <3>2. CASE \E i \in 1..Len(s) : n = n0 + i
      <4>1. PICK i \in 1..Len(s) : n = n0 + i
        BY <3>2
      <4>2. Ops'[n] = new[i]
        BY <4>1, <1>6
      <4>3. CASE m \in 1..n0
        <5>1. Ops[m] \in Waits /\ Ops'[m] = Ops[m]
          BY <2>3, <4>3, <1>2, <1>6 DEF Waits
        <5>2. Ops[m].ver <= version[s[i]] /\ Ops[m].ver \in Nat
          BY <2>3, <5>1, <4>2, <1>5, <1>14, <1>15, SaveIsRecord
        <5> QED
          BY <4>2, <5>1, <5>2, <1>2, <1>3, <1>5
      <4>4. CASE \E j \in 1..Len(s) : m = n0 + j
        <5>1. PICK j \in 1..Len(s) : m = n0 + j
          BY <4>4
        <5>2. i = j
          BY <2>3, <4>2, <5>1, <1>6, <1>9
        <5> QED
          BY <2>3, <4>1, <5>1, <5>2, <1>2, <1>3
      <4> QED
        BY <4>3, <4>4, <1>6, <1>11
    <3> QED
      BY <3>1, <3>2, <1>6, <1>11
  <2>4. ASSUME NEW a \in Held', NEW b \in Waits', a.char = b.char
        PROVE  a.ver < b.ver
    <3>1. a \in Held /\ a \in Saves
      BY <1>8, <1>14
    <3>2. CASE b \in Waits
      BY <3>1, <3>2, <2>4 DEF SavesInv, VersionInv
    <3>3. CASE \E i \in 1..Len(s) : b = new[i]
      <4>1. b.char \in Chars /\ b.ver = version[b.char] + 1
        BY <3>3, <1>5
      <4>2. a.ver <= version[b.char] /\ a.ver \in Nat
        BY <3>1, <2>4, <1>15, SaveIsRecord
      <4> QED
        BY <4>1, <4>2, <1>2
    <3> QED
      BY <3>2, <3>3, <1>13
  <2> QED
    BY <2>1, <2>2, <2>3, <2>4 DEF VersionInv
<1>21. SettledInv'
  <2> SUFFICES ASSUME NEW c \in Chars, ~torn'[c]
               PROVE  /\ items'[c] \cap refused'[c] = {}
                      /\ \A v \in 1..version'[c] :
                           v \in Ended(c)' \/ Save(c, v) \in Held' \cup Waits'
                      /\ \A v \in 1..version'[c] : v \in Ended(c)' \/ Save(c, v) \in Held' =>
                           1..(v - 1) \subseteq Ended(c)'
    BY DEF SettledInv
  <2>0. ~torn[c]
    OBVIOUS
  <2>1. /\ items[c] \cap refused[c] = {}
        /\ \A v \in 1..version[c] : v \in Ended(c) \/ Save(c, v) \in Held \cup Waits
        /\ \A v \in 1..version[c] : v \in Ended(c) \/ Save(c, v) \in Held =>
             1..(v - 1) \subseteq Ended(c)
    BY <2>0 DEF SavesInv, SettledInv
  <2>2. ASSUME NEW v \in 1..version'[c], v \notin 1..version[c]
        PROVE  /\ Save(c, v) \in Waits'
               /\ v \notin Ended(c) /\ Save(c, v) \notin Held
    <3>1. v = version[c] + 1 /\ \E i \in 1..Len(s) : s[i] = c
      BY <2>2, <1>1, <1>2
    <3>2. PICK i \in 1..Len(s) : s[i] = c
      BY <3>1
    <3>3. new[i] = Save(c, v)
      BY <3>1, <3>2, <1>1 DEF new
    <3>4. Save(c, v).char = c /\ Save(c, v).ver = v
      BY DEF Save
    <3> QED
      BY <3>1, <3>3, <3>4, <1>2, <1>13, <1>15
  <2> QED
    BY <2>1, <2>2, <1>8, <1>13, <1>16
<1>22. OrderInv'
  <2>0. \A c \in Chars : version[c] \in Nat
    BY <1>2
  <2>1. \A i \in 1..k0, op \in Saves : op.char \in Chars /\ op.ver = version[op.char] + 1 =>
            order[i] # op
    BY <1>15, <2>0
  <2>2. ASSUME NEW i \in DOMAIN order'
        PROVE  order'[i].ver <= version'[order'[i].char]
    <3>1. CASE i \in 1..k0
      <4>1. /\ order'[i] = order[i] /\ order[i].char \in Chars /\ order[i].ver \in Nat
            /\ order[i].ver <= version[order[i].char]
        BY <3>1, <1>4, <1>7, <1>15, SaveIsRecord
      <4> QED
        BY <4>1, <1>10, <2>0
    <3>2. CASE \E j \in 1..Len(s) : i = k0 + j
      BY <3>2, <1>3, <1>5, <1>7, <1>10
    <3> QED
      BY <3>1, <3>2, <1>7, <1>12
  <2>3. ASSUME NEW i \in DOMAIN order', NEW j \in DOMAIN order', order'[i] = order'[j]
        PROVE  i = j
    <3>1. CASE i \in 1..k0 /\ j \in 1..k0
      BY <2>3, <3>1, <1>4, <1>7 DEF SavesInv, OrderInv
    <3>2. CASE (\E a \in 1..Len(s) : i = k0 + a) /\ (\E b \in 1..Len(s) : j = k0 + b)
      <4>1. PICK a \in 1..Len(s) : i = k0 + a
        BY <3>2
      <4>2. PICK b \in 1..Len(s) : j = k0 + b
        BY <3>2
      <4>3. a = b
        BY <2>3, <4>1, <4>2, <1>7, <1>9
      <4> QED
        BY <4>1, <4>2, <4>3
    <3>3. CASE i \in 1..k0 /\ (\E b \in 1..Len(s) : j = k0 + b)
      BY <2>3, <3>3, <2>1, <1>3, <1>5, <1>7
    <3>4. CASE j \in 1..k0 /\ (\E a \in 1..Len(s) : i = k0 + a)
      BY <2>3, <3>4, <2>1, <1>3, <1>5, <1>7
    <3> QED
      BY <3>1, <3>2, <3>3, <3>4, <1>7, <1>12
  <2>4. ASSUME NEW op \in Held' \cup Waits'
        PROVE  \E j \in DOMAIN order' : order'[j] = op
    <3>1. CASE op \in Held \cup Waits
      <4>1. PICK j \in DOMAIN order : order[j] = op
        BY <3>1 DEF SavesInv, OrderInv
      <4>2. j \in DOMAIN order' /\ order'[j] = op
        BY <4>1, <1>3, <1>4, <1>7
      <4> QED
        BY <4>2
    <3>2. CASE \E i \in 1..Len(s) : op = new[i]
      <4>1. PICK i \in 1..Len(s) : op = new[i]
        BY <3>2
      <4>2. k0 + i \in DOMAIN order' /\ order'[k0 + i] = op
        BY <4>1, <1>3, <1>4, <1>7
      <4> QED
        BY <4>2
    <3> QED
      BY <3>1, <3>2, <1>8, <1>13
  <2>5. ASSUME NEW i \in DOMAIN order'
        PROVE  Settled(order[i])' \/ order'[i] \in Held' \cup Waits'
    <3>1. CASE i \in 1..k0
      <4>1. order'[i] = order[i]
        BY <3>1, <1>7
      <4>2. Settled(order[i]) \/ order[i] \in Held \cup Waits
        BY <3>1, <1>4 DEF SavesInv, OrderInv
      <4> QED
        BY <4>1, <4>2, <1>8, <1>13 DEF Settled, Ended
    <3>2. CASE \E j \in 1..Len(s) : i = k0 + j
      BY <3>2, <1>7, <1>13
    <3> QED
      BY <3>1, <3>2, <1>7, <1>12
  <2>6. ASSUME NEW i \in DOMAIN order', NEW j \in DOMAIN order', i < j,
               ~Settled(order[i])'
        PROVE  order'[j].ver \notin items'[order'[j].char] /\ order'[j] \notin Held'
    <3>1. CASE j \in 1..k0
      <4>1. i \in 1..k0
        BY <2>6, <3>1, <1>4, <1>7
      <4>2. order'[i] = order[i] /\ order'[j] = order[j]
        BY <3>1, <4>1, <1>7
      <4>3. ~Settled(order[i])
        BY <2>6, <4>2 DEF Settled, Ended
      <4> QED
        BY <2>6, <3>1, <4>1, <4>2, <4>3, <1>4, <1>8 DEF SavesInv, OrderInv
    <3>2. CASE \E b \in 1..Len(s) : j = k0 + b
      <4>1. PICK b \in 1..Len(s) : j = k0 + b
        BY <3>2
      <4>2. /\ order'[j] = new[b] /\ new[b].char \in Chars
            /\ new[b].ver = version[new[b].char] + 1
        BY <4>1, <1>5, <1>7
      <4>3. new[b].ver \notin Ended(new[b].char)
        BY <4>2, <1>15, <2>0
      <4>4. new[b] \notin Held
        BY <4>2, <1>15, <2>0
      <4> QED
        BY <4>2, <4>3, <4>4, <1>8 DEF Ended
    <3> QED
      BY <3>1, <3>2, <1>7, <1>12
  <2>7. ASSUME NEW i \in DOMAIN order', NEW j \in DOMAIN order', NEW m \in DOMAIN Ops',
               i < j, Ops'[m] = order'[i]
        PROVE  \E n \in DOMAIN Ops' : m < n /\ Ops'[n] = order'[j]
    <3>1. CASE i \in 1..k0
      <4>1. order'[i] = order[i] /\ order[i] \in Saves
        BY <3>1, <1>4, <1>7
      <4>2. m \in 1..n0
        <5>1. ASSUME NEW b \in 1..Len(s), m = n0 + b
              PROVE  FALSE
          BY <5>1, <2>7, <4>1, <3>1, <2>1, <1>5, <1>6
        <5> QED
          BY <5>1, <1>6, <1>11
      <4>3. Ops[m] = order[i]
        BY <2>7, <4>1, <4>2, <1>6
      <4>4. CASE j \in 1..k0
        <5>1. PICK n \in DOMAIN Ops : m < n /\ Ops[n] = order[j]
          BY <2>7, <3>1, <4>2, <4>3, <4>4, <1>2, <1>4 DEF SavesInv, OrderInv
        <5>2. n \in DOMAIN Ops' /\ Ops'[n] = order'[j]
          BY <5>1, <4>4, <1>2, <1>3, <1>6, <1>7
        <5> QED
          BY <5>1, <5>2
      <4>5. CASE \E b \in 1..Len(s) : j = k0 + b
        <5>1. PICK b \in 1..Len(s) : j = k0 + b
          BY <4>5
        <5>2. n0 + b \in DOMAIN Ops' /\ m < n0 + b
          BY <4>2, <1>2, <1>3, <1>6
        <5>3. Ops'[n0 + b] = order'[j]
          BY <5>1, <1>6, <1>7
        <5> QED
          BY <5>2, <5>3
      <4> QED
        BY <4>4, <4>5, <1>7, <1>12
    <3>2. CASE \E a \in 1..Len(s) : i = k0 + a
      <4>1. PICK a \in 1..Len(s) : i = k0 + a
        BY <3>2
      <4>2. order'[i] = new[a]
        BY <4>1, <1>7
      <4>3. j \notin 1..k0
        BY <2>7, <4>1, <1>3, <1>4
      <4>4. PICK b \in 1..Len(s) : j = k0 + b
        BY <4>3, <1>7, <1>12
      <4>5. m \notin 1..n0
        <5>1. ASSUME m \in 1..n0
              PROVE  FALSE
          <6>1. Ops[m] = new[a]
            BY <2>7, <4>2, <5>1, <1>6
          <6>2. new[a] \in Waits
            BY <6>1, <5>1, <1>2, <1>5 DEF Waits
          <6> QED
            BY <6>2, <1>5, <1>15, <2>0
        <5> QED
          BY <5>1
      <4>6. PICK d \in 1..Len(s) : m = n0 + d
        BY <4>5, <1>6, <1>11
      <4>7. a = d
        BY <2>7, <4>2, <4>6, <1>6, <1>9
      <4>8. n0 + b \in DOMAIN Ops' /\ m < n0 + b
        BY <2>7, <4>1, <4>4, <4>6, <4>7, <1>2, <1>3, <1>4, <1>6
      <4>9. Ops'[n0 + b] = order'[j]
        BY <4>4, <1>6, <1>7
      <4> QED
        BY <4>8, <4>9
    <3> QED
      BY <3>1, <3>2, <1>7, <1>12
  <2> QED
    BY <2>2, <2>3, <2>4, <2>5, <2>6, <2>7, <1>7 DEF OrderInv
<1> QED
  BY <1>20, <1>21, <1>22 DEF SavesInv

\* The worker takes the first of the queue.
LEMMA TakenSaves ==
    ASSUME OneWorker, TypeInv, SavesInv, NEW w \in Workers, Take(w)
    PROVE  SavesInv'
<1> DEFINE op == Ops[1]
           n0 == Len(Ops)
<1>1. /\ worker[w].at = "idle" /\ Poppable(queue) /\ queue' = Popped(queue)
      /\ worker' = [worker EXCEPT ![w] = Taken(Head(Ops))]
      /\ UNCHANGED <<rows, items, version, server, refused, torn, order>>
  BY TakeIs DEF mysql, game, history
<1>2. /\ n0 \in Nat /\ n0 > 0 /\ server # "closed"
      /\ DOMAIN Ops = 1..n0 /\ DOMAIN Ops' = 1..(n0 - 1)
      /\ \A m \in DOMAIN Ops' : m + 1 \in DOMAIN Ops /\ Ops'[m] = Ops[m + 1]
      /\ Head(Ops) = op /\ op \in Saves \cup Loads /\ op \in Operations
  BY <1>1, TakenFirst
<1>3. Held = {}
  BY <1>1, HeldByOne
<1>4. Held' = IF op \in Saves THEN {op} ELSE {}
  <2>1. Taken(op).at # "idle" /\ Taken(op).op = op
    BY <1>2, TakenFields
  <2>2. worker' = [worker EXCEPT ![w] = Taken(op)]
    BY <1>1, <1>2
  <2> HIDE DEF op
  <2> QED
    BY <2>1, <2>2, HeldByOneNext
<1>5. \A m \in DOMAIN Ops : m = 1 \/ (m - 1 \in DOMAIN Ops' /\ Ops'[m - 1] = Ops[m])
  <2> HIDE DEF op, n0
  <2> SUFFICES ASSUME NEW m \in 1..n0, m # 1
               PROVE  m - 1 \in DOMAIN Ops' /\ Ops'[m - 1] = Ops[m]
    BY <1>2
  <2>1. m - 1 \in DOMAIN Ops' /\ (m - 1) + 1 = m
    BY <1>2
  <2> QED
    BY <2>1, <1>2
<1>6. Waits' \subseteq Waits /\ Waits \subseteq Waits' \cup {op}
  <2>1. Waits' \subseteq Waits
    BY <1>2 DEF Waits
  <2>2. Waits \subseteq Waits' \cup {op}
    BY <1>2, <1>5 DEF Waits
  <2> QED
    BY <2>1, <2>2
<1>7. op \in Saves => op \in Waits
  BY <1>2 DEF Waits
<1>8. Held' \cup Waits' = Held \cup Waits
  <2>1. Held' \subseteq Waits /\ Waits \subseteq Waits' \cup Held'
    BY <1>4, <1>6, <1>7 DEF Waits
  <2> QED
    BY <2>1, <1>3, <1>6
\* The first save of a character in the queue is its earliest.
<1>9. \A m \in DOMAIN Ops : op \in Saves /\ Ops[m] \in Saves /\ Ops[m].char = op.char /\ m # 1 =>
         op.ver < Ops[m].ver
  BY <1>2 DEF SavesInv, VersionInv
<1>10. \A b \in Waits' : op \in Saves /\ b.char = op.char => op.ver < b.ver
  <2> SUFFICES ASSUME NEW b \in Waits', op \in Saves, b.char = op.char
               PROVE  op.ver < b.ver
    OBVIOUS
  <2>1. PICK m \in DOMAIN Ops' : Ops'[m] = b /\ b \in Saves
    BY DEF Waits
  <2>2. m + 1 \in DOMAIN Ops /\ Ops[m + 1] = b /\ m + 1 # 1
    BY <2>1, <1>2
  <2> HIDE DEF op
  <2> QED
    BY <2>1, <2>2, <1>9
<1>11. /\ \A c \in Chars : version[c] \in Nat
       /\ \A a \in Saves : a.char \in Chars /\ a.ver \in Nat /\ a.ver > 0
                           /\ a = Save(a.char, a.ver)
  BY SaveTypes, SaveIsRecord
<1>12. \A c \in Chars : Ended(c)' = Ended(c)
  BY <1>1 DEF Ended
<1> HIDE DEF op, n0
<1>20. VersionInv'
  <2>1. \A c \in Chars : Ended(c)' \subseteq 1..version'[c] /\ rows'[c] <= version'[c]
    BY <1>1, <1>12 DEF SavesInv, VersionInv
  <2>2. \A a \in Held' \cup Waits' :
          /\ a.ver <= version'[a.char]
          /\ torn'[a.char] \/ \A v \in Ended(a.char)' : v < a.ver
    <3>1. \A a \in Held \cup Waits : a.char \in Chars
      BY <1>11 DEF Held, Waits
    <3> QED
      BY <3>1, <1>1, <1>8, <1>12 DEF SavesInv, VersionInv
  <2>3. ASSUME NEW m \in DOMAIN Ops', NEW n \in DOMAIN Ops', Ops'[m] \in Saves,
               Ops'[n] \in Saves, Ops'[m].char = Ops'[n].char, m < n
        PROVE  Ops'[m].ver < Ops'[n].ver
    <3>1. m + 1 < n + 1
      BY <2>3, <1>2
    <3> QED
      BY <2>3, <3>1, <1>2 DEF SavesInv, VersionInv
  <2>4. \A a \in Held', b \in Waits' : a.char = b.char => a.ver < b.ver
    BY <1>4, <1>10
  <2> QED
    BY <2>1, <2>2, <2>3, <2>4 DEF VersionInv
<1>21. SettledInv'
  <2> SUFFICES ASSUME NEW c \in Chars, ~torn[c]
               PROVE  /\ items[c] \cap refused[c] = {}
                      /\ \A v \in 1..version[c] :
                           v \in Ended(c) \/ Save(c, v) \in Held' \cup Waits'
                      /\ \A v \in 1..version[c] : v \in Ended(c) \/ Save(c, v) \in Held' =>
                           1..(v - 1) \subseteq Ended(c)
    BY <1>1, <1>12 DEF SettledInv
  <2>1. /\ items[c] \cap refused[c] = {}
        /\ \A v \in 1..version[c] : v \in Ended(c) \/ Save(c, v) \in Held \cup Waits
        /\ \A v \in 1..version[c] : v \in Ended(c) \/ Save(c, v) \in Held =>
             1..(v - 1) \subseteq Ended(c)
    BY <1>2 DEF SavesInv, SettledInv
  <2>2. ASSUME NEW v \in 1..version[c], Save(c, v) \in Held', NEW u \in 1..(v - 1)
        PROVE  u \in Ended(c)
    <3>1. op = Save(c, v) /\ op \in Saves /\ op.char = c /\ op.ver = v
      BY <2>2, <1>4 DEF Save
    <3>2. u \in 1..version[c] /\ ~(v < u) /\ u # v
      BY <1>11
    <3>3. Save(c, u).char = c /\ Save(c, u).ver = u
      BY DEF Save
    <3>4. Save(c, u) \notin Waits'
      BY <1>10, <3>1, <3>2, <3>3
    <3>5. Save(c, u) \notin Held'
      BY <1>4, <3>1, <3>2, <3>3
    <3> QED
      BY <2>1, <3>2, <3>4, <3>5, <1>8
  <2> QED
    BY <2>1, <2>2, <1>8
<1>22. OrderInv'
  <2>1. order \in Seq(Saves) /\ \A i \in DOMAIN order : order[i] \in Saves
    BY DEF SavesInv, OrderInv
  <2>2. \A i \in DOMAIN order : Settled(order[i])' <=> Settled(order[i])
    BY <1>1 DEF Settled, Ended
  <2>3. /\ \A i \in DOMAIN order' : order'[i].ver <= version'[order'[i].char]
        /\ \A i, j \in DOMAIN order' : order'[i] = order'[j] => i = j
        /\ \A a \in Held' \cup Waits' : \E j \in DOMAIN order' : order'[j] = a
        /\ server' # "closed" => \A i \in DOMAIN order' :
             Settled(order[i])' \/ order'[i] \in Held' \cup Waits'
    BY <2>2, <1>1, <1>8 DEF SavesInv, OrderInv
  <2>4. ASSUME NEW i \in DOMAIN order, NEW j \in DOMAIN order, i < j, ~Settled(order[i])
        PROVE  order[j].ver \notin items[order[j].char] /\ order[j] \notin Held'
    <3>1. order[j].ver \notin items[order[j].char]
      BY <2>4 DEF SavesInv, OrderInv
    <3>2. ASSUME order[j] \in Held'
          PROVE  FALSE
      <4>1. order[j] = op /\ op \in Saves
        BY <3>2, <1>4
      <4>2. order[i] \in Waits
        BY <2>4, <1>2, <1>3 DEF SavesInv, OrderInv
      <4>3. PICK m \in DOMAIN Ops : Ops[m] = order[i]
        BY <4>2 DEF Waits
      <4>4. PICK n \in DOMAIN Ops : m < n /\ Ops[n] = order[j]
        BY <2>4, <4>3 DEF SavesInv, OrderInv
      <4>5. n # 1
        BY <4>4, <1>2
      <4> QED
        BY <4>1, <4>4, <4>5, <1>9, <1>11
    <3> QED
      BY <3>1, <3>2
  <2>5. ASSUME NEW i \in DOMAIN order, NEW j \in DOMAIN order, NEW m \in DOMAIN Ops',
               i < j, Ops'[m] = order[i]
        PROVE  \E n \in DOMAIN Ops' : m < n /\ Ops'[n] = order[j]
    <3>1. m + 1 \in DOMAIN Ops /\ Ops[m + 1] = order[i] /\ m \in Nat /\ m >= 1
      BY <2>5, <1>2
    <3>2. PICK n \in DOMAIN Ops : m + 1 < n /\ Ops[n] = order[j]
      BY <2>5, <3>1 DEF SavesInv, OrderInv
    <3>3. n \in Nat /\ n # 1 /\ m < n - 1
      BY <3>1, <3>2, <1>2
    <3>4. n - 1 \in DOMAIN Ops' /\ Ops'[n - 1] = Ops[n]
      BY <3>3, <1>5
    <3> QED
      BY <3>2, <3>3, <3>4
  <2> QED
    BY <2>1, <2>2, <2>3, <2>4, <2>5, <1>1 DEF OrderInv
<1> QED
  BY <1>20, <1>21, <1>22 DEF SavesInv

\* A save is written or refused, or a part of it is written without a
\* transaction; then, or later, the worker is done with it.
LEMMA SettledSaves ==
    ASSUME TypeInv, SavesInv, NEW op \in Held, Held = {op},
           Ops' = Ops, UNCHANGED <<version, server, torn, order>>,
           Held' = {} \/ (Held' = Held /\ torn[op.char]),
           rows' = rows \/ rows' = [rows EXCEPT ![op.char] = op.ver],
           \/ UNCHANGED <<items, refused>> /\ torn[op.char]
           \/ items' = [items EXCEPT ![op.char] = @ \cup {op.ver}] /\ refused' = refused
           \/ refused' = [refused EXCEPT ![op.char] = @ \cup {op.ver}] /\ items' = items
    PROVE  SavesInv'
<1>1. /\ \A c \in Chars : /\ items[c] \in SUBSET (Nat \ {0})
                          /\ refused[c] \in SUBSET (Nat \ {0})
                          /\ version[c] \in Nat /\ torn[c] \in BOOLEAN
                          /\ rows[c] \in Nat
      /\ DOMAIN Ops = 1..Len(Ops) /\ Len(Ops) \in Nat
  BY SaveTypes
<1>2. /\ op \in Saves /\ op.char \in Chars /\ op.ver \in Nat /\ op.ver > 0
      /\ op = Save(op.char, op.ver)
      /\ \A a \in Saves : a.char \in Chars /\ a.ver \in Nat /\ a.ver > 0
                          /\ a = Save(a.char, a.ver)
  BY SaveIsRecord DEF Held
<1>3. DOMAIN rows = Chars /\ DOMAIN items = Chars /\ DOMAIN refused = Chars
  BY DEF TypeInv, TypeOK
<1>4. Waits' = Waits
  BY DEF Waits
<1>5. /\ op.ver <= version[op.char]
      /\ torn[op.char] \/ \A v \in Ended(op.char) : v < op.ver
      /\ \A b \in Waits : b.char = op.char => op.ver < b.ver
  BY DEF SavesInv, VersionInv
\* What is done grows by the save at most, and it does unless it is torn.
<1>6. ASSUME NEW c \in Chars
      PROVE  /\ c # op.char => items'[c] = items[c] /\ refused'[c] = refused[c]
                               /\ rows'[c] = rows[c]
             /\ Ended(c) \subseteq Ended(c)'
             /\ \A v \in Ended(c)' : v \in Ended(c) \/ (c = op.char /\ v = op.ver)
             /\ \A v \in items'[c] : v \in items[c] \/ (c = op.char /\ v = op.ver)
             /\ \/ op.ver \in Ended(op.char)'
                \/ torn[op.char]
             /\ rows'[c] = rows[c] \/ (c = op.char /\ rows'[c] = op.ver)
  <2>1. rows'[c] = rows[c] \/ (c = op.char /\ rows'[c] = op.ver)
    BY <1>2, <1>3
  <2>2. CASE UNCHANGED <<items, refused>> /\ torn[op.char]
    BY <2>1, <2>2 DEF Ended
  <2>3. CASE items' = [items EXCEPT ![op.char] = @ \cup {op.ver}] /\ refused' = refused
    <3>1. items'[c] = IF c = op.char THEN items[c] \cup {op.ver} ELSE items[c]
      BY <2>3, <1>3
    <3>2. items'[op.char] = items[op.char] \cup {op.ver}
      BY <2>3, <1>2, <1>3
    <3> QED
      BY <2>1, <2>3, <3>1, <3>2 DEF Ended
  <2>4. CASE refused' = [refused EXCEPT ![op.char] = @ \cup {op.ver}] /\ items' = items
    <3>1. refused'[c] = IF c = op.char THEN refused[c] \cup {op.ver} ELSE refused[c]
      BY <2>4, <1>3
    <3>2. refused'[op.char] = refused[op.char] \cup {op.ver}
      BY <2>4, <1>2, <1>3
    <3> QED
      BY <2>1, <2>4, <3>1, <3>2 DEF Ended
  <2> QED
    BY <2>2, <2>3, <2>4
<1>7. Held' \subseteq Held
  OBVIOUS
<1>20. VersionInv'
  <2>1. ASSUME NEW c \in Chars
        PROVE  Ended(c)' \subseteq 1..version[c] /\ rows'[c] <= version[c]
    <3>1. Ended(c) \subseteq 1..version[c] /\ rows[c] <= version[c]
      BY DEF SavesInv, VersionInv
    <3>2. c = op.char => op.ver \in 1..version[c] /\ op.ver <= version[c]
      BY <1>1, <1>2, <1>5
    <3> QED
      BY <3>1, <3>2, <1>6
  <2>2. ASSUME NEW a \in Held' \cup Waits
        PROVE  /\ a.ver <= version[a.char]
               /\ torn[a.char] \/ \A v \in Ended(a.char)' : v < a.ver
    <3>1. a.char \in Chars /\ a.ver <= version[a.char]
      BY <1>2, <1>7 DEF SavesInv, VersionInv, Waits, Held
    <3>2. torn[a.char] \/ \A v \in Ended(a.char) : v < a.ver
      BY <1>7 DEF SavesInv, VersionInv
    <3>3. a \in Held' => a = op /\ torn[op.char]
      OBVIOUS
    <3>4. a \in Waits /\ a.char = op.char => op.ver < a.ver
      BY <1>5
    <3> QED
      BY <3>1, <3>2, <3>3, <3>4, <1>6
  <2>3. \A m, n \in DOMAIN Ops' :
          Ops'[m] \in Saves /\ Ops'[n] \in Saves /\ Ops'[m].char = Ops'[n].char /\ m < n =>
             Ops'[m].ver < Ops'[n].ver
    BY DEF SavesInv, VersionInv
  <2>4. \A a \in Held', b \in Waits' : a.char = b.char => a.ver < b.ver
    BY <1>4, <1>7 DEF SavesInv, VersionInv
  <2> QED
    BY <2>1, <2>2, <2>3, <2>4, <1>4 DEF VersionInv
<1>21. SettledInv'
  <2> SUFFICES ASSUME NEW c \in Chars, ~torn[c]
               PROVE  /\ items'[c] \cap refused'[c] = {}
                      /\ server # "closed" => \A v \in 1..version[c] :
                           v \in Ended(c)' \/ Save(c, v) \in Held' \cup Waits
                      /\ \A v \in 1..version[c] : v \in Ended(c)' \/ Save(c, v) \in Held' =>
                           1..(v - 1) \subseteq Ended(c)'
    BY <1>4 DEF SettledInv
  <2>1. /\ items[c] \cap refused[c] = {}
        /\ server # "closed" => \A v \in 1..version[c] :
             v \in Ended(c) \/ Save(c, v) \in Held \cup Waits
        /\ \A v \in 1..version[c] : v \in Ended(c) \/ Save(c, v) \in Held =>
             1..(v - 1) \subseteq Ended(c)
    BY DEF SavesInv, SettledInv
  <2>2. CASE c # op.char
    <3>1. \A v : Save(c, v) # op
      BY <2>2 DEF Save
    <3> QED
      BY <2>1, <2>2, <3>1, <1>6 DEF Ended
  <2>3. CASE c = op.char
    <3>1. Held' = {} /\ op.ver \in Ended(c)' /\ \A v \in Ended(c) : v < op.ver
      BY <2>3, <1>5, <1>6
    <3>2. items'[c] \cap refused'[c] = {}
      <4>1. op.ver \notin items[c] /\ op.ver \notin refused[c]
        BY <3>1, <1>2 DEF Ended
      <4>2. \/ items'[c] = items[c] \cup {op.ver} /\ refused'[c] = refused[c]
            \/ refused'[c] = refused[c] \cup {op.ver} /\ items'[c] = items[c]
        BY <2>3, <1>3
      <4> QED
        BY <2>1, <4>1, <4>2
    <3>3. \A v : Save(c, v) \in Held => v = op.ver
      BY DEF Save
    <3>4. server # "closed" => \A v \in 1..version[c] :
             v \in Ended(c)' \/ Save(c, v) \in Held' \cup Waits
      BY <2>1, <3>1, <3>3, <1>6
    <3>5. 1..(op.ver - 1) \subseteq Ended(c)
      <4>1. op.ver \in 1..version[c] /\ Save(c, op.ver) \in Held
        BY <2>3, <1>1, <1>2, <1>5
      <4> QED
        BY <2>1, <4>1
    <3>6. \A v \in 1..version[c] : v \in Ended(c)' => 1..(v - 1) \subseteq Ended(c)'
      <4> SUFFICES ASSUME NEW v \in 1..version[c], v \in Ended(c)'
                   PROVE  1..(v - 1) \subseteq Ended(c)
        BY <1>6
      <4>1. v \in Ended(c) \/ v = op.ver
        BY <1>6
      <4> QED
        BY <2>1, <3>5, <4>1
    <3> QED
      BY <3>1, <3>2, <3>4, <3>6
  <2> QED
    BY <2>2, <2>3
<1>22. OrderInv'
  <2>1. order \in Seq(Saves) /\ \A i \in DOMAIN order : order[i] \in Saves
    BY DEF SavesInv, OrderInv
  <2>2. \A i \in DOMAIN order : Settled(order[i]) => Settled(order[i])'
    BY <2>1, <1>2, <1>6 DEF Settled
  <2>3. \A i \in DOMAIN order : order[i] = op => Settled(order[i])'
    BY <2>1, <1>2, <1>6 DEF Settled
  <2>4. /\ \A i \in DOMAIN order : order[i].ver <= version[order[i].char]
        /\ \A i, j \in DOMAIN order : order[i] = order[j] => i = j
        /\ \A a \in Held' \cup Waits : \E j \in DOMAIN order : order[j] = a
    BY <1>7 DEF SavesInv, OrderInv
  <2>5. server # "closed" => \A i \in DOMAIN order :
           Settled(order[i])' \/ order[i] \in Held' \cup Waits
    BY <2>2, <2>3 DEF SavesInv, OrderInv
  <2>6. ASSUME NEW i \in DOMAIN order, NEW j \in DOMAIN order, i < j, ~Settled(order[i])'
        PROVE  order[j].ver \notin items'[order[j].char] /\ order[j] \notin Held'
    <3>1. order[j].ver \notin items[order[j].char] /\ order[j] \notin Held
      BY <2>2, <2>6 DEF SavesInv, OrderInv
    <3>2. ~(order[j].char = op.char /\ order[j].ver = op.ver)
      BY <3>1, <2>1, <1>2
    <3> QED
      BY <3>1, <3>2, <2>1, <1>2, <1>6, <1>7
  <2>7. \A i, j \in DOMAIN order, m \in DOMAIN Ops' : i < j /\ Ops'[m] = order[i] =>
           \E n \in DOMAIN Ops' : m < n /\ Ops'[n] = order[j]
    BY DEF SavesInv, OrderInv
  <2> QED
    BY <2>1, <2>4, <2>5, <2>6, <2>7, <1>4 DEF OrderInv
<1> QED
  BY <1>20, <1>21, <1>22 DEF SavesInv

\* The pool is closed: what waited is gone, what the worker discards too.
LEMMA ClosedSaves ==
    ASSUME TypeInv, SavesInv,
           UNCHANGED <<rows, items, refused, torn, version, order>>,
           server' = "closed", Ops' = <<>>, Held' \subseteq Held
    PROVE  SavesInv'
<1>1. Waits' = {} /\ DOMAIN Ops' = {}
  BY EmptySeq DEF Waits
<1>2. \A c \in Chars : Ended(c)' = Ended(c)
  BY DEF Ended
<1>3. Held \subseteq Saves /\ \A a \in Saves : a.char \in Chars
  BY SaveIsRecord DEF Held
<1>4. VersionInv'
  <2>1. \A c \in Chars : Ended(c)' \subseteq 1..version'[c] /\ rows'[c] <= version'[c]
    BY <1>2 DEF SavesInv, VersionInv
  <2>2. \A a \in Held' :
          /\ a.ver <= version'[a.char]
          /\ torn'[a.char] \/ \A v \in Ended(a.char)' : v < a.ver
    BY <1>2, <1>3 DEF SavesInv, VersionInv
  <2> QED
    BY <1>1, <2>1, <2>2 DEF VersionInv
<1>5. SettledInv'
  BY <1>2 DEF SavesInv, SettledInv
<1>6. OrderInv'
  <2>1. \A i \in DOMAIN order : Settled(order[i])' <=> Settled(order[i])
    BY DEF Settled, Ended
  <2>2. /\ order \in Seq(Saves)
        /\ \A i \in DOMAIN order : order[i].ver <= version[order[i].char]
        /\ \A i, j \in DOMAIN order : order[i] = order[j] => i = j
        /\ \A a \in Held' : \E j \in DOMAIN order : order[j] = a
    BY DEF SavesInv, OrderInv
  <2>3. \A i, j \in DOMAIN order : i < j /\ ~Settled(order[i])' =>
           order[j].ver \notin items[order[j].char] /\ order[j] \notin Held'
    BY <2>1 DEF SavesInv, OrderInv
  <2> QED
    BY <1>1, <2>2, <2>3 DEF OrderInv
<1> QED
  BY <1>4, <1>5, <1>6 DEF SavesInv

\* After a restart the saves are those that were stored.
LEMMA RestartedSaves ==
    ASSUME TypeInv, SavesInv, TransactionsAreWhole, Restart
    PROVE  SavesInv'
<1>1. /\ UNCHANGED <<rows, items, torn>>
      /\ version' = [c \in Chars |-> Stored(c)]
      /\ refused' = [c \in Chars |-> {v \in refused[c] : v <= Stored(c)}]
      /\ order' = <<>> /\ Ops' = <<>>
      /\ \A w \in Workers : worker'[w].at = "idle"
  BY DEF Restart, NewQueue, Ops, Waiting
<1>2. Held' = {} /\ Waits' = {} /\ DOMAIN Ops' = {} /\ DOMAIN order' = {}
  BY <1>1, EmptySeq DEF Held, Waits
<1>3. ASSUME NEW c \in Chars
      PROVE  /\ items[c] \in SUBSET (Nat \ {0}) /\ refused[c] \in SUBSET (Nat \ {0})
             /\ version[c] \in Nat /\ rows[c] \in Nat
             /\ Stored(c) \in Nat /\ version'[c] = Stored(c)
             /\ \A v \in {0, rows[c]} \cup items[c] : v <= Stored(c)
             /\ Stored(c) \in {0, rows[c]} \cup items[c]
             /\ refused'[c] = {v \in refused[c] : v <= Stored(c)}
  BY <1>1, SaveTypes, StoredIs DEF TypeInv
<1>4. VersionInv'
  <2> SUFFICES ASSUME NEW c \in Chars
               PROVE  Ended(c)' \subseteq 1..version'[c] /\ rows'[c] <= version'[c]
    BY <1>2 DEF VersionInv
  <2> QED
    BY <1>1, <1>3 DEF Ended
<1>5. SettledInv'
  <2> SUFFICES ASSUME NEW c \in Chars, ~torn[c]
               PROVE  /\ items[c] \cap refused'[c] = {}
                      /\ \A v \in 1..Stored(c) : v \in items[c] \cup refused'[c]
    BY <1>1, <1>2, <1>3 DEF SettledInv, Ended
  <2>1. /\ items[c] \cap refused[c] = {}
        /\ \A v \in 1..version[c] : v \in Ended(c) => 1..(v - 1) \subseteq Ended(c)
    BY DEF SavesInv, SettledInv
  <2>2. Ended(c) \subseteq 1..version[c]
    BY DEF SavesInv, VersionInv
  <2>3. Stored(c) # 0 => Stored(c) \in items[c]
    <3>1. rows[c] = Max({0} \cup items[c])
      BY DEF TransactionsAreWhole
    <3>2. PICK m \in {0} \cup items[c] : \A v \in items[c] : v <= m
      BY DEF TypeInv, StoredInv
    <3> DEFINE S == {0} \cup items[c]
    <3>3. m \in S /\ \A y \in S : m >= y
      BY <3>2, <1>3
    <3> HIDE DEF S
    <3>4. Max(S) \in S
      BY <3>3 DEF Max
    <3>5. rows[c] \in {0} \cup items[c]
      BY <3>1, <3>4 DEF S
    <3> QED
      BY <3>5, <1>3
  <2>4. \A v \in 1..Stored(c) : v \in Ended(c)
    <3> SUFFICES ASSUME NEW v \in 1..Stored(c)
                 PROVE  v \in Ended(c)
      OBVIOUS
    <3>1. Stored(c) \in items[c] /\ Stored(c) \in Ended(c)
      BY <2>3, <1>3 DEF Ended
    <3>2. 1..(Stored(c) - 1) \subseteq Ended(c)
      BY <2>1, <2>2, <3>1
    <3>3. v = Stored(c) \/ v \in 1..(Stored(c) - 1)
      BY <1>3
    <3> QED
      BY <3>1, <3>2, <3>3
  <2>5. \A v \in 1..Stored(c) : v \in items[c] \cup refused'[c]
    BY <2>4, <1>3 DEF Ended
  <2> QED
    BY <2>1, <2>5, <1>3
<1>6. OrderInv'
  <2>1. order' \in Seq(Saves)
    BY <1>1, EmptySeq
  <2> QED
    BY <1>2, <2>1 DEF OrderInv
<1> QED
  BY <1>4, <1>5, <1>6 DEF SavesInv

---------------------------------------------------------------------------
(* Row and items.                                                          *)

LEMMA MaxIs ==
    ASSUME NEW S \in SUBSET Nat, NEW x \in S, \A y \in S : x >= y
    PROVE  Max(S) = x
<1>1. \A z \in S : (\A y \in S : z >= y) => z = x
  OBVIOUS
<1> QED
  BY <1>1 DEF Max

LEMMA WholeAlone ==
    ASSUME TransactionsAreWhole, UNCHANGED <<rows, items>>,
           \A c \in Chars : torn[c] => torn'[c]
    PROVE  TransactionsAreWhole'
  BY DEF TransactionsAreWhole

\* Only the character of the save changes; both parts do, or it is torn.
LEMMA WholeGrows ==
    ASSUME TypeInv, VersionInv, TransactionsAreWhole, NEW op \in Held, torn' = torn,
           \/ /\ rows' = [rows EXCEPT ![op.char] = op.ver]
              /\ items' = [items EXCEPT ![op.char] = @ \cup {op.ver}]
           \/ /\ torn[op.char]
              /\ \A c \in Chars : c # op.char => rows'[c] = rows[c] /\ items'[c] = items[c]
    PROVE  TransactionsAreWhole'
<1>1. op.char \in Chars /\ op.ver \in Nat
  BY SaveIsRecord DEF Held
<1>2. rows \in [Chars -> Nat] /\ items \in [Chars -> SUBSET (Nat \ {0})]
  BY DEF TypeInv, TypeOK
<1>3. torn[op.char] \/ \A v \in items[op.char] : v < op.ver
  BY DEF VersionInv, Ended
<1> SUFFICES ASSUME NEW c \in Chars, ~torn[c]
             PROVE  rows'[c] = Max({0} \cup items'[c])
  BY DEF TransactionsAreWhole
<1>4. CASE c # op.char
  <2>1. rows'[c] = rows[c] /\ items'[c] = items[c]
    BY <1>2, <1>4
  <2> QED
    BY <2>1 DEF TransactionsAreWhole
<1>5. CASE c = op.char
  <2>1. rows'[c] = op.ver /\ items'[c] = items[c] \cup {op.ver}
    BY <1>1, <1>2, <1>5
  <2> DEFINE S == {0} \cup items'[c]
  <2>2. S \in SUBSET Nat /\ op.ver \in S
    BY <1>1, <1>2, <2>1
  <2>3. \A y \in S : op.ver >= y
    BY <1>1, <1>2, <1>3, <1>5, <2>1
  <2> HIDE DEF S
  <2>4. Max(S) = op.ver
    BY <2>2, <2>3, MaxIs
  <2> QED
    BY <2>1, <2>4 DEF S
<1> QED
  BY <1>4, <1>5

---------------------------------------------------------------------------
(* The loads.                                                              *)

LEMMA LoadTypes ==
    ASSUME TypeInv
    PROVE  /\ \A m \in DOMAIN Ops : Ops[m].char \in Chars
           /\ \A w \in Workers : worker[w].at = "read" =>
                worker[w].op \in Loads /\ worker[w].op.char \in Chars
           /\ \A op \in Held \cup Waits : op \in Saves /\ op.char \in Chars /\ op.kind = "save"
<1>1. \A op \in Saves \cup Loads : op.char \in Chars
  BY DEF Saves, Loads, Operations
<1>2. \A w \in Workers : worker[w].at = "read" => worker[w].op \in Loads
  BY WorkerFacts DEF WorkerOk
<1> QED
  BY <1>1, <1>2, SaveTypes DEF Held, Waits, Saves

\* A step of the worker that reads nothing.
LEMMA LoadsAlone ==
    ASSUME TypeInv, LoadInv,
           UNCHANGED <<place, loaded, server>>, Ops' = Ops,
           \A c \in Chars : torn[c] => torn'[c],
           \A v \in Workers : worker'[v].at = "read" => worker'[v] = worker[v],
           Held' \subseteq Held,
           \A c \in Chars : Quiet(c) => rows'[c] = rows[c] /\ items'[c] = items[c]
    PROVE  LoadInv'
<1>1. Waits' = Waits
  BY DEF Waits
<1>2. \A c \in Chars : Quiet(c) => Quiet(c)'
  BY <1>1 DEF Quiet
<1>3. LoadQueued'
  BY DEF LoadInv, LoadQueued
<1>4. LoadReads'
  <2>0. \A w \in Workers : worker'[w].at = "read" =>
           worker'[w] = worker[w] /\ worker'[w].op.char \in Chars
    BY LoadTypes
  <2> SUFFICES ASSUME server = "running", NEW w \in Workers, worker'[w].at = "read",
                      NEW c \in Chars, c = worker'[w].op.char
               PROVE  /\ place[c] = "loading" /\ ~loaded[c].ready /\ Quiet(c)'
                      /\ worker'[w].next = 1 => loaded[c] = NoHolder
                      /\ worker'[w].next = 2 /\ ~loaded[c].failed /\ ~torn'[c] =>
                           loaded[c].row = rows'[c]
    BY <2>0 DEF LoadReads, Quiet
  <2>1. worker'[w] = worker[w]
    BY <2>0
  <2> QED
    BY <2>1, <1>2 DEF LoadInv, LoadReads
<1>5. LoadReady'
  BY <1>2 DEF LoadInv, LoadReady
<1> QED
  BY <1>3, <1>4, <1>5 DEF LoadInv

\* Saves of characters that do not wait for a login.
LEMMA LoadsSaved ==
    ASSUME TypeInv, LoadInv, server = "running", server' = "running",
           NEW s \in Seq(Chars), \A i, j \in DOMAIN s : s[i] = s[j] => i = j,
           SavesToDB(s), \A i \in DOMAIN s : place[s[i]] # "loading",
           UNCHANGED <<rows, items, torn, worker, loaded>>,
           \A c \in Chars : place'[c] = "loading" <=> place[c] = "loading"
    PROVE  LoadInv'
<1> DEFINE new == NewSaves(s)
           n0 == Len(Ops)
<1>1. /\ new \in Seq(Saves) /\ Len(new) = Len(s)
      /\ \A i \in 1..Len(s) : new[i] = Save(s[i], version[s[i]] + 1)
      /\ queue' = [queue EXCEPT !.items = @ \o new]
  BY SavesMade DEF TypeInv
<1>2. /\ Ops \in Seq(Operations) /\ n0 \in Nat /\ DOMAIN Ops = 1..n0
      /\ \A m \in DOMAIN Ops : Ops[m].char \in Chars
      /\ Len(s) \in Nat /\ DOMAIN s = 1..Len(s)
  BY SaveTypes, LoadTypes
<1>3. /\ DOMAIN Ops' = 1..(n0 + Len(s))
      /\ \A m \in 1..(n0 + Len(s)) :
           Ops'[m] = IF m <= n0 THEN Ops[m] ELSE new[m - n0]
  <2>1. queue \in [items : Seq(Operations), shutdown : BOOLEAN]
    BY DEF TypeInv, TypeOK
  <2>2. Ops' = Ops \o new
    BY <1>1, <2>1 DEF Ops
  <2>3. new \in Seq(Operations)
    BY <1>1 DEF Saves
  <2> HIDE DEF new
  <2>4. /\ Ops \o new \in Seq(Operations)
        /\ Len(Ops \o new) = Len(Ops) + Len(new)
        /\ \A i \in 1..Len(Ops) + Len(new) :
             (Ops \o new)[i] = IF i <= Len(Ops) THEN Ops[i] ELSE new[i - Len(Ops)]
    BY <1>2, <2>3, ConcatProperties
  <2> QED
    BY <1>1, <1>2, <2>2, <2>4
<1>4. ASSUME NEW m \in DOMAIN Ops', m \notin DOMAIN Ops
      PROVE  /\ Ops'[m].kind = "save" /\ Ops'[m].char \in Chars
             /\ place[Ops'[m].char] # "loading"
  <2>1. m - n0 \in 1..Len(s) /\ Ops'[m] = new[m - n0]
    BY <1>2, <1>3, <1>4
  <2>2. Ops'[m] = Save(s[m - n0], version[s[m - n0]] + 1)
    BY <1>1, <2>1
  <2>3. Ops'[m].kind = "save" /\ Ops'[m].char = s[m - n0]
    BY <2>2 DEF Save
  <2> QED
    BY <2>1, <2>3, <1>2
<1>5. \A m \in DOMAIN Ops : m \in DOMAIN Ops' /\ Ops'[m] = Ops[m]
  BY <1>2, <1>3
<1> HIDE DEF new, n0
<1>6. \A c \in Chars : place[c] = "loading" /\ Quiet(c) => Quiet(c)'
  <2>1. Held' = Held
    BY DEF Held
  <2>2. \A op \in Waits' : op \in Waits \/ place[op.char] # "loading"
    BY <1>4, <1>5 DEF Waits
  <2> QED
    BY <2>1, <2>2 DEF Quiet
<1>7. LoadQueued'
  <2> SUFFICES ASSUME NEW m \in DOMAIN Ops', Ops'[m].kind = "load"
               PROVE  LET c == Ops'[m].char IN
                      /\ place'[c] = "loading" /\ loaded[c] = NoHolder
                      /\ \A w \in Workers : worker[w].at = "read" => worker[w].op.char # c
                      /\ \A n \in DOMAIN Ops' :
                           n > m \/ (n # m /\ Ops'[n].kind = "load") => Ops'[n].char # c
    BY DEF LoadQueued
  <2>1. m \in DOMAIN Ops /\ Ops'[m] = Ops[m] /\ Ops[m].char \in Chars
    BY <1>2, <1>4, <1>5
  <2>2. /\ place[Ops[m].char] = "loading" /\ loaded[Ops[m].char] = NoHolder
        /\ \A w \in Workers : worker[w].at = "read" => worker[w].op.char # Ops[m].char
        /\ \A n \in DOMAIN Ops :
             n > m \/ (n # m /\ Ops[n].kind = "load") => Ops[n].char # Ops[m].char
    BY <2>1 DEF LoadInv, LoadQueued
  <2>3. ASSUME NEW n \in DOMAIN Ops', n > m \/ (n # m /\ Ops'[n].kind = "load")
        PROVE  Ops'[n].char # Ops[m].char
    <3>1. CASE n \in DOMAIN Ops
      BY <2>2, <2>3, <3>1, <1>5
    <3>2. CASE n \notin DOMAIN Ops
      BY <2>2, <3>2, <1>4
    <3> QED
      BY <3>1, <3>2
  <2> QED
    BY <2>1, <2>2, <2>3
<1>8. LoadReads'
  <2> SUFFICES ASSUME NEW w \in Workers, worker[w].at = "read"
               PROVE  LET c == worker[w].op.char IN
                      /\ place'[c] = "loading" /\ ~loaded[c].ready /\ Quiet(c)'
                      /\ worker[w].next = 1 => loaded[c] = NoHolder
                      /\ worker[w].next = 2 /\ ~loaded[c].failed /\ ~torn[c] =>
                           loaded[c].row = rows[c]
    BY DEF LoadReads, Quiet
  <2>1. worker[w].op.char \in Chars
    BY LoadTypes
  <2> QED
    BY <2>1, <1>6 DEF LoadInv, LoadReads
<1>9. LoadReady'
  BY <1>6 DEF LoadInv, LoadReady
<1> QED
  BY <1>7, <1>8, <1>9 DEF LoadInv

\* DelayQueryHolder: the character waits, and nothing of it is in the queue behind.
LEMMA LoadsLogin ==
    ASSUME TypeInv, LoadInv, NEW c \in Chars, Login(c)
    PROVE  LoadInv'
<1>1. /\ server = "running" /\ place[c] = "offline"
      /\ place' = [place EXCEPT ![c] = "loading"]
      /\ UNCHANGED <<worker, rows, items, loaded, server, torn>>
  BY DEF Login, mysql, history
<1>2. /\ Load(c) \notin Saves /\ Len(Ops) \in Nat
      /\ DOMAIN Ops = 1..Len(Ops) /\ DOMAIN Ops' = 1..(Len(Ops) + 1)
      /\ \A m \in DOMAIN Ops : Ops'[m] = Ops[m]
      /\ Ops'[Len(Ops) + 1] = Load(c)
  BY LoadQueuedLast DEF Login, TypeInv
<1>3. DOMAIN place = Chars
  BY DEF TypeInv, TypeOK
<1>4. /\ place'[c] = "loading" /\ \A d \in Chars : d # c => place'[d] = place[d]
      /\ \A d \in Chars : place[d] = "loading" => d # c
  BY <1>1, <1>3
<1>5. Held' = Held /\ Waits' = Waits
  <2>1. Held' = Held
    BY <1>1 DEF Held
  <2>2. Waits' = Waits
    BY <1>2 DEF Waits
  <2> QED
    BY <2>1, <2>2
<1>6. \A d \in Chars : Quiet(d)' <=> Quiet(d)
  BY <1>5 DEF Quiet
<1>7. loaded[c] = NoHolder /\ ~NoHolder.ready
  BY <1>1 DEF LoadInv, LoadReady, NoHolder
<1>8. Load(c).char = c /\ Load(c).kind = "load"
  BY DEF Load
<1>9. LoadQueued'
  <2> SUFFICES ASSUME NEW m \in DOMAIN Ops', Ops'[m].kind = "load"
               PROVE  LET d == Ops'[m].char IN
                      /\ place'[d] = "loading" /\ loaded[d] = NoHolder
                      /\ \A w \in Workers : worker[w].at = "read" => worker[w].op.char # d
                      /\ \A n \in DOMAIN Ops' :
                           n > m \/ (n # m /\ Ops'[n].kind = "load") => Ops'[n].char # d
    BY <1>1 DEF LoadQueued
  <2>1. CASE m \in DOMAIN Ops
    <3>1. Ops'[m] = Ops[m] /\ Ops[m].char \in Chars
      BY <2>1, <1>2, LoadTypes
    <3>2. /\ place[Ops[m].char] = "loading" /\ loaded[Ops[m].char] = NoHolder
          /\ \A w \in Workers : worker[w].at = "read" => worker[w].op.char # Ops[m].char
          /\ \A n \in DOMAIN Ops :
               n > m \/ (n # m /\ Ops[n].kind = "load") => Ops[n].char # Ops[m].char
      BY <2>1, <3>1, <1>1 DEF LoadInv, LoadQueued
    <3>3. Ops[m].char # c
      BY <3>1, <3>2, <1>4
    <3>4. ASSUME NEW n \in DOMAIN Ops', n > m \/ (n # m /\ Ops'[n].kind = "load")
          PROVE  Ops'[n].char # Ops[m].char
      <4>1. CASE n \in DOMAIN Ops
        BY <3>2, <3>4, <4>1, <1>2
      <4>2. CASE n = Len(Ops) + 1
        BY <3>3, <4>2, <1>2, <1>8
      <4> QED
        BY <4>1, <4>2, <1>2
    <3> QED
      BY <3>1, <3>2, <3>3, <3>4, <1>4
  <2>2. CASE m = Len(Ops) + 1
    <3>1. Ops'[m] = Load(c)
      BY <2>2, <1>2
    <3>2. \A w \in Workers : worker[w].at = "read" => worker[w].op.char # c
      BY <1>1, <1>4, LoadTypes DEF LoadInv, LoadReads
    <3>3. ASSUME NEW n \in DOMAIN Ops', n > m \/ (n # m /\ Ops'[n].kind = "load")
          PROVE  Ops'[n].char # c
      <4>1. n \in DOMAIN Ops /\ Ops[n].kind = "load" /\ Ops'[n] = Ops[n]
        BY <2>2, <3>3, <1>2
      <4>2. place[Ops[n].char] = "loading"
        BY <4>1, <1>1 DEF LoadInv, LoadQueued
      <4> QED
        BY <4>1, <4>2, <1>1
    <3> QED
      BY <3>1, <3>2, <3>3, <1>4, <1>7, <1>8
  <2> QED
    BY <2>1, <2>2, <1>2
<1>10. LoadReads'
  <2> SUFFICES ASSUME NEW w \in Workers, worker[w].at = "read",
                      NEW d \in Chars, d = worker[w].op.char
               PROVE  /\ place'[d] = "loading" /\ ~loaded[d].ready /\ Quiet(d)'
                      /\ worker[w].next = 1 => loaded[d] = NoHolder
                      /\ worker[w].next = 2 /\ ~loaded[d].failed /\ ~torn[d] =>
                           loaded[d].row = rows[d]
    BY <1>1, LoadTypes DEF LoadReads, Quiet
  <2> QED
    BY <1>1, <1>4, <1>6 DEF LoadInv, LoadReads
<1>11. LoadReady'
  <2> SUFFICES ASSUME NEW d \in Chars
               PROVE  /\ place'[d] = "loading" /\ loaded[d].ready =>
                           /\ Quiet(d)'
                           /\ ~loaded[d].failed /\ ~torn[d] =>
                                loaded[d].items = items[d] /\ loaded[d].row = rows[d]
                      /\ place'[d] # "loading" => loaded[d] = NoHolder
    BY <1>1 DEF LoadReady
  <2> QED
    BY <1>1, <1>4, <1>6, <1>7 DEF LoadInv, LoadReady
<1> QED
  BY <1>9, <1>10, <1>11 DEF LoadInv

\* HandlePlayerLogin, which needs the holder to be ready.
LEMMA LoadsUsed ==
    ASSUME TypeInv, LoadInv, NEW c \in Chars, HandlePlayerLogin(c)
    PROVE  LoadInv'
<1>1. /\ server = "running" /\ place[c] = "loading" /\ loaded[c].ready
      /\ UNCHANGED <<queue, worker, rows, items, server, torn>>
  BY DEF HandlePlayerLogin, threads, mysql, history
<1>2. /\ place'[c] # "loading" /\ loaded'[c] = NoHolder
      /\ \A d \in Chars : d # c => place'[d] = place[d] /\ loaded'[d] = loaded[d]
  BY DEF HandlePlayerLogin, TypeInv, TypeOK
<1>3. Held' = Held /\ Waits' = Waits /\ Ops' = Ops
  BY <1>1 DEF Held, Waits, Ops
<1>4. \A d \in Chars : Quiet(d)' <=> Quiet(d)
  BY <1>3 DEF Quiet
<1>5. \A m \in DOMAIN Ops : Ops[m].kind = "load" => Ops[m].char # c
  BY <1>1 DEF LoadInv, LoadQueued, NoHolder
<1>6. \A w \in Workers : worker[w].at = "read" => worker[w].op.char # c
  BY <1>1 DEF LoadInv, LoadReads
<1>7. LoadQueued'
  BY <1>1, <1>2, <1>3, <1>5, LoadTypes DEF LoadInv, LoadQueued
<1>8. LoadReads'
  <2> SUFFICES ASSUME NEW w \in Workers, worker[w].at = "read",
                      NEW d \in Chars, d = worker[w].op.char
               PROVE  /\ place'[d] = "loading" /\ ~loaded'[d].ready /\ Quiet(d)'
                      /\ worker[w].next = 1 => loaded'[d] = NoHolder
                      /\ worker[w].next = 2 /\ ~loaded'[d].failed /\ ~torn[d] =>
                           loaded'[d].row = rows[d]
    BY <1>1, LoadTypes DEF LoadReads, Quiet
  <2>1. loaded'[d] = loaded[d] /\ place'[d] = place[d]
    BY <1>2, <1>6
  <2> QED
    BY <2>1, <1>1, <1>4 DEF LoadInv, LoadReads
<1>9. LoadReady'
  <2> SUFFICES ASSUME NEW d \in Chars
               PROVE  /\ place'[d] = "loading" /\ loaded'[d].ready =>
                           /\ Quiet(d)'
                           /\ ~loaded'[d].failed /\ ~torn[d] =>
                                loaded'[d].items = items[d] /\ loaded'[d].row = rows[d]
                      /\ place'[d] # "loading" => loaded'[d] = NoHolder
    BY <1>1 DEF LoadReady
  <2> QED
    BY <1>1, <1>2, <1>4 DEF LoadInv, LoadReady
<1> QED
  BY <1>7, <1>8, <1>9 DEF LoadInv

\* Once the server does not run, nobody waits for a login.
LEMMA LoadsOver ==
    ASSUME server' # "running", \A c \in Chars : place'[c] # "loading"
    PROVE  LoadInv'
  BY DEF LoadInv, LoadQueued, LoadReads, LoadReady

LEMMA LoadsRestart ==
    ASSUME Restart
    PROVE  LoadInv'
<1>1. /\ \A c \in Chars : place'[c] # "loading" /\ loaded'[c] = NoHolder
      /\ \A w \in Workers : worker'[w].at = "idle"
      /\ Ops' = <<>>
  BY DEF Restart, Waiting, NewQueue, Ops
<1>2. DOMAIN Ops' = {}
  BY <1>1, EmptySeq
<1> QED
  BY <1>1, <1>2 DEF LoadInv, LoadQueued, LoadReads, LoadReady

\* The worker takes a load, whose character has no save before or behind it; or a
\* save.
LEMMA LoadsTaken ==
    ASSUME OneWorker, TypeInv, LoadInv, NEW w \in Workers, Take(w)
    PROVE  LoadInv'
<1> DEFINE op == Ops[1]
<1>1. /\ worker[w].at = "idle" /\ Poppable(queue) /\ queue' = Popped(queue)
      /\ worker' = [worker EXCEPT ![w] = Taken(Head(Ops))]
      /\ UNCHANGED <<rows, items, place, loaded, server, torn>>
  BY TakeIs DEF mysql, game, history
<1>2. /\ Len(Ops) \in Nat /\ Len(Ops) > 0 /\ DOMAIN Ops = 1..Len(Ops)
      /\ DOMAIN Ops' = 1..(Len(Ops) - 1)
      /\ \A m \in DOMAIN Ops' : m + 1 \in DOMAIN Ops /\ Ops'[m] = Ops[m + 1]
      /\ Head(Ops) = op /\ op \in Saves \cup Loads /\ op \in Operations
  BY <1>1, TakenFirst
<1>3. Held = {}
  BY <1>1, HeldByOne
<1>4. /\ Held' = IF op \in Saves THEN {op} ELSE {}
      /\ worker'[w].at = (IF op.kind = "save" THEN "begin" ELSE "read")
      /\ worker'[w].op = op /\ worker'[w].next = 1
  <2>1. /\ Taken(op).at = (IF op.kind = "save" THEN "begin" ELSE "read")
        /\ Taken(op).at # "idle" /\ Taken(op).op = op /\ Taken(op).next = 1
    BY <1>2, TakenFields
  <2>2. worker' = [worker EXCEPT ![w] = Taken(op)]
    BY <1>1, <1>2
  <2> HIDE DEF op
  <2>3. worker'[w] = Taken(op)
    BY <2>2, WorkerFacts
  <2> QED
    BY <2>1, <2>2, <2>3, HeldByOneNext
<1>5. Waits' \subseteq Waits /\ (op \in Saves => op \in Waits)
  BY <1>2 DEF Waits
<1>6. \A v \in Workers : v = w
  BY DEF OneWorker
<1>7. \A d \in Chars : Quiet(d) => Quiet(d)'
  BY <1>4, <1>5 DEF Quiet
<1>8. /\ 1 \in DOMAIN Ops /\ op.char \in Chars
      /\ \A m \in DOMAIN Ops' : m + 1 > 1 /\ m \in Nat
  BY <1>2, LoadTypes
<1> HIDE DEF op
<1>9. LoadQueued'
  <2> SUFFICES ASSUME server = "running", NEW m \in DOMAIN Ops', Ops'[m].kind = "load",
                      NEW d \in Chars, d = Ops'[m].char
               PROVE  /\ place[d] = "loading" /\ loaded[d] = NoHolder
                      /\ \A v \in Workers : worker'[v].at = "read" => worker'[v].op.char # d
                      /\ \A n \in DOMAIN Ops' :
                           n > m \/ (n # m /\ Ops'[n].kind = "load") => Ops'[n].char # d
    <3>1. \A m \in DOMAIN Ops' : Ops'[m].char \in Chars
      BY <1>2, LoadTypes
    <3> QED
      BY <3>1, <1>1 DEF LoadQueued
  <2>1. m + 1 \in DOMAIN Ops /\ Ops[m + 1].kind = "load" /\ d = Ops[m + 1].char
    BY <1>2
  <2>2. /\ place[d] = "loading" /\ loaded[d] = NoHolder
        /\ \A n \in DOMAIN Ops :
             n > m + 1 \/ (n # m + 1 /\ Ops[n].kind = "load") => Ops[n].char # d
    BY <2>1 DEF LoadInv, LoadQueued
  <2>3. op.kind = "load" => op.char # d
    BY <2>2, <1>8 DEF op
  <2>4. \A v \in Workers : worker'[v].at = "read" => worker'[v].op.char # d
    BY <2>3, <1>2, <1>4, <1>6 DEF Saves, Loads
  <2>5. \A n \in DOMAIN Ops' :
           n > m \/ (n # m /\ Ops'[n].kind = "load") => Ops'[n].char # d
    BY <2>2, <1>2, <1>8
  <2> QED
    BY <2>2, <2>4, <2>5
<1>10. LoadReads'
  <2> SUFFICES ASSUME server = "running", op.kind = "load", NEW d \in Chars, d = op.char
               PROVE  /\ place[d] = "loading" /\ ~loaded[d].ready /\ Quiet(d)'
                      /\ loaded[d] = NoHolder
    BY <1>1, <1>2, <1>4, <1>6, <1>8 DEF LoadReads, Quiet, Saves, Loads
  <2>1. /\ place[d] = "loading" /\ loaded[d] = NoHolder
        /\ \A n \in DOMAIN Ops : n > 1 => Ops[n].char # d
    BY <1>8 DEF LoadInv, LoadQueued, op
  <2>2. ~loaded[d].ready
    BY <2>1 DEF NoHolder
  <2>3. \A a \in Waits' : a.char # d
    <3> SUFFICES ASSUME NEW a \in Waits'
                 PROVE  a.char # d
      OBVIOUS
    <3>1. PICK m \in DOMAIN Ops' : Ops'[m] = a
      BY DEF Waits
    <3> QED
      BY <3>1, <2>1, <1>2, <1>8
  <2>4. Held' = {}
    BY <1>4 DEF Saves
  <2> QED
    BY <2>1, <2>2, <2>3, <2>4 DEF Quiet
<1>11. LoadReady'
  BY <1>1, <1>7 DEF LoadInv, LoadReady
<1> QED
  BY <1>9, <1>10, <1>11 DEF LoadInv

\* A query of a holder: all saves of the character are done.
LEMMA LoadsRead ==
    ASSUME OneWorker, TypeInv, LoadInv, NEW w \in Workers, NEW ok \in BOOLEAN, Read(w, ok)
    PROVE  LoadInv'
<1> DEFINE c == worker[w].op.char
           holder == IF worker[w].next = 1 THEN RowRead(loaded[c], rows[c], ok)
                     ELSE ItemsRead(loaded[c], items[c], ok)
<1>1. /\ worker[w].at = "read" /\ worker[w].op \in Loads /\ worker[w].next \in 1..2
      /\ c \in Chars /\ loaded[c] \in Holders
      /\ loaded' = [loaded EXCEPT ![c] = holder]
      /\ \/ worker[w].next = 2 /\ worker' = [worker EXCEPT ![w] = Waiting]
         \/ worker[w].next = 1 /\ worker' = [worker EXCEPT ![w] = Onward(worker[w])]
      /\ UNCHANGED <<rows, items, place, server, torn>> /\ Ops' = Ops
  BY ReadIs DEF mysql, history, Ops
<1>2. \A v \in Workers : v = w
  BY DEF OneWorker
<1>3. DOMAIN loaded = Chars /\ DOMAIN worker = Workers
  BY DEF TypeInv, TypeOK
<1>4. rows[c] \in Nat /\ items[c] \in SUBSET (Nat \ {0})
  BY <1>1, SaveTypes
<1>5. \/ worker[w].next = 2 /\ worker'[w].at = "idle"
      \/ /\ worker[w].next = 1 /\ worker'[w].at = "read"
         /\ worker'[w].op = worker[w].op /\ worker'[w].next = 2
  <2>1. CASE worker[w].next = 2 /\ worker' = [worker EXCEPT ![w] = Waiting]
    BY <2>1, <1>3 DEF Waiting
  <2>2. CASE worker[w].next = 1 /\ worker' = [worker EXCEPT ![w] = Onward(worker[w])]
    <3>1. worker'[w] = Onward(worker[w])
      BY <2>2, <1>3
    <3>2. /\ Onward(worker[w]).at = worker[w].at /\ Onward(worker[w]).op = worker[w].op
          /\ Onward(worker[w]).next = 2
      BY <2>2, WorkerFacts, WorkerOnward
    <3> QED
      BY <2>2, <3>1, <3>2, <1>1
  <2> QED
    BY <2>1, <2>2, <1>1
<1>6. Held = {} /\ Held' = {} /\ Waits' = Waits
  <2>1. worker[w].op \notin Saves
    BY <1>1, LoadIsNoSave
  <2>2. \A v \in Workers : worker'[v].at # "idle" => worker'[v].op \notin Saves
    BY <2>1, <1>2, <1>5
  <2>3. Held = {} /\ Held' = {}
    BY <2>1, <2>2, <1>2 DEF Held
  <2> QED
    BY <2>3, <1>1 DEF Waits
<1>7. \A d \in Chars : Quiet(d)' <=> Quiet(d)
  BY <1>6 DEF Quiet
<1>8. loaded'[c] = holder /\ \A d \in Chars : d # c => loaded'[d] = loaded[d]
  <2> HIDE DEF holder
  <2> QED
    BY <1>1, <1>3
\* The row.
<1>9. worker[w].next = 1 => /\ loaded'[c].ready <=> loaded[c].ready
                            /\ ~loaded'[c].failed => loaded'[c].row = rows[c]
  <2> SUFFICES ASSUME worker[w].next = 1
               PROVE  /\ loaded'[c].ready <=> loaded[c].ready
                      /\ ~loaded'[c].failed => loaded'[c].row = rows[c]
    OBVIOUS
  <2>1. loaded'[c] = RowRead(loaded[c], rows[c], ok)
    BY <1>8
  <2>2. /\ ok => RowRead(loaded[c], rows[c], ok).row = rows[c]
        /\ RowRead(loaded[c], rows[c], ok).ready = loaded[c].ready
        /\ ~RowRead(loaded[c], rows[c], ok).failed => ok
    BY <1>1, <1>4, RowReadFields
  <2> QED
    BY <2>1, <2>2, Zenon
\* The items.
<1>10. worker[w].next = 2 => (~loaded'[c].failed => /\ loaded'[c].items = items[c]
                                                    /\ loaded'[c].row = loaded[c].row
                                                    /\ ~loaded[c].failed)
  <2> SUFFICES ASSUME worker[w].next = 2
               PROVE  ~loaded'[c].failed => /\ loaded'[c].items = items[c]
                                            /\ loaded'[c].row = loaded[c].row
                                            /\ ~loaded[c].failed
    OBVIOUS
  <2>1. loaded'[c] = ItemsRead(loaded[c], items[c], ok)
    BY <1>8
  <2>2. /\ ItemsRead(loaded[c], items[c], ok).row = loaded[c].row
        /\ ok => ItemsRead(loaded[c], items[c], ok).items = items[c]
        /\ ~ItemsRead(loaded[c], items[c], ok).failed => ok /\ ~loaded[c].failed
    BY <1>1, <1>4, ItemsReadFields
  <2> QED
    BY <2>1, <2>2, Zenon
<1> HIDE DEF holder
<1>11. server = "running" =>
         /\ place[c] = "loading" /\ ~loaded[c].ready /\ Quiet(c)
         /\ worker[w].next = 2 /\ ~loaded[c].failed /\ ~torn[c] => loaded[c].row = rows[c]
  BY <1>1 DEF LoadInv, LoadReads
<1>12. LoadQueued'
  <2> SUFFICES ASSUME server = "running", NEW m \in DOMAIN Ops, Ops[m].kind = "load"
               PROVE  LET d == Ops[m].char IN
                      /\ place[d] = "loading" /\ loaded'[d] = NoHolder
                      /\ \A v \in Workers : worker'[v].at = "read" => worker'[v].op.char # d
                      /\ \A n \in DOMAIN Ops :
                           n > m \/ (n # m /\ Ops[n].kind = "load") => Ops[n].char # d
    BY <1>1 DEF LoadQueued
  <2>1. /\ Ops[m].char # c /\ Ops[m].char \in Chars
        /\ place[Ops[m].char] = "loading" /\ loaded[Ops[m].char] = NoHolder
        /\ \A n \in DOMAIN Ops :
             n > m \/ (n # m /\ Ops[n].kind = "load") => Ops[n].char # Ops[m].char
    BY <1>1, LoadTypes DEF LoadInv, LoadQueued
  <2>2. \A v \in Workers : worker'[v].at = "read" => worker'[v].op.char = c
    BY <1>2, <1>5
  <2> QED
    BY <2>1, <2>2, <1>8
<1>13. LoadReads'
  <2> SUFFICES ASSUME server = "running", worker'[w].at = "read"
               PROVE  /\ place[c] = "loading" /\ ~loaded'[c].ready
                      /\ \A a \in Held' \cup Waits' : a.char # c
                      /\ worker'[w].next = 2
                      /\ ~loaded'[c].failed => loaded'[c].row = rows[c]
    <3>1. worker'[w].at = "read" => worker'[w].op.char = c
      BY <1>5
    <3> QED
      BY <3>1, <1>1, <1>2 DEF LoadReads, Quiet
  <2>1. worker[w].next = 1 /\ worker'[w].next = 2
    BY <1>5
  <2>2. /\ \A a \in Held' \cup Waits' : a.char # c
        /\ place[c] = "loading" /\ ~loaded[c].ready
    BY <1>6, <1>11 DEF Quiet
  <2> QED
    BY <2>1, <2>2, <1>9, Zenon
<1>14. LoadReady'
  <2> SUFFICES ASSUME NEW d \in Chars
               PROVE  /\ place[d] = "loading" => server = "running"
                      /\ place[d] = "loading" /\ loaded'[d].ready =>
                           /\ Quiet(d)
                           /\ ~loaded'[d].failed /\ ~torn[d] =>
                                loaded'[d].items = items[d] /\ loaded'[d].row = rows[d]
                      /\ server = "running" /\ place[d] # "loading" => loaded'[d] = NoHolder
    BY <1>1, <1>7 DEF LoadReady
  <2>1. /\ place[d] = "loading" => server = "running"
        /\ place[d] = "loading" /\ loaded[d].ready =>
             /\ Quiet(d)
             /\ ~loaded[d].failed /\ ~torn[d] =>
                  loaded[d].items = items[d] /\ loaded[d].row = rows[d]
        /\ server = "running" /\ place[d] # "loading" => loaded[d] = NoHolder
    BY DEF LoadInv, LoadReady
  <2>2. CASE d # c
    BY <2>1, <2>2, <1>8
  <2>3. CASE d = c /\ server = "running"
    <3>1. place[d] = "loading" /\ Quiet(d)
      BY <2>3, <1>11
    <3>2. worker[w].next = 1 => ~loaded'[d].ready
      BY <2>3, <1>9, <1>11
    <3>3. worker[w].next = 2 /\ ~loaded'[d].failed /\ ~torn[d] =>
            loaded'[d].items = items[d] /\ loaded'[d].row = rows[d]
      BY <2>3, <1>10, <1>11
    <3>4. worker[w].next = 1 \/ worker[w].next = 2
      BY <1>1
    <3> QED
      BY <2>3, <3>1, <3>2, <3>3, <3>4
  <2>4. CASE server # "running"
    BY <2>1, <2>4
  <2> QED
    BY <2>2, <2>3, <2>4
<1> QED
  BY <1>12, <1>13, <1>14 DEF LoadInv

---------------------------------------------------------------------------
(* One worker: what each action keeps.                                     *)

IInv == TypeInv /\ SavesInv /\ LoadInv /\ TransactionsAreWhole

LEMMA InitWhole == Init => IInv
<1> SUFFICES ASSUME Init
             PROVE  IInv
  OBVIOUS
<1>1. TypeInv
  BY InitTypes
<1>2. /\ Held = {} /\ Waits = {} /\ DOMAIN Ops = {} /\ DOMAIN order = {}
      /\ order \in Seq(Saves)
  BY EmptySeq DEF Init, Held, Waits, Waiting, NewQueue, Ops
<1>3. \A c \in Chars : items[c] = {} /\ refused[c] = {} /\ version[c] = 0 /\ rows[c] = 0
  BY DEF Init
<1>4. VersionInv
  BY <1>2, <1>3 DEF VersionInv, Ended
<1>5. SettledInv
  <2>1. 1..0 = {}
    OBVIOUS
  <2> QED
    BY <1>2, <1>3, <2>1 DEF SettledInv, Ended
<1>6. OrderInv
  BY <1>2 DEF OrderInv
<1>7. LoadInv
  <2>1. /\ \A w \in Workers : worker[w].at # "read"
        /\ \A c \in Chars : place[c] # "loading" /\ loaded[c] = NoHolder
    BY DEF Init, Waiting
  <2> QED
    BY <1>2, <2>1 DEF LoadInv, LoadQueued, LoadReads, LoadReady
<1>8. TransactionsAreWhole
  <2>1. Max({0}) = 0
    BY MaxIs
  <2>2. {0} \cup {} = {0}
    OBVIOUS
  <2> QED
    BY <1>3, <2>1, <2>2 DEF TransactionsAreWhole
<1> QED
  BY <1>1, <1>4, <1>5, <1>6, <1>7, <1>8 DEF IInv, SavesInv

\* A step that neither saves nor workers notice.
LEMMA QuietSession ==
    ASSUME IInv, TypeInv',
           UNCHANGED <<worker, rows, items, refused, torn, version, order, server>>,
           \A m \in DOMAIN Ops : m \in DOMAIN Ops' /\ Ops'[m] = Ops[m],
           \A m \in DOMAIN Ops' : Ops'[m] \in Saves => m \in DOMAIN Ops,
           LoadInv'
    PROVE  IInv'
<1>1. Held' = Held
  BY DEF Held
<1>2. SavesInv'
  BY <1>1, NeutralSaves DEF IInv
<1>3. TransactionsAreWhole'
  BY WholeAlone DEF IInv
<1> QED
  BY <1>2, <1>3 DEF IInv

\* A session that saves one character.
LEMMA OneSaved ==
    ASSUME IInv, TypeInv', NEW c \in Chars, SaveToDB(c), place[c] # "loading",
           server = "running",
           UNCHANGED <<worker, rows, items, refused, torn, loaded, server>>,
           NEW p \in {"offline", "online"}, place' = [place EXCEPT ![c] = p]
    PROVE  IInv'
<1> DEFINE s == <<c>>
<1>1. /\ s \in Seq(Chars) /\ \A i, j \in DOMAIN s : s[i] = s[j] => i = j
      /\ \A i \in DOMAIN s : s[i] = c
      /\ SavesToDB(s)
  BY OneSaveMade DEF IInv, TypeInv
<1> HIDE DEF s
<1>2. SavesInv'
  BY <1>1, AppendedSaves DEF IInv
<1>3. \A d \in Chars : place'[d] = "loading" <=> place[d] = "loading"
  <2>1. DOMAIN place = Chars
    BY DEF IInv, TypeInv, TypeOK
  <2>2. p # "loading"
    OBVIOUS
  <2> QED
    BY <2>1, <2>2
<1>4. LoadInv'
  BY <1>1, <1>3, LoadsSaved DEF IInv
<1>5. TransactionsAreWhole'
  BY WholeAlone DEF IInv
<1> QED
  BY <1>2, <1>4, <1>5 DEF IInv

LEMMA SessionWhole ==
    ASSUME OneWorker, IInv, NEW c \in Chars, Session(c)
    PROVE  IInv'
<1>0. TypeInv' /\ TypeInv /\ LoadInv
  BY StepTypes DEF IInv, Next
<1>1. CASE Create(c)
  <2>1. /\ SaveToDB(c) /\ place[c] # "loading" /\ server = "running"
        /\ UNCHANGED <<worker, rows, items, refused, torn, loaded, server>>
        /\ place' = [place EXCEPT ![c] = "offline"]
    BY <1>1 DEF Create, mysql
  <2> QED
    BY <1>0, <2>1, OneSaved
<1>2. CASE SaveOnline(c)
  <2>1. /\ SaveToDB(c) /\ place[c] # "loading" /\ server = "running"
        /\ UNCHANGED <<worker, rows, items, refused, torn, loaded, server>>
        /\ \E p \in {"offline", "online"} : place' = [place EXCEPT ![c] = p]
    BY <1>2 DEF SaveOnline, mysql
  <2> QED
    BY <1>0, <2>1, OneSaved
<1>3. CASE CreateCallback(c)
  <2>1. UNCHANGED <<worker, queue, rows, items, refused, torn, version, order, server,
                    place, loaded>>
    BY <1>3 DEF CreateCallback, threads, mysql, history
  <2>2. Ops' = Ops /\ Held' = Held
    BY <2>1 DEF Ops, Held
  <2>3. LoadInv'
    BY <1>0, <2>1, <2>2, LoadsAlone
  <2> QED
    BY <1>0, <2>1, <2>2, <2>3, QuietSession
<1>4. CASE Login(c)
  <2>1. UNCHANGED <<worker, rows, items, refused, torn, version, order, server>>
    BY <1>4 DEF Login, mysql, history
  <2>2. /\ \A m \in DOMAIN Ops : m \in DOMAIN Ops' /\ Ops'[m] = Ops[m]
        /\ \A m \in DOMAIN Ops' : Ops'[m] \in Saves => m \in DOMAIN Ops
    BY <1>4, LoadQueuedLast DEF Login, IInv, TypeInv
  <2> QED
    BY <1>0, <1>4, <2>1, <2>2, LoadsLogin, QuietSession
<1>5. CASE HandlePlayerLogin(c)
  <2>1. UNCHANGED <<worker, queue, rows, items, refused, torn, version, order, server>>
    BY <1>5 DEF HandlePlayerLogin, threads, mysql, history
  <2>2. Ops' = Ops
    BY <2>1 DEF Ops
  <2> QED
    BY <1>0, <1>5, <2>1, <2>2, LoadsUsed, QuietSession
<1> QED
  BY <1>1, <1>2, <1>3, <1>4, <1>5 DEF Session

LEMMA KickAllWhole ==
    ASSUME OneWorker, IInv, KickAll
    PROVE  IInv'
<1>0. TypeInv' /\ TypeInv /\ SavesInv /\ TransactionsAreWhole
  BY StepTypes DEF IInv, Next
<1> DEFINE S == {c \in Chars : place[c] = "online"}
<1>1. PICK s \in SetToSeqs(S) : SavesToDB(s)
  BY DEF KickAll
<1>2. s \in Seq(Chars) /\ \A i, j \in DOMAIN s : s[i] = s[j] => i = j
  BY OnlineInTurn
<1> HIDE DEF S
<1>3. /\ server = "running" /\ server' = "kicked"
      /\ UNCHANGED <<rows, items, refused, torn, worker>>
      /\ place' = [c \in Chars |-> IF place[c] = "none" THEN "none" ELSE "offline"]
  BY DEF KickAll, mysql
<1>4. SavesInv'
  BY <1>0, <1>1, <1>2, <1>3, AppendedSaves
<1>5. LoadInv'
  <2>1. server' # "running" /\ \A c \in Chars : place'[c] # "loading"
    BY <1>3
  <2> QED
    BY <2>1, LoadsOver
<1>6. TransactionsAreWhole'
  BY <1>0, <1>3, WholeAlone
<1> QED
  BY <1>0, <1>4, <1>5, <1>6 DEF IInv

LEMMA CloseWhole ==
    ASSUME OneWorker, IInv, Close
    PROVE  IInv'
<1>0. TypeInv' /\ TypeInv /\ SavesInv /\ TransactionsAreWhole /\ LoadReady
  BY StepTypes DEF IInv, Next, LoadInv
<1>1. /\ server = "kicked" /\ server' = "closed" /\ Ops' = <<>>
      /\ UNCHANGED <<rows, items, refused, torn, version, order, worker, place>>
  BY DEF Close, Cancelled, Ops, mysql, history
<1>2. Held' \subseteq Held
  BY <1>1 DEF Held
<1>3. SavesInv'
  BY <1>0, <1>1, <1>2, ClosedSaves
<1>4. LoadInv'
  <2>1. server' # "running" /\ \A c \in Chars : place'[c] # "loading"
    BY <1>0, <1>1 DEF LoadReady
  <2> QED
    BY <2>1, LoadsOver
<1>5. TransactionsAreWhole'
  BY <1>0, <1>1, WholeAlone
<1> QED
  BY <1>0, <1>3, <1>4, <1>5 DEF IInv

LEMMA RestartWhole ==
    ASSUME OneWorker, IInv, Restart
    PROVE  IInv'
<1>0. TypeInv' /\ TypeInv /\ SavesInv /\ TransactionsAreWhole
  BY StepTypes DEF IInv, Next
<1>1. SavesInv'
  BY <1>0, RestartedSaves
<1>2. UNCHANGED <<rows, items, torn>>
  BY DEF Restart
<1>3. TransactionsAreWhole'
  BY <1>0, <1>2, WholeAlone
<1> QED
  BY <1>0, <1>1, <1>3, LoadsRestart DEF IInv

LEMMA DiscardWhole ==
    ASSUME OneWorker, IInv, NEW w \in Workers, Discard(w)
    PROVE  IInv'
<1>0. TypeInv' /\ TypeInv /\ SavesInv /\ TransactionsAreWhole /\ LoadReady /\ QueueInv
  BY StepTypes DEF IInv, Next, LoadInv, TypeInv
<1>1. /\ server = "closed" /\ worker' = [worker EXCEPT ![w] = Waiting]
      /\ UNCHANGED <<queue, rows, items, refused, torn, version, order, place, server>>
  BY DEF Discard, Done, Go, mysql, game, history
<1>2. Held' = {}
  <2>1. Waiting.at = "idle"
    BY DEF Waiting
  <2> QED
    BY <1>0, <1>1, <2>1, HeldByOneNext
<1>3. Ops' = <<>>
  BY <1>0, <1>1 DEF QueueInv, Ops
<1>4. SavesInv'
  BY <1>0, <1>1, <1>2, <1>3, ClosedSaves
<1>5. LoadInv'
  <2>1. server' # "running" /\ \A c \in Chars : place'[c] # "loading"
    BY <1>0, <1>1 DEF LoadReady
  <2> QED
    BY <2>1, LoadsOver
<1>6. TransactionsAreWhole'
  BY <1>0, <1>1, WholeAlone
<1> QED
  BY <1>0, <1>4, <1>5, <1>6 DEF IInv

LEMMA TakeWhole ==
    ASSUME OneWorker, IInv, NEW w \in Workers, Take(w)
    PROVE  IInv'
<1>0. TypeInv' /\ TypeInv /\ SavesInv /\ TransactionsAreWhole /\ LoadInv
  BY StepTypes DEF IInv, Next, Work
<1>1. UNCHANGED <<rows, items, torn>>
  BY TakeIs DEF mysql, history
<1>2. TransactionsAreWhole'
  BY <1>0, <1>1, WholeAlone
<1> QED
  BY <1>0, <1>2, TakenSaves, LoadsTaken DEF IInv

\* A worker within a transaction that writes nothing to the database.
LEMMA InsideWhole ==
    ASSUME OneWorker, IInv, TypeInv', NEW w \in Workers, NEW state,
           worker' = [worker EXCEPT ![w] = state],
           worker[w].at \notin {"idle", "read"}, worker[w].op \in Saves,
           state.at \notin {"idle", "read"}, state.op = worker[w].op,
           UNCHANGED <<queue, rows, items, refused, version, order, server, place, loaded>>,
           \A c \in Chars : torn[c] => torn'[c]
    PROVE  IInv'
<1>0. TypeInv /\ SavesInv /\ TransactionsAreWhole /\ LoadInv
  BY DEF IInv
<1>1. Held = {worker[w].op}
  BY HeldByOne
<1>2. Held' = {worker[w].op}
  BY <1>0, HeldByOneNext
<1>3. Ops' = Ops
  BY DEF Ops
<1>4. SavesInv'
  BY <1>0, <1>1, <1>2, <1>3, NeutralSaves
<1>5. \A v \in Workers : worker'[v].at # "read"
  <2>1. \A v \in Workers : worker'[v] = state
    BY <1>0, WorkerFacts DEF OneWorker
  <2> QED
    BY <2>1
<1>6. LoadInv'
  BY <1>0, <1>1, <1>2, <1>3, <1>5, LoadsAlone
<1>7. TransactionsAreWhole'
  BY <1>0, WholeAlone
<1> QED
  BY <1>4, <1>6, <1>7 DEF IInv

\* A worker that writes to the database, or ends its transaction.
LEMMA WritesWhole ==
    ASSUME OneWorker, IInv, TypeInv', NEW w \in Workers, NEW state, NEW op \in Saves,
           worker' = [worker EXCEPT ![w] = state],
           worker[w].at \notin {"idle", "read"}, op = worker[w].op,
           UNCHANGED <<queue, torn, version, order, server, place, loaded>>,
           \/ state.at = "idle"
           \/ state.at \notin {"idle", "read"} /\ state.op = op /\ torn[op.char],
           rows' = rows \/ rows' = [rows EXCEPT ![op.char] = op.ver],
           \/ UNCHANGED <<items, refused>> /\ torn[op.char]
           \/ items' = [items EXCEPT ![op.char] = @ \cup {op.ver}] /\ refused' = refused
           \/ refused' = [refused EXCEPT ![op.char] = @ \cup {op.ver}] /\ items' = items,
           TransactionsAreWhole'
    PROVE  IInv'
<1>0. TypeInv /\ SavesInv /\ TransactionsAreWhole /\ LoadInv
  BY DEF IInv
<1>1. Held = {op}
  BY HeldByOne
<1>2. Held' = {} \/ (Held' = Held /\ torn[op.char])
  BY <1>0, <1>1, HeldByOneNext
<1>3. Ops' = Ops
  BY DEF Ops
<1>4. SavesInv'
  BY <1>0, <1>1, <1>2, <1>3, SettledSaves
<1>5. \A v \in Workers : worker'[v].at # "read"
  <2>1. \A v \in Workers : worker'[v] = state
    BY <1>0, WorkerFacts DEF OneWorker
  <2> QED
    BY <2>1
<1>6. \A c \in Chars : Quiet(c) => rows'[c] = rows[c] /\ items'[c] = items[c]
  <2> SUFFICES ASSUME NEW c \in Chars, Quiet(c)
               PROVE  rows'[c] = rows[c] /\ items'[c] = items[c]
    OBVIOUS
  <2>1. op.char # c
    BY <1>1 DEF Quiet
  <2> QED
    BY <1>0, <2>1, WorkerFacts DEF DataType
<1>7. LoadInv'
  <2>1. Held' \subseteq Held
    BY <1>2
  <2> QED
    BY <1>0, <1>3, <1>5, <1>6, <2>1, LoadsAlone
<1> QED
  BY <1>4, <1>7 DEF IInv

LEMMA BeginWhole ==
    ASSUME OneWorker, IInv, NEW w \in Workers, Begin(w)
    PROVE  IInv'
<1>0. TypeInv' /\ TypeInv
  BY StepTypes DEF IInv, Next, Work
<1> DEFINE state == Moved(worker[w], "statement", 1)
<1>1. worker[w].at = "begin" /\ worker' = [worker EXCEPT ![w] = state]
  BY DEF Begin, At, Go, Moved
<1>2. worker[w].op \in Saves /\ conn[w] = Fresh
  BY <1>0, <1>1, WorkerFacts DEF WorkerOk
<1>3. state.at = "statement" /\ state.op = worker[w].op
  BY <1>0, WorkerFacts, WorkerMoved DEF Points
<1> HIDE DEF state
<1>4. UNCHANGED <<rows, items>>
  <2>1. Apply({})
    BY <1>2 DEF Begin, Fresh
  <2> QED
    BY <1>0, <2>1, ApplyNothing DEF TypeInv
<1>5. UNCHANGED <<queue, refused, torn, version, order, server, place, loaded>>
  BY DEF Begin, game, history
<1> QED
  BY <1>0, <1>1, <1>2, <1>3, <1>4, <1>5, InsideWhole

LEMMA LoseWhole ==
    ASSUME OneWorker, IInv, NEW w \in Workers, Lose(w)
    PROVE  IInv'
<1>0. TypeInv' /\ TypeInv
  BY StepTypes DEF IInv, Next, Trouble
<1>1. /\ worker[w].at \in {"statement", "commit"} /\ worker' = worker
      /\ torn' = [torn EXCEPT ![worker[w].op.char] = TRUE]
      /\ UNCHANGED <<queue, rows, items, refused, version, order, server, place, loaded>>
  BY DEF Lose, threads, game
<1>2. worker[w].op \in Saves
  BY <1>0, <1>1, WorkerFacts DEF WorkerOk
<1>3. worker' = [worker EXCEPT ![w] = worker[w]]
  BY <1>0, <1>1, WorkerFacts
<1>4. \A c \in Chars : torn[c] => torn'[c]
  BY <1>0, <1>1, WorkerFacts DEF BookType
<1> QED
  BY <1>0, <1>1, <1>2, <1>3, <1>4, InsideWhole

LEMMA RetryWhole ==
    ASSUME OneWorker, IInv, NEW w \in Workers, Retry(w)
    PROVE  IInv'
<1>0. TypeInv' /\ TypeInv
  BY StepTypes DEF IInv, Next, Work
<1> DEFINE state == Again(worker[w])
<1>1. /\ worker[w].at = "retry" /\ worker[w].op \in Saves
      /\ worker' = [worker EXCEPT ![w] = state]
      /\ UNCHANGED <<queue, rows, items, refused, torn, version, order, server, place, loaded>>
  BY <1>0, RetryIs DEF mysql, game, history
<1>2. state.at = "begin" /\ state.op = worker[w].op
  BY <1>0, RetryIs, WorkerAgain
<1> HIDE DEF state
<1> QED
  BY <1>0, <1>1, <1>2, InsideWhole

\* Deadlocked and RetryFails.
LEMMA AgainWhole ==
    ASSUME OneWorker, IInv, TypeInv', NEW w \in Workers, Fails(w),
           NEW at \in {"retry", "begin"}, Goto(w, at), UNCHANGED <<queue, refused>>
    PROVE  IInv'
<1>0. TypeInv
  BY DEF IInv
<1> DEFINE state == Back(worker[w], at)
<1>1. worker' = [worker EXCEPT ![w] = state]
  BY DEF Goto, Go, Back
<1>2. state.at = at /\ state.op = worker[w].op
  BY <1>0, FailsIs, WorkerBack DEF Points
<1> HIDE DEF state
<1>3. /\ worker[w].at = "statement" /\ worker[w].op \in Saves
      /\ UNCHANGED <<queue, rows, items, refused, torn, version, order, server, place, loaded>>
  BY <1>0, FailsIs
<1> QED
  BY <1>1, <1>2, <1>3, InsideWhole

LEMMA StatementWhole ==
    ASSUME OneWorker, IInv, NEW w \in Workers, Statement(w)
    PROVE  IInv'
<1>0. TypeInv' /\ TypeInv /\ SavesInv /\ TransactionsAreWhole
  BY StepTypes DEF IInv, Next, Work
<1> DEFINE state == After(worker[w])
           op == worker[w].op
<1>1. /\ worker[w].at = "statement" /\ op \in Saves /\ worker[w].next \in 1..2
      /\ worker' = [worker EXCEPT ![w] = state]
      /\ state.at \notin {"idle", "read"} /\ state.op = op
      /\ UNCHANGED <<queue, refused, torn, version, order, server, place, loaded>>
  BY <1>0, StatementIs DEF game, history
<1> HIDE DEF state
<1>2. CASE UNCHANGED <<rows, items>>
  BY <1>0, <1>1, <1>2, InsideWhole
<1>3. CASE torn[op.char] /\ Apply({Part(w)})
  <2>1. /\ rows' = IF worker[w].next = 1 THEN [rows EXCEPT ![op.char] = op.ver] ELSE rows
        /\ items' = IF worker[w].next = 2 THEN [items EXCEPT ![op.char] = @ \cup {op.ver}]
                    ELSE items
    BY <1>0, <1>1, <1>3, ApplyPart DEF Part, TypeInv
  <2>2. op \in Held
    BY <1>1, HeldByOne
  <2>3. \A c \in Chars : c # op.char => rows'[c] = rows[c] /\ items'[c] = items[c]
    BY <1>0, <2>1, WorkerFacts DEF DataType
  <2>4. TransactionsAreWhole'
    BY <1>0, <1>1, <1>3, <2>2, <2>3, WholeGrows DEF SavesInv
  <2>5. /\ rows' = rows \/ rows' = [rows EXCEPT ![op.char] = op.ver]
        /\ items' = items \/ items' = [items EXCEPT ![op.char] = @ \cup {op.ver}]
    BY <2>1
  <2> HIDE DEF op
  <2> QED
    BY <1>0, <1>1, <1>3, <2>4, <2>5, WritesWhole DEF op
<1> QED
  BY <1>0, <1>2, <1>3, StatementIs

LEMMA CommitWhole ==
    ASSUME OneWorker, IInv, NEW w \in Workers, Commit(w)
    PROVE  IInv'
<1>0. TypeInv' /\ TypeInv /\ SavesInv /\ TransactionsAreWhole
  BY StepTypes DEF IInv, Next, Work
<1> DEFINE op == worker[w].op
<1>1. /\ worker[w].at = "commit" /\ op \in Saves
      /\ worker' = [worker EXCEPT ![w] = Waiting] /\ Waiting.at = "idle"
      /\ UNCHANGED <<queue, refused, torn, version, order, server, place, loaded>>
  BY <1>0, CommitIs DEF history, Waiting
<1>2. \/ /\ rows' = [rows EXCEPT ![op.char] = op.ver]
         /\ items' = [items EXCEPT ![op.char] = @ \cup {op.ver}]
      \/ torn[op.char] /\ UNCHANGED <<rows, items>>
  BY <1>0, CommitIs
<1>3. op \in Held
  BY <1>1, HeldByOne
<1>4. TransactionsAreWhole'
  BY <1>0, <1>1, <1>2, <1>3, WholeGrows DEF SavesInv
<1> HIDE DEF op
<1> QED
  BY <1>0, <1>1, <1>2, <1>4, WritesWhole DEF op

\* Refused and GiveUp.
LEMMA RefuseWhole ==
    ASSUME OneWorker, IInv, TypeInv', NEW w \in Workers, Fails(w), Refuse(w)
    PROVE  IInv'
<1>0. TypeInv /\ TransactionsAreWhole
  BY DEF IInv
<1> DEFINE op == worker[w].op
<1>1. /\ worker[w].at = "statement" /\ op \in Saves
      /\ worker' = [worker EXCEPT ![w] = Waiting] /\ Waiting.at = "idle"
      /\ UNCHANGED <<queue, rows, items, torn, version, order, server, place, loaded>>
  BY <1>0, FailsIs, RefuseIs DEF Waiting
<1>2. refused' = [refused EXCEPT ![op.char] = @ \cup {op.ver}]
  BY <1>0, RefuseIs
<1>3. TransactionsAreWhole'
  BY <1>0, <1>1, WholeAlone
<1> HIDE DEF op
<1> QED
  BY <1>1, <1>2, <1>3, WritesWhole DEF op

LEMMA ReadWhole ==
    ASSUME OneWorker, IInv, NEW w \in Workers, NEW ok \in BOOLEAN, Read(w, ok)
    PROVE  IInv'
<1>0. TypeInv' /\ TypeInv /\ SavesInv /\ TransactionsAreWhole /\ LoadInv
  BY ReadTypes DEF IInv
<1>1. UNCHANGED <<queue, rows, items, refused, torn, version, order, server>>
  BY <1>0, ReadIs DEF mysql, history
<1>2. Ops' = Ops
  BY <1>1 DEF Ops
<1>3. Held' = Held
  <2>1. worker[w].op \notin Saves
    BY <1>0, ReadIs, LoadIsNoSave
  <2>2. Held = {}
    BY <2>1, HeldByOne
  <2>3. CASE worker' = [worker EXCEPT ![w] = Waiting]
    <3>1. Waiting.at = "idle"
      BY DEF Waiting
    <3> QED
      BY <1>0, <2>2, <2>3, <3>1, HeldByOneNext
  <2>4. CASE worker[w].next = 1 /\ worker' = [worker EXCEPT ![w] = Onward(worker[w])]
    <3> DEFINE state == Onward(worker[w])
    <3>1. state.op = worker[w].op
      BY <1>0, <2>4, WorkerFacts, WorkerOnward
    <3>2. worker' = [worker EXCEPT ![w] = state]
      BY <2>4
    <3> HIDE DEF state
    <3> QED
      BY <1>0, <2>1, <2>2, <3>1, <3>2, HeldByOneNext
  <2> QED
    BY <1>0, <2>3, <2>4, ReadIs
<1>4. SavesInv'
  BY <1>0, <1>1, <1>2, <1>3, NeutralSaves
<1>5. TransactionsAreWhole'
  BY <1>0, <1>1, WholeAlone
<1> QED
  BY <1>0, <1>4, <1>5, LoadsRead DEF IInv

LEMMA StutterWhole ==
    ASSUME IInv, UNCHANGED vars
    PROVE  IInv'
<1>1. UNCHANGED <<queue, worker, rows, items, refused, torn, version, order, server,
                  place, loaded>>
  BY DEF vars, threads, mysql, game, bounds, history
<1>2. Ops' = Ops /\ Held' = Held
  BY <1>1 DEF Ops, Held
<1>3. TypeInv /\ LoadInv /\ TypeInv'
  BY StutterTypes DEF IInv
<1>4. LoadInv'
  BY <1>1, <1>2, <1>3, LoadsAlone
<1> QED
  BY <1>1, <1>2, <1>3, <1>4, QuietSession

LEMMA StepWhole ==
    ASSUME OneWorker, IInv, [Next]_vars
    PROVE  IInv'
<1>0. TypeInv'
  BY StepTypes DEF IInv
<1>1. ASSUME NEW c \in Chars, Session(c)
      PROVE  IInv'
  BY <1>1, SessionWhole
<1>2. ASSUME NEW w \in Workers, Work(w)
      PROVE  IInv'
  BY <1>2, TakeWhole, BeginWhole, StatementWhole, CommitWhole, ReadWhole, RetryWhole
     DEF Work
<1>3. ASSUME NEW w \in Workers, Trouble(w)
      PROVE  IInv'
  <2>1. Refused(w) \/ GiveUp(w) => IInv'
    BY <1>0, RefuseWhole DEF Refused, GiveUp
  <2>2. Deadlocked(w) \/ RetryFails(w) => IInv'
    BY <1>0, AgainWhole DEF Deadlocked, RetryFails
  <2> QED
    BY <1>3, <2>1, <2>2, LoseWhole, ReadWhole DEF Trouble
<1>4. ASSUME NEW w \in Workers, Discard(w)
      PROVE  IInv'
  BY <1>4, DiscardWhole
<1> QED
  BY <1>1, <1>2, <1>3, <1>4, KickAllWhole, CloseWhole, RestartWhole, StutterWhole DEF Next

---------------------------------------------------------------------------
(* The theorems, for one worker.                                           *)

\* Every save is in one place, in the order it was queued: in the database or
\* refused, held by the worker, or in the queue; and a load comes after the saves
\* of its character (DatabaseWorker::WorkerThread on ProducerConsumerQueue).
THEOREM InductiveInvariant == OneWorker => (Spec => []IInv)
<1> SUFFICES ASSUME OneWorker
             PROVE  Spec => []IInv
  OBVIOUS
<1>1. Init => IInv
  BY InitWhole
<1>2. IInv /\ [Next]_vars => IInv'
  BY StepWhole
<1> QED
  BY <1>1, <1>2, PTL DEF Spec

\* TransactionTask::Execute: whatever is refused, tried again or ended by a crash,
\* row and items of a character come from the same save, unless a connection was
\* lost within a transaction.
THEOREM WritesAreWhole == OneWorker => (Spec => []TransactionsAreWhole)
<1> SUFFICES ASSUME OneWorker
             PROVE  Spec => []TransactionsAreWhole
  OBVIOUS
<1>1. Spec => []IInv
  BY InductiveInvariant
<1>2. IInv => TransactionsAreWhole
  BY DEF IInv
<1> QED
  BY <1>1, <1>2, PTL

\* The saves, of one character and of different ones, reach the database in the
\* order CommitTransaction queued them.
THEOREM SavesInOrder == OneWorker => (Spec => []SavesKeepTheirOrder)
<1> SUFFICES ASSUME OneWorker
             PROVE  Spec => []SavesKeepTheirOrder
  OBVIOUS
<1>1. Spec => []IInv
  BY InductiveInvariant
<1>2. IInv => SavesKeepTheirOrder
  <2> SUFFICES ASSUME IInv,
                      NEW j \in DOMAIN order, order[j].ver \in items[order[j].char],
                      NEW i \in 1..(j - 1)
               PROVE  \/ order[i].ver \in items[order[i].char] \cup refused[order[i].char]
                      \/ torn[order[i].char]
    BY DEF SavesKeepTheirOrder
  <2>1. order \in Seq(Saves)
    BY DEF IInv, SavesInv, OrderInv
  <2>2. i \in DOMAIN order /\ i < j
    BY <2>1
  <2>3. Settled(order[i])
    BY <2>2 DEF IInv, SavesInv, OrderInv
  <2> QED
    BY <2>3 DEF Settled, Ended
<1> QED
  BY <1>1, <1>2, PTL

\* HandlePlayerLogin finds what the earlier saves of the character have written,
\* since its load was queued after them.
THEOREM LoginsSeeSaves == OneWorker => (Spec => []LoadsSeeSaves)
<1> SUFFICES ASSUME OneWorker
             PROVE  Spec => []LoadsSeeSaves
  OBVIOUS
<1>1. Spec => []IInv
  BY InductiveInvariant
<1>2. IInv => LoadsSeeSaves
  <2> SUFFICES ASSUME IInv, NEW c \in Chars, place[c] = "loading",
                      loaded[c].ready, ~loaded[c].failed, ~torn[c]
               PROVE  /\ loaded[c].items = (1..version[c]) \ refused[c]
                      /\ loaded[c].row = Max({0} \cup loaded[c].items)
    BY DEF LoadsSeeSaves
  <2>1. /\ server = "running" /\ Quiet(c)
        /\ loaded[c].items = items[c] /\ loaded[c].row = rows[c]
    BY DEF IInv, LoadInv, LoadReady
  <2>2. rows[c] = Max({0} \cup items[c])
    BY DEF IInv, TransactionsAreWhole
  <2>3. \A v \in 1..version[c] : v \in Ended(c)
    <3>1. \A v \in 1..version[c] : v \in Ended(c) \/ Save(c, v) \in Held \cup Waits
      BY <2>1 DEF IInv, SavesInv, SettledInv
    <3>2. \A v : Save(c, v) \notin Held \cup Waits
      BY <2>1 DEF Quiet, Save
    <3> QED
      BY <3>1, <3>2
  <2>4. Ended(c) \subseteq 1..version[c] /\ items[c] \cap refused[c] = {}
    BY DEF IInv, SavesInv, SettledInv, VersionInv
  <2>5. items[c] = (1..version[c]) \ refused[c]
    BY <2>3, <2>4 DEF Ended
  <2> QED
    BY <2>1, <2>2, <2>5
<1> QED
  BY <1>1, <1>2, PTL
=============================================================================
