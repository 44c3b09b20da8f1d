---------------------- MODULE BattlegroundQueueLemmas ----------------------
(***************************************************************************)
(* What the operators of BattlegroundQueue make of a state.  The steps of  *)
(* the module are operators on a record of it, applied one after the other *)
(* in an update; so the invariant is a predicate on such records, and here *)
(* is that the queue keeps it: inviting, removing, filling and matching.   *)
(*                                                                         *)
(* FoldLeft and FoldSet are recursive functions.  That they are, and what  *)
(* they keep, follows without induction: among the finite sets for which   *)
(* it failed there would be one with no other inside it.                   *)
(***************************************************************************)
EXTENDS BattlegroundQueue, FiniteSetTheorems, FunctionTheorems, TLAPS

\* Of finite sets, one has no other of them inside it.
LEMMA FiniteMin ==
    ASSUME NEW S, IsFiniteSet(S), NEW B \in SUBSET SUBSET S, B # {}
    PROVE  \E T \in B : \A U \in B : U \subseteq T => U = T
<1>1. IsWellFoundedOn(StrictSubsetOrdering(S), SUBSET S)
  BY FS_FiniteSubsetsOfFinite, FS_StrictSubsetOrderingWellFounded
<1>2. PICK T \in B : \A U \in B : <<U, T>> \notin StrictSubsetOrdering(S)
  BY <1>1, WFMin
<1> QED
  BY <1>2 DEF StrictSubsetOrdering

\* A set of natural numbers has a least one.
LEMMA NatMin ==
    ASSUME NEW B \in SUBSET Nat, B # {}
    PROVE  \E n \in B : \A m \in B : n <= m
<1>1. IsWellFoundedOn({ss \in Nat \X Nat : ss[1] < ss[2]}, Nat)
  BY NatLessThanWellFounded DEF OpToRel
<1>2. PICK n \in B : \A m \in B : <<m, n>> \notin {ss \in Nat \X Nat : ss[1] < ss[2]}
  BY <1>1, WFMin
<1>3. ASSUME NEW m \in B PROVE n <= m
  <2>1. <<m, n>> \in Nat \X Nat
    OBVIOUS
  <2>2. ~(<<m, n>>[1] < <<m, n>>[2])
    BY <1>2, <2>1
  <2> QED
    BY <2>2
<1> QED
  BY <1>3

\* The operators Min and Max of the library.
LEMMA MinOf ==
    ASSUME NEW S \in SUBSET Nat, S # {}
    PROVE  Min(S) \in S /\ \A m \in S : Min(S) <= m
BY NatMin DEF Min

LEMMA MaxOf ==
    ASSUME NEW n \in Nat, NEW S \in SUBSET (1 .. n), S # {}
    PROVE  Max(S) \in S /\ \A m \in S : Max(S) >= m
<1> DEFINE B == {m \in Nat : \A x \in S : x <= m}
<1>1. B \in SUBSET Nat /\ n \in B
  OBVIOUS
<1>2. PICK m \in B : \A k \in B : m <= k
  BY <1>1, NatMin
<1>3. PICK y \in S : TRUE
  OBVIOUS
<1>4. m >= 1
  BY <1>3, <1>2
<1>5. m \in S
  <2> SUFFICES ASSUME m \notin S PROVE FALSE
    OBVIOUS
  <2>1. m - 1 \in B
    BY <1>4
  <2> QED
    BY <2>1, <1>2
<1> QED
  BY <1>5 DEF Max

\* The positions of a sequence.
LEMMA Positions ==
    ASSUME NEW n \in Nat
    PROVE  /\ IsFiniteSet(1 .. n)
           /\ \A s \in SUBSET (1 .. n) : s # {} => Max(s) \in s
<1>1. IsFiniteSet(1 .. n)
  BY FS_Interval
<1>2. ASSUME NEW s \in SUBSET (1 .. n), s # {} PROVE Max(s) \in s
  BY <1>2, MaxOf
<1> QED
  BY <1>1, <1>2

\* The elements of longer and shorter sequences.
LEMMA ElementsOfAppend ==
    ASSUME NEW T, NEW q \in Seq(T), NEW x \in T
    PROVE  ToSet(Append(q, x)) = ToSet(q) \cup {x}
<1> DEFINE a == Append(q, x)
<1>1. DOMAIN q = 1 .. Len(q) /\ DOMAIN a = 1 .. Len(q) + 1 /\ Len(q) \in Nat
  OBVIOUS
<1>2. /\ \A i \in 1 .. Len(q) : a[i] = q[i]
      /\ a[Len(q) + 1] = x
  OBVIOUS
<1> HIDE DEF a
<1> SUFFICES ToSet(a) = ToSet(q) \cup {x}
  BY DEF a
<1>3. ASSUME NEW y \in ToSet(a) PROVE y \in ToSet(q) \cup {x}
  <2>1. PICK i \in 1 .. Len(q) + 1 : y = a[i]
    BY <1>1 DEF ToSet
  <2>2. i \in 1 .. Len(q) \/ i = Len(q) + 1
    BY <1>1
  <2> QED
    BY <2>1, <2>2, <1>1, <1>2 DEF ToSet
<1>4. ASSUME NEW i \in 1 .. Len(q) PROVE q[i] \in ToSet(a)
  <2>1. i \in DOMAIN a
    BY <1>1
  <2> QED
    BY <2>1, <1>2 DEF ToSet
<1>5. x \in ToSet(a)
  <2>1. Len(q) + 1 \in DOMAIN a
    BY <1>1
  <2> QED
    BY <2>1, <1>2 DEF ToSet
<1> QED
  BY <1>3, <1>4, <1>5, <1>1 DEF ToSet

\* An element before the others, and the first taken away.
LEMMA ElementsOfCons ==
    ASSUME NEW T, NEW q \in Seq(T), NEW x \in T
    PROVE  /\ <<x>> \o q \in Seq(T)
           /\ ToSet(<<x>> \o q) = ToSet(q) \cup {x}
<1> DEFINE a == <<x>> \o q
<1>1. DOMAIN q = 1 .. Len(q) /\ DOMAIN a = 1 .. Len(q) + 1 /\ Len(q) \in Nat
  OBVIOUS
<1>2. /\ \A i \in 1 .. Len(q) : a[i + 1] = q[i]
      /\ a[1] = x
  OBVIOUS
<1>3. a \in Seq(T)
  OBVIOUS
<1> HIDE DEF a
<1> SUFFICES ToSet(a) = ToSet(q) \cup {x}
  BY <1>3 DEF a
<1>4. ASSUME NEW y \in ToSet(a) PROVE y \in ToSet(q) \cup {x}
  <2>1. PICK i \in 1 .. Len(q) + 1 : y = a[i]
    BY <1>1 DEF ToSet
  <2>2. i = 1 \/ (i - 1 \in 1 .. Len(q) /\ (i - 1) + 1 = i)
    BY <1>1
  <2> QED
    BY <2>1, <2>2, <1>1, <1>2 DEF ToSet
<1>5. ASSUME NEW i \in 1 .. Len(q) PROVE q[i] \in ToSet(a)
  <2>1. i + 1 \in DOMAIN a
    BY <1>1
  <2> QED
    BY <2>1, <1>2 DEF ToSet
<1>6. x \in ToSet(a)
  <2>1. 1 \in DOMAIN a
    BY <1>1
  <2> QED
    BY <2>1, <1>2 DEF ToSet
<1> QED
  BY <1>4, <1>5, <1>6, <1>1 DEF ToSet

LEMMA ElementsOfTail ==
    ASSUME NEW T, NEW q \in Seq(T), q # <<>>
    PROVE  /\ Head(q) \in T /\ Tail(q) \in Seq(T)
           /\ ToSet(q) = ToSet(Tail(q)) \cup {Head(q)}
<1>1. Head(q) \in T /\ Tail(q) \in Seq(T) /\ q = <<Head(q)>> \o Tail(q)
  OBVIOUS
<1>2. ASSUME NEW x \in T, NEW t \in Seq(T)
      PROVE  ToSet(<<x>> \o t) = ToSet(t) \cup {x}
  BY ElementsOfCons
<1>3. ToSet(<<Head(q)>> \o Tail(q)) = ToSet(Tail(q)) \cup {Head(q)}
  BY <1>1, <1>2, Zenon
<1> QED
  BY <1>1, <1>3, Zenon

\* RemoveFirst takes one element out of a sequence that has no other copy.
LEMMA RemoveFirstIs ==
    ASSUME NEW T, NEW q \in Seq(T), NEW x
    PROVE  /\ RemoveFirst(q, x) \in Seq(T)
           /\ (\A i, j \in DOMAIN q : q[i] = q[j] => i = j) =>
                  /\ ToSet(RemoveFirst(q, x)) = ToSet(q) \ {x}
                  /\ \A i, j \in DOMAIN RemoveFirst(q, x) :
                         RemoveFirst(q, x)[i] = RemoveFirst(q, x)[j] => i = j
<1>1. DOMAIN q = 1 .. Len(q) /\ Len(q) \in Nat
  OBVIOUS
<1>2. CASE ~\E i \in 1 .. Len(q) : q[i] = x
  <2>1. RemoveFirst(q, x) = q
    BY <1>2 DEF RemoveFirst
  <2>2. x \notin ToSet(q)
    BY <1>2, <1>1 DEF ToSet
  <2> QED
    BY <2>1, <2>2
<1>3. CASE \E i \in 1 .. Len(q) : q[i] = x
  <2> DEFINE I == {i \in 1 .. Len(q) : q[i] = x}
             n == Min(I)
             r == RemoveFirst(q, x)
  <2>1. n \in 1 .. Len(q) /\ q[n] = x
    <3>1. I \in SUBSET Nat /\ I # {}
      BY <1>3
    <3>2. Min(I) \in I
      BY <3>1, MinOf
    <3> QED
      BY <3>2
  <2>2. r = SubSeq(q, 1, n - 1) \o SubSeq(q, n + 1, Len(q))
    BY <1>3 DEF RemoveFirst, RemoveAt, SelectInSeq
  <2> HIDE DEF n
  <2>3. /\ r \in Seq(T) /\ Len(r) = Len(q) - 1
        /\ \A i \in 1 .. Len(r) : r[i] = IF i < n THEN q[i] ELSE q[i + 1]
    <3> DEFINE a == SubSeq(q, 1, n - 1)
               c == SubSeq(q, n + 1, Len(q))
    <3>1. /\ a \in Seq(T) /\ Len(a) = n - 1
          /\ \A i \in 1 .. n - 1 : a[i] = q[i]
      BY <2>1, <1>1
    <3>2. /\ c \in Seq(T) /\ Len(c) = Len(q) - n
          /\ \A i \in 1 .. Len(q) - n : c[i] = q[n + i]
      <4>1. c \in Seq(T)
        BY <2>1, <1>1
      <4>2. Len(c) = Len(q) - n
        <5>1. c = [i \in 1 .. (Len(q) - (n + 1) + 1) |-> q[i + (n + 1) - 1]]
          BY <2>1, <1>1
        <5>2. Len(q) - (n + 1) + 1 = Len(q) - n /\ Len(q) - n \in Nat
          BY <2>1, <1>1
        <5> HIDE DEF c
        <5>3. c = [i \in 1 .. (Len(q) - n) |-> q[i + (n + 1) - 1]]
          BY <5>1, <5>2
        <5> QED
          BY <5>2, <5>3
      <4>3. ASSUME NEW i \in 1 .. Len(q) - n
            PROVE  SubSeq(q, n + 1, Len(q))[i] = q[n + i]
        <5>1. SubSeq(q, n + 1, Len(q))[i] = q[(n + 1) + i - 1]
          BY <2>1, <1>1
        <5>2. (n + 1) + i - 1 = n + i
          BY <2>1, <1>1
        <5> QED
          BY <5>1, <5>2
      <4> QED
        BY <4>1, <4>2, <4>3
    <3> HIDE DEF a, c
    <3>3. r = a \o c
      BY <2>2 DEF a, c
    <3>4. r \in Seq(T) /\ Len(r) = Len(q) - 1
      <4>1. r \in Seq(T) /\ Len(r) = Len(a) + Len(c)
        BY <3>1, <3>2, <3>3
      <4> QED
        BY <4>1, <3>1, <3>2, <1>1, <2>1
    <3>5. ASSUME NEW i \in 1 .. Len(r)
          PROVE  r[i] = IF i < n THEN q[i] ELSE q[i + 1]
      <4>1. r[i] = IF i < n THEN a[i] ELSE c[i - (n - 1)]
        BY <3>1, <3>2, <3>3, <3>4, <1>1, <2>1
      <4>2. CASE i < n
        BY <4>1, <4>2, <3>1, <2>1
      <4>3. CASE ~(i < n)
        <5>1. i - (n - 1) \in 1 .. Len(q) - n /\ n + (i - (n - 1)) = i + 1
          BY <4>3, <3>4, <2>1, <1>1
        <5> QED
          BY <5>1, <4>1, <4>3, <3>2
      <4> QED
        BY <4>2, <4>3
    <3> QED
      BY <3>4, <3>5
  <2>4. DOMAIN r = 1 .. Len(r)
    BY <2>3
  <2> HIDE DEF r
  <2> DEFINE old(i) == IF i < n THEN i ELSE i + 1
  <2>5. \A i \in DOMAIN r : r[i] = q[old(i)] /\ old(i) \in DOMAIN q /\ old(i) # n
    BY <2>1, <2>3, <2>4, <1>1
  <2>6. \A i, j \in DOMAIN r : old(i) = old(j) => i = j
    BY <2>1, <2>3, <2>4, <1>1
  <2>7. \A j \in DOMAIN q : j # n => \E i \in DOMAIN r : old(i) = j
    <3> SUFFICES ASSUME NEW j \in DOMAIN q, j # n
                 PROVE  \E i \in DOMAIN r : old(i) = j
      OBVIOUS
    <3>1. CASE j < n
      BY <3>1, <2>1, <2>3, <2>4, <1>1
    <3>2. CASE ~(j < n)
      <4>1. j - 1 \in DOMAIN r /\ old(j - 1) = j
        BY <3>2, <2>1, <2>3, <2>4, <1>1
      <4> QED
        BY <4>1
    <3> QED
      BY <3>1, <3>2
  <2> HIDE DEF old
  <2> SUFFICES ASSUME \A i, j \in DOMAIN q : q[i] = q[j] => i = j
               PROVE  /\ ToSet(r) = ToSet(q) \ {x}
                      /\ \A i, j \in DOMAIN r : r[i] = r[j] => i = j
    BY <2>3 DEF r
  <2>8. \A i, j \in DOMAIN r : r[i] = r[j] => i = j
    BY <2>5, <2>6
  <2>9. ToSet(r) = ToSet(q) \ {x}
    <3>1. \A i \in DOMAIN r : r[i] \in ToSet(q) /\ r[i] # x
      BY <2>5, <2>1, <1>1 DEF ToSet
    <3>2. \A j \in DOMAIN q : q[j] # x => q[j] \in ToSet(r)
      <4> SUFFICES ASSUME NEW j \in DOMAIN q, q[j] # x
                   PROVE  \E i \in DOMAIN r : r[i] = q[j]
        BY DEF ToSet
      <4>1. PICK i \in DOMAIN r : old(i) = j
        BY <2>7, <2>1
      <4> QED
        BY <4>1, <2>5
    <3> QED
      BY <3>1, <3>2 DEF ToSet
  <2> QED
    BY <2>8, <2>9
<1> QED
  BY <1>2, <1>3

\* h is the function of a fold over the subsets of D, that takes out the
\* element ch[s] first and goes on with F.
IsFold(h, D, G, base, ch, F) ==
    /\ h \in [SUBSET D -> G]
    /\ \A s \in SUBSET D :
           h[s] = IF s = {} THEN base ELSE F[<<h[s \ {ch[s]}], ch[s]>>]

\* A fold over the subsets of a finite set: the function that takes one
\* element more at a time exists, and its values are in the type that each
\* step keeps.
LEMMA FoldExists ==
    ASSUME NEW D, IsFiniteSet(D), NEW G, NEW base \in G,
           NEW ch, \A s \in SUBSET D : s # {} => ch[s] \in s,
           NEW F \in [G \X D -> G]
    PROVE  \E h : IsFold(h, D, G, base, ch, F)
<1> DEFINE upTo(n, h) ==
        \A s \in SUBSET D : Cardinality(s) <= n =>
            h[s] = IF s = {} THEN base ELSE F[<<h[s \ {ch[s]}], ch[s]>>]
    bad == {n \in Nat : ~\E h \in [SUBSET D -> G] : upTo(n, h)}
<1>1. \A s \in SUBSET D : IsFiniteSet(s) /\ Cardinality(s) \in Nat
  BY FS_Subset, FS_CardinalityType
<1>2. \E h \in [SUBSET D -> G] : upTo(0, h)
  <2>1. \A s \in SUBSET D : Cardinality(s) <= 0 => s = {}
    BY <1>1, FS_EmptySet
  <2>2. upTo(0, [s \in SUBSET D |-> base])
    BY <2>1
  <2> QED
    BY <2>2
<1>3. ASSUME NEW n \in Nat, NEW h \in [SUBSET D -> G], upTo(n, h)
      PROVE  \E k \in [SUBSET D -> G] : upTo(n + 1, k)
  <2> DEFINE k == [s \in SUBSET D |->
                      IF Cardinality(s) <= n THEN h[s]
                      ELSE F[<<h[s \ {ch[s]}], ch[s]>>]]
  <2>1. \A s \in SUBSET D : Cardinality(s) <= n \/ s # {}
    <3>1. Cardinality({}) <= n
      BY FS_EmptySet
    <3> QED
      BY <3>1, Zenon
  <2>2. k \in [SUBSET D -> G]
    BY <2>1
  <2>3. ASSUME NEW s \in SUBSET D, Cardinality(s) <= n + 1
        PROVE  k[s] = IF s = {} THEN base ELSE F[<<k[s \ {ch[s]}], ch[s]>>]
    <3>1. CASE s = {}
      BY <3>1, <1>3, FS_EmptySet
    <3>2. CASE s # {}
      <4> DEFINE r == s \ {ch[s]}
      <4>1. r \in SUBSET D /\ Cardinality(r) <= n
        <5>1. Cardinality(r) = Cardinality(s) - 1
          BY <1>1, <3>2, FS_RemoveElement
        <5> QED
          BY <5>1, <1>1, <2>3
      <4>2. k[r] = h[r]
        BY <4>1
      <4>3. CASE Cardinality(s) <= n
        <5>1. k[s] = h[s]
          BY <4>3
        <5>2. h[s] = F[<<h[r], ch[s]>>]
          BY <4>3, <3>2, <1>3
        <5> QED
          BY <5>1, <5>2, <4>2, <3>2
      <4>4. CASE ~(Cardinality(s) <= n)
        <5>1. k[s] = F[<<h[r], ch[s]>>]
          BY <4>4
        <5> QED
          BY <5>1, <4>2, <3>2
      <4> QED
        BY <4>3, <4>4
    <3> QED
      BY <3>1, <3>2
  <2> QED
    BY <2>2, <2>3
<1>4. bad = {}
  <2> SUFFICES ASSUME bad # {} PROVE FALSE
    OBVIOUS
  <2> HIDE DEF upTo
  <2>1. bad \in SUBSET Nat
    OBVIOUS
  <2>2. PICK n \in bad : \A m \in bad : n <= m
    BY <2>1, NatMin
  <2>3. n # 0
    BY <1>2
  <2>4. n - 1 \in Nat /\ ~(n <= n - 1)
    BY <2>1, <2>3
  <2>5. n - 1 \notin bad
    BY <2>4, <2>2
  <2>6. PICK h \in [SUBSET D -> G] : upTo(n - 1, h)
    BY <2>4, <2>5
  <2>7. \E k \in [SUBSET D -> G] : upTo((n - 1) + 1, k)
    BY <1>3, <2>4, <2>6
  <2>8. (n - 1) + 1 = n
    BY <2>1
  <2>9. \E k \in [SUBSET D -> G] : upTo(n, k)
    BY <2>7, <2>8
  <2> QED
    BY <2>9
<1>5. PICK h \in [SUBSET D -> G] : upTo(Cardinality(D), h)
  BY <1>4, <1>1
<1>6. \A s \in SUBSET D : Cardinality(s) <= Cardinality(D)
  BY FS_Subset
<1> QED
  BY <1>5, <1>6 DEF IsFold

\* The same for a fold over a sequence of length n, and over a set.
LEMMA SeqFoldExists ==
    ASSUME NEW n \in Nat, NEW G, NEW base \in G, NEW F \in [G \X (1 .. n) -> G]
    PROVE  \E h : IsFold(h, 1 .. n, G, base, [s \in SUBSET (1 .. n) |-> Max(s)], F)
<1> DEFINE ch == [s \in SUBSET (1 .. n) |-> Max(s)]
<1>1. IsFiniteSet(1 .. n) /\ \A s \in SUBSET (1 .. n) : s # {} => ch[s] \in s
  BY Positions
<1> QED
  BY <1>1, FoldExists

\* The function by which FoldSet is defined.
LEMMA SetFoldExists ==
    ASSUME NEW D, IsFiniteSet(D), NEW G, NEW base \in G, NEW F \in [G \X D -> G]
    PROVE  \E h : IsFold(h, D, G, base, [s \in SUBSET D |-> CHOOSE x \in s : TRUE], F)
<1> DEFINE ch == [s \in SUBSET D |-> CHOOSE x \in s : TRUE]
<1>1. \A s \in SUBSET D : s # {} => ch[s] \in s
  OBVIOUS
<1> HIDE DEF ch
<1>2. \E h : IsFold(h, D, G, base, ch, F)
  BY <1>1, FoldExists
<1> QED
  BY <1>2 DEF ch

-----------------------------------------------------------------------------
\* The records and what has to agree in them.

\* The values of the variables; in a step the time of an event may be over
\* (left = 0).
Event == [player : Players, bg : Bgs, left : 0 .. Wait]

Counts == 0 .. CountSize - 1

Battleground == [status : {"none", "join", "progress", "leave", "map"},
                 players : SUBSET Players, delete : BOOLEAN,
                 invited : [Teams -> Counts]]

Queues == [Kinds -> [Teams -> Seq(Group)]]

State == [queue : Queues, events : SUBSET Event,
          slot : [Players -> {NoSlot, None} \cup Bgs],
          place : [Players -> Places],
          at : [Players -> Bgs \cup {None}],
          bg : [Bgs -> Battleground],
          freeSlots : Seq(Bgs), scheduled : BOOLEAN,
          stale : SUBSET Bgs, cut : BOOLEAN]

\* The groups of one queue.
GroupsIn(q, k, t) == ToSet(q[k][t])

\* A group is of the team whose queue it is in, and no player is in two.
GroupsApart(q) ==
    /\ \A k \in Kinds, t \in Teams : \A g \in GroupsIn(q, k, t) :
            \A p \in g.players : TeamOf[p] = t
    /\ \A g, h \in Groups(q) : g # h => g.players \cap h.players = {}

\* Who is queued is nowhere else, and his slot says what his group says.
SlotsAgree(s) ==
    \A g \in Groups(s.queue) : \A p \in g.players :
        s.place[p] = "out" /\ s.slot[p] = g.bg

\* Who is on the way has been ported by the invitation in his slot.
PlacesAgree(s) ==
    \A p \in Players : /\ s.place[p] = "out" <=> s.at[p] = None
                       /\ s.place[p] = "entering" => s.slot[p] = s.at[p]

\* A battleground lists only players that are there or have been.
ListsAgree(s) ==
    \A b \in Bgs : \A p \in s.bg[b].players :
        /\ Exists(s, b) /\ s.at[p] = b
        /\ s.place[p] \in {"inside", "offline"}

\* The list of free slots has each battleground once, and only real ones.
FreeAgree(s) ==
    /\ \A i, j \in DOMAIN s.freeSlots :
            s.freeSlots[i] = s.freeSlots[j] => i = j
    /\ \A b \in ToSet(s.freeSlots) : Exists(s, b)

\* Who holds a place, by the slots.
HoldersIn(s, b) ==
    {p \in Queued(s.queue) : s.slot[p] = b}
    \cup {p \in Players : s.place[p] = "entering" /\ s.at[p] = b}
    \cup s.bg[b].players

\* The invited counts of a battleground that is not stale are exact.
CountsAgree(s) ==
    \A b \in Bgs \ s.stale, t \in Teams :
        Exists(s, b) =>
            s.bg[b].invited[t] = Cardinality(InTeam(HoldersIn(s, b), t))

\* Each invited player has the event of his invitation.
EventsAgree(s) ==
    \A g \in Groups(s.queue) : g.bg # None =>
        \A p \in g.players : [player |-> p, bg |-> g.bg, left |-> g.left] \in s.events

Consistent(s) ==
    /\ s \in State
    /\ GroupsApart(s.queue) /\ SlotsAgree(s) /\ PlacesAgree(s)
    /\ ListsAgree(s) /\ FreeAgree(s) /\ CountsAgree(s) /\ EventsAgree(s)

\* Between two steps no event is due.
Fresh(s) == \A e \in s.events : e.left >= 1

\* The inductive invariant.
IInv == Consistent(Now) /\ Fresh(Now)

-----------------------------------------------------------------------------
\* The fields of a state have their types, and a record that differs from
\* one in some fields is one.
LEMMA StateFields ==
    ASSUME NEW s \in State
    PROVE  /\ s.queue \in Queues /\ s.events \in SUBSET Event
           /\ s.slot \in [Players -> {NoSlot, None} \cup Bgs]
           /\ s.place \in [Players -> Places]
           /\ s.at \in [Players -> Bgs \cup {None}]
           /\ s.bg \in [Bgs -> Battleground]
           /\ s.freeSlots \in Seq(Bgs)
           /\ s.scheduled \in BOOLEAN /\ s.cut \in BOOLEAN
           /\ s.stale \in SUBSET Bgs
BY DEF State

\* The fields of a group.
LEMMA GroupFields ==
    ASSUME NEW g \in Group
    PROVE  /\ g.players \in SUBSET Players /\ g.players # {}
           /\ g.bg \in Bgs \cup {None} /\ g.left \in 0 .. Wait
BY DEF Group

\* What is used of the constants.
LEMMA Constants ==
    /\ IsFiniteSet(Players) /\ TeamOf \in [Players -> Teams]
    /\ MaxBgs \in Nat /\ MinPlayers \in Nat /\ MaxPlayers \in Nat /\ Wait \in Nat
    /\ MaxBgs >= 1 /\ MinPlayers >= 1 /\ MaxPlayers >= 1 /\ Wait >= 1
    /\ MinPlayers <= MaxPlayers
    /\ Bgs \in SUBSET Nat /\ None \notin Bgs /\ NoSlot \notin Bgs /\ NoSlot # None
BY BattlegroundConstants DEF Bgs, None, NoSlot

\* The invited counts are natural numbers below CountSize, and as long as
\* they stay there they are counted as numbers are.
LEMMA CountsAre ==
    /\ CountSize \in Nat /\ 0 \in Counts
    /\ \A n \in Counts : n \in Nat /\ n < CountSize
BY FS_CardinalityType, BattlegroundConstants DEF Counts

LEMMA WrappedIs ==
    ASSUME NEW m \in Counts, NEW n \in Counts
    PROVE  /\ Wrapped(m - n) \in Counts /\ Wrapped(m + n) \in Counts
           /\ n <= m => Wrapped(m - n) = m - n
           /\ m + n \in Counts => Wrapped(m + n) = m + n
BY CountsAre DEF Wrapped, Counts

\* The fields of a battleground.
LEMMA BattlegroundFields ==
    ASSUME NEW x \in Battleground
    PROVE  /\ x.players \in SUBSET Players /\ x.delete \in BOOLEAN
           /\ x.status \in {"none", "join", "progress", "leave", "map"}
           /\ x.invited \in [Teams -> Counts]
           /\ \A t \in Teams : x.invited[t] \in Counts /\ x.invited[t] \in Int
BY CountsAre DEF Battleground

\* Groups and queued players, element by element.
LEMMA InGroups ==
    ASSUME NEW q
    PROVE  \A g : g \in Groups(q) <=>
                \E k \in Kinds, t \in Teams : g \in GroupsIn(q, k, t)
BY DEF Groups, GroupsIn

LEMMA InQueued ==
    ASSUME NEW q
    PROVE  \A p : p \in Queued(q) <=> \E g \in Groups(q) : p \in g.players
BY DEF Queued

\* What is queued in a queue of the right type.
LEMMA GroupsAreGroups ==
    ASSUME NEW q \in Queues
    PROVE  /\ \A g \in Groups(q) : g \in Group
           /\ Queued(q) \in SUBSET Players
<1>1. ASSUME NEW g \in Groups(q) PROVE g \in Group
  <2>1. PICK k \in Kinds, t \in Teams : g \in GroupsIn(q, k, t)
    BY InGroups
  <2>2. q[k][t] \in Seq(Group)
    BY DEF Queues
  <2>3. PICK i \in DOMAIN q[k][t] : g = q[k][t][i]
    BY <2>1 DEF ToSet, GroupsIn
  <2> QED
    BY <2>2, <2>3
<1> QED
  BY <1>1, InQueued, GroupFields

\* GroupOf is the one group a queued player is in.
LEMMA GroupOfIs ==
    ASSUME NEW q, GroupsApart(q), NEW p
    PROVE  /\ p \in Queued(q) => GroupOf(q, p) \in Groups(q) /\ p \in GroupOf(q, p).players
           /\ \A g \in Groups(q) : p \in g.players => g = GroupOf(q, p)
<1>1. ASSUME p \in Queued(q)
      PROVE  GroupOf(q, p) \in Groups(q) /\ p \in GroupOf(q, p).players
  BY <1>1, InQueued DEF GroupOf
<1>2. ASSUME NEW g \in Groups(q), p \in g.players
      PROVE  g = GroupOf(q, p)
  <2>1. GroupOf(q, p) \in Groups(q) /\ p \in GroupOf(q, p).players
    BY <1>1, <1>2, InQueued
  <2> QED
    BY <1>2, <2>1 DEF GroupsApart
<1> QED
  BY <1>1, <1>2

\* A function applied to every group of the queues.
MapQueue(q, m) ==
    [k \in Kinds |-> [t \in Teams |-> [n \in DOMAIN q[k][t] |-> m[q[k][t][n]]]]]

\* A queue whose groups are mapped holds what they are mapped to.
LEMMA MappedQueue ==
    ASSUME NEW q \in Queues, NEW m \in [Group -> Group], NEW r, r = MapQueue(q, m)
    PROVE  /\ r \in Queues
           /\ \A k \in Kinds, t \in Teams : \A x :
                  x \in GroupsIn(r, k, t) <=> \E g \in GroupsIn(q, k, t) : x = m[g]
           /\ \A x : x \in Groups(r) <=> \E g \in Groups(q) : x = m[g]
<1>1. ASSUME NEW k \in Kinds, NEW t \in Teams
      PROVE  /\ r[k][t] \in Seq(Group)
             /\ \A z : z \in GroupsIn(r, k, t) <=> \E g \in GroupsIn(q, k, t) : z = m[g]
  <2> DEFINE x == q[k][t]
             y == [n \in DOMAIN x |-> m[x[n]]]
  <2>1. x \in Seq(Group) /\ r[k][t] = y
    BY DEF Queues, MapQueue
  <2> HIDE DEF x
  <2>2. y \in Seq(Group)
    BY <2>1
  <2>3. \A z : z \in ToSet(y) <=> \E g \in ToSet(x) : z = m[g]
    BY <2>1 DEF ToSet
  <2> QED
    BY <2>1, <2>2, <2>3 DEF x, GroupsIn
<1>2. r \in Queues
  <2>1. \A k \in Kinds : r[k] \in [Teams -> Seq(Group)]
    BY <1>1 DEF MapQueue
  <2> QED
    BY <2>1 DEF Queues, MapQueue
<1>3. \A x : x \in Groups(r) <=> \E g \in Groups(q) : x = m[g]
  <2>1. ASSUME NEW g \in Groups(r) PROVE \E h \in Groups(q) : g = m[h]
    <3>1. PICK k \in Kinds, t \in Teams : g \in GroupsIn(r, k, t)
      BY InGroups
    <3>2. PICK h \in GroupsIn(q, k, t) : g = m[h]
      BY <3>1, <1>1
    <3> QED
      BY <3>2, InGroups
  <2>2. ASSUME NEW h \in Groups(q) PROVE m[h] \in Groups(r)
    <3>1. PICK k \in Kinds, t \in Teams : h \in GroupsIn(q, k, t)
      BY InGroups
    <3>2. m[h] \in GroupsIn(r, k, t)
      BY <3>1, <1>1
    <3> QED
      BY <3>2, InGroups
  <2> QED
    BY <2>1, <2>2
<1> QED
  BY <1>1, <1>2, <1>3

\* The same players in every group as before leave the groups apart.
LEMMA MappedApart ==
    ASSUME NEW q \in Queues, GroupsApart(q), NEW m \in [Group -> Group],
           NEW r \in Queues,
           \A k \in Kinds, t \in Teams : \A x :
                  x \in GroupsIn(r, k, t) <=> \E g \in GroupsIn(q, k, t) : x = m[g],
           \A x : x \in Groups(r) <=> \E g \in Groups(q) : x = m[g],
           \A g \in Group : m[g].players = g.players
    PROVE  GroupsApart(r) /\ Queued(r) = Queued(q)
<1>1. \A k \in Kinds, t \in Teams : \A g \in GroupsIn(q, k, t) : g \in Groups(q) /\ g \in Group
  BY InGroups, GroupsAreGroups
<1>2. \A g \in Groups(q) : g \in Group
  BY GroupsAreGroups
<1>3. ASSUME NEW k \in Kinds, NEW t \in Teams, NEW g \in GroupsIn(r, k, t), NEW p \in g.players
      PROVE  TeamOf[p] = t
  <2>1. PICK h \in GroupsIn(q, k, t) : g = m[h]
    OBVIOUS
  <2>2. p \in h.players
    BY <2>1, <1>1
  <2> QED
    BY <2>2 DEF GroupsApart
<1>4. ASSUME NEW g \in Groups(r), NEW h \in Groups(r), g # h
      PROVE  g.players \cap h.players = {}
  <2>1. PICK x \in Groups(q), y \in Groups(q) : g = m[x] /\ h = m[y]
    OBVIOUS
  <2>2. x # y
    BY <2>1, <1>4
  <2> QED
    BY <2>1, <2>2, <1>2 DEF GroupsApart
<1>5. Queued(r) = Queued(q)
  <2>1. \A g \in Groups(q) : m[g].players = g.players
    BY <1>2
  <2>2. ASSUME NEW p \in Queued(r) PROVE p \in Queued(q)
    <3>1. PICK g \in Groups(r) : p \in g.players
      BY InQueued
    <3>2. PICK h \in Groups(q) : g = m[h]
      OBVIOUS
    <3> QED
      BY <3>1, <3>2, <2>1, InQueued
  <2>3. ASSUME NEW p \in Queued(q) PROVE p \in Queued(r)
    <3>1. PICK g \in Groups(q) : p \in g.players
      BY InQueued
    <3>2. m[g] \in Groups(r) /\ p \in m[g].players
      BY <3>1, <2>1
    <3> QED
      BY <3>2, InQueued
  <2> QED
    BY <2>2, <2>3
<1> QED
  BY <1>3, <1>4, <1>5 DEF GroupsApart

\* What Without leaves of a queue.
LEMMA WithoutIs ==
    ASSUME NEW groups \in Seq(Group), NEW S
    PROVE  /\ Without(groups, S) \in Seq(Group)
           /\ \A x : x \in ToSet(Without(groups, S)) <=>
                  \E g \in ToSet(groups) : /\ ~(g.players \subseteq S)
                                           /\ x = [g EXCEPT !.players = @ \ S]
<1> DEFINE D == DOMAIN groups
    keep(kept, g) == IF g.players \subseteq S THEN kept
                     ELSE Append(kept, [g EXCEPT !.players = @ \ S])
    eq(h) == h = [s \in SUBSET D |-> IF s = {} THEN <<>>
                     ELSE keep(h[s \ {Max(s)}], groups[Max(s)])]
    f == CHOOSE h : eq(h)
    what(s) == {[groups[i] EXCEPT !.players = @ \ S] :
                   i \in {j \in s : ~(groups[j].players \subseteq S)}}
<1>1. Without(groups, S) = f[D]
  BY DEF Without, FoldLeft, MapThenFoldSet
<1>2. IsFiniteSet(D) /\ \A s \in SUBSET D : s # {} => Max(s) \in s
  <2>1. D = 1 .. Len(groups) /\ Len(groups) \in Nat
    OBVIOUS
  <2> QED
    BY <2>1, Positions
<1>3. \A k \in Seq(Group), i \in D : keep(k, groups[i]) \in Seq(Group)
  <2>1. ASSUME NEW g \in Group, ~(g.players \subseteq S)
        PROVE  [g EXCEPT !.players = @ \ S] \in Group
    BY <2>1 DEF Group
  <2> QED
    BY <2>1
<1>4. \E h : eq(h)
  <2> DEFINE n == Len(groups)
             G == Seq(Group)
             F == [x \in G \X (1 .. n) |-> keep(x[1], groups[x[2]])]
  <2>1. F \in [G \X (1 .. n) -> G] /\ n \in Nat /\ D = 1 .. n /\ <<>> \in G
    BY <1>3
  <2>2. \A k \in G, i \in 1 .. n : F[<<k, i>>] = keep(k, groups[i])
    OBVIOUS
  <2> HIDE DEF F, G, keep, n, D
  <2>3. PICK h : IsFold(h, 1 .. n, G, <<>>, [s \in SUBSET (1 .. n) |-> Max(s)], F)
    BY <2>1, SeqFoldExists
  <2>4. ASSUME NEW s \in SUBSET D
        PROVE  h[s] = IF s = {} THEN <<>> ELSE keep(h[s \ {Max(s)}], groups[Max(s)])
    BY <2>1, <2>2, <2>3, <1>2 DEF IsFold
  <2>5. eq(h)
    BY <2>1, <2>3, <2>4 DEF IsFold
  <2> QED
    BY <2>5
<1>5. \A s \in SUBSET D : f[s] = IF s = {} THEN <<>> ELSE keep(f[s \ {Max(s)}], groups[Max(s)])
  <2> HIDE DEF keep
  <2>1. eq(f)
    BY <1>4
  <2> HIDE DEF f
  <2> QED
    BY <2>1
<1> HIDE DEF f
<1>6. \A s \in SUBSET D : f[s] \in Seq(Group) /\ ToSet(f[s]) = what(s)
  <2> DEFINE bad == {s \in SUBSET D : ~(f[s] \in Seq(Group) /\ ToSet(f[s]) = what(s))}
  <2> SUFFICES ASSUME bad # {} PROVE FALSE
    OBVIOUS
  <2>1. PICK s \in bad : \A u \in bad : u \subseteq s => u = s
    <3>1. bad \in SUBSET SUBSET D
      OBVIOUS
    <3> HIDE DEF bad
    <3> QED
      BY <3>1, <1>2, FiniteMin
  <2>2. s # {}
    <3>1. f[{}] = <<>>
      BY <1>5
    <3>2. ToSet(<<>>) = {} /\ <<>> \in Seq(Group)
      BY DEF ToSet
    <3> QED
      BY <3>1, <3>2
  <2> DEFINE m == Max(s)
             r == s \ {m}
  <2>3. m \in D /\ m \in s /\ r \in SUBSET D /\ r \notin bad
    BY <2>1, <2>2, <1>2
  <2> HIDE DEF m
  <2>4. f[r] \in Seq(Group) /\ ToSet(f[r]) = what(r)
    BY <2>3
  <2>5. f[s] = keep(f[r], groups[m])
    BY <2>2, <1>5 DEF m
  <2>6. f[s] \in Seq(Group)
    BY <2>5, <2>4, <1>3, <2>3
  <2>7. ToSet(f[s]) = what(s)
    <3>1. CASE groups[m].players \subseteq S
      <4>1. what(s) = what(r)
        BY <2>3, <3>1
      <4> QED
        BY <4>1, <3>1, <2>5, <2>4
    <3>2. CASE ~(groups[m].players \subseteq S)
      <4> DEFINE g == [groups[m] EXCEPT !.players = @ \ S]
      <4>1. what(s) = what(r) \cup {g}
        BY <2>3, <3>2
      <4>2. f[s] = Append(f[r], g)
        BY <3>2, <2>5
      <4>3. ToSet(f[s]) = ToSet(f[r]) \cup {g}
        <5>1. g \in Group
          <6>1. groups[m] \in Group
            BY <2>3
          <6> QED
            BY <6>1, <3>2 DEF Group
        <5> HIDE DEF g
        <5>2. f[r] \in Seq(Group)
          BY <2>4
        <5> QED
          BY <5>1, <5>2, <4>2, ElementsOfAppend
      <4> QED
        BY <4>1, <4>3, <2>4
    <3> QED
      BY <3>1, <3>2
  <2> QED
    BY <2>1, <2>6, <2>7
<1>7. \A x : x \in what(D) <=>
          \E g \in ToSet(groups) : /\ ~(g.players \subseteq S)
                                   /\ x = [g EXCEPT !.players = @ \ S]
  BY DEF ToSet
<1> QED
  BY <1>1, <1>6, <1>7

\* Without a set of players.
QueueWithout(q, S) ==
    [k \in Kinds |-> [t \in Teams |-> Without(q[k][t], S)]]

\* Without the players S, the groups of a queue are still apart.
LEMMA WithoutQueue ==
    ASSUME NEW q \in Queues, GroupsApart(q), NEW S, NEW r, r = QueueWithout(q, S)
    PROVE  /\ r \in Queues /\ GroupsApart(r)
           /\ \A g \in Groups(r) : \E h \in Groups(q) :
                  /\ g.players = h.players \ S
                  /\ g.bg = h.bg /\ g.left = h.left
           /\ Queued(r) = Queued(q) \ S
<1>1. \A k \in Kinds, t \in Teams :
          /\ Without(q[k][t], S) \in Seq(Group)
          /\ \A x : x \in ToSet(Without(q[k][t], S)) <=>
                 \E g \in GroupsIn(q, k, t) : /\ ~(g.players \subseteq S)
                                             /\ x = [g EXCEPT !.players = @ \ S]
  <2>1. \A k \in Kinds, t \in Teams : q[k][t] \in Seq(Group)
    BY DEF Queues
  <2> QED
    BY <2>1, WithoutIs DEF GroupsIn
<1>2. r \in Queues
  <2>1. \A k \in Kinds : r[k] \in [Teams -> Seq(Group)]
    BY <1>1 DEF QueueWithout
  <2> QED
    BY <2>1 DEF Queues, QueueWithout
<1> DEFINE W(g) == [g EXCEPT !.players = @ \ S]
<1>3. \A g \in Group : /\ W(g).players = g.players \ S
                       /\ W(g).bg = g.bg /\ W(g).left = g.left
  BY DEF Group
<1>4. \A k \in Kinds, t \in Teams :
          /\ \A g \in GroupsIn(r, k, t) : \E h \in GroupsIn(q, k, t) : g = W(h)
          /\ \A h \in GroupsIn(q, k, t) :
                 ~(h.players \subseteq S) => W(h) \in GroupsIn(r, k, t)
  <2> SUFFICES ASSUME NEW k \in Kinds, NEW t \in Teams
               PROVE  /\ \A g \in GroupsIn(r, k, t) : \E h \in GroupsIn(q, k, t) : g = W(h)
                      /\ \A h \in GroupsIn(q, k, t) :
                             ~(h.players \subseteq S) => W(h) \in GroupsIn(r, k, t)
    OBVIOUS
  <2>1. GroupsIn(r, k, t) = ToSet(Without(q[k][t], S))
    BY DEF GroupsIn, QueueWithout
  <2>2. \A x : x \in ToSet(Without(q[k][t], S)) <=>
                   \E g \in GroupsIn(q, k, t) : ~(g.players \subseteq S) /\ x = W(g)
    BY <1>1, Zenon
  <2> HIDE DEF W
  <2> QED
    BY <2>1, <2>2, Zenon
<1> HIDE DEF W
<1>5. \A k \in Kinds, t \in Teams : \A g \in GroupsIn(q, k, t) : g \in Groups(q) /\ g \in Group
  BY InGroups, GroupsAreGroups
<1>6. ASSUME NEW k \in Kinds, NEW t \in Teams, NEW g \in GroupsIn(r, k, t)
      PROVE  /\ \E h \in GroupsIn(q, k, t) : g = W(h)
             /\ \A p \in g.players : TeamOf[p] = t
  <2>1. PICK h \in GroupsIn(q, k, t) : g = W(h)
    BY <1>4
  <2>2. \A p \in h.players : TeamOf[p] = t
    BY DEF GroupsApart
  <2> QED
    BY <2>1, <2>2, <1>3, <1>5
<1>7. ASSUME NEW g \in Groups(r)
      PROVE  \E h \in Groups(q) : g = W(h)
  <2>1. PICK k \in Kinds, t \in Teams : g \in GroupsIn(r, k, t)
    BY InGroups
  <2> QED
    BY <2>1, <1>6, <1>5
<1>8. ASSUME NEW g \in Groups(r), NEW h \in Groups(r), g # h
      PROVE  g.players \cap h.players = {}
  <2>1. PICK x \in Groups(q), y \in Groups(q) : g = W(x) /\ h = W(y)
    BY <1>7
  <2>2. x # y
    BY <2>1, <1>8
  <2>3. x.players \cap y.players = {} /\ x \in Group /\ y \in Group
    BY <2>2, GroupsAreGroups DEF GroupsApart
  <2> QED
    BY <2>1, <2>3, <1>3
<1>9. ASSUME NEW p \in Queued(q), p \notin S
      PROVE  p \in Queued(r)
  <2>1. PICK g \in Groups(q) : p \in g.players
    BY InQueued
  <2>2. PICK k \in Kinds, t \in Teams : g \in GroupsIn(q, k, t)
    BY InGroups
  <2>3. W(g) \in GroupsIn(r, k, t)
    <3>1. ~(g.players \subseteq S)
      BY <2>1, <1>9
    <3> QED
      BY <1>4, <3>1, <2>2
  <2>4. W(g) \in Groups(r) /\ p \in W(g).players
    BY <2>1, <2>2, <2>3, <1>3, <1>5, <1>9, InGroups
  <2> QED
    BY <2>4, InQueued
<1>10. ASSUME NEW p \in Queued(r)
      PROVE  p \in Queued(q) /\ p \notin S
  <2>1. PICK g \in Groups(r) : p \in g.players
    BY InQueued
  <2>2. PICK h \in Groups(q) : g = W(h)
    BY <1>7
  <2> QED
    BY <2>1, <2>2, <1>3, GroupsAreGroups, InQueued
<1>11. \A g \in Groups(r) : \E h \in Groups(q) :
                  /\ g.players = h.players \ S
                  /\ g.bg = h.bg /\ g.left = h.left
  BY <1>7, <1>3, GroupsAreGroups
<1>12. GroupsApart(r)
  BY <1>6, <1>8 DEF GroupsApart
<1> QED
  BY <1>2, <1>9, <1>10, <1>11, <1>12

\* Counting the players of a team in a set.
LEMMA TeamCount ==
    ASSUME NEW S \in SUBSET Players, NEW t
    PROVE  /\ IsFiniteSet(InTeam(S, t)) /\ Cardinality(InTeam(S, t)) \in Nat
           /\ Cardinality(InTeam({}, t)) = 0
           /\ Cardinality(InTeam(S, t)) \in Counts
<1>1. InTeam(S, t) \in SUBSET Players /\ InTeam({}, t) = {}
  BY DEF InTeam
<1>2. /\ IsFiniteSet(InTeam(S, t)) /\ Cardinality(InTeam(S, t)) \in Nat
      /\ Cardinality(InTeam({}, t)) = 0
      /\ Cardinality(InTeam(S, t)) <= Cardinality(Players)
  BY <1>1, Constants, FS_Subset, FS_CardinalityType, FS_EmptySet
<1>3. Cardinality(Players) \in Nat /\ Cardinality(Players) < CountSize /\ CountSize \in Nat
  BY FS_CardinalityType, BattlegroundConstants
<1>4. Cardinality(InTeam(S, t)) \in Counts
  BY <1>2, <1>3 DEF Counts
<1> QED
  BY <1>2, <1>4

\* The count is additive.
LEMMA TeamCountUnion ==
    ASSUME NEW A \in SUBSET Players, NEW B \in SUBSET Players, A \cap B = {}, NEW t
    PROVE  Cardinality(InTeam(A \cup B, t)) =
               Cardinality(InTeam(A, t)) + Cardinality(InTeam(B, t))
<1> DEFINE X == InTeam(A, t)
           Y == InTeam(B, t)
<1>1. /\ X \cap Y = {} /\ InTeam(A \cup B, t) = X \cup Y
      /\ IsFiniteSet(X) /\ IsFiniteSet(Y)
  BY TeamCount DEF InTeam
<1>2. Cardinality(X) \in Nat /\ Cardinality(Y) \in Nat
  BY TeamCount
<1> HIDE DEF X, Y
<1>3. Cardinality(X \cup Y) = Cardinality(X) + Cardinality(Y) - Cardinality(X \cap Y)
  BY <1>1, FS_Union
<1>4. Cardinality(X \cap Y) = 0
  BY <1>1, FS_EmptySet
<1>5. Cardinality(X \cup Y) = Cardinality(X) + Cardinality(Y)
  BY <1>2, <1>3, <1>4
<1> QED
  BY <1>1, <1>5 DEF X, Y

LEMMA TeamCountMinus ==
    ASSUME NEW A \in SUBSET Players, NEW B \in SUBSET A, NEW t
    PROVE  /\ Cardinality(InTeam(A \ B, t)) =
                   Cardinality(InTeam(A, t)) - Cardinality(InTeam(B, t))
           /\ Cardinality(InTeam(B, t)) <= Cardinality(InTeam(A, t))
<1>1. /\ A \ B \in SUBSET Players /\ B \in SUBSET Players
      /\ (A \ B) \cap B = {} /\ (A \ B) \cup B = A
  OBVIOUS
<1>2. Cardinality(InTeam(A, t)) =
          Cardinality(InTeam(A \ B, t)) + Cardinality(InTeam(B, t))
  BY <1>1, TeamCountUnion
<1>3. /\ Cardinality(InTeam(A \ B, t)) \in Nat
      /\ Cardinality(InTeam(B, t)) \in Nat
  BY <1>1, TeamCount
<1> QED
  BY <1>2, <1>3

LEMMA TeamCountOne ==
    ASSUME NEW p \in Players, NEW t
    PROVE  Cardinality(InTeam({p}, t)) = IF TeamOf[p] = t THEN 1 ELSE 0
<1>1. InTeam({p}, t) = IF TeamOf[p] = t THEN {p} ELSE {}
  BY DEF InTeam
<1> QED
  BY <1>1, FS_Singleton, FS_EmptySet

\* Those who hold a place are players.
LEMMA HoldersArePlayers ==
    ASSUME NEW s \in State, NEW b \in Bgs
    PROVE  HoldersIn(s, b) \in SUBSET Players
<1>1. Queued(s.queue) \in SUBSET Players /\ s.bg[b].players \in SUBSET Players
  BY StateFields, GroupsAreGroups DEF Battleground
<1> QED
  BY <1>1 DEF HoldersIn

\* The players of some groups, each with the battleground of his group.
LEMMA SlotOfQueued ==
    ASSUME NEW s, SlotsAgree(s), NEW p \in Queued(s.queue)
    PROVE  s.place[p] = "out" /\ \E g \in Groups(s.queue) : p \in g.players /\ s.slot[p] = g.bg
BY InQueued DEF SlotsAgree

\* By the slots, or by the groups: the same.
LEMMA HoldersAre ==
    ASSUME NEW s, GroupsApart(s.queue), SlotsAgree(s), NEW b
    PROVE  Holders(s, b) = HoldersIn(s, b)
<1>1. \A p \in Queued(s.queue) : GroupOf(s.queue, p).bg = s.slot[p]
  BY GroupOfIs DEF SlotsAgree
<1>2. {p \in Queued(s.queue) : GroupOf(s.queue, p).bg = b} =
          {p \in Queued(s.queue) : s.slot[p] = b}
  BY <1>1
<1> QED
  BY <1>2 DEF Holders, HoldersIn

PlayersOf(G) == UNION {g.players : g \in G}

\* InviteGroupToBG: slots, events and counts follow the groups that are invited.
LEMMA InviteGroupsKeeps ==
    ASSUME NEW s, Consistent(s), NEW b \in Bgs, Exists(s, b), NEW G,
           \A g \in G : g \in Groups(s.queue) /\ g.bg = None,
           NEW r, r = InviteGroups(s, G, b)
    PROVE  /\ Consistent(r)
           /\ Queued(r.queue) = Queued(s.queue)
           /\ r.place = s.place /\ r.at = s.at /\ r.stale = s.stale /\ r.freeSlots = s.freeSlots
           /\ r.scheduled = s.scheduled /\ r.cut = s.cut
           /\ \A c \in Bgs : /\ c # b => r.bg[c] = s.bg[c]
                             /\ r.bg[c].status = s.bg[c].status
                             /\ r.bg[c].players = s.bg[c].players
                             /\ r.bg[c].delete = s.bg[c].delete
           /\ b \notin s.stale =>
                  \A t \in Teams : r.bg[b].invited[t] = s.bg[b].invited[t]
                        + Cardinality(InTeam(PlayersOf(G), t))
           /\ Fresh(s) => Fresh(r)
<1> USE Constants
<1> DEFINE U == UNION {g.players : g \in G}
           m == [g \in Group |-> IF g \in G THEN [g EXCEPT !.bg = b, !.left = Wait] ELSE g]
           q == [k \in Kinds |-> [t \in Teams |->
                    [n \in DOMAIN s.queue[k][t] |-> m[s.queue[k][t][n]]]]]
           added(t) == Cardinality(InTeam(U, t))
           bgs == [s.bg EXCEPT ![b].invited = [t \in Teams |-> Wrapped(@[t] + added(t))]]
           sl == [p \in Players |-> IF p \in U THEN b ELSE s.slot[p]]
           ev == s.events \cup {[player |-> p, bg |-> b, left |-> Wait] : p \in U}
<1>1. /\ s \in State /\ s.queue \in Queues /\ GroupsApart(s.queue)
      /\ SlotsAgree(s) /\ PlacesAgree(s) /\ ListsAgree(s)
      /\ FreeAgree(s) /\ CountsAgree(s) /\ EventsAgree(s)
  BY StateFields DEF Consistent
<1>2. /\ \A g \in Groups(s.queue) : g \in Group
      /\ \A g \in G : g \in Group
      /\ U \in SUBSET Players /\ U \in SUBSET Queued(s.queue)
      /\ Queued(s.queue) \in SUBSET Players
  <2>1. /\ \A g \in Groups(s.queue) : g \in Group
        /\ Queued(s.queue) \in SUBSET Players
    BY <1>1, GroupsAreGroups
  <2> QED
    BY <2>1, InQueued
<1>3. \A g \in Group : /\ m[g] \in Group /\ m[g].players = g.players
                       /\ m[g].bg = IF g \in G THEN b ELSE g.bg
                       /\ m[g].left = IF g \in G THEN Wait ELSE g.left
  <2>1. \A g \in Group : m[g] = IF g \in G THEN [g EXCEPT !.bg = b, !.left = Wait] ELSE g
    OBVIOUS
  <2>2. ASSUME NEW g \in Group, NEW h, h = [g EXCEPT !.bg = b, !.left = Wait]
        PROVE  h \in Group /\ h.players = g.players /\ h.bg = b /\ h.left = Wait
    <3>1. Wait \in 0 .. Wait /\ b \in Bgs \cup {None}
      OBVIOUS
    <3> QED
      BY <2>2, <3>1 DEF Group
  <2> HIDE DEF m
  <2> QED
    BY <2>1, <2>2
<1>4. m \in [Group -> Group]
  BY <1>3
<1>5. r = [s EXCEPT !.queue = q, !.bg = bgs, !.slot = sl, !.events = ev]
  <2>1. \A k \in Kinds, t \in Teams : \A n \in DOMAIN s.queue[k][t] :
            /\ s.queue[k][t][n] \in Group
            /\ m[s.queue[k][t][n]] =
                 IF s.queue[k][t][n] \in G
                 THEN [s.queue[k][t][n] EXCEPT !.bg = b, !.left = Wait]
                 ELSE s.queue[k][t][n]
    <3> SUFFICES ASSUME NEW k \in Kinds, NEW t \in Teams, NEW n \in DOMAIN s.queue[k][t]
                 PROVE  s.queue[k][t][n] \in Group
      OBVIOUS
    <3>1. s.queue[k][t] \in Seq(Group)
      BY <1>1 DEF Queues
    <3> QED
      BY <3>1
  <2>2. q = [k \in Kinds |-> [t \in Teams |->
                [n \in DOMAIN s.queue[k][t] |->
                    IF s.queue[k][t][n] \in G
                    THEN [s.queue[k][t][n] EXCEPT !.bg = b, !.left = Wait]
                    ELSE s.queue[k][t][n]]]]
    BY <2>1
  <2> QED
    BY <2>2 DEF InviteGroups
<1>6. q = MapQueue(s.queue, m)
  BY DEF MapQueue
<1> HIDE DEF m, q
<1>7. /\ q \in Queues
      /\ \A k \in Kinds, t \in Teams : \A x :
             x \in GroupsIn(q, k, t) <=> \E g \in GroupsIn(s.queue, k, t) : x = m[g]
      /\ \A x : x \in Groups(q) <=> \E g \in Groups(s.queue) : x = m[g]
  BY <1>1, <1>4, <1>6, MappedQueue
<1>8. GroupsApart(q) /\ Queued(q) = Queued(s.queue)
  BY <1>1, <1>3, <1>4, <1>7, MappedApart
<1>9. /\ bgs \in [Bgs -> Battleground]
      /\ \A c \in Bgs : /\ c # b => bgs[c] = s.bg[c]
                        /\ bgs[c].status = s.bg[c].status
                        /\ bgs[c].players = s.bg[c].players
                        /\ bgs[c].delete = s.bg[c].delete
      /\ \A t \in Teams : bgs[b].invited[t] = Wrapped(s.bg[b].invited[t] + added(t))
  <2>1. \A t \in Teams : added(t) \in Counts
    BY <1>2, TeamCount
  <2>2. s.bg \in [Bgs -> Battleground]
    BY <1>1, StateFields
  <2> HIDE DEF added
  <2>3. \A t \in Teams : Wrapped(s.bg[b].invited[t] + added(t)) \in Counts
    BY <2>1, <2>2, BattlegroundFields, WrappedIs
  <2> QED
    BY <2>2, <2>3 DEF Battleground
<1>10. sl \in [Players -> {NoSlot, None} \cup Bgs]
  BY <1>1, StateFields
<1>11. ev \in SUBSET Event
  <2>1. \A p \in U : [player |-> p, bg |-> b, left |-> Wait] \in Event
    BY <1>2 DEF Event
  <2> QED
    BY <2>1, <1>1, StateFields
<1>12. /\ \A p \in U : [player |-> p, bg |-> b, left |-> Wait] \in ev
       /\ s.events \subseteq ev
       /\ \A e \in ev : e \in s.events \/ e.left = Wait
  OBVIOUS
<1>13. \A p \in Players : sl[p] = IF p \in U THEN b ELSE s.slot[p]
  OBVIOUS
<1>14. \A p : p \in U <=> \E g \in G : p \in g.players
  OBVIOUS
<1> HIDE DEF bgs, sl, ev, U, added
<1>15. /\ r \in State /\ r.queue = q /\ r.bg = bgs /\ r.slot = sl /\ r.events = ev
       /\ r.place = s.place /\ r.at = s.at /\ r.stale = s.stale /\ r.freeSlots = s.freeSlots
       /\ r.scheduled = s.scheduled /\ r.cut = s.cut
  BY <1>1, <1>5, <1>7, <1>9, <1>10, <1>11 DEF State
<1>16. \A c : Exists(r, c) <=> Exists(s, c)
  BY <1>15, <1>9 DEF Exists
<1>17. SlotsAgree(r)
  <2> SUFFICES ASSUME NEW g \in Groups(q), NEW p \in g.players
               PROVE  s.place[p] = "out" /\ sl[p] = g.bg
    BY <1>15 DEF SlotsAgree
  <2>1. PICK h \in Groups(s.queue) : g = m[h]
    BY <1>7
  <2>2. h \in Group /\ p \in h.players /\ p \in Players
    BY <2>1, <1>2, <1>3, GroupFields
  <2>3. s.place[p] = "out" /\ s.slot[p] = h.bg
    BY <2>2, <1>1 DEF SlotsAgree
  <2>4. p \in U <=> h \in G
    BY <2>2, <1>14, <1>1 DEF GroupsApart
  <2> QED
    BY <2>1, <2>2, <2>3, <2>4, <1>3, <1>13
<1>19. \A p \in U : s.place[p] = "out" /\ s.slot[p] = None
  BY <1>1, <1>14 DEF SlotsAgree
<1>20. PlacesAgree(r)
  <2>1. \A p \in Players : s.place[p] = "entering" => sl[p] = s.slot[p]
    BY <1>13, <1>19
  <2> QED
    BY <2>1, <1>1, <1>15 DEF PlacesAgree
<1>21. ListsAgree(r)
  BY <1>1, <1>9, <1>15, <1>16 DEF ListsAgree
<1>22. FreeAgree(r)
  BY <1>1, <1>15, <1>16 DEF FreeAgree
<1>26. ASSUME b \notin s.stale, NEW t \in Teams
       PROVE  /\ bgs[b].invited[t] = Cardinality(InTeam(HoldersIn(r, b), t))
              /\ bgs[b].invited[t] = s.bg[b].invited[t] + added(t)
  <2>1. s.bg[b].invited[t] = Cardinality(InTeam(HoldersIn(s, b), t))
    BY <1>1, <1>26 DEF CountsAgree
  <2>2. {p \in Queued(q) : sl[p] = b} = {p \in Queued(s.queue) : s.slot[p] = b} \cup U
    BY <1>2, <1>8, <1>13, <1>19
  <2>3. HoldersIn(r, b) = HoldersIn(s, b) \cup U
    BY <2>2, <1>15, <1>9 DEF HoldersIn
  <2>4. HoldersIn(s, b) \cap U = {}
    <3>1. \A p \in s.bg[b].players : s.place[p] # "out"
      BY <1>1 DEF ListsAgree
    <3> QED
      BY <3>1, <1>19 DEF HoldersIn
  <2>5. HoldersIn(s, b) \in SUBSET Players
    BY <1>1, HoldersArePlayers
  <2> DEFINE k == Cardinality(InTeam(HoldersIn(s, b), t))
             n == added(t)
             all == Cardinality(InTeam(HoldersIn(r, b), t))
  <2>6. all = k + n
    BY <2>3, <2>4, <2>5, <1>2, TeamCountUnion DEF added
  <2>7. k \in Counts /\ n \in Counts /\ all \in Counts
    BY <2>3, <2>5, <1>2, TeamCount DEF added
  <2>8. bgs[b].invited[t] = Wrapped(k + n)
    BY <2>1, <1>9
  <2>9. k = s.bg[b].invited[t]
    BY <2>1
  <2> HIDE DEF k, n, all
  <2>10. Wrapped(k + n) = all
    BY <2>6, <2>7, WrappedIs
  <2> QED
    BY <2>6, <2>8, <2>9, <2>10 DEF all, n
<1>23. CountsAgree(r)
  <2> SUFFICES ASSUME NEW c \in Bgs \ s.stale, NEW t \in Teams, Exists(s, c), c # b
               PROVE  bgs[c].invited[t] = Cardinality(InTeam(HoldersIn(r, c), t))
    BY <1>15, <1>16, <1>26 DEF CountsAgree
  <2>1. {p \in Queued(q) : sl[p] = c} = {p \in Queued(s.queue) : s.slot[p] = c}
    BY <1>2, <1>8, <1>13, <1>19
  <2>2. HoldersIn(r, c) = HoldersIn(s, c)
    BY <2>1, <1>15, <1>9 DEF HoldersIn
  <2> QED
    BY <2>2, <1>1, <1>9 DEF CountsAgree
<1>24. EventsAgree(r)
  <2> SUFFICES ASSUME NEW g \in Groups(q), g.bg # None, NEW p \in g.players
               PROVE  [player |-> p, bg |-> g.bg, left |-> g.left] \in ev
    BY <1>15 DEF EventsAgree
  <2>1. PICK h \in Groups(s.queue) : g = m[h]
    BY <1>7
  <2>2. h \in Group /\ p \in h.players
    BY <2>1, <1>2, <1>3
  <2>3. CASE h \in G
    BY <2>1, <2>2, <2>3, <1>3, <1>12, <1>14
  <2>4. CASE h \notin G
    BY <2>1, <2>2, <2>4, <1>1, <1>3, <1>12 DEF EventsAgree
  <2> QED
    BY <2>3, <2>4
<1>25. Fresh(s) => Fresh(r)
  BY <1>12, <1>15 DEF Fresh
<1> QED
  BY <1>8, <1>9, <1>15, <1>17, <1>26, <1>20, <1>21, <1>22, <1>23, <1>24, <1>25
     DEF Consistent, U, added, PlayersOf

\* DecreaseInvitedCount changes one count.
LEMMA UninviteIs ==
    ASSUME NEW x \in Battleground, NEW t \in Teams, NEW n \in Counts
    PROVE  /\ Uninvite(x, t, n) \in Battleground
           /\ Uninvite(x, t, n).status = x.status
           /\ Uninvite(x, t, n).players = x.players
           /\ Uninvite(x, t, n).delete = x.delete
           /\ \A u \in Teams : Uninvite(x, t, n).invited[u] =
                  IF u = t THEN Wrapped(x.invited[u] - n) ELSE x.invited[u]
<1>1. Wrapped(x.invited[t] - n) \in Counts
  BY BattlegroundFields, WrappedIs
<1> QED
  BY <1>1 DEF Uninvite, Battleground

\* The players of S that battleground b is told of.
Told(s, S, b) == {p \in S \cap Queued(s.queue) : s.slot[p] = b}

\* What RemovePlayers does to the state, and with decrease.
Removed(r, s, S, decrease) ==
    /\ r \in State /\ GroupsApart(r.queue)
    /\ \A g \in Groups(r.queue) : \E h \in Groups(s.queue) :
           g.players = h.players \ S /\ g.bg = h.bg /\ g.left = h.left
    /\ Queued(r.queue) = Queued(s.queue) \ S
    /\ r.events = s.events /\ r.slot = s.slot /\ r.place = s.place
    /\ r.at = s.at /\ r.stale = s.stale /\ r.freeSlots = s.freeSlots
    /\ r.scheduled = s.scheduled /\ r.cut = s.cut
    /\ \A b \in Bgs : /\ r.bg[b].status = s.bg[b].status
                      /\ r.bg[b].players = s.bg[b].players
                      /\ r.bg[b].delete = s.bg[b].delete
    /\ \A b \in Bgs, t \in Teams : r.bg[b].invited[t] =
           IF decrease /\ Exists(s, b)
           THEN Wrapped(s.bg[b].invited[t] - Cardinality(InTeam(Told(s, S, b), t)))
           ELSE s.bg[b].invited[t]

Uninvited(r, s, S) == Removed(r, s, S, TRUE)

\* RemovePlayer does what Removed says: the battleground that is told is
\* the one in the slot of the player.
LEMMA RemovePlayersIs ==
    ASSUME NEW s, Consistent(s), NEW S \in SUBSET Players, NEW decrease \in BOOLEAN
    PROVE  Removed(RemovePlayers(s, S, decrease), s, S, decrease)
<1> DEFINE told(b, t) == {p \in InTeam(S, t) : /\ decrease
                                               /\ p \in Queued(s.queue)
                                               /\ GroupOf(s.queue, p).bg = b}
           n(b, t) == Cardinality(told(b, t))
           new(b) == IF Exists(s, b)
                     THEN Uninvite(Uninvite(s.bg[b], "ally", n(b, "ally")),
                                   "horde", n(b, "horde"))
                     ELSE s.bg[b]
           q == QueueWithout(s.queue, S)
           bgs == [b \in Bgs |-> new(b)]
           r == RemovePlayers(s, S, decrease)
<1>1. /\ s \in State /\ s.queue \in Queues /\ GroupsApart(s.queue) /\ SlotsAgree(s)
      /\ s.bg \in [Bgs -> Battleground] /\ Queued(s.queue) \in SUBSET Players
  BY StateFields, GroupsAreGroups DEF Consistent
<1>2. /\ q \in Queues /\ GroupsApart(q)
      /\ \A g \in Groups(q) : \E h \in Groups(s.queue) :
             /\ g.players = h.players \ S
             /\ g.bg = h.bg /\ g.left = h.left
      /\ Queued(q) = Queued(s.queue) \ S
  <2> HIDE DEF q
  <2>1. q = QueueWithout(s.queue, S)
    BY DEF q
  <2> QED
    BY <1>1, <2>1, WithoutQueue
<1>3. r = [s EXCEPT !.queue = q, !.bg = bgs]
  BY DEF RemovePlayers, QueueWithout
<1>4. \A b \in Bgs, t \in Teams :
          told(b, t) = IF decrease THEN InTeam(Told(s, S, b), t) ELSE {}
  <2>1. ASSUME NEW p \in Queued(s.queue), NEW b
        PROVE  GroupOf(s.queue, p).bg = b <=> s.slot[p] = b
    BY <1>1, GroupOfIs DEF SlotsAgree
  <2> QED
    BY <2>1 DEF Told, InTeam
<1>5. \A b \in Bgs, t \in Teams :
          /\ n(b, t) \in Counts
          /\ n(b, t) = IF decrease THEN Cardinality(InTeam(Told(s, S, b), t)) ELSE 0
  <2>1. \A b : Told(s, S, b) \in SUBSET Players
    BY DEF Told
  <2> QED
    BY <1>4, <2>1, TeamCount, FS_EmptySet, CountsAre
<1> HIDE DEF told, n, q
<1>6. \A b \in Bgs :
          /\ new(b) \in Battleground
          /\ new(b).status = s.bg[b].status
          /\ new(b).players = s.bg[b].players
          /\ new(b).delete = s.bg[b].delete
          /\ \A t \in Teams : new(b).invited[t] =
                 IF Exists(s, b) THEN Wrapped(s.bg[b].invited[t] - n(b, t))
                 ELSE s.bg[b].invited[t]
  <2> SUFFICES ASSUME NEW b \in Bgs
               PROVE  /\ new(b) \in Battleground
                      /\ new(b).status = s.bg[b].status
                      /\ new(b).players = s.bg[b].players
                      /\ new(b).delete = s.bg[b].delete
                      /\ \A t \in Teams : new(b).invited[t] =
                             IF Exists(s, b) THEN Wrapped(s.bg[b].invited[t] - n(b, t))
                             ELSE s.bg[b].invited[t]
    OBVIOUS
  <2>1. s.bg[b] \in Battleground
    BY <1>1
  <2>2. CASE ~Exists(s, b)
    BY <2>1, <2>2
  <2>3. CASE Exists(s, b)
    <3> DEFINE y == Uninvite(s.bg[b], "ally", n(b, "ally"))
               z == Uninvite(y, "horde", n(b, "horde"))
    <3>1. "ally" \in Teams /\ "horde" \in Teams /\ \A t \in Teams : t = "ally" \/ t = "horde"
      BY DEF Teams
    <3>5. y = Uninvite(s.bg[b], "ally", n(b, "ally"))
      OBVIOUS
    <3> HIDE DEF y
    <3>2. /\ y \in Battleground
          /\ y.status = s.bg[b].status /\ y.players = s.bg[b].players
          /\ y.delete = s.bg[b].delete
          /\ \A u \in Teams : y.invited[u] = IF u = "ally" THEN Wrapped(s.bg[b].invited[u] - n(b, "ally"))
                                             ELSE s.bg[b].invited[u]
      <4> DEFINE N == n(b, "ally")
      <4>1. N \in Counts /\ y = Uninvite(s.bg[b], "ally", N)
        BY <1>5, <3>1, <3>5
      <4> HIDE DEF N
      <4>2. y \in Battleground
        BY <2>1, <3>1, <4>1, UninviteIs
      <4> QED
        <5>1. /\ y.status = s.bg[b].status /\ y.players = s.bg[b].players
              /\ y.delete = s.bg[b].delete
              /\ \A u \in Teams : y.invited[u] = IF u = "ally" THEN Wrapped(s.bg[b].invited[u] - N)
                                                 ELSE s.bg[b].invited[u]
          BY <2>1, <3>1, <4>1, UninviteIs
        <5> QED
          BY <4>2, <5>1 DEF N
    <3>6. z = Uninvite(y, "horde", n(b, "horde"))
      OBVIOUS
    <3>4. new(b) = z
      BY <2>3 DEF y
    <3> HIDE DEF z, new
    <3>3. /\ z \in Battleground
          /\ z.status = y.status /\ z.players = y.players /\ z.delete = y.delete
          /\ \A u \in Teams : z.invited[u] = IF u = "horde" THEN Wrapped(y.invited[u] - n(b, "horde"))
                                             ELSE y.invited[u]
      <4> DEFINE N == n(b, "horde")
      <4>1. N \in Counts /\ z = Uninvite(y, "horde", N)
        BY <1>5, <3>1, <3>6
      <4> HIDE DEF N
      <4>2. z \in Battleground
        BY <3>2, <3>1, <4>1, UninviteIs
      <4> QED
        <5>1. /\ z.status = y.status /\ z.players = y.players /\ z.delete = y.delete
              /\ \A u \in Teams : z.invited[u] = IF u = "horde" THEN Wrapped(y.invited[u] - N)
                                                 ELSE y.invited[u]
          BY <3>2, <3>1, <4>1, UninviteIs
        <5> QED
          BY <4>2, <5>1 DEF N
    <3> QED
      BY <2>3, <3>1, <3>2, <3>3, <3>4
  <2> QED
    BY <2>2, <2>3
<1>7. bgs \in [Bgs -> Battleground] /\ \A b \in Bgs : bgs[b] = new(b)
  BY <1>6
<1> HIDE DEF new, bgs, r
<1>8. /\ r \in State /\ r.queue = q /\ r.bg = bgs
      /\ r.events = s.events /\ r.slot = s.slot /\ r.place = s.place
      /\ r.at = s.at /\ r.stale = s.stale /\ r.freeSlots = s.freeSlots
      /\ r.scheduled = s.scheduled /\ r.cut = s.cut
  BY <1>1, <1>2, <1>3, <1>7 DEF State
<1>9. \A b \in Bgs : /\ r.bg[b].status = s.bg[b].status
                     /\ r.bg[b].players = s.bg[b].players
                     /\ r.bg[b].delete = s.bg[b].delete
  BY <1>6, <1>7, <1>8
<1>10. \A b \in Bgs, t \in Teams : r.bg[b].invited[t] =
           IF decrease /\ Exists(s, b)
           THEN Wrapped(s.bg[b].invited[t] - Cardinality(InTeam(Told(s, S, b), t)))
           ELSE s.bg[b].invited[t]
  <2>1. \A m \in Counts : Wrapped(m - 0) = m
    BY CountsAre DEF Wrapped
  <2>2. \A b \in Bgs, t \in Teams : s.bg[b].invited[t] \in Counts
    BY <1>1, BattlegroundFields
  <2> QED
    BY <2>1, <2>2, <1>5, <1>6, <1>7, <1>8
<1> QED
  BY <1>2, <1>8, <1>9, <1>10 DEF Removed, r

\* Of a battleground that is not stale those who go were counted.
LEMMA RemovedCounts ==
    ASSUME NEW s, Consistent(s), NEW S, NEW r, Uninvited(r, s, S),
           NEW b \in Bgs, b \notin s.stale, Exists(s, b), NEW t \in Teams
    PROVE  /\ r.bg[b].invited[t] = Cardinality(InTeam(HoldersIn(r, b), t))
           /\ r.bg[b].invited[t] <= s.bg[b].invited[t]
<1> DEFINE A == HoldersIn(s, b)
           B == Told(s, S, b)
           m == Cardinality(InTeam(A, t))
           n == Cardinality(InTeam(B, t))
<1>1. /\ s \in State /\ SlotsAgree(s) /\ ListsAgree(s) /\ CountsAgree(s)
  BY DEF Consistent
<1>0. Removed(r, s, S, TRUE)
  BY DEF Uninvited
<1>2. s.bg[b].invited[t] = m /\ r.bg[b].invited[t] = Wrapped(s.bg[b].invited[t] - n)
  BY <1>0, <1>1 DEF CountsAgree, Removed
<1>3. \A p \in Queued(s.queue) : s.place[p] = "out"
  BY <1>1, SlotOfQueued
<1>4. \A p \in s.bg[b].players : s.place[p] # "out"
  BY <1>1 DEF ListsAgree
<1>5. HoldersIn(r, b) = A \ B
  <2>1. /\ Queued(r.queue) = Queued(s.queue) \ S
        /\ r.slot = s.slot /\ r.place = s.place /\ r.at = s.at
        /\ r.bg[b].players = s.bg[b].players
    BY <1>0 DEF Removed
  <2> QED
    BY <2>1, <1>3, <1>4 DEF HoldersIn, Told
<1>6. A \in SUBSET Players /\ B \in SUBSET A
  <2>1. B \in SUBSET A
    BY DEF Told, HoldersIn
  <2> QED
    BY <2>1, <1>1, HoldersArePlayers
<1> HIDE DEF A, B
<1>7. /\ Cardinality(InTeam(A \ B, t)) = m - n /\ n <= m
      /\ m \in Counts /\ n \in Counts
  BY <1>6, TeamCountMinus, TeamCount
<1> HIDE DEF m, n
<1>8. Wrapped(m - n) = m - n /\ m - n <= m
  BY <1>7, WrappedIs, CountsAre
<1> QED
  BY <1>2, <1>5, <1>7, <1>8

\* With decrease, those who go are subtracted where they were counted.
LEMMA UninvitedKeeps ==
    ASSUME NEW s, Consistent(s), NEW S, NEW r, Uninvited(r, s, S)
    PROVE  Consistent(r)
<1>1. /\ s \in State /\ s.queue \in Queues /\ GroupsApart(s.queue)
      /\ SlotsAgree(s) /\ PlacesAgree(s) /\ ListsAgree(s)
      /\ FreeAgree(s) /\ CountsAgree(s) /\ EventsAgree(s)
  BY StateFields DEF Consistent
<1>2. Removed(r, s, S, TRUE)
  BY DEF Uninvited
<1>3. \A c : Exists(r, c) <=> Exists(s, c)
  BY <1>2 DEF Exists, Removed
<1>4. SlotsAgree(r)
  <2> SUFFICES ASSUME NEW g \in Groups(r.queue), NEW p \in g.players
               PROVE  r.place[p] = "out" /\ r.slot[p] = g.bg
    BY DEF SlotsAgree
  <2>1. PICK h \in Groups(s.queue) : g.players = h.players \ S /\ g.bg = h.bg
    BY <1>2 DEF Removed
  <2>2. s.place[p] = "out" /\ s.slot[p] = h.bg
    BY <2>1, <1>1 DEF SlotsAgree
  <2> QED
    BY <2>1, <2>2, <1>2 DEF Removed
<1>5. /\ r.slot = s.slot /\ r.place = s.place /\ r.at = s.at /\ r.stale = s.stale
      /\ r.freeSlots = s.freeSlots
      /\ \A b \in Bgs : r.bg[b].players = s.bg[b].players
  BY <1>2 DEF Removed
<1>6. PlacesAgree(r)
  BY <1>1, <1>5 DEF PlacesAgree
<1>7. ListsAgree(r)
  <2> SUFFICES ASSUME NEW b \in Bgs, NEW p \in s.bg[b].players
               PROVE  Exists(r, b) /\ s.at[p] = b /\ s.place[p] \in {"inside", "offline"}
    BY <1>5 DEF ListsAgree
  <2> QED
    BY <1>1, <1>3 DEF ListsAgree
<1>8. FreeAgree(r)
  BY <1>1, <1>3, <1>5 DEF FreeAgree
<1>9. EventsAgree(r)
  BY <1>1, <1>2 DEF EventsAgree, Removed
<1>10. CountsAgree(r)
  <2>1. ASSUME NEW b \in Bgs, b \notin s.stale, NEW t \in Teams, Exists(s, b)
        PROVE  r.bg[b].invited[t] = Cardinality(InTeam(HoldersIn(r, b), t))
    BY <2>1, RemovedCounts
  <2> QED
    BY <2>1, <1>3, <1>5 DEF CountsAgree
<1> QED
  BY <1>2, <1>4, <1>6, <1>7, <1>8, <1>9, <1>10 DEF Consistent, Removed

LEMMA RemovePlayersKeeps ==
    ASSUME NEW s, Consistent(s), NEW S \in SUBSET Players
    PROVE  Consistent(RemovePlayers(s, S, TRUE))
BY RemovePlayersIs, UninvitedKeeps DEF Uninvited

\* The slot of a player who is neither queued nor on his way is cleared.
LEMMA ClearedKeeps ==
    ASSUME NEW s, Consistent(s), NEW S,
           \A p \in S : p \notin Queued(s.queue) /\ s.place[p] # "entering",
           NEW r \in State,
           r.queue = s.queue, r.events = s.events, r.bg = s.bg,
           r.place = s.place, r.at = s.at, r.stale = s.stale, r.freeSlots = s.freeSlots,
           \A p \in Players : r.slot[p] = IF p \in S THEN NoSlot ELSE s.slot[p]
    PROVE  Consistent(r)
<1>1. /\ s \in State /\ s.queue \in Queues /\ GroupsApart(s.queue)
      /\ SlotsAgree(s) /\ PlacesAgree(s) /\ ListsAgree(s)
      /\ FreeAgree(s) /\ CountsAgree(s) /\ EventsAgree(s)
  BY StateFields DEF Consistent
<1>2. \A c : Exists(r, c) <=> Exists(s, c)
  BY DEF Exists
<1>3. Queued(s.queue) \in SUBSET Players
  BY <1>1, GroupsAreGroups
<1>4. SlotsAgree(r)
  <2> SUFFICES ASSUME NEW g \in Groups(s.queue), NEW p \in g.players
               PROVE  s.place[p] = "out" /\ r.slot[p] = g.bg
    BY DEF SlotsAgree
  <2>1. p \in Queued(s.queue)
    BY InQueued
  <2> QED
    BY <1>1, <1>3, <2>1 DEF SlotsAgree
<1>6. PlacesAgree(r) /\ ListsAgree(r) /\ FreeAgree(r) /\ EventsAgree(r)
  BY <1>1, <1>2 DEF PlacesAgree, ListsAgree, FreeAgree, EventsAgree
<1>7. CountsAgree(r)
  <2>1. \A b \in Bgs : HoldersIn(r, b) = HoldersIn(s, b)
    BY <1>3, Constants DEF HoldersIn
  <2> QED
    BY <2>1, <1>1, <1>2 DEF CountsAgree
<1> QED
  BY <1>1, <1>4, <1>6, <1>7 DEF Consistent

\* The places of a running battleground before and after its sides were
\* filled up: nothing, or the sides are even now but for one, or only the
\* smaller side grew, and not beyond the other.
Fits(x, y) ==
    /\ \A t \in Teams : x.invited[t] <= y.invited[t]
    /\ \/ \A t \in Teams : x.invited[t] = y.invited[t]
       \/ Difference(y) <= 1
       \/ \E t \in Teams : /\ x.invited[t] < y.invited[t]
                           /\ y.invited[t] <= y.invited[Other(t)]
                           /\ y.invited[Other(t)] = x.invited[Other(t)]

\* What the update of the queue may do to a state.
Filled(r, s) ==
    /\ Consistent(r)
    /\ Queued(r.queue) = Queued(s.queue)
    /\ Fresh(s) => Fresh(r)
    /\ \A b \in Bgs : s.bg[b].status # "none" =>
           /\ r.bg[b].status = s.bg[b].status
           /\ b \in r.stale <=> b \in s.stale
           /\ s.bg[b].status = "progress" /\ b \notin s.stale =>
                  Fits(s.bg[b], r.bg[b])

\* The two teams.
LEMMA TwoTeams ==
    /\ Teams = {"ally", "horde"} /\ "ally" # "horde"
    /\ "ally" \in Teams /\ "horde" \in Teams
    /\ Other("ally") = "horde" /\ Other("horde") = "ally"
    /\ \A t \in Teams : t = "ally" \/ t = "horde"
BY DEF Teams, Other

\* One filling after the other.
LEMMA FitsTrans ==
    ASSUME NEW x \in Battleground, NEW y \in Battleground, NEW z \in Battleground,
           Fits(x, y), Fits(y, z)
    PROVE  Fits(x, z)
<1> DEFINE xa == x.invited["ally"]
           xh == x.invited["horde"]
           ya == y.invited["ally"]
           yh == y.invited["horde"]
           za == z.invited["ally"]
           zh == z.invited["horde"]
           D(a, h) == IF a >= h THEN a - h ELSE h - a
           F(a, h, c, d) ==
               /\ a <= c /\ h <= d
               /\ \/ a = c /\ h = d
                  \/ D(c, d) <= 1
                  \/ a < c /\ c <= d /\ d = h
                  \/ h < d /\ d <= c /\ c = a
<1>1. {xa, xh, ya, yh, za, zh} \subseteq Int
  BY TwoTeams, BattlegroundFields
<1>2. /\ Fits(x, y) <=> F(xa, xh, ya, yh)
      /\ Fits(y, z) <=> F(ya, yh, za, zh)
      /\ Fits(x, z) <=> F(xa, xh, za, zh)
  BY TwoTeams DEF Fits, Difference
<1> HIDE DEF xa, xh, ya, yh, za, zh
<1>3. F(xa, xh, ya, yh) /\ F(ya, yh, za, zh)
  BY <1>2
<1>4. F(xa, xh, za, zh)
  BY <1>1, <1>3
<1> QED
  BY <1>2, <1>4

LEMMA FilledTrans ==
    ASSUME NEW q, NEW r, NEW s, Consistent(s), Filled(r, s), Filled(q, r)
    PROVE  Filled(q, s)
<1>1. \A b \in Bgs : /\ s.bg[b] \in Battleground /\ r.bg[b] \in Battleground
                     /\ q.bg[b] \in Battleground
  BY StateFields DEF Filled, Consistent
<1>2. \A b \in Bgs : s.bg[b].status # "none" =>
           /\ q.bg[b].status = s.bg[b].status
           /\ b \in q.stale <=> b \in s.stale
           /\ s.bg[b].status = "progress" /\ b \notin s.stale =>
                  Fits(s.bg[b], q.bg[b])
  BY <1>1, FitsTrans DEF Filled
<1> QED
  BY <1>2 DEF Filled

\* A change of other fields fills nothing.
LEMMA FilledRefl ==
    ASSUME NEW r, NEW s, Consistent(s), Consistent(r), Queued(r.queue) = Queued(s.queue),
           r.events = s.events, r.bg = s.bg, r.stale = s.stale
    PROVE  Filled(r, s)
<1>1. \A b \in Bgs, t \in Teams : s.bg[b].invited[t] \in Int
  BY StateFields, BattlegroundFields DEF Consistent
<1> QED
  BY <1>1 DEF Filled, Fits, Fresh

\* The groups that SelectionPool takes wait in the queue, and their players
\* are no more than it counts.
LEMMA PoolIs ==
    ASSUME NEW groups \in Seq(Group), NEW enough \in Int, NEW most \in Int
    PROVE  LET pool == Pool(groups, enough, most)
           IN  /\ \A g \in pool.taken : g \in ToSet(groups) /\ g.bg = None
               /\ Cardinality(UNION {g.players : g \in pool.taken}) \in Nat
               /\ \/ Cardinality(UNION {g.players : g \in pool.taken}) = 0
                  \/ Cardinality(UNION {g.players : g \in pool.taken}) <= most
<1> DEFINE D == DOMAIN groups
    take(pool, g) ==
            IF /\ g.bg = None
               /\ pool.count < enough
               /\ pool.count + Cardinality(g.players) <= most
            THEN [taken |-> pool.taken \cup {g},
                  count |-> pool.count + Cardinality(g.players)]
            ELSE pool
    base == [taken |-> {}, count |-> 0]
    players(T) == UNION {g.players : g \in T}
    G == {x \in [taken : SUBSET Group, count : Nat] :
             /\ \A g \in x.taken : g \in ToSet(groups) /\ g.bg = None
             /\ Cardinality(players(x.taken)) <= x.count
             /\ x.count = 0 \/ x.count <= most}
    eq(h) == h = [s \in SUBSET D |-> IF s = {} THEN base
                     ELSE take(h[s \ {Max(s)}], groups[Max(s)])]
    f == CHOOSE h : eq(h)
<1>1. Pool(groups, enough, most) = f[D]
  BY DEF Pool, FoldLeft, MapThenFoldSet
<1>2. IsFiniteSet(D) /\ \A s \in SUBSET D : s # {} => Max(s) \in s
  <2>1. D = 1 .. Len(groups) /\ Len(groups) \in Nat
    OBVIOUS
  <2> QED
    BY <2>1, Positions
<1>3. ASSUME NEW T \in SUBSET Group
      PROVE  players(T) \in SUBSET Players /\ IsFiniteSet(players(T))
             /\ Cardinality(players(T)) \in Nat
  <2>1. players(T) \in SUBSET Players
    BY GroupFields
  <2> QED
    BY <2>1, Constants, FS_Subset, FS_CardinalityType
<1>4. base \in G
  <2>1. base.taken = {} /\ base.count = 0 /\ base \in [taken : SUBSET Group, count : Nat]
    OBVIOUS
  <2>2. players(base.taken) = {}
    BY <2>1
  <2> HIDE DEF base, players
  <2>3. Cardinality(players(base.taken)) <= base.count
    <3>1. Cardinality({}) = 0
      BY FS_EmptySet
    <3>2. Cardinality(players(base.taken)) = 0
      BY <2>2, <3>1
    <3> QED
      BY <2>1, <3>2
  <2> QED
    BY <2>1, <2>3
<1>5. \A x \in G, i \in D : take(x, groups[i]) \in G
  <2> SUFFICES ASSUME NEW x \in G, NEW i \in D, NEW g, g = groups[i],
                      g.bg = None, x.count + Cardinality(g.players) <= most,
                      NEW y, y = [taken |-> x.taken \cup {g},
                                  count |-> x.count + Cardinality(g.players)]
               PROVE  y \in G
    OBVIOUS
  <2>1. g \in Group /\ g \in ToSet(groups)
    BY DEF ToSet
  <2>2. IsFiniteSet(g.players) /\ Cardinality(g.players) \in Nat
    BY <2>1, GroupFields, Constants, FS_Subset, FS_CardinalityType
  <2>3. x.taken \in SUBSET Group /\ x.count \in Nat /\ Cardinality(players(x.taken)) <= x.count
    OBVIOUS
  <2>4. players(y.taken) = players(x.taken) \cup g.players
    OBVIOUS
  <2>5. Cardinality(players(y.taken)) <= Cardinality(players(x.taken)) + Cardinality(g.players)
    <3> DEFINE P == players(x.taken)
               Q == g.players
    <3>1. IsFiniteSet(P) /\ IsFiniteSet(Q) /\ Cardinality(P) \in Nat /\ Cardinality(Q) \in Nat
      BY <1>3, <2>2, <2>3
    <3>2. players(y.taken) = P \cup Q
      BY <2>4
    <3> HIDE DEF P, Q, players
    <3>3. Cardinality(P \cup Q) = Cardinality(P) + Cardinality(Q) - Cardinality(P \cap Q)
      BY <3>1, FS_Union
    <3>4. Cardinality(P \cap Q) \in Nat
      BY <3>1, FS_Intersection, FS_CardinalityType
    <3>5. Cardinality(P \cup Q) <= Cardinality(P) + Cardinality(Q)
      BY <3>1, <3>3, <3>4
    <3> QED
      BY <3>2, <3>5 DEF P, Q
  <2>6. y \in [taken : SUBSET Group, count : Nat]
    BY <2>1, <2>2, <2>3
  <2>7. Cardinality(players(y.taken)) \in Nat
    BY <1>3, <2>6
  <2>8. Cardinality(players(x.taken)) \in Nat
    BY <1>3, <2>3
  <2>9. Cardinality(players(y.taken)) <= y.count
    <3> HIDE DEF players
    <3> QED
      BY <2>2, <2>3, <2>5, <2>7, <2>8
  <2>10. \A h \in y.taken : h \in ToSet(groups) /\ h.bg = None
    BY <2>1
  <2>11. y.count <= most
    OBVIOUS
  <2> HIDE DEF players
  <2> QED
    BY <2>6, <2>9, <2>10, <2>11
<1> HIDE DEF base
<1>6. \E h : eq(h)
  <2> DEFINE n == Len(groups)
             F == [x \in G \X (1 .. n) |-> take(x[1], groups[x[2]])]
  <2>0. n \in Nat /\ D = 1 .. n
    OBVIOUS
  <2> HIDE DEF G, take, n, D
  <2>1. F \in [G \X (1 .. n) -> G]
    BY <1>5, <2>0
  <2>2. \A k \in G, i \in 1 .. n : F[<<k, i>>] = take(k, groups[i])
    OBVIOUS
  <2> HIDE DEF F
  <2>3. PICK h : IsFold(h, 1 .. n, G, base, [s \in SUBSET (1 .. n) |-> Max(s)], F)
    BY <1>4, <2>0, <2>1, SeqFoldExists
  <2>4. ASSUME NEW s \in SUBSET D
        PROVE  h[s] = IF s = {} THEN base ELSE take(h[s \ {Max(s)}], groups[Max(s)])
    BY <2>0, <2>2, <2>3, <1>2 DEF IsFold
  <2>5. eq(h)
    BY <2>0, <2>3, <2>4 DEF IsFold
  <2> QED
    BY <2>5
<1>7. \A s \in SUBSET D : f[s] = IF s = {} THEN base ELSE take(f[s \ {Max(s)}], groups[Max(s)])
  <2> HIDE DEF take
  <2>1. eq(f)
    BY <1>6
  <2> HIDE DEF f
  <2> QED
    BY <2>1
<1> HIDE DEF f, G, take
<1>8. \A s \in SUBSET D : f[s] \in G
  <2> DEFINE bad == {s \in SUBSET D : f[s] \notin G}
  <2> SUFFICES ASSUME bad # {} PROVE FALSE
    OBVIOUS
  <2>1. PICK s \in bad : \A u \in bad : u \subseteq s => u = s
    <3>1. bad \in SUBSET SUBSET D
      OBVIOUS
    <3> HIDE DEF bad, D
    <3> QED
      BY <3>1, <1>2, FiniteMin
  <2>2. s # {}
    BY <1>4, <1>7
  <2>3. Max(s) \in D /\ s \ {Max(s)} \in SUBSET D /\ s \ {Max(s)} \notin bad
    BY <2>1, <2>2, <1>2
  <2> QED
    BY <2>1, <2>2, <2>3, <1>5, <1>7
<1>9. f[D] \in G
  BY <1>8
<1>10. Cardinality(players(f[D].taken)) \in Nat
  BY <1>3, <1>9 DEF G
<1>11. /\ f[D].count \in Nat
       /\ \A g \in f[D].taken : g \in ToSet(groups) /\ g.bg = None
       /\ Cardinality(players(f[D].taken)) <= f[D].count
       /\ f[D].count = 0 \/ f[D].count <= most
  BY <1>9 DEF G
<1>12. \/ Cardinality(players(f[D].taken)) = 0
       \/ Cardinality(players(f[D].taken)) <= most
  <2> HIDE DEF players
  <2> QED
    BY <1>10, <1>11
<1> QED
  BY <1>1, <1>10, <1>11, <1>12

\* GetFreeSlotsForTeam: in a running battleground not more than evens the
\* sides out, or one.
LEMMA FreeSlotsAre ==
    ASSUME NEW x \in Battleground, NEW t \in Teams
    PROVE  /\ GetFreeSlotsForTeam(x, t) \in Nat
           /\ x.status = "progress" =>
                  GetFreeSlotsForTeam(x, t) <=
                      IF x.invited[Other(t)] = x.invited[t] THEN 1
                      ELSE IF x.invited[Other(t)] > x.invited[t]
                           THEN x.invited[Other(t)] - x.invited[t] ELSE 0
<1> DEFINE a == x.invited[t]
           o == x.invited[Other(t)]
           i == Cardinality(InTeam(x.players, t))
           j == Cardinality(InTeam(x.players, Other(t)))
           room == IF a < MaxPlayers THEN MaxPlayers - a ELSE 0
           byInvited == IF o = a THEN 1 ELSE IF o > a THEN o - a ELSE 0
           byInside == IF j = i THEN 1 ELSE IF j > i THEN j - i
                       ELSE IF a <= MinPlayers THEN MinPlayers - a + 1 ELSE 0
<1>1. Other(t) \in Teams
  BY TwoTeams
<1>2. a \in Int /\ o \in Int /\ x.players \in SUBSET Players
  BY <1>1, BattlegroundFields
<1>3. i \in Nat /\ j \in Nat
  BY <1>2, TeamCount
<1>4. GetFreeSlotsForTeam(x, t) =
          IF x.status = "join" THEN room ELSE Smaller(Smaller(byInvited, room), byInside)
  BY DEF GetFreeSlotsForTeam
<1> HIDE DEF a, o, i, j
<1>5. room \in Nat /\ byInvited \in Nat /\ byInside \in Nat
  BY <1>2, <1>3, Constants
<1> HIDE DEF room, byInvited, byInside
<1>6. GetFreeSlotsForTeam(x, t) \in Nat
  BY <1>4, <1>5 DEF Smaller
<1>7. x.status = "progress" => GetFreeSlotsForTeam(x, t) <= byInvited
  BY <1>4, <1>5 DEF Smaller
<1> QED
  BY <1>6, <1>7 DEF byInvited, a, o

\* From the normal queues, with at most n[t] players of each team.
NormalPools(q, e, n) ==
    UNION {Pool(q["normal"][t], e[t], n[t]).taken : t \in Teams}

\* The pools of both teams together.
LEMMA PoolsAre ==
    ASSUME NEW q \in Queues, GroupsApart(q),
           NEW e \in [Teams -> Int], NEW n \in [Teams -> Int], NEW G,
           G = NormalPools(q, e, n)
    PROVE  /\ \A g \in G : g \in Groups(q) /\ g.bg = None
           /\ \A t \in Teams :
                  LET c == Cardinality(InTeam(PlayersOf(G), t))
                  IN  c \in Nat /\ (c = 0 \/ c <= n[t])
<1> DEFINE T(t) == Pool(q["normal"][t], e[t], n[t]).taken
<1>1. ASSUME NEW t \in Teams
      PROVE  /\ \A g \in T(t) : g \in GroupsIn(q, "normal", t) /\ g.bg = None
             /\ Cardinality(UNION {g.players : g \in T(t)}) \in Nat
             /\ \/ Cardinality(UNION {g.players : g \in T(t)}) = 0
                \/ Cardinality(UNION {g.players : g \in T(t)}) <= n[t]
  <2>1. q["normal"][t] \in Seq(Group)
    BY DEF Queues, Kinds
  <2> QED
    BY <2>1, PoolIs DEF GroupsIn
<1>2. \A g : g \in G <=> \E t \in Teams : g \in T(t)
  BY DEF NormalPools
<1> HIDE DEF T
<1>3. \A g \in G : g \in Groups(q) /\ g.bg = None
  BY <1>1, <1>2, InGroups DEF Kinds
<1>4. ASSUME NEW t \in Teams
      PROVE  InTeam(UNION {g.players : g \in G}, t) = UNION {g.players : g \in T(t)}
  <2>1. \A u \in Teams : \A g \in T(u) : \A p \in g.players : TeamOf[p] = u
    BY <1>1 DEF GroupsApart, Kinds
  <2>2. ASSUME NEW p \in InTeam(UNION {g.players : g \in G}, t)
        PROVE  p \in UNION {g.players : g \in T(t)}
    <3>1. PICK g \in G : p \in g.players /\ TeamOf[p] = t
      BY DEF InTeam
    <3>2. PICK u \in Teams : g \in T(u)
      BY <1>2
    <3>3. u = t
      BY <3>1, <3>2, <2>1
    <3> QED
      BY <3>1, <3>2, <3>3
  <2>3. ASSUME NEW p \in UNION {g.players : g \in T(t)}
        PROVE  p \in InTeam(UNION {g.players : g \in G}, t)
    <3>1. PICK g \in T(t) : p \in g.players
      OBVIOUS
    <3>2. TeamOf[p] = t /\ g \in G
      BY <3>1, <2>1, <1>2
    <3> QED
      BY <3>1, <3>2 DEF InTeam
  <2> QED
    BY <2>2, <2>3
<1> QED
  BY <1>1, <1>3, <1>4 DEF PlayersOf

\* One battleground less in the list of free slots.
LEMMA NotFreeKeeps ==
    ASSUME NEW s, Consistent(s), NEW b \in Bgs, NEW r,
           r = [s EXCEPT !.freeSlots = RemoveFirst(@, b)]
    PROVE  /\ Consistent(r) /\ b \notin ToSet(r.freeSlots)
           /\ r.queue = s.queue /\ r.events = s.events /\ r.slot = s.slot
           /\ r.place = s.place /\ r.at = s.at /\ r.stale = s.stale /\ r.bg = s.bg
           /\ r.cut = s.cut
<1>1. /\ s \in State /\ GroupsApart(s.queue)
      /\ SlotsAgree(s) /\ PlacesAgree(s) /\ ListsAgree(s)
      /\ FreeAgree(s) /\ CountsAgree(s) /\ EventsAgree(s)
  BY DEF Consistent
<1> DEFINE f == RemoveFirst(s.freeSlots, b)
<1>2. /\ f \in Seq(Bgs) /\ ToSet(f) = ToSet(s.freeSlots) \ {b}
      /\ \A i, j \in DOMAIN f : f[i] = f[j] => i = j
  BY <1>1, StateFields, RemoveFirstIs DEF FreeAgree
<1>3. r = [s EXCEPT !.freeSlots = f]
  OBVIOUS
<1> HIDE DEF f
<1>4. /\ r \in State /\ r.freeSlots = f
      /\ r.queue = s.queue /\ r.events = s.events /\ r.slot = s.slot
      /\ r.place = s.place /\ r.at = s.at /\ r.stale = s.stale /\ r.bg = s.bg
      /\ r.cut = s.cut
  BY <1>1, <1>2, <1>3 DEF State
<1>5. \A c : Exists(r, c) <=> Exists(s, c)
  BY <1>4 DEF Exists
<1>6. FreeAgree(r)
  BY <1>1, <1>2, <1>4, <1>5 DEF FreeAgree
<1>7. SlotsAgree(r) /\ PlacesAgree(r)
  BY <1>1, <1>4, <1>5 DEF SlotsAgree, PlacesAgree
<1>8. ListsAgree(r) /\ EventsAgree(r)
  BY <1>1, <1>4, <1>5 DEF ListsAgree, EventsAgree
<1>9. CountsAgree(r)
  <2>1. \A c \in Bgs : HoldersIn(r, c) = HoldersIn(s, c)
    BY <1>4 DEF HoldersIn
  <2> QED
    BY <2>1, <1>1, <1>4, <1>5 DEF CountsAgree
<1> QED
  BY <1>1, <1>2, <1>4, <1>6, <1>7, <1>8, <1>9 DEF Consistent

\* FillPlayersToBG evens the sides out, if it invites anybody.
LEMMA FillPlayersToBGKeeps ==
    ASSUME NEW s, Consistent(s), NEW b \in Bgs, Exists(s, b)
    PROVE  Filled(FillPlayersToBG(s, b), s)
<1> DEFINE free(t) == GetFreeSlotsForTeam(s.bg[b], t)
           n == [t \in Teams |-> free(t)]
           G == UNION {Pool(s.queue["normal"][t], n[t], n[t]).taken : t \in Teams}
           r == InviteGroups(s, G, b)
           w == FillPlayersToBG(s, b)
           add(t) == Cardinality(InTeam(PlayersOf(G), t))
<1>1. /\ s \in State /\ s.queue \in Queues /\ GroupsApart(s.queue)
      /\ \A c \in Bgs : s.bg[c] \in Battleground
  BY StateFields DEF Consistent
<1>2. \A t \in Teams : free(t) \in Nat /\ n[t] = free(t)
  BY <1>1, FreeSlotsAre
<1>3. w = IF Cardinality(r.bg[b].players) < 2 * MaxPlayers THEN r
          ELSE [r EXCEPT !.freeSlots = RemoveFirst(@, b)]
  BY DEF FillPlayersToBG
<1>4. /\ \A g \in G : g \in Groups(s.queue) /\ g.bg = None
      /\ \A t \in Teams : add(t) \in Nat /\ (add(t) = 0 \/ add(t) <= n[t])
  <2>1. n \in [Teams -> Int]
    BY <1>2
  <2>2. G = NormalPools(s.queue, n, n)
    BY DEF NormalPools
  <2>3. \A t \in Teams : add(t) = Cardinality(InTeam(PlayersOf(G), t))
    OBVIOUS
  <2> HIDE DEF n, G, add
  <2>4. /\ \A g \in G : g \in Groups(s.queue) /\ g.bg = None
        /\ \A t \in Teams :
               LET c == Cardinality(InTeam(PlayersOf(G), t))
               IN  c \in Nat /\ (c = 0 \/ c <= n[t])
    BY <1>1, <2>1, <2>2, PoolsAre
  <2> QED
    BY <2>3, <2>4
<1>5. r = InviteGroups(s, G, b)
  OBVIOUS
<1>6. \A t \in Teams : add(t) = Cardinality(InTeam(PlayersOf(G), t))
  OBVIOUS
<1> HIDE DEF n, G, r, w, add
<1>7. /\ Consistent(r) /\ Queued(r.queue) = Queued(s.queue)
      /\ Fresh(s) => Fresh(r)
      /\ \A c \in Bgs : /\ c # b => r.bg[c] = s.bg[c]
                        /\ r.bg[c].status = s.bg[c].status
  BY <1>4, <1>5, InviteGroupsKeeps
<1>8. b \notin s.stale =>
          \A t \in Teams : r.bg[b].invited[t] = s.bg[b].invited[t] + add(t)
  BY <1>4, <1>5, <1>6, InviteGroupsKeeps
<1>9. ASSUME s.bg[b].status = "progress", b \notin s.stale PROVE Fits(s.bg[b], r.bg[b])
  <2> DEFINE xa == s.bg[b].invited["ally"]
             xh == s.bg[b].invited["horde"]
             na == add("ally")
             nh == add("horde")
  <2>1. /\ xa \in Int /\ xh \in Int /\ na \in Nat /\ nh \in Nat
        /\ r.bg[b].invited["ally"] = xa + na
        /\ r.bg[b].invited["horde"] = xh + nh
    BY <1>1, <1>4, <1>8, <1>9, TwoTeams, BattlegroundFields
  <2>2. /\ na <= IF xh = xa THEN 1 ELSE IF xh > xa THEN xh - xa ELSE 0
        /\ nh <= IF xa = xh THEN 1 ELSE IF xa > xh THEN xa - xh ELSE 0
    <3>1. /\ free("ally") <= IF xh = xa THEN 1 ELSE IF xh > xa THEN xh - xa ELSE 0
          /\ free("horde") <= IF xa = xh THEN 1 ELSE IF xa > xh THEN xa - xh ELSE 0
      BY <1>1, <1>9, TwoTeams, FreeSlotsAre
    <3>2. /\ free("ally") \in Nat /\ free("horde") \in Nat
          /\ na = 0 \/ na <= free("ally")
          /\ nh = 0 \/ nh <= free("horde")
      BY <1>2, <1>4, TwoTeams
    <3> HIDE DEF xa, xh, na, nh, free
    <3> QED
      BY <2>1, <3>1, <3>2
  <2> HIDE DEF xa, xh, na, nh
  <2>3. /\ xa <= xa + na /\ xh <= xh + nh
        /\ \/ xa = xa + na /\ xh = xh + nh
           \/ (IF xa + na >= xh + nh THEN (xa + na) - (xh + nh) ELSE (xh + nh) - (xa + na)) <= 1
           \/ xa < xa + na /\ xa + na <= xh + nh /\ xh + nh = xh
           \/ xh < xh + nh /\ xh + nh <= xa + na /\ xa + na = xa
    BY <2>1, <2>2
  <2> QED
    BY <2>1, <2>3, TwoTeams DEF Fits, Difference, xa, xh
<1>10. \A c \in Bgs : Fits(s.bg[c], s.bg[c])
  BY <1>1, TwoTeams, BattlegroundFields DEF Fits
<1>11. r.freeSlots = s.freeSlots /\ r.stale = s.stale
  BY <1>4, <1>5, InviteGroupsKeeps
<1>12. Filled(r, s)
  BY <1>7, <1>9, <1>10, <1>11 DEF Filled
<1>13. CASE w = r
  BY <1>12, <1>13 DEF w
<1>14. CASE w = [r EXCEPT !.freeSlots = RemoveFirst(@, b)]
  <2>1. /\ Consistent(w) /\ w.queue = r.queue /\ w.events = r.events /\ w.bg = r.bg
        /\ w.stale = r.stale
    <3> DEFINE e == [r EXCEPT !.freeSlots = RemoveFirst(@, b)]
    <3>1. w = e /\ Consistent(r)
      BY <1>7, <1>14, Zenon
    <3>2. ASSUME NEW v, v = e
          PROVE  /\ Consistent(v) /\ v.queue = r.queue /\ v.events = r.events
                 /\ v.bg = r.bg /\ v.stale = r.stale
      BY <3>1, <3>2, NotFreeKeeps, Zenon
    <3> HIDE DEF e
    <3> QED
      BY <3>1, <3>2, Zenon
  <2> QED
    BY <1>12, <2>1 DEF Filled, Fresh, w
<1> QED
  BY <1>3, <1>13, <1>14

\* A battleground that is not, and one with another status.
LEMMA NoBgIs ==
    /\ NoBg \in Battleground /\ NoBg.status = "none" /\ NoBg.players = {}
    /\ NoBg.delete = FALSE
    /\ \A t \in Teams : NoBg.invited[t] = 0
<1> DEFINE f == [t \in Teams |-> 0]
<1>1. f \in [Teams -> Counts] /\ \A t \in Teams : f[t] = 0
  BY CountsAre
<1>2. NoBg = [status |-> "none", players |-> {}, delete |-> FALSE, invited |-> f]
  BY DEF NoBg
<1> HIDE DEF f
<1> QED
  BY <1>1, <1>2 DEF Battleground

LEMMA NewStatus ==
    ASSUME NEW x \in Battleground,
           NEW v \in {"none", "join", "progress", "leave", "map"}
    PROVE  /\ [x EXCEPT !.status = v] \in Battleground
           /\ [x EXCEPT !.status = v].status = v
           /\ [x EXCEPT !.status = v].players = x.players
           /\ [x EXCEPT !.status = v].delete = x.delete
           /\ [x EXCEPT !.status = v].invited = x.invited
BY DEF Battleground

\* A battleground b that is new, and stale if somebody holds its id.
Made(r, s, b) ==
    /\ r \in State /\ s.bg[b].status = "none" /\ r.bg[b].status = "join"
    /\ r.bg[b].players = {} /\ \A t \in Teams : r.bg[b].invited[t] = 0
    /\ \A c \in Bgs : c # b => /\ r.bg[c] = s.bg[c]
                               /\ c \in r.stale <=> c \in s.stale
    /\ b \notin r.stale => Holders(s, b) = {}
    /\ r.queue = s.queue /\ r.events = s.events /\ r.slot = s.slot
    /\ r.place = s.place /\ r.at = s.at /\ r.freeSlots = s.freeSlots

\* The battleground that StartMatch makes, before anybody is invited.
LEMMA MadeKeeps ==
    ASSUME NEW s, Consistent(s), NEW b \in Bgs, NEW r, Made(r, s, b)
    PROVE  /\ Consistent(r) /\ Exists(r, b) /\ ~Exists(s, b)
           /\ r.queue = s.queue /\ r.events = s.events
           /\ r.freeSlots = s.freeSlots
           /\ \A c \in Bgs : c # b =>
                  r.bg[c] = s.bg[c] /\ (c \in r.stale <=> c \in s.stale)
<1>1. /\ s \in State /\ s.queue \in Queues /\ GroupsApart(s.queue)
      /\ SlotsAgree(s) /\ PlacesAgree(s) /\ ListsAgree(s)
      /\ FreeAgree(s) /\ CountsAgree(s) /\ EventsAgree(s)
  BY StateFields DEF Consistent
<1>2. /\ r.bg[b].status = "join" /\ r.bg[b].players = {}
      /\ \A t \in Teams : r.bg[b].invited[t] = 0
      /\ s.bg[b].status = "none"
  BY DEF Made
<1>4. \A c \in Bgs : c # b => r.bg[c] = s.bg[c] /\ (c \in r.stale <=> c \in s.stale)
  BY DEF Made
<1>14. b \notin r.stale => HoldersIn(s, b) = {}
  <2>1. Holders(s, b) = HoldersIn(s, b)
    BY <1>1, HoldersAre
  <2> QED
    BY <2>1 DEF Made
<1>5. /\ r \in State
      /\ r.queue = s.queue /\ r.events = s.events /\ r.slot = s.slot
      /\ r.place = s.place /\ r.at = s.at /\ r.freeSlots = s.freeSlots
  BY DEF Made
<1>6. Exists(r, b) /\ ~Exists(s, b)
  BY <1>2, <1>4, <1>5 DEF Exists
<1>7. \A c : c # b => (Exists(r, c) <=> Exists(s, c))
  BY <1>4, <1>5 DEF Exists
<1>8. \A c : Exists(s, c) => c # b /\ Exists(r, c)
  BY <1>6, <1>7
<1>9. SlotsAgree(r) /\ PlacesAgree(r)
  BY <1>1, <1>5 DEF SlotsAgree, PlacesAgree
<1>10. ListsAgree(r)
  <2> SUFFICES ASSUME NEW c \in Bgs, NEW p \in r.bg[c].players
               PROVE  Exists(r, c) /\ r.at[p] = c /\ r.place[p] \in {"inside", "offline"}
    BY DEF ListsAgree
  <2>1. c # b /\ p \in s.bg[c].players
    BY <1>2, <1>4, <1>5
  <2>2. Exists(s, c) /\ s.at[p] = c /\ s.place[p] \in {"inside", "offline"}
    BY <2>1, <1>1 DEF ListsAgree
  <2> QED
    BY <2>1, <2>2, <1>5, <1>7
<1>11. FreeAgree(r)
  BY <1>1, <1>5, <1>8 DEF FreeAgree
<1>12. EventsAgree(r)
  BY <1>1, <1>5 DEF EventsAgree
<1>13. CountsAgree(r)
  <2> SUFFICES ASSUME NEW c \in Bgs \ r.stale, NEW t \in Teams, Exists(r, c)
               PROVE  r.bg[c].invited[t] = Cardinality(InTeam(HoldersIn(r, c), t))
    BY DEF CountsAgree
  <2>1. CASE c # b
    <3>1. HoldersIn(r, c) = HoldersIn(s, c)
      BY <2>1, <1>4, <1>5 DEF HoldersIn
    <3> QED
      BY <3>1, <2>1, <1>1, <1>4, <1>7, <1>14 DEF CountsAgree
  <2>2. CASE c = b
    <3>1. HoldersIn(r, b) = {}
      BY <2>2, <1>2, <1>4, <1>5, <1>14 DEF HoldersIn
    <3>2. Cardinality(InTeam({}, t)) = 0
      BY TeamCount
    <3> QED
      BY <3>1, <3>2, <2>2, <1>2, <1>4
  <2> QED
    BY <2>1, <2>2
<1> QED
  BY <1>1, <1>4, <1>5, <1>6, <1>9, <1>10, <1>11, <1>12, <1>13, <1>14 DEF Consistent

\* A battleground that is new to the list of free slots.
LEMMA FreedKeeps ==
    ASSUME NEW s, Consistent(s), NEW b \in Bgs, Exists(s, b), b \notin ToSet(s.freeSlots),
           NEW r \in State, r.freeSlots = <<b>> \o s.freeSlots,
           r.queue = s.queue, r.events = s.events, r.slot = s.slot,
           r.place = s.place, r.at = s.at, r.stale = s.stale, r.bg = s.bg
    PROVE  Consistent(r)
<1>1. /\ s \in State /\ GroupsApart(s.queue)
      /\ SlotsAgree(s) /\ PlacesAgree(s) /\ ListsAgree(s)
      /\ FreeAgree(s) /\ CountsAgree(s) /\ EventsAgree(s)
  BY DEF Consistent
<1>2. \A c : Exists(r, c) <=> Exists(s, c)
  BY DEF Exists
<1>3. FreeAgree(r)
  <2> DEFINE f == s.freeSlots
             e == r.freeSlots
  <2>1. f \in Seq(Bgs)
    BY <1>1, StateFields
  <2>2. \A c \in ToSet(e) : Exists(r, c)
    <3>1. ToSet(e) = ToSet(f) \cup {b}
      BY <2>1, ElementsOfCons
    <3> QED
      BY <3>1, <1>1, <1>2 DEF FreeAgree
  <2>3. \A i \in DOMAIN f : f[i] # b
    BY DEF ToSet
  <2>4. /\ DOMAIN f = 1 .. Len(f) /\ Len(f) \in Nat
        /\ DOMAIN e = 1 .. Len(f) + 1
        /\ \A i \in 1 .. Len(f) + 1 : e[i] = IF i = 1 THEN b ELSE f[i - 1]
    <3> HIDE DEF f, e
    <3>1. e = <<b>> \o f
      BY DEF f, e
    <3> QED
      BY <2>1, <3>1
  <2>5. \A i, j \in DOMAIN f : f[i] = f[j] => i = j
    BY <1>1 DEF FreeAgree
  <2> HIDE DEF f, e
  <2>6. ASSUME NEW i \in DOMAIN e, NEW j \in DOMAIN e, e[i] = e[j]
        PROVE  i = j
    <3>1. i \in 1 .. Len(f) + 1 /\ j \in 1 .. Len(f) + 1
      BY <2>4
    <3>2. \A k \in 1 .. Len(f) + 1 : k # 1 => k - 1 \in DOMAIN f /\ e[k] = f[k - 1]
      BY <2>4
    <3>3. CASE i = 1 \/ j = 1
      BY <3>1, <3>2, <3>3, <2>3, <2>4, <2>6
    <3>4. CASE i # 1 /\ j # 1
      <4>1. i - 1 = j - 1
        BY <3>1, <3>2, <3>4, <2>5, <2>6
      <4> QED
        BY <4>1, <3>1
    <3> QED
      BY <3>3, <3>4
  <2> QED
    BY <2>2, <2>6 DEF FreeAgree, e
<1>4. SlotsAgree(r) /\ PlacesAgree(r)
  BY <1>1, <1>2 DEF SlotsAgree, PlacesAgree
<1>5. ListsAgree(r) /\ EventsAgree(r)
  BY <1>1, <1>2 DEF ListsAgree, EventsAgree
<1>6. CountsAgree(r)
  <2>1. \A c \in Bgs : HoldersIn(r, c) = HoldersIn(s, c)
    BY DEF HoldersIn
  <2> QED
    BY <2>1, <1>1, <1>2 DEF CountsAgree
<1> QED
  BY <1>1, <1>3, <1>4, <1>5, <1>6 DEF Consistent

\* Nothing filled is a filling.
LEMMA FitsRefl ==
    ASSUME NEW x \in Battleground
    PROVE  Fits(x, x)
BY BattlegroundFields DEF Fits

\* A match is made where there was no battleground.
LEMMA StartMatchKeeps ==
    ASSUME NEW s, Consistent(s), NEW G,
           \A g \in G : g \in Groups(s.queue) /\ g.bg = None
    PROVE  Filled(StartMatch(s, G), s)
<1> DEFINE b == CHOOSE i \in FreeIds(s) : \A j \in FreeIds(s) : i <= j
           w == IF Holders(s, b) = {} THEN s.stale \ {b} ELSE s.stale \cup {b}
           f == [s.bg EXCEPT ![b] = [NoBg EXCEPT !.status = "join"]]
           made == [s EXCEPT !.bg = f, !.stale = w]
           i == InviteGroups(made, G, b)
           r == StartMatch(s, G)
<1>1. s \in State /\ \A c \in Bgs : s.bg[c] \in Battleground
  BY StateFields DEF Consistent
<1>2. CASE FreeIds(s) = {}
  <2>1. r = [s EXCEPT !.cut = TRUE]
    BY <1>2 DEF StartMatch
  <2> HIDE DEF r
  <2>2. /\ r \in State /\ r.queue = s.queue /\ r.events = s.events /\ r.slot = s.slot
        /\ r.place = s.place /\ r.at = s.at /\ r.stale = s.stale /\ r.bg = s.bg
        /\ r.freeSlots = s.freeSlots
    BY <1>1, <2>1 DEF State
  <2>3. Consistent(r)
    BY <2>2 DEF Consistent, SlotsAgree, PlacesAgree, ListsAgree, FreeAgree,
                EventsAgree, CountsAgree, HoldersIn, Exists
  <2> QED
    BY <2>2, <2>3, FilledRefl DEF r
<1>3. CASE FreeIds(s) # {}
  <2>1. b \in Bgs /\ s.bg[b].status = "none"
    <3>1. FreeIds(s) \in SUBSET Nat
      BY Constants DEF FreeIds
    <3>2. \E m \in FreeIds(s) : \A j \in FreeIds(s) : m <= j
      BY <3>1, <1>3, NatMin
    <3>3. b \in FreeIds(s)
      BY <3>2
    <3> QED
      BY <3>3 DEF FreeIds
  <2>2. r = [i EXCEPT !.freeSlots = <<b>> \o @]
    BY <1>3 DEF StartMatch
  <2>3. Made(made, s, b)
    <3> DEFINE new == [NoBg EXCEPT !.status = "join"]
    <3>1. /\ new \in Battleground /\ new.status = "join" /\ new.players = {}
          /\ \A t \in Teams : new.invited[t] = 0
      <4> DEFINE v == "join"
      <4>1. NoBg \in Battleground /\ v \in {"none", "join", "progress", "leave", "map"}
        BY NoBgIs
      <4>2. new = [NoBg EXCEPT !.status = v]
        OBVIOUS
      <4> HIDE DEF v, new
      <4>3. new \in Battleground /\ new.status = v /\ new.players = NoBg.players
            /\ new.invited = NoBg.invited
        BY <4>1, <4>2, NewStatus
      <4> QED
        BY <4>3, NoBgIs DEF v
    <3>2. f = [s.bg EXCEPT ![b] = new]
      OBVIOUS
    <3> HIDE DEF b
    <3>3. w \in SUBSET Bgs /\ (b \notin w => Holders(s, b) = {})
          /\ \A c \in Bgs : c # b => (c \in w <=> c \in s.stale)
      BY <1>1, <2>1, StateFields
    <3> HIDE DEF new, f, w
    <3>4. /\ f \in [Bgs -> Battleground] /\ f[b] = new
          /\ \A c \in Bgs : c # b => f[c] = s.bg[c]
      BY <1>1, <2>1, <3>1, <3>2, StateFields
    <3>5. /\ made \in State /\ made.bg = f /\ made.stale = w
          /\ made.queue = s.queue /\ made.events = s.events /\ made.slot = s.slot
          /\ made.place = s.place /\ made.at = s.at /\ made.freeSlots = s.freeSlots
      BY <1>1, <3>3, <3>4 DEF State
    <3> HIDE DEF made
    <3> QED
      BY <2>1, <3>1, <3>3, <3>4, <3>5 DEF Made
  <2>4. i = InviteGroups(made, G, b)
    OBVIOUS
  <2> HIDE DEF b, w, f, made, i, r
  <2>5. /\ Consistent(made) /\ Exists(made, b) /\ ~Exists(s, b)
        /\ made.queue = s.queue /\ made.events = s.events
        /\ made.freeSlots = s.freeSlots
        /\ \A c \in Bgs : c # b =>
               made.bg[c] = s.bg[c] /\ (c \in made.stale <=> c \in s.stale)
    BY <2>1, <2>3, MadeKeeps
  <2>6. \A g \in G : g \in Groups(made.queue) /\ g.bg = None
    BY <2>5
  <2>7. /\ Consistent(i) /\ Queued(i.queue) = Queued(s.queue)
        /\ i.freeSlots = s.freeSlots /\ i.stale = made.stale
        /\ Fresh(made) => Fresh(i)
        /\ \A c \in Bgs : /\ c # b => i.bg[c] = made.bg[c]
                          /\ i.bg[c].status = made.bg[c].status
    BY <2>1, <2>4, <2>5, <2>6, InviteGroupsKeeps
  <2>8. b \notin ToSet(s.freeSlots)
    BY <2>5 DEF Consistent, FreeAgree
  <2>9. Exists(i, b)
    BY <2>5, <2>7 DEF Exists
  <2>10. /\ r \in State /\ r.freeSlots = <<b>> \o i.freeSlots
         /\ r.queue = i.queue /\ r.events = i.events /\ r.slot = i.slot
         /\ r.place = i.place /\ r.at = i.at /\ r.stale = i.stale /\ r.bg = i.bg
    <3>1. i \in State /\ i.freeSlots \in Seq(Bgs)
      BY <2>7, StateFields DEF Consistent
    <3>2. <<b>> \o i.freeSlots \in Seq(Bgs)
      BY <3>1, <2>1, ElementsOfCons
    <3> DEFINE e == <<b>> \o i.freeSlots
    <3>3. r = [i EXCEPT !.freeSlots = e]
      BY <2>2
    <3> HIDE DEF e
    <3>4. e \in Seq(Bgs)
      BY <3>2 DEF e
    <3>5. /\ r \in State /\ r.freeSlots = e
          /\ r.queue = i.queue /\ r.events = i.events /\ r.slot = i.slot
          /\ r.place = i.place /\ r.at = i.at /\ r.stale = i.stale /\ r.bg = i.bg
      BY <3>1, <3>3, <3>4 DEF State
    <3> QED
      BY <3>5 DEF e
  <2>11. Consistent(r)
    BY <2>1, <2>7, <2>8, <2>9, <2>10, FreedKeeps
  <2>12. Fresh(s) => Fresh(r)
    BY <2>5, <2>7, <2>10 DEF Fresh
  <2>13. \A c \in Bgs : s.bg[c].status # "none" =>
             r.bg[c] = s.bg[c] /\ (c \in r.stale <=> c \in s.stale)
    BY <2>1, <2>5, <2>7, <2>10
  <2> QED
    BY <1>1, <2>7, <2>10, <2>11, <2>12, <2>13, FitsRefl DEF Filled, r
<1> QED
  BY <1>2, <1>3

\* The same groups in other queues of their team.
LEMMA RegroupedKeeps ==
    ASSUME NEW s, Consistent(s), NEW q \in Queues,
           \A t \in Teams : \A g : (\E k \in Kinds : g \in GroupsIn(q, k, t)) <=>
                                   (\E k \in Kinds : g \in GroupsIn(s.queue, k, t)),
           NEW r, r = [s EXCEPT !.queue = q]
    PROVE  Filled(r, s)
<1>1. /\ s \in State /\ GroupsApart(s.queue)
      /\ SlotsAgree(s) /\ PlacesAgree(s) /\ ListsAgree(s)
      /\ FreeAgree(s) /\ CountsAgree(s) /\ EventsAgree(s)
  BY DEF Consistent
<1>2. /\ r \in State /\ r.queue = q /\ r.events = s.events /\ r.slot = s.slot
      /\ r.place = s.place /\ r.at = s.at /\ r.stale = s.stale /\ r.bg = s.bg
      /\ r.freeSlots = s.freeSlots
  BY <1>1 DEF State
<1>3. Groups(q) = Groups(s.queue)
  <2>1. \A g : g \in Groups(q) <=> g \in Groups(s.queue)
    BY InGroups
  <2> QED
    BY <2>1
<1>4. Queued(q) = Queued(s.queue)
  BY <1>3 DEF Queued
<1>5. GroupsApart(q)
  BY <1>1, <1>3 DEF GroupsApart
<1>6. \A c : Exists(r, c) <=> Exists(s, c)
  BY <1>2 DEF Exists
<1>7. /\ SlotsAgree(r) /\ PlacesAgree(r)
  BY <1>1, <1>2, <1>3, <1>6 DEF SlotsAgree, PlacesAgree
<1>8. ListsAgree(r) /\ FreeAgree(r) /\ EventsAgree(r)
  <2>1. ListsAgree(r)
    BY <1>1, <1>2, <1>6 DEF ListsAgree
  <2>2. FreeAgree(r) /\ EventsAgree(r)
    BY <1>1, <1>2, <1>3, <1>6 DEF FreeAgree, EventsAgree
  <2> QED
    BY <2>1, <2>2
<1>9. CountsAgree(r)
  <2>1. \A c \in Bgs : HoldersIn(r, c) = HoldersIn(s, c)
    BY <1>2, <1>4 DEF HoldersIn
  <2> QED
    BY <2>1, <1>1, <1>2, <1>6 DEF CountsAgree
<1>10. Consistent(r)
  BY <1>2, <1>5, <1>7, <1>8, <1>9 DEF Consistent
<1> QED
  BY <1>2, <1>4, <1>10, FilledRefl

\* A premade group changes the queue, not the team.
LEMMA MovePremadesIs ==
    ASSUME NEW q \in Queues, NEW T, NEW x, x = MovePremades(q, T)
    PROVE  /\ x \in Queues
           /\ \A t \in Teams : \A g : (\E k \in Kinds : g \in GroupsIn(x, k, t)) <=>
                                      (\E k \in Kinds : g \in GroupsIn(q, k, t))
<1> DEFINE pre(t) == q["premade"][t]
           moves(t) == /\ pre(t) # <<>>
                       /\ Head(pre(t)).bg = None
                       /\ t \in T \/ Cardinality(Head(pre(t)).players) < MinPlayers
<1>1. "premade" \in Kinds /\ "normal" \in Kinds /\ \A k \in Kinds : k = "premade" \/ k = "normal"
  BY DEF Kinds
<1>2. \A t \in Teams :
          /\ pre(t) \in Seq(Group) /\ q["normal"][t] \in Seq(Group)
          /\ ~moves(t) => x["premade"][t] = pre(t) /\ x["normal"][t] = q["normal"][t]
          /\ moves(t) => /\ pre(t) # <<>>
                         /\ x["premade"][t] = Tail(pre(t))
                         /\ x["normal"][t] = <<Head(pre(t))>> \o q["normal"][t]
  BY <1>1 DEF MovePremades, Queues
<1>3. x = [k \in Kinds |-> [t \in Teams |-> x[k][t]]]
  BY DEF MovePremades
<1> HIDE DEF moves
<1>4. ASSUME NEW t \in Teams
      PROVE  /\ x["premade"][t] \in Seq(Group) /\ x["normal"][t] \in Seq(Group)
             /\ ToSet(x["premade"][t]) \cup ToSet(x["normal"][t]) =
                    ToSet(pre(t)) \cup ToSet(q["normal"][t])
  <2>1. CASE ~moves(t)
    BY <2>1, <1>2
  <2>2. CASE moves(t)
    <3> DEFINE p == pre(t)
               n == q["normal"][t]
               h == Head(p)
               a == Tail(p)
               b == <<h>> \o n
    <3>1. p \in Seq(Group) /\ n \in Seq(Group) /\ p # <<>>
      BY <2>2, <1>2
    <3> HIDE DEF p, n
    <3>2. h \in Group /\ a \in Seq(Group) /\ ToSet(p) = ToSet(a) \cup {h}
      BY <3>1, ElementsOfTail
    <3> HIDE DEF a, h
    <3>3. b \in Seq(Group) /\ ToSet(b) = ToSet(n) \cup {h}
      BY <3>1, <3>2, ElementsOfCons
    <3> HIDE DEF b
    <3>4. x["premade"][t] = a /\ x["normal"][t] = b
      BY <2>2, <1>2 DEF a, b, h, p, n
    <3> QED
      BY <3>2, <3>3, <3>4 DEF p, n
  <2> QED
    BY <2>1, <2>2
<1>5. x \in Queues
  <2>1. \A k \in Kinds, t \in Teams : x[k][t] \in Seq(Group)
    BY <1>1, <1>4
  <2> DEFINE y == [k \in Kinds |-> [t \in Teams |-> x[k][t]]]
  <2>2. y \in [Kinds -> [Teams -> Seq(Group)]]
    BY <2>1
  <2> QED
    BY <1>3, <2>2 DEF Queues
<1>6. ASSUME NEW t \in Teams, NEW g
      PROVE  (\E k \in Kinds : g \in GroupsIn(x, k, t)) <=>
             (\E k \in Kinds : g \in GroupsIn(q, k, t))
  <2>1. \A z : (\E k \in Kinds : g \in GroupsIn(z, k, t)) <=>
               g \in ToSet(z["premade"][t]) \cup ToSet(z["normal"][t])
    BY <1>1 DEF GroupsIn
  <2> QED
    BY <2>1, <1>4
<1> QED
  BY <1>5, <1>6

\* The groups of a premade match wait in the queue.
LEMMA PremadeGroupsWait ==
    ASSUME NEW q \in Queues, GroupsApart(q), PremadeMatch(q), NEW g \in PremadeGroups(q)
    PROVE  g \in Groups(q) /\ g.bg = None
<1> DEFINE first(t) == q["premade"][t][Min(Waiting(q["premade"][t]))]
           size(t) == Cardinality(first(t).players)
           most == Smaller(size("ally"), size("horde"))
           pool(t) == Pool(q["normal"][t], most - size(t), most - size(t)).taken
<1>1. ASSUME NEW t \in Teams
      PROVE  first(t) \in GroupsIn(q, "premade", t) /\ first(t).bg = None /\ size(t) \in Nat
  <2> DEFINE s == q["premade"][t]
             w == Waiting(s)
  <2>1. s \in Seq(Group) /\ w # {}
    BY DEF Queues, Kinds, PremadeMatch
  <2> HIDE DEF s
  <2>2. w \in SUBSET Nat
    BY <2>1 DEF Waiting
  <2>3. Min(w) \in w
    BY <2>1, <2>2, MinOf
  <2>4. Min(w) \in DOMAIN s /\ s[Min(w)].bg = None
    BY <2>3 DEF Waiting
  <2>5. s[Min(w)] \in ToSet(s) /\ s[Min(w)] \in Group
    BY <2>1, <2>4 DEF ToSet
  <2>6. Cardinality(s[Min(w)].players) \in Nat
    BY <2>5, GroupFields, Constants, FS_Subset, FS_CardinalityType
  <2> QED
    BY <2>4, <2>5, <2>6 DEF s, GroupsIn
<1>2. most \in Int
  BY <1>1, TwoTeams DEF Smaller
<1>3. PICK t \in Teams : g = first(t) \/ g \in pool(t)
  BY DEF PremadeGroups
<1>4. CASE g = first(t)
  BY <1>1, <1>4, InGroups DEF Kinds
<1>5. CASE g \in pool(t)
  <2> DEFINE n == most - size(t)
  <2>1. n \in Int /\ q["normal"][t] \in Seq(Group)
    <3> HIDE DEF most, size
    <3> QED
      BY <1>1, <1>2 DEF Queues, Kinds
  <2>2. g \in Pool(q["normal"][t], n, n).taken
    BY <1>5
  <2> HIDE DEF n
  <2>3. g \in ToSet(q["normal"][t]) /\ g.bg = None
    BY <2>1, <2>2, PoolIs
  <2> QED
    BY <2>3, InGroups DEF Kinds, GroupsIn
<1> QED
  BY <1>3, <1>4, <1>5

\* The two checks for a new match.
LEMMA CheckPremadeMatchKeeps ==
    ASSUME NEW s, Consistent(s), NEW T
    PROVE  Filled(CheckPremadeMatch(s, T), s)
<1>1. s \in State /\ s.queue \in Queues /\ GroupsApart(s.queue)
  BY StateFields DEF Consistent
<1>2. CASE PremadeMatch(s.queue)
  <2>1. \A g \in PremadeGroups(s.queue) : g \in Groups(s.queue) /\ g.bg = None
    BY <1>1, <1>2, PremadeGroupsWait
  <2>2. CheckPremadeMatch(s, T) = StartMatch(s, PremadeGroups(s.queue))
    BY <1>2 DEF CheckPremadeMatch
  <2> QED
    BY <2>1, <2>2, StartMatchKeeps
<1>3. CASE ~PremadeMatch(s.queue)
  <2> DEFINE q == MovePremades(s.queue, T)
             r == CheckPremadeMatch(s, T)
  <2>1. r = [s EXCEPT !.queue = q]
    BY <1>3 DEF CheckPremadeMatch
  <2>2. q = MovePremades(s.queue, T)
    OBVIOUS
  <2> HIDE DEF q, r
  <2>3. /\ q \in Queues
        /\ \A t \in Teams : \A g : (\E k \in Kinds : g \in GroupsIn(q, k, t)) <=>
                                   (\E k \in Kinds : g \in GroupsIn(s.queue, k, t))
    BY <1>1, <2>2, MovePremadesIs
  <2>4. Filled(r, s)
    BY <2>1, <2>3, RegroupedKeeps
  <2> QED
    BY <2>4 DEF r
<1> QED
  BY <1>2, <1>3

LEMMA CheckNormalMatchKeeps ==
    ASSUME NEW s, Consistent(s)
    PROVE  Filled(CheckNormalMatch(s), s)
<1>1. s \in State /\ s.queue \in Queues /\ GroupsApart(s.queue)
  BY StateFields DEF Consistent
<1>2. CASE NormalMatch(s.queue)
  <2> DEFINE e == [t \in Teams |-> MinPlayers]
             n == [t \in Teams |-> MaxPlayers]
             G == UNION {NormalPool(s.queue, t).taken : t \in Teams}
  <2>1. CheckNormalMatch(s) = StartMatch(s, G)
    BY <1>2 DEF CheckNormalMatch
  <2>2. G = NormalPools(s.queue, e, n)
    BY DEF NormalPools, NormalPool
  <2>3. e \in [Teams -> Int] /\ n \in [Teams -> Int]
    BY Constants
  <2> HIDE DEF G, e, n
  <2>4. \A g \in G : g \in Groups(s.queue) /\ g.bg = None
    BY <1>1, <2>2, <2>3, PoolsAre
  <2> QED
    BY <2>1, <2>4, StartMatchKeeps
<1>3. CASE ~NormalMatch(s.queue)
  <2>1. CheckNormalMatch(s) = s
    BY <1>3 DEF CheckNormalMatch
  <2> QED
    BY <2>1, FilledRefl
<1> QED
  BY <1>2, <1>3

\* The fold over the battlegrounds with free slots: of the sets of positions
\* for which it went wrong there would be a least one.
LEMMA FillAllKeeps ==
    ASSUME NEW s, Consistent(s)
    PROVE  Filled(FoldLeft(FillPlayersToBG, s, s.freeSlots), s)
<1> DEFINE seq == s.freeSlots
           D == DOMAIN seq
           G == {r \in State : Filled(r, s)}
           eq(h) == h = [x \in SUBSET D |-> IF x = {} THEN s
                            ELSE FillPlayersToBG(h[x \ {Max(x)}], seq[Max(x)])]
           f == CHOOSE h : eq(h)
<1>1. FoldLeft(FillPlayersToBG, s, seq) = f[D]
  BY DEF FoldLeft, MapThenFoldSet
<1>2. seq \in Seq(Bgs) /\ Len(seq) \in Nat /\ D = 1 .. Len(seq)
  <2>1. seq \in Seq(Bgs)
    BY StateFields DEF Consistent
  <2> QED
    BY <2>1
<1>3. IsFiniteSet(D) /\ \A x \in SUBSET D : x # {} => Max(x) \in x
  BY <1>2, Positions
<1>4. s \in G
  BY FilledRefl DEF Consistent
<1>5. \A r \in G, i \in D : FillPlayersToBG(r, seq[i]) \in G
  <2> SUFFICES ASSUME NEW r \in G, NEW i \in D
               PROVE  FillPlayersToBG(r, seq[i]) \in G
    OBVIOUS
  <2>1. seq[i] \in Bgs /\ seq[i] \in ToSet(seq)
    BY <1>2 DEF ToSet
  <2>2. Exists(s, seq[i])
    BY <2>1 DEF Consistent, FreeAgree
  <2>3. Consistent(r) /\ Filled(r, s)
    BY DEF Filled
  <2>4. Exists(r, seq[i])
    BY <2>2, <2>3 DEF Exists, Filled
  <2>5. Filled(FillPlayersToBG(r, seq[i]), r)
    BY <2>1, <2>3, <2>4, FillPlayersToBGKeeps
  <2>6. Filled(FillPlayersToBG(r, seq[i]), s)
    BY <2>3, <2>5, FilledTrans
  <2>7. FillPlayersToBG(r, seq[i]) \in State
    BY <2>6 DEF Filled, Consistent
  <2> QED
    BY <2>6, <2>7
<1> HIDE DEF G
<1>6. \E h : eq(h)
  <2> DEFINE n == Len(seq)
             F == [x \in G \X (1 .. n) |-> FillPlayersToBG(x[1], seq[x[2]])]
  <2>0. n \in Nat /\ D = 1 .. n
    BY <1>2
  <2> HIDE DEF n, D, seq
  <2>1. F \in [G \X (1 .. n) -> G]
    BY <1>5, <2>0
  <2>2. \A k \in G, i \in 1 .. n : F[<<k, i>>] = FillPlayersToBG(k, seq[i])
    OBVIOUS
  <2> HIDE DEF F
  <2>3. PICK h : IsFold(h, 1 .. n, G, s, [x \in SUBSET (1 .. n) |-> Max(x)], F)
    BY <1>4, <2>0, <2>1, SeqFoldExists
  <2>4. ASSUME NEW x \in SUBSET D
        PROVE  h[x] = IF x = {} THEN s ELSE FillPlayersToBG(h[x \ {Max(x)}], seq[Max(x)])
    BY <2>0, <2>2, <2>3, <1>3 DEF IsFold
  <2>5. eq(h)
    BY <2>0, <2>3, <2>4 DEF IsFold
  <2> QED
    BY <2>5
<1>7. \A x \in SUBSET D : f[x] = IF x = {} THEN s ELSE FillPlayersToBG(f[x \ {Max(x)}], seq[Max(x)])
  <2>1. eq(f)
    BY <1>6
  <2> HIDE DEF f
  <2> QED
    BY <2>1
<1> HIDE DEF f
<1>8. \A x \in SUBSET D : f[x] \in G
  <2> DEFINE bad == {x \in SUBSET D : f[x] \notin G}
  <2> SUFFICES ASSUME bad # {} PROVE FALSE
    OBVIOUS
  <2>1. PICK x \in bad : \A u \in bad : u \subseteq x => u = x
    <3>1. bad \in SUBSET SUBSET D
      OBVIOUS
    <3> HIDE DEF bad, D
    <3> QED
      BY <3>1, <1>3, FiniteMin
  <2>2. x # {}
    BY <1>4, <1>7
  <2>3. Max(x) \in D /\ x \ {Max(x)} \in SUBSET D /\ x \ {Max(x)} \notin bad
    BY <2>1, <2>2, <1>3
  <2> QED
    BY <2>1, <2>2, <2>3, <1>5, <1>7
<1> QED
  BY <1>1, <1>8 DEF G

\* The update of the queue, filling first.
LEMMA BattlegroundQueueUpdateKeeps ==
    ASSUME NEW s, Consistent(s), NEW T
    PROVE  Filled(BattlegroundQueueUpdate(s, T), s)
<1> DEFINE f == FoldLeft(FillPlayersToBG, s, s.freeSlots)
           p == CheckPremadeMatch(f, T)
           n == CheckNormalMatch(p)
<1>1. BattlegroundQueueUpdate(s, T) = IF Groups(s.queue) = {} THEN s ELSE n
  BY DEF BattlegroundQueueUpdate
<1>2. Filled(s, s)
  BY FilledRefl
<1>3. Filled(f, s)
  BY FillAllKeeps
<1> HIDE DEF f
<1>4. Filled(p, f)
  BY <1>3, CheckPremadeMatchKeeps DEF Filled
<1> HIDE DEF p
<1>5. Filled(n, p)
  BY <1>4, CheckNormalMatchKeeps DEF Filled
<1> HIDE DEF n
<1>6. Filled(p, s)
  BY <1>3, <1>4, FilledTrans
<1>7. Filled(n, s)
  BY <1>5, <1>6, FilledTrans
<1> QED
  BY <1>1, <1>2, <1>7

\* The same if it is scheduled.
LEMMA UpdateScheduledKeeps ==
    ASSUME NEW s, Consistent(s), NEW T
    PROVE  Filled(UpdateScheduled(s, T), s)
<1> DEFINE r == [s EXCEPT !.scheduled = FALSE]
<1>1. /\ s \in State /\ r \in State /\ r.queue = s.queue /\ r.events = s.events
      /\ r.slot = s.slot /\ r.place = s.place /\ r.at = s.at /\ r.stale = s.stale /\ r.bg = s.bg
      /\ r.freeSlots = s.freeSlots
  BY DEF Consistent, State
<1>2. UpdateScheduled(s, T) = IF s.scheduled THEN BattlegroundQueueUpdate(r, T) ELSE s
  BY DEF UpdateScheduled
<1> HIDE DEF r
<1>3. Consistent(r)
  BY <1>1 DEF Consistent, SlotsAgree, PlacesAgree, ListsAgree, FreeAgree,
              EventsAgree, CountsAgree, HoldersIn, Exists
<1>4. Filled(r, s)
  BY <1>1, <1>3, FilledRefl
<1>5. Filled(s, s)
  BY FilledRefl
<1>6. Filled(BattlegroundQueueUpdate(r, T), r)
  BY <1>3, BattlegroundQueueUpdateKeeps
<1>7. Filled(BattlegroundQueueUpdate(r, T), s)
  BY <1>4, <1>6, FilledTrans
<1> QED
  BY <1>2, <1>5, <1>7
=============================================================================
