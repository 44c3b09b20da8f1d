--------------------------- MODULE MapClockProofs ---------------------------
(***************************************************************************)
(* Proofs about MapClock, for a clock of any size, any interval and any    *)
(* limits: what the updates of a map are told covers the time that passed, *)
(* but for a millisecond at each wrap, and is at most twice of it.         *)
(*                                                                         *)
(* Time passes for at most one round of the clock between two updates, so  *)
(* that GetMSTimeDiff sees one wrap or none.  A call that sleeps reports   *)
(* the whole interval, though it began to sleep when some of it was over;  *)
(* what is counted twice is at most what passed before the call.           *)
(***************************************************************************)
EXTENDS MapClock, Integers, TLAPS

Types ==
    /\ now \in Nat /\ entry \in Nat /\ entered \in Nat /\ begun \in Nat
    /\ wakeAt \in Nat /\ simulated \in Nat /\ clipped \in Nat /\ diff \in Nat
    /\ pc \in {"out", "asleep", "update"}

\* What the program knows of the time, and that no round of the clock is missed.
TimeInv ==
    /\ lastMapUpdate = entered % Clock
    /\ entered <= begun
    /\ begun <= now
    /\ now - entered < Clock

\* A sleeping call will report MinInterval, and sleeps until that much has
\* passed since the last call, by the clock it has read.
SleepInv ==
    pc = "asleep" =>
        /\ diff = MinInterval
        /\ begun <= entry /\ entry <= now
        /\ GetMSTimeDiff(lastMapUpdate, entry % Clock) < MinInterval
        /\ wakeAt = entry + MinInterval
                        - GetMSTimeDiff(lastMapUpdate, entry % Clock)

\* Twice of what passed until the last beginning would not be inductive: the
\* next call counts from the last call on, not from its beginning.
CoveredOnce == simulated + clipped <= begun + entered

IInv ==
    /\ Types
    /\ TimeInv
    /\ SleepInv
    /\ NoTimeLost
    /\ CoveredOnce

---------------------------------------------------------------------------
(* The clock                                                               *)

LEMMA Rounds ==
    ASSUME NEW a \in Int, NEW c \in Int, c > 0
    PROVE  /\ a \div c \in Int /\ a % c \in Int
           /\ 0 <= a % c /\ a % c < c
           /\ a = c * (a \div c) + (a % c)
  OBVIOUS

\* Two times less than a round apart are in the same round or in two that
\* follow each other, and the remainders say which.
LEMMA OneRound ==
    ASSUME NEW c \in Int, c > 0,
           NEW p \in Int, NEW q \in Int, NEW m \in Int, NEW n \in Int,
           0 <= m, m < c, 0 <= n, n < c,
           c * p + m <= c * q + n,
           c * q + n < c * p + m + c
    PROVE  (q = p /\ m <= n) \/ (q = p + 1 /\ n < m)
<1>1. CASE q < p
  <2>1. c * q + c <= c * p
    BY <1>1
  <2> QED BY <2>1
<1>2. CASE q > p + 1
  <2>1. c * p + 2 * c <= c * q
    BY <1>2
  <2> QED BY <2>1
<1>3. CASE q = p
  BY <1>3
<1>4. CASE q = p + 1
  <2>1. c * q = c * p + c
    BY <1>4
  <2> QED BY <2>1, <1>4
<1> QED BY <1>1, <1>2, <1>3, <1>4

\* GetMSTimeDiff of two readings less than a round apart is the time between
\* them, less the one millisecond of a wrap.
LEMMA TimeDiff ==
    ASSUME NEW a \in Nat, NEW b \in Nat, a <= b, b - a < Clock
    PROVE  LET d == GetMSTimeDiff(a % Clock, b % Clock)
           IN  /\ d \in Nat
               /\ d <= b - a
               /\ d + (b \div Clock) >= (b - a) + (a \div Clock)
<1> DEFINE p == a \div Clock
           q == b \div Clock
           m == a % Clock
           n == b % Clock
<1>1. Clock \in Int /\ Clock > 0
  BY ClockSizes
<1>2. /\ p \in Int /\ m \in Int /\ 0 <= m /\ m < Clock
      /\ a = Clock * p + m
  BY <1>1, Rounds
<1>3. /\ q \in Int /\ n \in Int /\ 0 <= n /\ n < Clock
      /\ b = Clock * q + n
  BY <1>1, Rounds
<1> HIDE DEF p, q, m, n
<1>4. (q = p /\ m <= n) \/ (q = p + 1 /\ n < m)
  BY <1>1, <1>2, <1>3, OneRound
<1>5. CASE q = p /\ m <= n
  <2>1. b - a = n - m
    BY <1>1, <1>2, <1>3, <1>5
  <2>2. GetMSTimeDiff(m, n) = n - m
    BY <1>2, <1>3, <1>5 DEF GetMSTimeDiff
  <2> QED BY <1>2, <1>3, <1>5, <2>1, <2>2 DEF p, q, m, n
<1>6. CASE q = p + 1 /\ n < m
  <2>1. Clock * q = Clock * p + Clock
    BY <1>1, <1>2, <1>6
  <2>2. b - a = Clock + n - m
    BY <1>1, <1>2, <1>3, <2>1
  <2>3. GetMSTimeDiff(m, n) = Clock - 1 - m + n
    BY <1>1, <1>2, <1>3, <1>6 DEF GetMSTimeDiff
  <2> QED BY <1>1, <1>2, <1>3, <1>6, <2>2, <2>3 DEF p, q, m, n
<1> QED BY <1>4, <1>5, <1>6

---------------------------------------------------------------------------
(* The invariant                                                           *)

LEMMA InitIInv == Init => IInv
<1> SUFFICES ASSUME Init PROVE IInv
  OBVIOUS
<1>1. Clock \in Int /\ Clock > 0
  BY ClockSizes
<1>2. 0 % Clock = 0 /\ 0 \div Clock = 0
  BY <1>1
<1>3. Types /\ now < Clock
  BY <1>1 DEF Init, Types
<1> QED BY <1>1, <1>2, <1>3 DEF Init, IInv, Types, TimeInv, SleepInv, NoTimeLost,
                                CoveredOnce

LEMMA TickStep == ASSUME IInv, Tick PROVE IInv'
<1> USE DEF IInv, Tick, code, history
<1>1. Types' /\ TimeInv'
  BY ClockSizes DEF Types, TimeInv
<1>2. SleepInv'
  BY DEF Types, SleepInv, GetMSTimeDiff
<1>3. NoTimeLost' /\ CoveredOnce'
  BY DEF NoTimeLost, CoveredOnce
<1> QED BY <1>1, <1>2, <1>3

\* An update that begins now, of a call made at e, with d milliseconds.  It
\* is told, or loses to the limit, d: enough to cover the time since the
\* last call, and no more than what has passed since, and since it began.
LEMMA BeginUpdateStep ==
    ASSUME IInv, NEW d \in Nat, NEW m \in MaxDiffs, NEW e \in Nat,
           BeginUpdate(d, m, e), now' = now, wakeAt' = wakeAt,
           entry' \in Nat,
           begun <= e, e <= now,
           d + (e \div Clock) >= (e - entered) + (entered \div Clock),
           begun + entered + d <= now + e
    PROVE  IInv'
<1> DEFINE told == IF d > m THEN m ELSE d
<1>1. Clock \in Int /\ Clock > 0 /\ m \in Nat
  BY ClockSizes
<1>2. told \in Nat /\ told <= d
  BY <1>1
<1>3. /\ e \div Clock \in Int /\ entered \div Clock \in Int
  BY <1>1, Rounds DEF IInv, Types
<1>4. /\ pc' = "update" /\ diff' = told /\ lastMapUpdate' = e % Clock
      /\ entered' = e /\ begun' = now
      /\ simulated' = simulated + told /\ clipped' = clipped + (d - told)
  BY DEF BeginUpdate
<1> HIDE DEF told
<1>5. simulated' + clipped' = simulated + clipped + d
  BY <1>2, <1>4 DEF IInv, Types
<1>6. Types'
  BY <1>2, <1>4 DEF IInv, Types
<1>7. TimeInv'
  BY <1>1, <1>4 DEF IInv, Types, TimeInv
<1>8. SleepInv'
  BY <1>4 DEF SleepInv
<1>9. NoTimeLost'
  BY <1>3, <1>4, <1>5 DEF IInv, Types, NoTimeLost
<1>10. CoveredOnce'
  BY <1>4, <1>5 DEF IInv, Types, CoveredOnce
<1> QED BY <1>6, <1>7, <1>8, <1>9, <1>10 DEF IInv

LEMMA CallStep == ASSUME IInv, NEW m \in MaxDiffs, Call(m) PROVE IInv'
<1> DEFINE elapsed == GetMSTimeDiff(lastMapUpdate, GetMSTime)
<1>1. /\ elapsed \in Nat
      /\ elapsed <= now - entered
      /\ elapsed + (now \div Clock) >= (now - entered) + (entered \div Clock)
  BY TimeDiff DEF IInv, Types, TimeInv, GetMSTime
<1>2. CASE elapsed < MinInterval
  <2>1. /\ pc' = "asleep" /\ diff' = MinInterval /\ entry' = now
        /\ wakeAt' = now + (MinInterval - elapsed)
        /\ UNCHANGED <<now, lastMapUpdate, entered, begun, simulated, clipped>>
    BY <1>2 DEF Call, history
  <2>2. MinInterval \in Nat
    BY ClockSizes
  <2>3. Types' /\ TimeInv'
    BY <1>1, <1>2, <2>1, <2>2 DEF IInv, Types, TimeInv
  <2>4. GetMSTimeDiff(lastMapUpdate, entry % Clock)' = elapsed
    BY <2>1 DEF GetMSTimeDiff, GetMSTime
  <2>5. SleepInv'
    <3> HIDE DEF elapsed
    <3> QED BY <1>1, <1>2, <2>1, <2>2, <2>4 DEF IInv, Types, TimeInv, SleepInv
  <2>6. NoTimeLost' /\ CoveredOnce'
    BY <2>1 DEF IInv, NoTimeLost, CoveredOnce
  <2> QED BY <2>3, <2>5, <2>6 DEF IInv
<1>3. CASE ~(elapsed < MinInterval)
  <2>1. /\ BeginUpdate(elapsed, m, now) /\ wakeAt' = wakeAt
        /\ now' = now /\ entry' = now
    BY <1>3 DEF Call
  <2>2. begun + entered + elapsed <= now + now
    <3> HIDE DEF elapsed
    <3> QED BY <1>1 DEF IInv, Types, TimeInv
  <2> HIDE DEF elapsed
  <2> QED BY <1>1, <2>1, <2>2, BeginUpdateStep DEF IInv, Types, TimeInv
<1> QED BY <1>2, <1>3

LEMMA WakeUpStep == ASSUME IInv, NEW m \in MaxDiffs, WakeUp(m) PROVE IInv'
<1> DEFINE elapsed == GetMSTimeDiff(lastMapUpdate, entry % Clock)
<1>1. /\ pc = "asleep" /\ now >= wakeAt /\ BeginUpdate(diff, m, entry)
      /\ now' = now /\ wakeAt' = wakeAt /\ entry' = entry
  BY DEF WakeUp
<1>2. /\ diff = MinInterval /\ begun <= entry /\ entry <= now
      /\ elapsed < MinInterval
      /\ wakeAt = entry + MinInterval - elapsed
  BY <1>1 DEF IInv, SleepInv
<1>3. /\ entered <= entry /\ entry - entered < Clock
  BY <1>2, ClockSizes DEF IInv, Types, TimeInv
<1>4. /\ elapsed \in Nat
      /\ elapsed <= entry - entered
      /\ elapsed + (entry \div Clock) >= (entry - entered) + (entered \div Clock)
  BY <1>3, TimeDiff DEF IInv, Types, TimeInv
<1>5. entry \div Clock \in Int /\ entered \div Clock \in Int /\ MinInterval \in Nat
  BY ClockSizes, Rounds DEF IInv, Types
<1> HIDE DEF elapsed
<1>6. diff + (entry \div Clock) >= (entry - entered) + (entered \div Clock)
  BY <1>2, <1>4, <1>5 DEF IInv, Types
<1>7. begun + entered + diff <= now + entry
  BY <1>1, <1>2, <1>4, <1>5 DEF IInv, Types
<1> QED BY <1>1, <1>2, <1>6, <1>7, BeginUpdateStep DEF IInv, Types

LEMMA OtherSteps == ASSUME IInv, EndUpdate \/ UNCHANGED vars PROVE IInv'
  BY DEF EndUpdate, vars, code, history, IInv, Types, TimeInv, SleepInv,
         NoTimeLost, CoveredOnce, GetMSTimeDiff

LEMMA NextIInv == IInv /\ [Next]_vars => IInv'
  BY TickStep, CallStep, WakeUpStep, OtherSteps DEF Next

\* The invariant of the clock, which the theorems below rest on.
THEOREM InductiveInvariant == Spec => []IInv
  BY InitIInv, NextIInv, PTL DEF Spec

---------------------------------------------------------------------------
(* What follows from it                                                    *)

\* What the updates were told and what the limit took away covers the time
\* up to the last call, but for a millisecond each time the clock wraps
\* (Map::DoUpdate, GetMSTimeDiff).
THEOREM TimeIsNotLost == Spec => []NoTimeLost
<1>1. IInv => NoTimeLost
  BY DEF IInv
<1> QED BY <1>1, InductiveInvariant, PTL

\* No map runs at more than twice the speed of the clock, though every call
\* that slept reports the whole interval (Map::DoUpdate).
THEOREM TwiceAtMost == Spec => []AtMostTwice
<1>1. IInv => AtMostTwice
  BY DEF IInv, Types, TimeInv, CoveredOnce, AtMostTwice
<1> QED BY <1>1, InductiveInvariant, PTL
=============================================================================
