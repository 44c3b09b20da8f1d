----------------------------- MODULE MapClock -----------------------------
(***************************************************************************)
(* How much time the updates of one map are told has passed:               *)
(* Map::DoUpdate (Maps/Map.cpp), called again and again for the map of a   *)
(* request by MapUpdateRequest::call, on the 32-bit millisecond clock of   *)
(* GetMSTime and GetMSTimeDiff.                                            *)
(*                                                                         *)
(* Time is a variable; the program sees it modulo Clock.  A call reads     *)
(* the clock, sleeps if the map was updated too recently, then updates the *)
(* map.  The variables below `diff` are a history the program does not     *)
(* keep.                                                                   *)
(***************************************************************************)
EXTENDS Naturals

CONSTANTS
    Clock,          \* one more than the largest uint32
    MinInterval,    \* MINIMUM_MAP_UPDATE_INTERVAL
    MaxDiffs,       \* the m_diff a request may carry
    Horizon         \* bound: time stops here

ASSUME ClockSizes ==
    /\ Clock \in Nat \ {0}
    /\ MinInterval \in Nat
    /\ MaxDiffs \subseteq Nat
    /\ Horizon \in Nat

VARIABLES
    now,            \* milliseconds since the server started
    pc,             \* "out", "asleep" or "update"
    wakeAt,         \* the end of the sleep
    entry,          \* when the call read the clock into its local `now`
    diff,
    lastMapUpdate,  \* _lastMapUpdate
    entered,        \* history: when the last call that updated was made
    begun,          \* history: when the last update began
    simulated,      \* history: the sum of the diffs of the updates
    clipped         \* history: what the limit maxDiff took away

code    == <<pc, wakeAt, entry, diff, lastMapUpdate>>
history == <<entered, begun, simulated, clipped>>
vars    == <<now, code, history>>

GetMSTime == now % Clock

\* Mutant: after a wrap of the clock only the time since the wrap is counted.
DiffSinceWrap(old, new) == IF old > new THEN new ELSE new - old

\* GetMSTimeDiff.  The sum is one short when the clock has wrapped.
GetMSTimeDiff(old, new) ==
    IF old > new THEN (Clock - 1 - old) + new ELSE new - old

\* A map made at some time after the start; _lastMapUpdate(0) is the start.
Init ==
    /\ now \in 0 .. Clock - 1
    /\ pc = "out"
    /\ wakeAt = 0
    /\ entry = 0
    /\ diff = 0
    /\ lastMapUpdate = 0
    /\ entered = 0
    /\ begun = 0
    /\ simulated = 0
    /\ clipped = 0

\* A live map is updated again before the clock has gone once round.
Tick ==
    /\ now < Horizon
    /\ now - entered < Clock - 1
    /\ now' = now + 1
    /\ UNCHANGED <<code, history>>

\* The update of a call made at e begins, told of d milliseconds of which the
\* limit leaves m.
BeginUpdate(d, m, e) ==
    LET told == IF d > m THEN m ELSE d IN
    /\ pc' = "update"
    /\ diff' = told
    /\ lastMapUpdate' = e % Clock
    /\ entered' = e
    /\ begun' = now
    /\ simulated' = simulated + told
    /\ clipped' = clipped + (d - told)

\* Mutant: the interval is reported but not waited for.
CallWithoutSleep(m) ==
    LET elapsed == GetMSTimeDiff(lastMapUpdate, GetMSTime) IN
    /\ pc = "out"
    /\ BeginUpdate(IF elapsed < MinInterval THEN MinInterval ELSE elapsed, m, now)
    /\ entry' = now
    /\ UNCHANGED <<now, wakeAt>>

\* DoUpdate up to the sleep, or up to the update if there is no sleep.
Call(m) ==
    LET elapsed == GetMSTimeDiff(lastMapUpdate, GetMSTime) IN
    /\ pc = "out"
    /\ entry' = now
    /\ IF elapsed < MinInterval
       THEN /\ pc' = "asleep"
            /\ diff' = MinInterval
            /\ wakeAt' = now + (MinInterval - elapsed)
            /\ UNCHANGED <<lastMapUpdate, history>>
       ELSE /\ BeginUpdate(elapsed, m, now)
            /\ UNCHANGED wakeAt
    /\ UNCHANGED now

\* The sleep lasts at least as long as asked for.
WakeUp(m) ==
    /\ pc = "asleep"
    /\ now >= wakeAt
    /\ BeginUpdate(diff, m, entry)
    /\ UNCHANGED <<now, wakeAt, entry>>

EndUpdate ==
    /\ pc = "update"
    /\ pc' = "out"
    /\ UNCHANGED <<now, wakeAt, entry, diff, lastMapUpdate, history>>

Next ==
    \/ Tick
    \/ \E m \in MaxDiffs : Call(m) \/ WakeUp(m)
    \/ EndUpdate

Spec == Init /\ [][Next]_vars

---------------------------------------------------------------------------
(* Properties                                                              *)

\* No time is lost by the sleeps: what the updates were told, and what
\* maxDiff took away, covers the time up to the last call, but for the one
\* millisecond GetMSTimeDiff drops each time the clock wraps.
NoTimeLost == simulated + clipped + entered \div Clock >= entered

\* The time the map is told of runs at most twice as fast as real time.
AtMostTwice == simulated + clipped <= 2 * begun

\* Map.h:195: DoUpdate calls the update "with diff since last updates": the
\* diffs add up to no more than the time since the server started.
DiffsAreElapsedTime == simulated <= begun

===========================================================================
