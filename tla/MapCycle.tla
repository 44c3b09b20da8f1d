----------------------------- MODULE MapCycle -----------------------------
(***************************************************************************)
(* What the map updater promises to the rest of the server: the world      *)
(* alternates between a phase in which maps are updated in parallel, each  *)
(* by one thread at a time, and a phase in which nobody is inside a map,   *)
(* so that the delayed updates, the sessions and the creation of maps need *)
(* no lock.  There are no threads, queues or counters here.                *)
(***************************************************************************)
EXTENDS FiniteSets

CONSTANTS
    BaseMaps,   \* the maps updated once in a cycle
    Instances   \* the maps updated as often as the cycle has time for

VARIABLES
    phase,      \* "idle", "update", "delayed" or "stopped"
    live,       \* the maps that exist
    expired,    \* the instances this cycle may unload instead of updating
    active,     \* the maps being updated now
    updated     \* the maps whose update began in this cycle

vars == <<phase, live, expired, active, updated>>

Init ==
    /\ phase = "idle"
    /\ live = {}
    /\ expired = {}
    /\ active = {}
    /\ updated = {}

Create(m) ==
    /\ phase = "idle"
    /\ m \notin live
    /\ live' = live \cup {m}
    /\ UNCHANGED <<phase, expired, active, updated>>

Start ==
    /\ phase = "idle"
    /\ phase' = "update"
    /\ expired' \in SUBSET (live \cap Instances)
    /\ updated' = {}
    /\ UNCHANGED <<live, active>>

Begin(m) ==
    /\ phase = "update"
    /\ m \in live \ (active \cup expired)
    /\ m \in BaseMaps => m \notin updated
    /\ active' = active \cup {m}
    /\ updated' = updated \cup {m}
    /\ UNCHANGED <<phase, live, expired>>

End(m) ==
    /\ m \in active
    /\ active' = active \ {m}
    /\ UNCHANGED <<phase, live, expired, updated>>

Unload(i) ==
    /\ phase = "update"
    /\ i \in (live \cap expired) \ updated
    /\ live' = live \ {i}
    /\ UNCHANGED <<phase, expired, active, updated>>

\* The barrier.
FinishUpdates ==
    /\ phase = "update"
    /\ active = {}
    /\ live \ expired \subseteq updated
    /\ phase' = "delayed"
    /\ UNCHANGED <<live, expired, active, updated>>

FinishCycle ==
    /\ phase = "delayed"
    /\ phase' = "idle"
    /\ UNCHANGED <<live, expired, active, updated>>

UnloadAll ==
    /\ phase = "idle"
    /\ phase' = "stopped"
    /\ live' = {}
    /\ UNCHANGED <<expired, active, updated>>

Next ==
    \/ \E m \in BaseMaps \cup Instances : Create(m) \/ Begin(m) \/ End(m)
    \/ \E i \in Instances : Unload(i)
    \/ Start
    \/ FinishUpdates
    \/ FinishCycle
    \/ UnloadAll

\* Updates end, and a cycle that can end does.
Fairness ==
    /\ \A m \in BaseMaps : WF_vars(Begin(m)) /\ WF_vars(End(m))
    /\ \A i \in Instances : SF_vars(End(i))
    /\ WF_vars(FinishCycle)

Spec == Init /\ [][Next]_vars /\ Fairness
=============================================================================
