--------------------------- MODULE MCMapUpdater ---------------------------
(* Bounds: two loop workers, a continent, and a MapInstanced with two      *)
(* instances, so that one is updated while the other is made or unloaded.  *)
EXTENDS MapUpdater, TLC

CONSTANTS c1, b1, i1, i2, w1, w2

MCContinents    == {c1}
MCInstanced     == {b1}
MCInstances     == {i1, i2}
MCHome          == [i \in MCInstances |-> b1]
MCLoopWorkers   == {w1, w2}

=============================================================================
