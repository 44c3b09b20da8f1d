--------------------------- MODULE MCDatabasePool ---------------------------
EXTENDS DatabasePool

CONSTANTS c1, c2, w1

MCChars == {c1, c2}
MCMaxVersion == (c1 :> 2) @@ (c2 :> 1)
MCWorkers == {w1}
=============================================================================
