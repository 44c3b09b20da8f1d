-------------------------- MODULE MCSessionTable --------------------------
(* Three accounts, one of which may connect a second time.  The liveness   *)
(* and tolerance runs leave one account out.                               *)
EXTENDS SessionTable, TLC

CONSTANTS a1, a2, a3, s1, s2, s3, s4

MCAccountOf      == (s1 :> a1) @@ (s2 :> a1) @@ (s3 :> a2) @@ (s4 :> a3)
MCSymmetry       == Permutations({s1, s2})
MCAccountOfThree == (s1 :> a1) @@ (s2 :> a1) @@ (s3 :> a2)

===========================================================================
