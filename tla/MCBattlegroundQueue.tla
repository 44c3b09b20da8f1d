------------------------ MODULE MCBattlegroundQueue ------------------------
EXTENDS BattlegroundQueue, TLC

CONSTANTS a1, a2, h1

MCPlayers == {a1, a2, h1}
MCTeamOf == a1 :> "ally" @@ a2 :> "ally" @@ h1 :> "horde"
MCSymmetry == Permutations({a1, a2})
=============================================================================
