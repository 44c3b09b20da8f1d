SPECIFICATION Spec
CONSTANTS
    a1 = a1
    a2 = a2
    h1 = h1
    Players <- MCPlayers
    TeamOf <- MCTeamOf
    MaxBgs = 2
    MinPlayers = 1
    MaxPlayers = 2
    Wait = 2
    CountSize = 8
SYMMETRY MCSymmetry
INVARIANTS
    DeletedAreNotOffered
