SPECIFICATION Spec
CONSTANTS
    f1 = f1
    f2 = f2
    Files <- MCFiles
    MaxAttempts = 2
    MaxTurns = 1
    Critical = 1
SYMMETRY MCSymmetry
INVARIANTS
    CommittedWasTested
    SpendAccounted
