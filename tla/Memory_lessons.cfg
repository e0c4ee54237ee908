SPECIFICATION Spec
CONSTANTS
    Sessions = {s1, s2}
    MaxAttempts = 2
    Earlier = 4
    Seen = 1
    Threshold = 3
    MaxRetries = 1
    MaxFaults = 1
SYMMETRY Symmetry
INVARIANTS
    LessonsReachScout
