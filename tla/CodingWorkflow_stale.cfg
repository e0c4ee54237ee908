SPECIFICATION Spec
CONSTANTS
    Errors <- MCErrors
    TestFiles = {"f1"}
    MaxCriticals = 1
    MaxCycles = 3
    Critical = 4
    Threshold = 20
    HistoryLength = 2
    Strategies <- MCStrategies
    MaxParallelBranches = 1
    CallCosts <- MCCallCosts
    MaxCallCost = 2
    TriggerAfterCycles = 2
    TestValidityEnabled = TRUE
    GitCheckpointEnabled = TRUE
    AgentTeamEnabled = FALSE
    SkipTddGate = FALSE
    Greenfield = FALSE
    MaxNodes = 1
    MaxSignals = 2
INVARIANTS
    FreshVerdict
