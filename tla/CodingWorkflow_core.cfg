SPECIFICATION FairSpec
CONSTANTS
    Errors <- MCErrors
    TestFiles = {"f1"}
    MaxCriticals = 1
    MaxCycles = 6
    Critical = 8
    Threshold = 20
    HistoryLength = 10
    Strategies = {"s1"}
    MaxParallelBranches = 1
    CallCosts = {0, 8}
    MaxCallCost = 8
    TriggerAfterCycles = 2
    TestValidityEnabled = TRUE
    GitCheckpointEnabled = TRUE
    AgentTeamEnabled = TRUE
    SkipTddGate = FALSE
    Greenfield = FALSE
    MaxNodes = 2
    MaxSignals = 2
INVARIANTS
    TypeOK
    UnresolvedReachesHuman
    DecisionUsedOnce
    RefusalIsFinal
    CheckpointedTreePassed
    NoRetryOverBudget
    StagnationAskedLate
    StrategyLaunchedOnce
    SpendBounded
PROPERTIES
    AbortIsFinal
    Termination
    ImplementsSession
