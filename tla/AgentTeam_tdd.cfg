SPECIFICATION Spec
CONSTANTS
    Files <- MCFiles
    NodeRank <- MCNodeRank
    Scaffolds <- MCScaffolds
    ContinuousVerification = TRUE
    MaxListed = 3
INVARIANTS
    TestsFirst
