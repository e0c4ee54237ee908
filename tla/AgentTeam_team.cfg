SPECIFICATION FairSpec
CONSTANTS
    Files <- MCFiles
    NodeRank <- MCNodeRank
    Scaffolds <- MCScaffolds
    ContinuousVerification = TRUE
    MaxListed = 3
INVARIANTS
    EveryFileWorked
    TestWriterRole
    CleanMeansChecked
PROPERTIES
    TeamEnds
    ImplementsPass
