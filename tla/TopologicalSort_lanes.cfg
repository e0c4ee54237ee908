SPECIFICATION FairSpec
CONSTANTS
    Ids = {1, 2, 3, 4}
    Rank <- MCRank
INVARIANTS
    DependenciesFirst
    CycleIsReal
    LanesOrdered
    RejectsExactlyCycles
PROPERTIES
    SearchEnds
