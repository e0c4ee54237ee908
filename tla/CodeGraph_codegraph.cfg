SPECIFICATION Spec
CONSTANTS
    Files <- MCFiles
    Tests <- MCTests
    Trees <- MCTrees
    Requests <- MCRequests
    Changes <- MCChanges
    Named <- MCNamed
    Queries = {1, 2}
    MaxDepth = 2
    MaxEdits = 1
INVARIANTS
    SearchWithinDepth
    RadiusCoversRead
