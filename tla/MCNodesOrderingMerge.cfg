\* What the insertion of parents does to the order of dependencies.
SPECIFICATION Spec
CONSTANTS
    Rank <- MCRank
    Starts <- MCStarts
    Sorted <- MCSorted
    Within <- MCWithin
    Trees <- MCShipped
    Declarations <- MCDeclarations
INVARIANTS
    MergeKeepsOrder
