SPECIFICATION Spec
CONSTANTS
    Rank <- MCRank
    Starts <- MCStarts
    Sorted <- MCSorted
    Within <- MCWithin
    Trees <- MCTrees
    Declarations <- MCDeclarations
INVARIANTS
    TypeOK
    ResolvedIsSorted
    ParentsFirst
    EachNodeOnce
    NoCircularReference
    MergeKeepsSorted
    Covered
    NothingDropped
    TargetsFirst
