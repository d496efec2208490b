CONSTANTS
    Nodes = {"eth1", "speed", "member"}
    Containers <- MCContainers
    Parent <- MCParent
    Ancestors <- MCAncestors
    Leaves = {"speed"}
    Values = {"100G", "400G"}
    References <- MCReferences
    Overlaps <- MCOverlaps
    OnUpdate = {"eth1", "speed", "member"}
    OnDelete <- MCOnDelete
    Earlier <- MCEarlier
    Faults = {"lost", "unheard", "status", "constraint", "restage", "crash", "disk", "flush"}
    Absent = Absent
    NoConfig = NoConfig
    Truncated = Truncated
SPECIFICATION Spec
INVARIANTS
    TypeOK
    BackendFollows
    BackendRefsResolve
    RefsExact
    TreeIsRunning
    FollowInv
    RunningIsSaved
PROPERTIES
    StoreSpec
CHECK_DEADLOCK FALSE
