CONSTANTS
    Nodes = {"eth1", "eth10"}
    Containers <- MCContainers
    Parent <- MCParent
    Ancestors <- MCAncestors
    Leaves = {}
    Values = {}
    References <- MCReferences
    Overlaps <- MCOverlaps
    OnUpdate = {"eth1", "eth10"}
    OnDelete <- MCOnDelete
    Earlier <- MCEarlier
    Faults = {}
    Absent = Absent
    NoConfig = NoConfig
    Truncated = Truncated
SPECIFICATION Spec
INVARIANTS
    BackendFollows
CHECK_DEADLOCK FALSE
