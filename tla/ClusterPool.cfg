\* The kernel heap with five bytes, one of which is allocated at boot.
CONSTANTS
    PoolSize = 5
    BlockSizes = {1, 2, 3}
    MaxNodes = 5
SPECIFICATION Spec
INVARIANTS
    ClustersTileThePool
    FreedSpaceIsCoalesced
    FailsOnlyWithoutGap
PROPERTIES
    ImplementsAllocator
