SPECIFICATION Spec
CONSTANTS
    Pool = {"one", "two", "odd", "far", "huge"}
    Tokens <- Tokens3
    Step <- Steps3
    Mode <- Modes3
    Radius <- Radii3
    Center = 1
    Half = 4
    Parallelism <- Parallel3
    ChunkSize = 2
    MaxRetries = 1
    Chain <- Two
    Given <- Given3
    Cuts = {0, 1}
    Together = {{"one", "two"}, {"odd"}, {"far"}, {"huge"}, {"discovery"}}
CHECK_DEADLOCK FALSE
INVARIANTS
    BootTypeOK
    HeldOnChain
    NoneDropped
    OwnTables
    ListingsOfRegistry
PROPERTIES
    JobsEnd
