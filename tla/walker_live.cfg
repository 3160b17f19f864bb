SPECIFICATION FairSpec
CONSTANTS
    Contract = {"pool", "core", "peer"}
    Cell <- Cells
    Stream <- Streams
    Mirrored = {}
    NoCell = "none"
    Tx <- Txs
    NoTx = "router"
    History <- ShortChain
    Event <- AllEvents
    Producer = {"walker"}
    Walker = "walker"
    Capacity = 1
    SeenCap = 2
    Idle = Idle
    Pool = {"dlmm", "peer"}
    Owner <- Owners
    TopicCount <- Topics
    InitialPools = {}
    Log <- ShortLog
    BlockOf <- ShortBlocks
    Called <- Calls
    TopHeight = 3
    MaxBlocks = 2
    Lifecycle = {"add", "remove", "stop", "restart"}
CHECK_DEADLOCK FALSE
INVARIANTS
    SeenBounded
    NothingLost
PROPERTIES
    PickedUp
    StopCompletes
    Delivered
