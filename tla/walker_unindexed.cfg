SPECIFICATION Spec
CONSTANTS
    Contract = {"pool", "core", "peer"}
    Cell <- Cells
    Stream <- Streams
    Mirrored = {"bin", "active"}
    NoCell = "none"
    Tx <- Txs
    NoTx = "router"
    History <- Chain
    Event <- AllEvents
    Producer = {"walker"}
    Walker = "walker"
    Capacity = 1
    SeenCap = 16
    Idle = Idle
    Pool = {"dlmm", "peer"}
    Owner <- Owners
    TopicCount <- Topics
    InitialPools = {"dlmm"}
    Log <- ChainLog
    BlockOf <- Blocks
    Called <- Calls
    TopHeight = 6
    MaxBlocks = 2
    Lifecycle = {"unindexed"}
CHECK_DEADLOCK FALSE
INVARIANTS
    UnindexedRetried
