SPECIFICATION Spec
CONSTANTS
    Contract = {"pool", "core", "peer"}
    Cell <- Cells
    Stream <- Streams
    Mirrored = {"bin", "active"}
    NoCell = "none"
    Tx <- Txs
    NoTx = "router"
    History <- Chain
    Event <- AllEvents
    Producer = {"walker"}
    Walker = "walker"
    Capacity = 2
    SeenCap = 16
    Idle = Idle
    Pool = {"dlmm", "peer"}
    Owner <- Owners
    TopicCount <- Topics
    InitialPools = {"dlmm"}
    Log <- ChainLog
    BlockOf <- Blocks
    Called <- Calls
    TopHeight = 6
    MaxBlocks = 4
    Lifecycle = {"fail", "add", "stop"}
CHECK_DEADLOCK FALSE
INVARIANTS
    TypeOK
    CaughtUp
PROPERTIES
    OrderedDelivery
