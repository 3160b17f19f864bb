SPECIFICATION FairSpec
CONSTANTS
    Contract = {"pool", "core"}
    Cell <- Cells
    Stream <- Streams
    Mirrored = {"bin", "active"}
    NoCell = "none"
    Tx <- Txs
    NoTx = "unset"
    History <- Mixed
    Event <- AllEvents
    Producer = {"task1", "task2"}
    Serves <- OneTask
    Capacity = 1
    SeenCap = 8
    Idle = Idle
    Pool = {"dlmm", "peer"}
    Owner <- Owners
    TopicCount <- Topics
    InitialPools = {"dlmm"}
    PageSize = 2
    ColdStartPages = 2
    MaxEventsPerCycle = 3
    MaxBacklog = 3
    MaxBurst = 1
    Lifecycle = {"fail", "stop"}
CHECK_DEADLOCK FALSE
INVARIANTS
    TypeOK
    PrefixConsistent
    ReplayConsistent
PROPERTIES
    Converges
    StopCompletes
    OrderedDelivery
