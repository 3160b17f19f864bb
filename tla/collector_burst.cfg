SPECIFICATION Spec
CONSTANTS
    Contract = {"pool", "core"}
    Cell <- Cells
    Stream <- Streams
    Mirrored = {"bin", "active"}
    NoCell = "none"
    Tx <- Txs
    NoTx = "unset"
    History <- LongCore
    Event <- AllEvents
    Producer = {"task1", "task2"}
    Serves <- OneTask
    Capacity = 1
    SeenCap = 8
    Idle = Idle
    Pool = {"dlmm", "peer"}
    Owner <- Owners
    TopicCount <- Topics
    InitialPools = {"dlmm"}
    PageSize = 2
    ColdStartPages = 2
    MaxEventsPerCycle = 4
    MaxBacklog = 4
    MaxBurst = 3
    Lifecycle = {}
PROPERTIES
    ChronologicalDispatch
