SPECIFICATION Spec
CONSTANTS
    Contract = {"pool", "core"}
    Cell <- Cells
    Stream <- Streams
    Mirrored = {"other"}
    NoCell = "none"
    Tx <- Txs
    NoTx = "unset"
    History <- Short
    Event <- AllEvents
    Producer = {"task1", "task2", "task3"}
    Serves <- ThreeTasks
    Capacity = 1
    SeenCap = 8
    Idle = Idle
    Pool = {"dlmm", "peer"}
    Owner <- Owners
    TopicCount <- Topics
    InitialPools = {"peer"}
    PageSize = 2
    ColdStartPages = 1
    MaxEventsPerCycle = 2
    MaxBacklog = 2
    MaxBurst = 2
    Lifecycle = {"add", "remove", "stop", "drop", "restart"}
INVARIANTS
    EveryTopicPolled
    AtMostOnce
