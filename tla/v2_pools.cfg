SPECIFICATION Spec
CONSTANTS
    Pool = {"velar", "velar2", "alex", "ark", "xyk"}
    Kind <- Kinds5
    Emitter <- Emitters5
    Reversed = {"velar2", "alex"}
    Fee <- Fees5
    InitialPools = {"velar2", "ark", "xyk"}
    Managed = {"alex"}
    Outsiders = {"velar2"}
    Start <- Starts5
    Amount = {4}
    Asked = {0, 1, 3, 5}
    RatioNum = 997
    RatioDen = 1000
    Bps = 10000
    OneE8 = 100000000
    MaxEvents = 2
CHECK_DEADLOCK FALSE
INVARIANTS
    V2TypeOK
    OwnHistory
    KeptUp
    QuotesAsChain
PROPERTIES
    ProductNeverFalls
