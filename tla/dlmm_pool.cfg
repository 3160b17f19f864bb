SPECIFICATION Spec
CONSTANTS
    MinBin <- Lowest
    MaxBin = 2
    Factor <- Factors
    InitialPrice = 3
    PriceScale = 3
    FeeScale = 10
    MaxUint = 1000
    Word = 16
    MaxFee = 3
    Snapshot <- Snapshots
    Update <- Updates
    Absent = Absent
    Self = Self
    Quoter = {q1, q2}
    Amount = {0, 1, 2, 4, 9, 17, 30}
INVARIANTS
    PoolTypeOK
    NoBetterThanActive
    NoRoundTripGain
    Monotone
    WithinInventory
    StopsForAReason
