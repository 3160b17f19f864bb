SPECIFICATION Spec
CONSTANTS
    MaxWord = 2147483647
    NewtonMaxIters = 384
    Pool = {"sts", "usd", "btc", "bug", "fix"}
    Kind <- Kinds5
    Core <- Cores5
    StxAnchored = {"bug"}
    Bare = {"btc"}
    Garbled <- SomeGarbled
    Decimals <- Decimals5
    Amp <- Amps5
    Threshold <- Thresholds5
    Start <- Starts5
    InitialPools = {"usd"}
    Managed = {"sts", "btc", "bug", "fix"}
    Outsiders = {"usd"}
    Amount = {3}
    Asked = {2, 16}
    Midpoints <- SomeMidpoints
    Bps = 10
    Slack = 2
    Together = {{"sts", "usd"}, {"btc"}, {"bug"}, {"fix"}}
    MaxChanges <- Changes5
    MaxEvents = 3
CHECK_DEADLOCK FALSE
INVARIANTS
    StableTypeOK
    OwnParts
    QuotesOnTerms
    QuoteOnCurve
    BugPaysLess
