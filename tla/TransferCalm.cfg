SPECIFICATION FairSpec
CONSTANTS
    Transfers = {t1, t2}
    Workers = {w1, w2}
    None = None
    Fee = 1
    Conv = 2
    RevOut <- Rates
    Float = 1
    Deployments <- FxSwapperDeployments
    Worlds <- CalmWorld
    MaxFaults = 2
    MaxCrashes = 0
\* Once every transfer has come to rest nothing needs to happen.
CHECK_DEADLOCK FALSE
INVARIANTS
    RefundRecordIsTrue
    RefundedAtMostOnce
    PoolCoversEveryClaim
    BurnedIsNotRefunded
PROPERTIES
    EveryTransferResolves
