SPECIFICATION Spec
CONSTANTS
    Transfers = {t1, t2}
    Workers = {w1, w2}
    None = None
    Fee = 1
    Conv = 2
    RevOut <- Rates
    Float = 1
    Deployments <- FxSwapperDeployments
    Worlds <- CalmWorld
    MaxFaults = 1
    MaxCrashes = 1
SYMMETRY Interchangeable
\* Once every transfer has come to rest nothing needs to happen.
CHECK_DEADLOCK FALSE
INVARIANTS
    RefundedAtMostOnce
