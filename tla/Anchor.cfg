SPECIFICATION AttendedSpec
CONSTANTS
    Transfers = {t1}
    Workers = {w1, w2}
    None = None
    MaxFaults = 2
    MaxCrashes = 2
\* Once the transfer is closed nothing needs to happen.
CHECK_DEADLOCK FALSE
INVARIANTS
    PaidAtMostOnce
    RefundXorPayment
    PaidIsCollected
PROPERTIES
    CollectedCashCloses
