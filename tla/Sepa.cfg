SPECIFICATION Spec
CONSTANTS
    p1 = p1
    Orders = {o1}
    Profiles = {p1, p2}
    ProfileOf <- AllOfTheFirst
    Transfers = {t1}
    Workers = {w1, w2}
    None = None
    Worlds <- FourWorlds
    MaxFaults = 1
    MaxCrashes = 1
INVARIANTS
    CreditedOnce
    RefundXorPayout
PROPERTIES
    EveryOrderArrives
    EveryPayoutEnds
