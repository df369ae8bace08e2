SPECIFICATION Spec
\* Once all transfers have ended, nothing more needs to happen.
CHECK_DEADLOCK FALSE
CONSTANTS
    Transfers = {t1, t2}
    AmountIn <- Ones
    Worlds <- OnePool
    Venues <- ThreeVenues
    Prices = {3, 5, 6}
    Seed = 5
    Binding = 1
    Slippage = 1
    Deviation = 1
    MaxMoves = 2
    BurnerFunds = 6
INVARIANT
    AskedIsHeld
