SPECIFICATION RailSpec
\* Once all transfers and withdrawals have ended, nothing more needs to happen.
CHECK_DEADLOCK FALSE
CONSTANTS
    Transfers = {t1, t2}
    AmountIn <- Ones
    Worlds <- EveryProvider
    Venues <- ThreeVenues
    Prices = {3, 5, 6}
    Seed = 5
    Binding = 1
    Slippage = 1
    Deviation = 1
    MaxMoves = 2
    BurnerFunds = 6
    w1 = w1
    w2 = w2
    u1 = u1
    u2 = u2
    Withdrawals = {w1, w2}
    Senders = {u1, u2}
    SenderOf <- OneEach
    Size <- Twos
    Shared = Shared
    Nobody = Nobody
    Limits <- TwoOrThree
    Echoes = {0, 1, 3}
    Float = 3
    MaxTopUps = 1
    Spendable = {0, 1}
    BaseReserve = 1
SYMMETRY Interchangeable
INVARIANTS
    FloorHolds
    SettledFromOwnFill
    BurnIsOnRecord
    OriginatorIsSender
    RefundedIsUnpaid
