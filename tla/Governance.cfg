\* Two owners who must agree, one operation.
CONSTANTS
    deployer = deployer
    relayer = relayer
    ramp = ramp
    EscrowAddr = EscrowAddr
    SwapperAddr = SwapperAddr
    TimelockAddr = TimelockAddr
    Accounts <- People
    InitialOwners <- Signers
    Holders <- Addresses
    Relayer <- relayer
    Guardian <- ramp
    Movers = {relayer}
    InitialThreshold = 2
    InitialDelay = 1
    MaxWord = 3
    MaxTime = 1
    Ids = {op1}
    Managed <- Changes
    Calls <- QueuedCalls
    Transfers = {t1, t2}
    MaxUint = 4
    Scale = 2
    Rates = {0, 2}
    Seed = 3
    Amounts = {1}
    UsdcSupply <- Usdcs
    EureSupply <- Eures
SPECIFICATION Spec
SYMMETRY Interchangeable
CHECK_DEADLOCK FALSE
INVARIANTS
    LocksAreCovered
PROPERTIES
    EscrowKeepsItsPromise
    NoSingleKeyGoverns
