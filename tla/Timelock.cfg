\* Three owners, two of whom must agree.
CONSTANTS
    a = a
    b = b
    c = c
    Accounts <- ThreeAccounts
    InitialOwners <- ThreeAccounts
    InitialThreshold = 2
    InitialDelay = 1
    MaxWord = 3
    MaxTime = 1
    Ids = {op1, op2, op3}
    Managed <- ManagedCalls
    Calls <- QueuedCalls
SPECIFICATION Spec
SYMMETRY Interchangeable
CHECK_DEADLOCK FALSE
INVARIANTS
    VotesEndWithTheTerm
    QuorumExists
PROPERTIES
    ExecutionIsCarried
