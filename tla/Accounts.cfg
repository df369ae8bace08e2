SPECIFICATION Spec
\* Once all requests are answered, nothing more needs to happen.
CHECK_DEADLOCK FALSE
CONSTANTS
    q1 = q1
    q2 = q2
    Quotes = {q1, q2}
    Amount <- Amounts
    Rail <- Rails
    Posts = {p1, p2}
    Submits = {s1, s2}
    DailyCap = 2
    Funds = 3
    t1 = t1
    t2 = t2
    Receipted = {t1, t2}
    Shape <- Shapes
    Bodies <- SomeBodies
    Issues = TRUE
    None = None
    MaxDay = 1
    MaxShares = 2
    Activations = {w1}
    Completions = {c1}
    Hooks = {h1}
    Operators = {o1, o2}
    MaxPasskeys = 2
    MaxReviews = 1
    MaxConnects = 1
    MaxTurns = 3
    g1 = g1
    g2 = g2
    l1 = l1
    v1 = v1
    m1 = m1
    m2 = m2
    Challenges = {g1, g2, l1, v1, m1, m2}
    a1 = a1
    a2 = a2
    Purpose <- Purposed
    Registered <- OneEach
    Authenticators = {a1, a2}
    Counting = {a1, a2}
    DeviceKeys = {k1}
    Unset = Unset
    MaxOpen = 2
    MaxUnderway = 2
    x0 = x0
    x1 = x1
    recovers = recovers
    Modules = {x0, x1}
    Codeless = {x0}
    Legacy = x1
    RecoveryModule = recovers
    Configurations <- FourConfigurations
    MaxSafes = 2
    MaxRestarts = 1
    MaxOperations = 2
    MaxPending = 1
    MaxErrands = 2
INVARIANTS
    ShownIsSpendable
    ActiveIsThere
    ApprovedOnce
    OwnerCanSignIn
    QuoteSpentOnce
    CapIsKept
    NarrowingNarrows
    IbanIsOwn
    AcceptedIsOnRecord
PROPERTIES
    IbanArrives
