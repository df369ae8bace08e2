SPECIFICATION Spec
CONSTANTS
    a = a
    b = b
    Direct = {a}
    ToPage = {b}
    Token <- TwoTokens
    Workers = {w1, w2}
    None = None
    Confirmations = 0
    MaxBlockSpan = 2
    Worlds <- ThreeWorlds
    MaxHeight = 3
    MaxHandles = 2
    MaxChanges = 1
    MaxCrashes = 1
INVARIANTS
    RecordedOnce
    NothingPassedOver
PROPERTIES
    DetectedIsDecided
