CONSTANTS
    Keys = {"k1", "k2"}
    Texts = {text}
    MaxNumber = 1
    Ttls = {0, 1}
    MaxTime = 2
    NoExpiry = NoExpiry
    Null = Null
    Owners = {"o1", "o2", "o3"}
    TierIds = {"t1", "t2"}
    MaxDrops = 1
    a1 = a1
    a2 = a2
    b1 = b1
    c1 = c1
    Phases <- ThreePhases
    BoardKeys = {"x", "y"}
    Nobody = Nobody
    Runtimes = {"wasm", "worker", "invalid"}
    Saves = {"s1", "s2", "s3"}
    SnapshotIds = {"i1", "i2"}
    Asks = {"q1", "q2"}
    MaxAttempts = 2
    MaxLines = 2
    MaxSessions = 3
    MaxOps = 3
    Halves <- NearBounds
SPECIFICATION Spec
INVARIANTS
    LocalTierIsShared
    SeesEarlierPhases
    StragglersAreOfBrokenPhases
    WritesAreReported
    SavedIsThere
    ListFindsThemAll
    StdoutIsOfTheAttempt
    OneSessionAtATime
    NoOperationTwice
    EveryPolicyResolves
PROPERTIES
    ExpiresAtOnce
    PhasesEnd
    BoxesAreDisposed
CHECK_DEADLOCK FALSE
