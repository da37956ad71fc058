CONSTANTS
    r1 = r1
    r2 = r2
    Runs = {r1, r2}
    Steps = 1
    Seed = Seed
    RetryCount = 1
    Timeout = 1
    Grace = 1
    ColdStart = 0
SPECIFICATION Spec
INVARIANT
    RetriesKeepTheirTime
CHECK_DEADLOCK FALSE
