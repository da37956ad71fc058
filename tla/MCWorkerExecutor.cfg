CONSTANTS
    r1 = r1
    r2 = r2
    Runs = {r1, r2}
    Steps = 2
    Seed = Seed
    RetryCount = 1
    Timeout = 1
    Grace = 2
    ColdStart = 1
SPECIFICATION Spec
INVARIANTS
    TypeOK
    BooksAgree
    FirstAttemptKeepsItsTime
PROPERTY
    Implements
CHECK_DEADLOCK FALSE
