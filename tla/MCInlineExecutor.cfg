CONSTANTS
    once = once
    twice = twice
    Runs = {once, twice}
    Steps = 2
    Seed = Seed
    RetryCount <- RetryCounts
SPECIFICATION Spec
INVARIANTS
    TypeOK
    AtLeastOnce
PROPERTY
    Implements
CHECK_DEADLOCK FALSE
