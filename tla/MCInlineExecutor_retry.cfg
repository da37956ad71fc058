CONSTANTS
    once = once
    twice = twice
    Runs = {once, twice}
    Steps = 2
    Seed = Seed
    RetryCount <- RetryCounts
SPECIFICATION Spec
INVARIANT
    OutcomeIsOneExecution
CHECK_DEADLOCK FALSE
