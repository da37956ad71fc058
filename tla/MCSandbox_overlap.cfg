CONSTANTS
    r1 = r1
    r2 = r2
    r3 = r3
    Runs = {r1, r2, r3}
    Steps = 1
    Seed = Seed
    MayThrow = TRUE
    Runtime = "worker"
    Kinds = {"flaky", "denied", "unfit"}
    Cadence = 2
    Overlap = TRUE
    MaxSnapshots = 1
SPECIFICATION Spec
SYMMETRY Symmetry
INVARIANTS
    TypeOK
    RunsOnRecordedHistory
    SnapshotMatchesHistory
    RecordedAsReturned
    DurableOnReturn
    ForkNotOlderThanParent
PROPERTIES
    ClosedForGood
CHECK_DEADLOCK FALSE
