CONSTANTS
    r1 = r1
    r2 = r2
    Runs = {r1, r2}
    Steps = 1
    Seed = Seed
    MayThrow = FALSE
    Runtime = "inline"
    Kinds = {"pure"}
    Cadence = 1
    Overlap = TRUE
    MaxSnapshots = 1
SPECIFICATION Spec
SYMMETRY Symmetry
INVARIANT
    RunNeverThrows
CHECK_DEADLOCK FALSE
