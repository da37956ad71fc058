CONSTANTS
    r1 = r1
    r2 = r2
    Runs = {r1, r2}
    Steps = 1
    Seed = Seed
    MayThrow = FALSE
    Runtime = "inline"
    Kinds = {"pure", "denied"}
    Cadence = 0
    Overlap = FALSE
    MaxSnapshots = 1
SPECIFICATION Spec
SYMMETRY Symmetry
INVARIANT
    ReplayReproduces
CHECK_DEADLOCK FALSE
