CONSTANTS
    r1 = r1
    r2 = r2
    r3 = r3
    Runs = {r1, r2, r3}
    Steps = 1
    Seed = Seed
    MayThrow = TRUE
    Runtime = "inline"
    Kinds = {"pure", "throws", "unfit", "poison", "unsafe"}
    Cadence = 2
    Overlap = FALSE
    MaxSnapshots = 1
SPECIFICATION Spec
INVARIANTS
    NoLostUpdate
    ReplayReproduces
PROPERTIES
    EveryRunSettles
CHECK_DEADLOCK FALSE
