CONSTANTS
    q1 = q1
    q2 = q2
    q3 = q3
    b1 = b1
    b2 = b2
    Boxes = {b1, b2}
    NoBox = NoBox
    Calls = {q1, q2, q3}
    ClientHops <- OneWay
    Policies <- BothClosed
    MaxAddress = 2
    MaxEntries = 1
    Word = 2
    Programs = {"roundRobin", "hash"}
    Hashes = {1}
SPECIFICATION Spec
SYMMETRY Symmetry
INVARIANTS
    TypeOK
    CountersExact
    AddressKeepsItsBox
    TakesTurns
CHECK_DEADLOCK FALSE
