CONSTANTS
    MaxEntries = 2
    Word = 256
    ByteBits = 1
    CtxBase = 64
    StackBase = 128
    StackSize = 8
    Times = {7, 300}
    MaxInstructions = 5
    Tracepoints = {"run:start", "log"}
    Menus <- AllMenus
    MapCount = 1
    Fields <- Events
    None = None
    MaxFires = 2
SPECIFICATION Spec
INVARIANTS
    TypeOK
    StaysInProgram
    RunsOnTheEvent
    FiresAsAttached
    
PROPERTY
    EveryFireReturns
CHECK_DEADLOCK FALSE
