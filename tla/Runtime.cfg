SPECIFICATION Spec
CONSTANTS
    Caps <- MCCaps
    Initial <- MCInitial
    PerCap = 2
    MaxTotal = 6
    NoChunk = NoChunk
    Inputs = {in1}
    Outputs = {out1}
    MaxBytes = 4
    Threads = {t1, t2}
    Fibers = {f1, f2}
    Callers = {f2}
    Nested = FALSE
    None = None
    Clients = {c1, c2}
    BadWords = {"Log", "port9"}
    LookUpNames <- MCNames
    Ints = {"1"}
    Docs <- MCDocs
    MaxVars = 2
    NoVar = NoVar
INVARIANTS
    PoolAccounts
    StreamInOrder
    BuffersDoNotFault
    ThreadIsReady
    FibersInOrder
    NamesKeepTheirVar
    LoadsAreApplied
PROPERTIES
    ImplementsAllocator
    ControlReturnsToResumer
SYMMETRY
    Symmetry
CHECK_DEADLOCK FALSE
