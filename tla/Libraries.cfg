SPECIFICATION Spec
CONSTANTS
    Memories <- MCMemories
    Values <- MCValues
    Orders <- MCOrders
    Less <- MCLess
    Blank = Blank
    kSmallSectionSize = 3
    Texts <- MCTexts
    Documents <- MCDocuments
    Items <- MCItems
    Keys <- MCKeys
    MaxLen = 3
    MaxCap = 2
    ObjectInitSize = 2
    Letters = {"d", "T", "x"}
    ItemNames <- MCItemNames
    Characters = {"%", "{", "}", "d", "T", "x", " "}
    MaxPattern = 6
    Timers = {t1, t2}
    Recurring = {t1}
    Callers = 1
    Waiters = {w1, w2}
    Intervals = {1, 2}
    Hour = 1
    MaxClock = 2
INVARIANTS
    PatternsAreRead
    MemoryBalances
    ParsesExactlyJson
    CallbackIffListed
    NoTimerOverslept
PROPERTIES
    ContentsFollowCalls
    ReorderingsKeepPromise
    AnswersMatchDefinition
    DeadTimersStayDead
SYMMETRY
    Symmetry
VIEW
    LibrariesView
CHECK_DEADLOCK FALSE
