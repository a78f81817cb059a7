\* The caller's own fiber runs the scheduler's loop (use_caller = true).
SPECIFICATION FibersSpec
CONSTANTS
    Threads = {t1}
    Fibers = {f1, f2}
    Callers = {f2}
    Nested = TRUE
    None = None
PROPERTIES
    ControlReturnsToResumer
CHECK_DEADLOCK FALSE
