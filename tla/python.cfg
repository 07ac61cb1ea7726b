\* two threads, three orders with callbacks, which are pulled, replaced and read
CONSTANTS
    Threads = {t1, t2}
    Callbacks = {f1, f2, f3}
    Calls = {"trade", "pull", "replace", "query"}
    MaxCalls = 4
    NoOne = no_one
    Worker = worker
SPECIFICATION Spec
CHECK_DEADLOCK FALSE
INVARIANTS
    RefsCountHolders
PROPERTIES
    CallsReturn
