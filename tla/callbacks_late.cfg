\* two clients whose calls may fail; every callback belongs to one of their windows
CONSTANTS
    Clients = {c1, c2}
    AsyncThread = async_thread
    MaxCalls = 3
    MaxFires = 1
    Ops = {"sync", "async"}
    CallbackCalls = FALSE
SPECIFICATION Spec
CHECK_DEADLOCK FALSE
INVARIANTS
    CallbacksRunAsDocumented
