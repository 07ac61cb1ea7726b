\* two clients, and callbacks that make calls themselves
CONSTANTS
    Clients = {c1, c2}
    AsyncThread = async_thread
    MaxCalls = 3
    MaxFires = 1
    Ops = {"sync", "async"}
    CallbackCalls = TRUE
SPECIFICATION Spec
CHECK_DEADLOCK FALSE
INVARIANTS
    TypeOK
    CallbacksRunOnce
    ReturnsAfterCallbacks
PROPERTIES
    CallersRunTheirCallbacks
    CallsReturn
    ImplementsOrderService
