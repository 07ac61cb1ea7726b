\* a client that waits for asynchronous callbacks and destroys the book
CONSTANTS
    Clients = {c1}
    AsyncThread = async_thread
    MaxCalls = 3
    MaxFires = 1
    Ops = {"sync", "async", "wait", "destroy"}
    CallbackCalls = FALSE
SPECIFICATION Spec
CHECK_DEADLOCK FALSE
INVARIANTS
    NothingOutstanding
PROPERTIES
    WaitMeansDone
    WaitersReturn
    DestructorReturns
