\* one thread trades with a callback, the other asks whether a price is valid
CONSTANTS
    Threads = {t1, t2}
    Callbacks = {f1, f2}
    Calls = {"trade", "query", "is_valid_price"}
    MaxCalls = 2
    NoOne = no_one
    Worker = worker
SPECIFICATION KeepingSpec
CHECK_DEADLOCK FALSE
PROPERTIES
    WindowsClose
