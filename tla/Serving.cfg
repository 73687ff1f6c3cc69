SPECIFICATION Spec
CONSTANTS
    Requests = {"r1", "r2"}
    Limit = 2
    Window = 2
    Stores = {"memory", "redis"}
    RedisFaults = {"incr", "expire"}
    Cleanups = {"http-server", "redis"}
    MaxRestarts = 1
INVARIANTS AtMostTwoWindows
PROPERTIES TurnedAwayIsLetIn ShutdownIsOrderly
CHECK_DEADLOCK FALSE
