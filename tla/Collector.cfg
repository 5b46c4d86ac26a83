\* Functions without results; lists, aliases and cycles.
SPECIFICATION Spec
CONSTANTS
    Names = {x}
    MaxObjects = 3
    MaxOperands = 2
    MaxItems = 1
    MaxVals = 2
    MaxCalls = 1
    Careful = {"return", "waiting", "threads", "args", "listen"}
INVARIANTS TypeOK NoDangling
CHECK_DEADLOCK FALSE
