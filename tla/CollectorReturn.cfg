\* Functions return values that nothing else leads to.
SPECIFICATION Spec
CONSTANTS
    Names = {x}
    MaxObjects = 3
    MaxOperands = 2
    MaxItems = 1
    MaxVals = 2
    MaxCalls = 1
    Careful = {"waiting", "threads", "args", "listen"}
INVARIANT NoDangling
CHECK_DEADLOCK FALSE
