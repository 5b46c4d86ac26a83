\* A main script that starts a thread at once.
SPECIFICATION Spec
CONSTANTS
    Sockets = {1}
    GIL_SWITCH = 2
    Prologue = 0
    NestAnywhere = FALSE
    MaxNesting = 0
INVARIANT MutualExclusion
CHECK_DEADLOCK FALSE
