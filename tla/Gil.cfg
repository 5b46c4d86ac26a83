\* Main scripts with a prologue of GIL_SWITCH + 1 instructions, which nest only while there are no threads.
SPECIFICATION Spec
CONSTANTS
    Sockets = {1, 2, 3}
    GIL_SWITCH = 2
    Prologue = 3
    NestAnywhere = FALSE
    MaxNesting = 1
INVARIANTS TypeOK MutualExclusion GivesWay
CHECK_DEADLOCK FALSE
