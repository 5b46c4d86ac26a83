SPECIFICATION Spec
CONSTANTS
  Sessions <- ScriptSessions
  NoError <- Undecided
  Equal <- VariableCompare
  Depth = 3
INVARIANTS TypeOK AtInstruction StatePerCall StackEmpty CatchesItsOwn Evaluates
PROPERTIES OneResult CallersKept Terminates
