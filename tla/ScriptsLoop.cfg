SPECIFICATION Spec
CONSTANTS
  Sessions <- LoopingSessions
  NoError <- Undecided
  Equal <- VariableCompare
  Depth = 3
PROPERTY OperandsKept
