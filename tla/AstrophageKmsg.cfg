SPECIFICATION AstrophageSpec
CONSTANTS
  Capacity = 3
  MaxLines = 2
  Samples = 1
  MaxKernel = 3
  MaxRecords = 8
CHECK_DEADLOCK FALSE
INVARIANT ProblemsKept
