SPECIFICATION Spec
CONSTANTS
  r1 = r1
  r2 = r2
  p1 = p1
  Server = Server
  Runs <- Two
  Others <- None
  Programs <- Alone
  InputSize = 3
  OutputSize = 3
  PipeSize = 2
  MaxOutput = 2
  Patient = FALSE
  MaxFaults = 1
SYMMETRY MCSymmetry
INVARIANTS IInv OutputComplete NothingLeftBehind PipesKeepMoving
CHECK_DEADLOCK FALSE
