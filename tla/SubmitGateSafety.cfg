SPECIFICATION Spec
CONSTANTS
  q1 = q1
  q2 = q2
  q3 = q3
  Requests <- ThreeRequests
  Kinds <- Gated
  ExactCooldown = 2
  HeuristicCooldown = 3
  MaxOpen = 3
  MaxTime = 6
SYMMETRY MCSymmetry
INVARIANTS IInv IntervalUnlessOverlap RefusalIsJustified
CHECK_DEADLOCK FALSE
