SPECIFICATION Spec
CONSTANTS
  PerPage = 2
  MaxRows = 6
  MaxPending = 2
  Mine = {1, 3, 4, 5, 6}
  MaxPages = 12
INVARIANTS IInv WalkMissesNothing LinksLead LinksAreSound
CHECK_DEADLOCK FALSE
