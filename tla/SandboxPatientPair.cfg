SPECIFICATION PatientSpec
CONSTANTS
  r1 = r1
  r2 = r2
  p1 = p1
  Server = Server
  Runs <- Two
  Others <- None
  Programs <- Echoes
  InputSize = 1
  OutputSize = 1
  PipeSize = 1
  MaxOutput = 1
  Patient = TRUE
  MaxFaults = 0
PROPERTY NoPipeDeadlock
CHECK_DEADLOCK FALSE
