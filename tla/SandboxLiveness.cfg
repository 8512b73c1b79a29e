SPECIFICATION FairSpec
CONSTANTS
  r1 = r1
  r2 = r2
  p1 = p1
  Server = Server
  Runs <- Two
  Others <- One
  Programs <- Parents
  InputSize = 2
  OutputSize = 0
  PipeSize = 1
  MaxOutput = 1
  Patient = FALSE
  MaxFaults = 0
PROPERTIES RunsEnd WritersEnd
CHECK_DEADLOCK FALSE
