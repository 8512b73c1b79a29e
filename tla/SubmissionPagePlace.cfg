SPECIFICATION FairSpec
CONSTANT MaxFailures = 2
PROPERTY StaysInContest
CHECK_DEADLOCK FALSE
