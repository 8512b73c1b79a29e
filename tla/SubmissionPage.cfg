SPECIFICATION FairSpec
CONSTANT MaxFailures = 2
INVARIANTS IInv VerdictIsWhole
PROPERTIES WatcherGetsVerdict HoursOfTheUrl WaiterEnters
CHECK_DEADLOCK FALSE
