SPECIFICATION Spec
CONSTANTS
  Users <- MCUsers
  Listed <- MCListed
  Others <- MCOthers
  Unreadable <- MCUnreadable
  Points <- MCPoints
  Times <- MCTimes
  StartTime = 2
  TicksPerSecond = 2
  Marks <- MCMarks
  PerPage = 2
  MaxResults = 4
  NoTime = NoTime
INVARIANTS IInv RanksCountTheBetter PagesPartition
PROPERTY ResultsNeverHurt
CHECK_DEADLOCK FALSE
