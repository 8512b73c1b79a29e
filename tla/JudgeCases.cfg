SPECIFICATION Spec
CONSTANTS
  MaxCases = 3
  MemoryLimit = 4
  Times = {1}
  Memories = {0, 5}
  Outputs = {"blank", "text"}
  Blank = "blank"
  Scores = {1, 2}
  Unreadable = Unreadable
  Null = Null
INVARIANTS IInv NoPartialResult AcceptedMeansEveryCasePassed VerdictIsFirstFailure CostsAreTheWorst ScoreAddsUp FilesAreJudged
CHECK_DEADLOCK FALSE
