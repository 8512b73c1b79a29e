SPECIFICATION FairSpec
CONSTANTS
  s1 = s1
  s2 = s2
  s3 = s3
  w1 = w1
  w2 = w2
  NoJob = NoJob
  NoWorker = NoWorker
  Submissions <- MCSubmissions
  Workers <- MCWorkers
  Capacity = 1
  CaseVerdicts = {"accepted", "wrong_answer"}
  FaultKinds <- AllFaults
  MaxFaults = 2
INVARIANTS IInv NoSilentLoss
PROPERTIES StatusOnlyAdvances EverySubmissionSettles ImplementsLifecycle
CHECK_DEADLOCK FALSE
