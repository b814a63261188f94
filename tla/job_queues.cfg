SPECIFICATION MCSpec
CONSTANTS
  j1 = j1
  j2 = j2
  Jobs = {j1, j2}
  Concurrency = 1
  MaxRetries = 2
  MaxCrashes = 3
  FaultyDisk = {j1}
  NoJob = NoJob
  k1 = k1
  k2 = k2
  w1 = w1
  w2 = w2
  Keys = {k1, k2}
  Workers = {w1, w2}
  MaxAttempts = 2
  MaxRevision = 1
  MaxFaults = 1
  NoKey = NoKey
INVARIANTS
  TypeOK
  StartsWithinBudget
  AcceptedUploadKept
  ProcessingIsRunning
  JobsTypeOK
  NoDuplicateExecution
  AttemptsWithinBudget
PROPERTIES
  QueuedIsTakenUp
  OutcomeIsFinal
  WaitingIsClaimed
CHECK_DEADLOCK FALSE
