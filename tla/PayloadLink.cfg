SPECIFICATION FairSpec
CONSTANTS
  NCommands = 2
  SynCount = 2
  SynRetries = 2
  StartTries = 2
  MaxRetry = 0
  QueueSize = 5
  MaxWrites = 3
  MaxFaults = 1
INVARIANTS ExecutedAsWritten AttemptsBounded
PROPERTY ObcReturns
