CONSTANTS
  Capacity = 3
  TxQueueSize = 1
  SeqMod = 4
  CountMod = 4
  PerDispatch = 3
  MaxRetry = 1
  Timeout = 10
  PingTimes = {0, 4}
  WriteTimes = {0, 5}
  AwayTimes = {0, 7}
  MaxCommands = 6
SPECIFICATION FairDispatchSpec
INVARIANTS DispatchTypeOK NumbersTellApart
PROPERTIES OutboxImplemented SilenceEnds CommandsSettle
