CONSTANTS
  Low = 25
  High = 1
  Interval = 1
  SoftTimeout = 83
  UsbWait = 5
  Dispersal = 100
  Calibration = 5
  ScanTimes = {0, 56}
  BurnWait = 5
  BurnTime = 4
  Swing = 20
  TelemetryTimes = {0, 3}
  AdcsWait = 1
  AckTimes = {0, 5}
  SynPause = 1
  SynRetries = 3
  ShortPeriod = 1
  LongPeriod = 5
  PassTime = 1
SPECIFICATION WatchdogSpec
INVARIANTS PulsesInTime SoftwareWatchdogHolds
