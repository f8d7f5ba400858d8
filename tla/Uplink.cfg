SPECIFICATION Spec
CONSTANTS
  RxQueueSize = 2
  MaxSends = 3
  MaxBoot = 1
  MaxTorn = 1
  MaxCrashes = 1
INVARIANTS LastSeenIsLastExecuted InSendOrder
PROPERTIES AtMostOnce
