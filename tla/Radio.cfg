SPECIFICATION Spec
CONSTANTS
  TxQueueSize = 2
  RxQueueSize = 2
  MaxPackets = 4
  MaxCuts = 2
INVARIANTS NoStuckInterrupt EachLoadedOnce
PROPERTIES ListensAgain
