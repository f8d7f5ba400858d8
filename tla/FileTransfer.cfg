SPECIFICATION FairSpec
CONSTANTS
  GROUP_SIZE = 3
  MAX_ACK_RETRIES = 3
  MAX_RESEND_CYCLES = 3
  MAX_BAD_PACKETS = 3
  MaxPackets = 8
INVARIANTS OnlyFirstMayBeMissing RaisesOnlyOnTinyFiles
PROPERTY Ends
CHECK_DEADLOCK FALSE
