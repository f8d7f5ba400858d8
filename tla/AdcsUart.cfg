CONSTANTS
  UART_RX_BUFFER_SIZE = 4
  UART_TX_BUFFER_SIZE = 4
  MsgLen = 1
  MaxIn = 4
  MaxOut = 6
SPECIFICATION Spec
INVARIANTS DeliveredWhole NoStuckTransmit InOrderUnlessCollided
PROPERTY Drains
