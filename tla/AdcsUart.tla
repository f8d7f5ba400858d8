----------------------------- MODULE AdcsUart -------------------------------
(***************************************************************************)
(* The UART to the attitude control board: the two rings that              *)
(* src/drivers/communications/uart_communications.c shares between its     *)
(* interrupt handler and the tasks, and the two tasks that use them, the   *)
(* ADCS task (src/tasks/adcs) and the command task's ADCS_EXEC.            *)
(*                                                                         *)
(* The handler is one step; a task can be interrupted between any two of   *)
(* its accesses to an index that the handler also writes.  A byte stands   *)
(* in a ring as its number in the stream it belongs to; all the code       *)
(* looks at is whether a received byte is zero (ends).  A frame is a       *)
(* message of MsgLen bytes, one COBS byte and the zero (cobs.c).           *)
(***************************************************************************)
EXTENDS Integers, Sequences

CONSTANTS
  UART_RX_BUFFER_SIZE,  \* uart_communications.c:17
  UART_TX_BUFFER_SIZE,  \* uart_communications.c:18
  MsgLen,               \* bytes of a ping, a pong or a command, 8 in the code
  MaxIn,                \* bound: bytes the board sends
  MaxOut                \* bound: bytes the tasks queue

ASSUME SizesAssumption ==
  /\ {UART_RX_BUFFER_SIZE, UART_TX_BUFFER_SIZE} \subseteq Nat \ {0, 1}
  /\ MsgLen \in Nat \ {0}
ASSUME BoundsAssumption == {MaxIn, MaxOut} \subseteq Nat

VARIABLES
  rx_buffer, rx_head, rx_tail,
  arrived,   \* bytes received so far
  ends,      \* those of them that are 0x00
  tx_buffer, tx_head, tx_tail,
  register,  \* the UART's transmit register: "unused", "full" or "empty"
  out,       \* the last byte put there
  irq,       \* the TX interrupt is enabled
  app,       \* where the running task is, and its local variables
  \* history
  lapped,    \* the handler has discarded a byte the tasks had not read
  taken,     \* number of the last byte of the last packet delivered
  queued,    \* bytes written to tx_buffer
  disorder,  \* a byte was transmitted that was not the next one queued
  collided   \* the handler transmitted while uart_comms_tx was about to

received == <<rx_buffer, rx_head, rx_tail, arrived, ends, lapped>>
tx == <<tx_buffer, tx_head, tx_tail>>
uart == <<register, out, irq>>
sent == <<tx, uart, queued, disorder, collided>>
vars == <<received, sent, app, taken>>

FrameLen == MsgLen + 2

RxNext(i) == (i + 1) % UART_RX_BUFFER_SIZE
TxNext(i) == (i + 1) % UART_TX_BUFFER_SIZE

tx_count == (tx_head - tx_tail + UART_TX_BUFFER_SIZE) % UART_TX_BUFFER_SIZE
tx_available == UART_TX_BUFFER_SIZE - 1 - tx_count

rx_peek(offset) == rx_buffer[(rx_tail + offset) % UART_RX_BUFFER_SIZE]

IsZero(byte) == byte \in ends \cup {0}

(* Where the task is, and its locals with nothing in them yet.             *)
Task(at, length) ==
  [at |-> at, call |-> "none", count |-> 0, offset |-> 0, length |-> length,
   index |-> 0, byte |-> 0, got |-> <<>>]
Idle == Task("idle", 0)

Init ==
  /\ rx_buffer = [i \in 0..(UART_RX_BUFFER_SIZE - 1) |-> 0]
  /\ rx_head = 0 /\ rx_tail = 0
  /\ tx_buffer = [i \in 0..(UART_TX_BUFFER_SIZE - 1) |-> 0]
  /\ tx_head = 0 /\ tx_tail = 0
  /\ register = "unused" /\ out = 0 /\ irq = FALSE
  /\ app = Idle
  /\ arrived = 0 /\ ends = {} /\ lapped = FALSE /\ taken = 0
  /\ queued = 0 /\ disorder = FALSE /\ collided = FALSE

-----------------------------------------------------------------------------
(* The interrupt handler.                                                  *)

(* uart_putc_raw: the byte is next on the wire.                            *)
uart_putc_raw(byte) ==
  /\ register' = "full" /\ out' = byte
  /\ disorder' = (disorder \/ byte # out + 1)

uart_is_writable == register # "full"

(* Lines 151-155: the task has seen the register empty and transmits.      *)
KickingOff == app.at \in {"kick", "kick_put", "kick_tail", "kick_store"}

(* One byte at most: with the FIFO off the register is full after it.      *)
(* Mutant: the interrupt is disabled after every byte.                     *)
uart_tx_isrOneShot ==
  /\ \/ /\ uart_is_writable /\ tx_tail # tx_head
        /\ uart_putc_raw(tx_buffer[tx_tail])
        /\ tx_tail' = TxNext(tx_tail)
        /\ collided' = (collided \/ KickingOff)
     \/ /\ ~uart_is_writable \/ tx_tail = tx_head
        /\ UNCHANGED <<register, out, disorder, tx_tail, collided>>
  /\ irq' = FALSE
  /\ UNCHANGED <<tx_buffer, tx_head>>

uart_tx_isr ==
  /\ \/ /\ uart_is_writable /\ tx_tail # tx_head
        /\ uart_putc_raw(tx_buffer[tx_tail])
        /\ tx_tail' = TxNext(tx_tail)
        /\ collided' = (collided \/ KickingOff)
     \/ /\ ~uart_is_writable \/ tx_tail = tx_head
        /\ UNCHANGED <<register, out, disorder, tx_tail, collided>>
  /\ irq' = (irq /\ tx_tail' # tx_head)
  /\ UNCHANGED <<tx_buffer, tx_head>>

(* Mutant: the empty ring is taken for the full one.                       *)
uart_rx_isrFullWhenEmpty(byte) ==
  /\ rx_buffer' = [rx_buffer EXCEPT ![rx_head] = byte]
  /\ rx_head' = RxNext(rx_head)
  /\ rx_tail' = IF rx_head = rx_tail THEN RxNext(rx_tail) ELSE rx_tail
  /\ lapped' = (lapped \/ rx_head' = rx_tail)

uart_rx_isr(byte) ==
  /\ rx_buffer' = [rx_buffer EXCEPT ![rx_head] = byte]
  /\ rx_head' = RxNext(rx_head)
  /\ \/ /\ rx_head' = rx_tail
        /\ rx_tail' = RxNext(rx_tail) /\ lapped' = TRUE
     \/ /\ rx_head' # rx_tail
        /\ UNCHANGED <<rx_tail, lapped>>

(* A byte from the board.  The same handler also looks at the transmitter. *)
Receive ==
  /\ arrived < MaxIn
  /\ arrived' = arrived + 1
  /\ ends' \in {ends, ends \cup {arrived + 1}}
  /\ uart_rx_isr(arrived + 1)
  /\ uart_tx_isr
  /\ UNCHANGED <<app, taken, queued>>

(* The transmitter asks for more once it has had a first byte.             *)
TxInterrupt ==
  /\ irq /\ register = "empty"
  /\ uart_tx_isr
  /\ UNCHANGED <<received, app, taken, queued>>

(* The transmitter has taken the byte out of its register.                 *)
Transmitted ==
  /\ register = "full" /\ register' = "empty"
  /\ UNCHANGED <<received, tx, out, irq, app, taken, queued, disorder, collided>>

-----------------------------------------------------------------------------
(* uart_comms_packet_ready, called by adcs_task_dispatch and again by      *)
(* uart_comms_get_packet.                                                  *)

adcs_task_dispatch ==
  /\ app.at = "idle"
  /\ app' = [app EXCEPT !.at = "count", !.call = "dispatch"]
  /\ UNCHANGED <<received, sent, taken>>

(* rx_count reads the two indices in an order the compiler chooses.        *)
ReadHeadFirst ==
  /\ app.at = "count"
  /\ app' = [app EXCEPT !.at = "count_tail", !.index = rx_head]
  /\ UNCHANGED <<received, sent, taken>>

ReadTailFirst ==
  /\ app.at = "count"
  /\ app' = [app EXCEPT !.at = "count_head", !.index = rx_tail]
  /\ UNCHANGED <<received, sent, taken>>

rx_count(head, tail) ==
  (head - tail + UART_RX_BUFFER_SIZE) % UART_RX_BUFFER_SIZE

Counted ==
  /\ \/ app.at = "count_tail"
        /\ app' = [app EXCEPT !.at = "scan", !.offset = 0,
                              !.count = rx_count(app.index, rx_tail)]
     \/ app.at = "count_head"
        /\ app' = [app EXCEPT !.at = "scan", !.offset = 0,
                              !.count = rx_count(rx_head, app.index)]
  /\ UNCHANGED <<received, sent, taken>>

Scan ==
  /\ app.at = "scan" /\ app.offset < app.count
  /\ app' = IF IsZero(rx_peek(app.offset))
              THEN [app EXCEPT !.at = "ready", !.length = app.offset + 1]
              ELSE [app EXCEPT !.offset = app.offset + 1]
  /\ UNCHANGED <<received, sent, taken>>

ScannedAll ==
  /\ app.at = "scan" /\ app.offset = app.count
  /\ app' = [app EXCEPT !.at = "ready", !.length = 0]
  /\ UNCHANGED <<received, sent, taken>>

-----------------------------------------------------------------------------
(* The ADCS task's receiving half: receive_msg, uart_comms_get_packet.     *)

receive_msg ==
  /\ app.at = "ready" /\ app.call = "dispatch" /\ app.length # 0
  /\ app' = [app EXCEPT !.at = "count", !.call = "get"]
  /\ UNCHANGED <<received, sent, taken>>

(* The packet has gone since; its length 0 - 1 fits no message.            *)
NoPacketAnyMore ==
  /\ app.at = "ready" /\ app.call = "get" /\ app.length = 0
  /\ app' = Idle
  /\ UNCHANGED <<received, sent, taken>>

uart_comms_get_packet ==
  /\ app.at = "ready" /\ app.call = "get" /\ app.length # 0
  /\ app' = [app EXCEPT !.at = "copy"]
  /\ UNCHANGED <<received, sent, taken>>

(* buffer[i] = rx_buffer[rx_tail], then rx_tail = rx_tail + 1 in two       *)
(* accesses.                                                               *)
CopyByte ==
  /\ app.at = "copy" /\ Len(app.got) < app.length
  /\ app' = [app EXCEPT !.at = "advance",
                        !.got = Append(app.got, rx_buffer[rx_tail])]
  /\ UNCHANGED <<received, sent, taken>>

ReadTail ==
  /\ app.at = "advance"
  /\ app' = [app EXCEPT !.at = "store", !.index = rx_tail]
  /\ UNCHANGED <<received, sent, taken>>

StoreTail ==
  /\ app.at = "store"
  /\ rx_tail' = RxNext(app.index)
  /\ app' = [app EXCEPT !.at = "copy"]
  /\ UNCHANGED <<rx_buffer, rx_head, arrived, ends, lapped, sent, taken>>

(* The bound ends the sending, not the task.                               *)
SendFrame ==
  IF queued + FrameLen <= MaxOut
    THEN Task("tx", FrameLen) ELSE Idle

(* The switch of adcs_task_dispatch: a ping of the right length is         *)
(* answered; everything else changes the slate or nothing.                 *)
Handle ==
  /\ app.at = "copy" /\ Len(app.got) = app.length
  /\ taken' = app.got[app.length]
  /\ \/ app.length - 1 = MsgLen /\ app' = SendFrame
     \/ app' = Idle
  /\ UNCHANGED <<received, sent>>

-----------------------------------------------------------------------------
(* uart_comms_tx, for a ping or pong of the ADCS task or a command of the  *)
(* command task.                                                           *)

send_ping ==
  /\ app.at = "ready" /\ app.call = "dispatch" /\ app.length = 0
  /\ app' = SendFrame
  /\ UNCHANGED <<received, sent, taken>>

send_command ==
  /\ app.at = "idle" /\ queued + FrameLen <= MaxOut
  /\ app' = SendFrame
  /\ UNCHANGED <<received, sent, taken>>

(* Mutant: the free space is not looked at.                                *)
TruncateNever ==
  /\ app.at = "tx"
  /\ app' = [app EXCEPT !.at = "fill", !.length = FrameLen]
  /\ UNCHANGED <<received, sent, taken>>

(* What does not fit is cut off.                                           *)
Truncate ==
  /\ app.at = "tx"
  /\ app' = [app EXCEPT !.at = "fill",
                        !.length = IF FrameLen > tx_available
                                     THEN tx_available ELSE FrameLen]
  /\ UNCHANGED <<received, sent, taken>>

Fill ==
  /\ app.at = "fill" /\ app.offset < app.length
  /\ tx_buffer' = [tx_buffer EXCEPT ![tx_head] = queued + 1]
  /\ tx_head' = TxNext(tx_head)
  /\ queued' = queued + 1
  /\ app' = [app EXCEPT !.offset = app.offset + 1]
  /\ UNCHANGED <<received, uart, tx_tail, taken, disorder, collided>>

KickOff ==
  /\ app.at = "fill" /\ app.offset = app.length
  /\ app' = [app EXCEPT !.at = IF uart_is_writable /\ tx_tail # tx_head
                                 THEN "kick" ELSE "enable"]
  /\ UNCHANGED <<received, sent, taken>>

KickRead ==
  /\ app.at = "kick"
  /\ app' = [app EXCEPT !.at = "kick_put", !.byte = tx_buffer[tx_tail]]
  /\ UNCHANGED <<received, sent, taken>>

(* uart_putc_raw waits until the register is empty.                        *)
KickPut ==
  /\ app.at = "kick_put" /\ uart_is_writable
  /\ uart_putc_raw(app.byte)
  /\ app' = [app EXCEPT !.at = "kick_tail"]
  /\ UNCHANGED <<received, tx, irq, taken, queued, collided>>

KickReadTail ==
  /\ app.at = "kick_tail"
  /\ app' = [app EXCEPT !.at = "kick_store", !.index = tx_tail]
  /\ UNCHANGED <<received, sent, taken>>

KickStoreTail ==
  /\ app.at = "kick_store"
  /\ tx_tail' = TxNext(app.index)
  /\ app' = [app EXCEPT !.at = "enable"]
  /\ UNCHANGED <<received, tx_buffer, tx_head, uart, taken, queued, disorder,
                 collided>>

(* Mutant: the kick-off is expected to be enough.                          *)
EnableTxNever ==
  /\ app.at = "enable"
  /\ app' = Idle
  /\ UNCHANGED <<received, sent, taken>>

EnableTx ==
  /\ app.at = "enable"
  /\ irq' = TRUE
  /\ app' = Idle
  /\ UNCHANGED <<received, tx, register, out, taken, queued, disorder, collided>>

-----------------------------------------------------------------------------
Ready == adcs_task_dispatch \/ ReadHeadFirst \/ ReadTailFirst \/ Counted
           \/ Scan \/ ScannedAll
Get == receive_msg \/ NoPacketAnyMore \/ uart_comms_get_packet \/ CopyByte
         \/ ReadTail \/ StoreTail \/ Handle
uart_comms_tx == Truncate \/ Fill \/ KickOff \/ KickRead
                   \/ KickPut \/ KickReadTail \/ KickStoreTail \/ EnableTx

Next == Receive \/ TxInterrupt \/ Transmitted \/ Ready \/ Get
          \/ send_ping \/ send_command \/ uart_comms_tx

(* Interrupts are taken, the transmitter transmits, and a call of          *)
(* uart_comms_tx runs to its end: nothing in it waits for anybody else.    *)
Spec == Init /\ [][Next]_vars /\ WF_vars(TxInterrupt) /\ WF_vars(Transmitted)
          /\ WF_vars(uart_comms_tx)

-----------------------------------------------------------------------------
Sending == {"tx", "fill", "kick", "kick_put", "kick_tail", "kick_store",
            "enable"}
Receiving == {"count", "count_head", "count_tail", "scan", "ready",
              "copy", "advance", "store"}

(* The rings and the task's locals have their types; the indices stay      *)
(* inside the arrays and a packet inside the task's 256 bytes.             *)
TypeOK ==
  /\ rx_buffer \in [0..(UART_RX_BUFFER_SIZE - 1) -> Nat]
  /\ {rx_head, rx_tail} \subseteq 0..(UART_RX_BUFFER_SIZE - 1)
  /\ tx_buffer \in [0..(UART_TX_BUFFER_SIZE - 1) -> Nat]
  /\ {tx_head, tx_tail} \subseteq 0..(UART_TX_BUFFER_SIZE - 1)
  /\ register \in {"unused", "full", "empty"} /\ out \in Nat /\ irq \in BOOLEAN
  /\ app \in [at : {"idle"} \cup Sending \cup Receiving,
              call : {"none", "dispatch", "get"},
              count : 0..(UART_RX_BUFFER_SIZE - 1), offset : Nat,
              length : 0..(UART_RX_BUFFER_SIZE + FrameLen), index : Nat,
              byte : Nat, got : Seq(Nat)]
  /\ app.at \in {"copy", "advance", "store"} =>
       app.length < UART_RX_BUFFER_SIZE /\ Len(app.got) <= app.length
  /\ arrived \in Nat /\ ends \subseteq 1..arrived /\ lapped \in BOOLEAN
  /\ taken \in Nat /\ queued \in Nat
  /\ disorder \in BOOLEAN /\ collided \in BOOLEAN

(* As long as the ring has not overflowed, uart_comms_get_packet hands     *)
(* over the bytes that came next, all of them and once, up to the first    *)
(* zero, wherever the handler interrupted it.                              *)
DeliveredWhole ==
  app.at = "copy" /\ Len(app.got) = app.length /\ ~lapped =>
    /\ app.got = [i \in 1..app.length |-> taken + i]
    /\ \A i \in 1..app.length : IsZero(app.got[i]) <=> i = app.length

(* No byte is left in the TX ring with nobody to send it: outside          *)
(* uart_comms_tx, whenever the ring has bytes the interrupt is enabled     *)
(* (uart_comms_tx enables it last, the handler disables it).               *)
NoStuckTransmit ==
  app.at \notin Sending /\ tx_tail # tx_head => irq /\ register # "unused"

(* What is queued goes out (uart_communications.h:28, "Transmit a message   *)
(* via UART").                                                             *)
Drains == tx_tail # tx_head ~> tx_tail = tx_head

(* The bytes queued by uart_comms_tx are transmitted in their order, each  *)
(* once, however the handler and the frames overlap, except if the handler *)
(* transmits between the test and the assignment of lines 151-154, where   *)
(* the task moves tx_tail, which line 29 gives to the handler.             *)
InOrderUnlessCollided == disorder => collided
=============================================================================
