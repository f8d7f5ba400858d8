-------------------------------- MODULE Radio --------------------------------
(***************************************************************************)
(* The radio: radio_task_dispatch and the interrupt handlers tx_done and   *)
(* rx_done (src/tasks/radio/radio_task.c) share the two packet queues and, *)
(* over SPI, the registers of the RFM9X (src/drivers/rfm9x/rfm9x.c).  The  *)
(* task is interrupted between any two register accesses, and also in the  *)
(* middle of one; a handler runs to its end.                               *)
(*                                                                         *)
(* The chip raises TxDone and falls back to standby when a transmission    *)
(* ends, and raises RxDone when a packet is in.  Pin DIO0 follows one of   *)
(* the two flags, and its rising edge interrupts the processor.  A packet  *)
(* takes tens of milliseconds and a dispatch less than one, so nothing     *)
(* ends in the dispatch that began it.                                     *)
(*                                                                         *)
(* An access is an SPI transfer under a chip select of its own.  When the  *)
(* handler comes within one, its first transfer runs on in the task's and  *)
(* releases the chip select: what the task writes arrives, or is lost, or  *)
(* arrives as the handler's byte, and what either reads is anything.       *)
(*                                                                         *)
(* Left out: the bits of the registers that no action writes (the rest of  *)
(* the mode register, which a write of the mode puts back as it was read), *)
(* byte counts, and encode_packet failing, which neither of the two        *)
(* producers' packets can cause (beacon_task.c asserts its length).        *)
(***************************************************************************)
EXTENDS Naturals, Sequences

CONSTANTS
  TxQueueSize,   \* TX_QUEUE_SIZE (16)
  RxQueueSize,   \* RX_QUEUE_SIZE (16)
  MaxPackets,    \* bound of the model: packets the other tasks queue
  MaxCuts        \* bound of the model: transfers the handler comes within

ASSUME QueueSizesAssumption ==
  TxQueueSize \in Nat \ {0} /\ RxQueueSize \in Nat \ {0}
ASSUME MaxPacketsAssumption == MaxPackets \in Nat
ASSUME MaxCutsAssumption == MaxCuts \in Nat

VARIABLES
  chip,        \* mode, dio (the flag DIO0 follows), flags, fifo, heard
  irq,         \* a rising edge of DIO0 has not been served yet
  cut,         \* the handler has come within a transfer of the task
  pc,          \* where radio_task_dispatch is
  hand,        \* the packet tx_done, called by the task, has taken
  old_mode,    \* packet_to_fifo's local, in the same call
  steady,      \* the dispatch in progress has not touched the mode
  tx_queue,    \* slate->tx_queue; packets are numbered as they are queued
  rx_queue,    \* how many packets slate->rx_queue holds
  tx_packets,  \* slate->tx_packets
  \* History, read by no action:
  queued,      \* packets queued so far
  loaded,      \* packets put into the FIFO, in that order
  cuts,        \* transfers cut so far
  torn         \* one of them since the flags were last cleared

task == <<pc, hand, old_mode, steady>>
cutting == <<cut, cuts, torn>>
vars == <<chip, irq, task, tx_queue, rx_queue, tx_packets, queued, loaded, cutting>>

Modes == {"STANDBY", "TX", "RX", "OTHER"}
Flags == {"TxDone", "RxDone"}
Points == {"idle", "transmit", "transmit_dio", "tx_done", "get_mode", "standby", "fifo",
           "restore", "clear", "clear_last", "listen", "listen_dio"}
NoPacket == 0

(* The registers the code uses; fifo is the queued packet the FIFO holds,  *)
(* if any, heard says whether rx_done will queue what was received.        *)
Chip == [mode : Modes, dio : Flags, flags : SUBSET Flags, fifo : Nat, heard : BOOLEAN]

(* After radio_task_init, which listens and then transmits: the chip sends *)
(* whatever its FIFO holds.                                                *)
Init ==
  /\ chip = [mode |-> "TX", dio |-> "TxDone", flags |-> {}, fifo |-> NoPacket,
             heard |-> FALSE]
  /\ irq = FALSE
  /\ cut = FALSE
  /\ pc = "idle"
  /\ hand = NoPacket
  /\ old_mode = "STANDBY"
  /\ steady = TRUE
  /\ tx_queue = <<>>
  /\ rx_queue = 0
  /\ tx_packets = 0
  /\ queued = 0
  /\ loaded = <<>>
  /\ cuts = 0
  /\ torn = FALSE

-----------------------------------------------------------------------------
(* The chip.                                                               *)

Pin(c) == c.dio \in c.flags

(* The chip goes to state c; the edge detector sees DIO0 rise.             *)
Becomes(c) ==
  /\ chip' = c
  /\ irq' = (irq \/ (Pin(c) /\ ~Pin(chip)))

TransmissionEnds ==
  /\ chip.mode = "TX" /\ steady
  /\ Becomes([chip EXCEPT !.mode = "STANDBY", !.flags = @ \cup {"TxDone"}])
  /\ UNCHANGED <<task, tx_queue, rx_queue, tx_packets, queued, loaded, cutting>>

(* A packet is in the FIFO: one that rx_done will queue, or one with a bad *)
(* checksum, a bad form or another address.                                *)
ReceptionEnds ==
  /\ chip.mode = "RX" /\ steady
  /\ \E good \in BOOLEAN :
       Becomes([chip EXCEPT !.flags = @ \cup {"RxDone"}, !.fifo = NoPacket, !.heard = good])
  /\ UNCHANGED <<task, tx_queue, rx_queue, tx_packets, queued, loaded, cutting>>

Listening(c) == [c EXCEPT !.mode = "RX", !.dio = "RxDone"]
Cleared(c) == [c EXCEPT !.flags = {}]

-----------------------------------------------------------------------------
(* The handlers, run by rfm9x_interrupt_received.                          *)

(* What rfm9x_tx_done reads, its first access, when it has cut a transfer: *)
(* anything.                                                               *)
SeesTxDone == cut \/ "TxDone" \in chip.flags
SeesNoTxDone == cut \/ "TxDone" \notin chip.flags

(* tx_done in the handler: packet_to_fifo goes back to the mode it found.  *)
TxDoneInterrupt ==
  /\ SeesTxDone
  /\ \/ /\ tx_queue # <<>>
        /\ tx_queue' = Tail(tx_queue)
        /\ chip' = Cleared([chip EXCEPT !.fifo = Head(tx_queue)])
        /\ tx_packets' = tx_packets + 1
        /\ loaded' = Append(loaded, Head(tx_queue))
     \/ /\ tx_queue = <<>>
        /\ chip' = Listening(Cleared(chip))
        /\ UNCHANGED <<tx_queue, tx_packets, loaded>>
  /\ torn' = FALSE
  /\ UNCHANGED rx_queue

(* Mutant: a packet that parse_packet rejects leaves the flags alone.      *)
RxDoneInterruptBadKept ==
  /\ SeesNoTxDone /\ "RxDone" \in chip.flags
  /\ chip' = IF chip.heard THEN Cleared(chip) ELSE chip
  /\ rx_queue' = IF chip.heard /\ rx_queue < RxQueueSize THEN rx_queue + 1 ELSE rx_queue
  /\ torn' = FALSE
  /\ UNCHANGED <<tx_queue, tx_packets, loaded>>

(* rx_done: a good packet is queued, unless the queue is full.             *)
RxDoneInterrupt ==
  /\ SeesNoTxDone /\ "RxDone" \in chip.flags
  /\ chip' = Cleared(chip)
  /\ rx_queue' = IF chip.heard /\ rx_queue < RxQueueSize THEN rx_queue + 1 ELSE rx_queue
  /\ torn' = FALSE
  /\ UNCHANGED <<tx_queue, tx_packets, loaded>>

(* The handler sees neither flag and returns.                              *)
NeitherInterrupt ==
  /\ SeesNoTxDone /\ "RxDone" \notin chip.flags
  /\ UNCHANGED <<chip, tx_queue, rx_queue, tx_packets, loaded, torn>>

rfm9x_interrupt_received ==
  /\ irq
  /\ TxDoneInterrupt \/ RxDoneInterrupt \/ NeitherInterrupt
  /\ irq' = FALSE
  /\ cut' = FALSE
  /\ steady' = (pc = "idle")
  /\ UNCHANGED <<pc, hand, old_mode, queued, cuts>>

-----------------------------------------------------------------------------
(* radio_task_dispatch, one register access or queue operation at a time.  *)

(* The task is at point p and goes on to q.                                *)
Goto(p, q) == ~irq /\ pc = p /\ pc' = q

(* A register write that puts the chip into state c.                       *)
Write(c) ==
  /\ Becomes(c)
  /\ steady' = (steady /\ c.mode = chip.mode)
  /\ UNCHANGED <<hand, old_mode, tx_queue, rx_queue, tx_packets, queued, loaded>>

radio_task_dispatch ==
  /\ Goto("idle", IF tx_queue # <<>> THEN "transmit" ELSE "listen")
  /\ UNCHANGED <<chip, irq, hand, old_mode, steady, tx_queue, rx_queue, tx_packets,
                 queued, loaded, cutting>>

rfm9x_transmit ==
  /\ \/ Goto("transmit", "transmit_dio") /\ Write([chip EXCEPT !.mode = "TX"])
     \/ Goto("transmit_dio", "tx_done") /\ Write([chip EXCEPT !.dio = "TxDone"])
  /\ UNCHANGED cutting

(* Mutant: the packet is copied, and stays in the queue.                   *)
tx_done_peek ==
  /\ Goto("tx_done", IF tx_queue # <<>> THEN "get_mode" ELSE "clear_last")
  /\ hand' = IF tx_queue # <<>> THEN Head(tx_queue) ELSE hand
  /\ UNCHANGED <<chip, irq, old_mode, steady, tx_queue, rx_queue, tx_packets, queued,
                 loaded, cutting>>

(* tx_done called by the task: the queue may have been emptied by the      *)
(* handler since radio_task_dispatch looked at it.                         *)
tx_done ==
  /\ \/ /\ tx_queue # <<>>
        /\ Goto("tx_done", "get_mode")
        /\ hand' = Head(tx_queue)
        /\ tx_queue' = Tail(tx_queue)
     \/ /\ tx_queue = <<>>
        /\ Goto("tx_done", "clear_last")
        /\ UNCHANGED <<hand, tx_queue>>
  /\ UNCHANGED <<chip, irq, old_mode, steady, rx_queue, tx_packets, queued, loaded, cutting>>

rfm9x_get_mode ==
  /\ Goto("get_mode", "standby")
  /\ old_mode' = chip.mode
  /\ UNCHANGED <<chip, irq, hand, steady, tx_queue, rx_queue, tx_packets, queued, loaded,
                 cutting>>

(* Filling the FIFO: its pointer, the packet and the length.               *)
FillFifo(n) ==
  /\ hand' = NoPacket
  /\ loaded' = Append(loaded, hand)
  /\ chip' = [chip EXCEPT !.fifo = n]
  /\ UNCHANGED <<old_mode, steady, tx_packets>>

(* Standby, fill the FIFO, back to the mode read before.                   *)
rfm9x_packet_to_fifo ==
  /\ \/ Goto("standby", "fifo") /\ Write([chip EXCEPT !.mode = "STANDBY"])
     \/ /\ Goto("fifo", "restore") /\ FillFifo(hand)
        /\ UNCHANGED <<irq, tx_queue, rx_queue, queued>>
     \/ Goto("restore", "clear") /\ Write([chip EXCEPT !.mode = old_mode])
  /\ UNCHANGED cutting

(* Clear all flags and count the packet.                                   *)
FinishSending ==
  /\ Goto("clear", "idle")
  /\ Becomes(Cleared(chip))
  /\ tx_packets' = tx_packets + 1
  /\ steady' = TRUE
  /\ torn' = FALSE
  /\ UNCHANGED <<hand, old_mode, tx_queue, rx_queue, queued, loaded, cut, cuts>>

rfm9x_clear_interrupts ==
  /\ Goto("clear_last", "listen") /\ Write(Cleared(chip))
  /\ torn' = FALSE
  /\ UNCHANGED <<cut, cuts>>

(* Mutant: DIO0 goes on following TxDone.                                  *)
listen_mode_only ==
  /\ \/ Goto("listen", "listen_dio") /\ Write([chip EXCEPT !.mode = "RX"])
     \/ /\ Goto("listen_dio", "idle")
        /\ steady' = TRUE
        /\ UNCHANGED <<chip, irq, hand, old_mode, tx_queue, rx_queue, tx_packets, queued,
                       loaded>>
  /\ UNCHANGED cutting

rfm9x_listen ==
  /\ \/ Goto("listen", "listen_dio") /\ Write([chip EXCEPT !.mode = "RX"])
     \/ /\ Goto("listen_dio", "idle")
        /\ Becomes([chip EXCEPT !.dio = "RxDone"])
        /\ steady' = TRUE
        /\ UNCHANGED <<hand, old_mode, tx_queue, rx_queue, tx_packets, queued, loaded>>
  /\ UNCHANGED cutting

-----------------------------------------------------------------------------
(* The handler comes within a transfer of the task: the access at pc ends  *)
(* as a torn one does, and the handler runs next.                          *)

(* A write, after which the chip is in state c.                            *)
CutWrite(p, q, c) ==
  /\ pc = p /\ pc' = q
  /\ chip' = c
  /\ steady' = (steady /\ c.mode = chip.mode)
  /\ UNCHANGED <<hand, old_mode, tx_packets, loaded>>

(* The write of a mode, which arrives, or does not, or as something else.  *)
CutSetMode(p, q, mode) ==
  \E m \in {chip.mode, mode, "OTHER"} : CutWrite(p, q, [chip EXCEPT !.mode = m])

CutSetDio(p, q) ==
  \E d \in Flags : CutWrite(p, q, [chip EXCEPT !.dio = d])

CutClear(p, q) ==
  \E c \in {chip, Cleared(chip)} : CutWrite(p, q, c)

(* The read before the write of a mode or of DIO0's mapping: the write,    *)
(* which changes only the bits it is for, is still to come.                *)
CutReadOfWrite ==
  /\ pc \in {"transmit", "transmit_dio", "standby", "restore", "listen", "listen_dio"}
  /\ UNCHANGED <<chip, task, tx_packets, loaded>>

CutGetMode ==
  /\ pc = "get_mode" /\ pc' = "standby"
  /\ old_mode' \in Modes
  /\ UNCHANGED <<chip, hand, steady, tx_packets, loaded>>

CutFifo ==
  /\ pc = "fifo" /\ pc' = "restore"
  /\ FillFifo(NoPacket)

CutFinishSending ==
  /\ pc = "clear" /\ pc' = "idle"
  /\ chip' \in {chip, Cleared(chip)}
  /\ tx_packets' = tx_packets + 1
  /\ UNCHANGED <<hand, old_mode, steady, loaded>>

CutTransfer ==
  /\ irq /\ ~cut
  /\ cuts < MaxCuts
  /\ \/ CutReadOfWrite
     \/ CutSetMode("transmit", "transmit_dio", "TX")
     \/ CutSetDio("transmit_dio", "tx_done")
     \/ CutGetMode
     \/ CutSetMode("standby", "fifo", "STANDBY")
     \/ CutFifo
     \/ CutSetMode("restore", "clear", old_mode)
     \/ CutFinishSending
     \/ CutClear("clear_last", "listen")
     \/ CutSetMode("listen", "listen_dio", "RX")
     \/ CutSetDio("listen_dio", "idle")
  /\ cut' = TRUE
  /\ cuts' = cuts + 1
  /\ torn' = TRUE
  /\ UNCHANGED <<irq, tx_queue, rx_queue, queued>>

-----------------------------------------------------------------------------
(* The other tasks, which run between dispatches.                          *)

(* The beacon task or a PING queues a packet; a full queue rejects it.     *)
QueuePacket ==
  /\ ~irq /\ pc = "idle"
  /\ queued < MaxPackets
  /\ Len(tx_queue) < TxQueueSize
  /\ queued' = queued + 1
  /\ tx_queue' = Append(tx_queue, queued + 1)
  /\ UNCHANGED <<chip, irq, task, rx_queue, tx_packets, loaded, cutting>>

(* command_task_dispatch takes a packet.                                   *)
TakePacket ==
  /\ ~irq /\ pc = "idle"
  /\ rx_queue > 0
  /\ rx_queue' = rx_queue - 1
  /\ UNCHANGED <<chip, irq, task, tx_queue, tx_packets, queued, loaded, cutting>>

Dispatch ==
  \/ radio_task_dispatch
  \/ rfm9x_transmit
  \/ tx_done
  \/ rfm9x_get_mode
  \/ rfm9x_packet_to_fifo
  \/ FinishSending
  \/ rfm9x_clear_interrupts
  \/ rfm9x_listen

Next ==
  \/ TransmissionEnds
  \/ ReceptionEnds
  \/ rfm9x_interrupt_received
  \/ Dispatch
  \/ CutTransfer
  \/ QueuePacket
  \/ TakePacket

(* The processor serves interrupts and the scheduler keeps dispatching the *)
(* task; nothing is assumed of the chip or of the other tasks.             *)
Spec == Init /\ [][Next]_vars /\ WF_vars(rfm9x_interrupt_received) /\ WF_vars(Dispatch)

-----------------------------------------------------------------------------
(* The state has its type.                                                 *)
TypeOK ==
  /\ chip \in Chip
  /\ irq \in BOOLEAN
  /\ cut \in BOOLEAN /\ cuts \in 0..MaxCuts /\ torn \in BOOLEAN
  /\ pc \in Points
  /\ hand \in Nat
  /\ old_mode \in Modes
  /\ steady \in BOOLEAN
  /\ tx_queue \in Seq(Nat) /\ Len(tx_queue) <= TxQueueSize
  /\ rx_queue \in 0..RxQueueSize
  /\ tx_packets \in Nat
  /\ queued \in 0..MaxPackets
  /\ loaded \in Seq(Nat)

(* DIO0 is left high without an interrupt on its way only when a transfer  *)
(* was cut, and only until the flags are next cleared: no further edge can *)
(* rise from a pin that is high, and the radio would stay deaf.  Every way *)
(* out of tx_done and rx_done has to clear the flags.                      *)
NoStuckInterrupt == Pin(chip) => irq \/ torn

(* However the handler's tx_done and the task's tx_done share the queue,   *)
(* and whatever cut transfers make of the registers, every packet queued   *)
(* is still queued, or in the task's hand, or was put into the FIFO, and   *)
(* that once; and tx_packets counts the FIFO loads.                        *)
InHand == IF hand = NoPacket THEN 0 ELSE 1
Range(s) == {s[i] : i \in 1..Len(s)}

EachLoadedOnce ==
  /\ Range(loaded) \cup Range(tx_queue) \cup ({hand} \ {NoPacket}) = 1..queued
  /\ Len(loaded) + Len(tx_queue) + InHand = queued
  /\ tx_packets = IF pc \in {"restore", "clear"} THEN Len(loaded) - 1 ELSE Len(loaded)

(* radio_task.c: "This task will keep the radio in receive mode, and       *)
(* switch to transmit mode to send packets": whatever interrupts and cut   *)
(* transfers do to the mode, the radio always comes back to listening with *)
(* DIO0 on RxDone, once the other tasks stop sending.                      *)
ListensAgain == []<>(chip.mode = "RX" /\ chip.dio = "RxDone")
=============================================================================
