---------------------------- MODULE RadioProofs ----------------------------
(***************************************************************************)
(* Proofs about Radio, for every queue size and every number of packets.   *)
(***************************************************************************)
EXTENDS Radio, TLAPS

(* The task holds a packet exactly while tx_done is between taking it and  *)
(* loading it.                                                             *)
HandInv == hand # NoPacket <=> pc \in {"get_mode", "standby", "fifo"}

(* Until the handler has run, a cut transfer has left its mark.            *)
CutInv == cut => irq /\ torn

IInv == TypeOK /\ HandInv /\ CutInv /\ NoStuckInterrupt /\ EachLoadedOnce

(* The invariant holds after radio_task_init.                              *)
LEMMA InitIInv == Init => IInv
<1> SUFFICES ASSUME Init PROVE IInv
  OBVIOUS
<1> USE DEF Init, Modes, Flags, Points, NoPacket
<1>1. TypeOK
  <2>1. /\ chip \in Chip /\ irq \in BOOLEAN /\ steady \in BOOLEAN
        /\ cut \in BOOLEAN /\ cuts \in 0..MaxCuts /\ torn \in BOOLEAN
    <3>1. chip \in Chip
      BY DEF Chip
    <3>2. irq \in BOOLEAN /\ steady \in BOOLEAN /\ cut \in BOOLEAN /\ torn \in BOOLEAN
      OBVIOUS
    <3>3. cuts \in 0..MaxCuts
      BY MaxCutsAssumption
    <3> QED
      BY <3>1, <3>2, <3>3
  <2>2. pc \in Points /\ old_mode \in Modes
    OBVIOUS
  <2> QED
    BY <2>1, <2>2, QueueSizesAssumption, MaxPacketsAssumption DEF TypeOK
<1>2. HandInv
  BY DEF HandInv
<1>3. NoStuckInterrupt
  BY DEF NoStuckInterrupt, Pin
<1>4. EachLoadedOnce
  BY DEF EachLoadedOnce, InHand, Range
<1>5. CutInv
  BY DEF CutInv
<1> QED
  BY <1>1, <1>2, <1>3, <1>4, <1>5 DEF IInv

(* Whatever the chip does, the edge detector has seen its pin rise.        *)
LEMMA BecomesSafe ==
  ASSUME NoStuckInterrupt, irq \in BOOLEAN,
         NEW c \in Chip,
         Becomes(c)
  PROVE  /\ chip' \in Chip
         /\ irq' \in BOOLEAN
         /\ Pin(chip') => irq' \/ torn
<1>1. chip' = c
  BY DEF Becomes
<1>2. irq' \in BOOLEAN
  BY Zenon DEF Becomes
<1>4. Pin(chip') => irq' \/ torn
  BY <1>1 DEF Becomes, NoStuckInterrupt
<1> QED
  BY <1>1, <1>2, <1>4

(* The register contents the actions write are register contents.          *)
LEMMA Registers ==
  ASSUME TypeOK
  PROVE  /\ \A m \in Modes : [chip EXCEPT !.mode = m] \in Chip
         /\ \A d \in Flags : [chip EXCEPT !.dio = d] \in Chip
         /\ \A m \in Modes, n \in Nat : [chip EXCEPT !.mode = m, !.fifo = n] \in Chip
         /\ Cleared(chip) \in Chip
         /\ [chip EXCEPT !.mode = "STANDBY", !.flags = @ \cup {"TxDone"}] \in Chip
         /\ \A g \in BOOLEAN : [chip EXCEPT !.flags = @ \cup {"RxDone"}, !.fifo = NoPacket,
                                            !.heard = g] \in Chip
<1> USE DEF TypeOK, Chip, Modes, Flags, NoPacket
<1>1. /\ \A m \in Modes : [chip EXCEPT !.mode = m] \in Chip
      /\ \A d \in Flags : [chip EXCEPT !.dio = d] \in Chip
      /\ \A m \in Modes, n \in Nat : [chip EXCEPT !.mode = m, !.fifo = n] \in Chip
  OBVIOUS
<1>2. Cleared(chip) \in Chip
  BY DEF Cleared
<1>3. [chip EXCEPT !.mode = "STANDBY", !.flags = @ \cup {"TxDone"}] \in Chip
  OBVIOUS
<1>4. ASSUME NEW g \in BOOLEAN
      PROVE  [chip EXCEPT !.flags = @ \cup {"RxDone"}, !.fifo = NoPacket, !.heard = g] \in Chip
  OBVIOUS
<1> QED
  BY <1>1, <1>2, <1>3, <1>4

(* A handler that serves a flag leaves the chip with none set.             *)
LEMMA HandlerChip ==
  ASSUME TypeOK, TxDoneInterrupt \/ RxDoneInterrupt
  PROVE  chip' \in Chip /\ ~Pin(chip') /\ torn' = FALSE
<1> USE DEF TypeOK, Chip, Modes, Flags
<1>1. CASE RxDoneInterrupt
  BY <1>1 DEF RxDoneInterrupt, Cleared, Pin
<1>2. CASE TxDoneInterrupt /\ tx_queue = <<>>
  BY <1>2 DEF TxDoneInterrupt, Cleared, Listening, Pin
<1>3. CASE TxDoneInterrupt /\ tx_queue # <<>>
  <2>1. Head(tx_queue) \in Nat
    BY <1>3
  <2>2. chip' = Cleared([chip EXCEPT !.fifo = Head(tx_queue)])
    BY <1>3 DEF TxDoneInterrupt
  <2> QED
    BY <1>3, <2>1, <2>2 DEF TxDoneInterrupt, Cleared, Pin
<1> QED
  BY <1>1, <1>2, <1>3

(* One that sees neither flag leaves everything as it is; that it can miss *)
(* a flag that is set takes a cut transfer.                                *)
LEMMA HandlerIdle ==
  ASSUME IInv, irq, NeitherInterrupt
  PROVE  chip' \in Chip /\ torn' \in BOOLEAN /\ (Pin(chip') => torn')
<1>1. UNCHANGED <<chip, torn>> /\ SeesNoTxDone /\ "RxDone" \notin chip.flags
  BY DEF NeitherInterrupt
<1>2. chip \in Chip /\ torn \in BOOLEAN /\ (cut => torn)
  BY DEF IInv, TypeOK, CutInv
<1>3. Pin(chip) => cut
  BY <1>1, <1>2 DEF SeesNoTxDone, Pin, Chip, Flags
<1> QED
  BY <1>1, <1>2, <1>3

(* Where the packets are does not change with the chip.                    *)
LEMMA PacketsKept ==
  ASSUME IInv, UNCHANGED <<hand, tx_queue, tx_packets, queued, loaded>>,
         ({pc, pc'} \cap {"restore", "clear"} = {}) \/ UNCHANGED pc
         \/ (pc = "restore" /\ pc' = "clear")
  PROVE  EachLoadedOnce'
<1>1. /\ Range(loaded)' = Range(loaded) /\ Range(tx_queue)' = Range(tx_queue)
      /\ InHand' = InHand
  BY DEF Range, InHand
<1> QED
  BY <1>1 DEF IInv, EachLoadedOnce

(* What a queue holds is its head and what its tail holds.                 *)
LEMMA RangeFacts ==
  /\ \A q \in Seq(Nat) : q # <<>> =>
       /\ Range(q) = {Head(q)} \cup Range(Tail(q))
       /\ Tail(q) \in Seq(Nat) /\ Head(q) \in Nat
       /\ Len(Tail(q)) = Len(q) - 1
  /\ \A q \in Seq(Nat), n \in Nat :
       /\ Range(Append(q, n)) = Range(q) \cup {n}
       /\ Append(q, n) \in Seq(Nat)
       /\ Len(Append(q, n)) = Len(q) + 1
<1>1. ASSUME NEW q \in Seq(Nat), q # <<>>
      PROVE  /\ Range(q) = {Head(q)} \cup Range(Tail(q))
             /\ Tail(q) \in Seq(Nat) /\ Head(q) \in Nat
             /\ Len(Tail(q)) = Len(q) - 1
  <2>1. /\ Tail(q) \in Seq(Nat) /\ Head(q) \in Nat /\ Head(q) = q[1]
        /\ Len(q) \in Nat /\ Len(q) >= 1
        /\ Len(Tail(q)) = Len(q) - 1
        /\ \A i \in 1..Len(Tail(q)) : Tail(q)[i] = q[i + 1]
    BY <1>1
  <2>2. ASSUME NEW x \in Range(q) PROVE x \in {Head(q)} \cup Range(Tail(q))
    <3>1. PICK i \in 1..Len(q) : x = q[i]
      BY <2>2 DEF Range
    <3>2. CASE i = 1
      BY <2>1, <3>1, <3>2
    <3>3. CASE i # 1
      <4>1. i - 1 \in 1..Len(Tail(q)) /\ Tail(q)[i - 1] = x
        BY <2>1, <3>1, <3>3
      <4> QED
        BY <4>1 DEF Range
    <3> QED
      BY <3>2, <3>3
  <2>3. ASSUME NEW x \in {Head(q)} \cup Range(Tail(q)) PROVE x \in Range(q)
    <3>1. CASE x = Head(q)
      BY <2>1, <3>1 DEF Range
    <3>2. CASE x \in Range(Tail(q))
      <4>1. PICK i \in 1..Len(Tail(q)) : x = Tail(q)[i]
        BY <3>2 DEF Range
      <4>2. i + 1 \in 1..Len(q) /\ x = q[i + 1]
        BY <2>1, <4>1
      <4> QED
        BY <4>2 DEF Range
    <3> QED
      BY <2>3, <3>1, <3>2
  <2> QED
    BY <2>1, <2>2, <2>3
<1>2. ASSUME NEW q \in Seq(Nat), NEW n \in Nat
      PROVE  /\ Range(Append(q, n)) = Range(q) \cup {n}
             /\ Append(q, n) \in Seq(Nat)
             /\ Len(Append(q, n)) = Len(q) + 1
  <2>1. /\ Append(q, n) \in Seq(Nat)
        /\ Len(q) \in Nat /\ Len(Append(q, n)) = Len(q) + 1
        /\ \A i \in 1..Len(q) : Append(q, n)[i] = q[i]
        /\ Append(q, n)[Len(q) + 1] = n
    OBVIOUS
  <2>2. ASSUME NEW x \in Range(Append(q, n)) PROVE x \in Range(q) \cup {n}
    <3>1. PICK i \in 1..Len(Append(q, n)) : x = Append(q, n)[i]
      BY <2>2 DEF Range
    <3>2. i \in 1..Len(q) \/ i = Len(q) + 1
      BY <2>1
    <3> QED
      BY <2>1, <3>1, <3>2 DEF Range
  <2>3. ASSUME NEW x \in Range(q) \cup {n} PROVE x \in Range(Append(q, n))
    <3>1. CASE x = n
      BY <2>1, <3>1 DEF Range
    <3>2. CASE x \in Range(q)
      <4>1. PICK i \in 1..Len(q) : x = q[i]
        BY <3>2 DEF Range
      <4>2. i \in 1..Len(Append(q, n))
        BY <2>1
      <4> QED
        BY <2>1, <4>1, <4>2 DEF Range
    <3> QED
      BY <2>3, <3>1, <3>2
  <2> QED
    BY <2>1, <2>2, <2>3
<1> QED
  BY <1>1, <1>2

(* The counting of cut transfers does not change with the rest.            *)
LEMMA CutsKept ==
  ASSUME IInv, UNCHANGED <<cut, cuts>>, torn' \in BOOLEAN, cut => irq' /\ torn'
  PROVE  /\ cut' \in BOOLEAN /\ cuts' \in 0..MaxCuts /\ torn' \in BOOLEAN
         /\ CutInv'
BY DEF IInv, TypeOK, CutInv

(* A register write of the task keeps the invariant.                       *)
LEMMA WriteStep ==
  ASSUME IInv, NEW c \in Chip, Write(c), ~irq, pc' \in Points,
         {pc, pc'} \cap {"get_mode", "standby", "fifo", "restore", "clear"} = {}
           \/ <<pc, pc'>> = <<"standby", "fifo">> \/ <<pc, pc'>> = <<"restore", "clear">>,
         UNCHANGED <<cut, cuts>>, torn' \in BOOLEAN, torn => torn' \/ ~Pin(c)
  PROVE  IInv'
<1>1. /\ chip' \in Chip /\ irq' \in BOOLEAN
      /\ Pin(chip') => irq' \/ torn
  BY BecomesSafe DEF IInv, TypeOK, Write
<1>2. UNCHANGED <<hand, old_mode, tx_queue, rx_queue, tx_packets, queued, loaded>>
  BY DEF Write
<1>3. steady' \in BOOLEAN
  BY Zenon DEF Write
<1>4. /\ cut' \in BOOLEAN /\ cuts' \in 0..MaxCuts /\ torn' \in BOOLEAN
      /\ CutInv'
  BY CutsKept DEF IInv, CutInv
<1>5. TypeOK'
  BY <1>1, <1>2, <1>3, <1>4 DEF IInv, TypeOK
<1>6. HandInv'
  BY <1>2 DEF IInv, HandInv
<1>7. EachLoadedOnce'
  BY <1>2, PacketsKept
<1>8. chip' = c
  BY DEF Write, Becomes
<1>9. NoStuckInterrupt'
  BY <1>1, <1>8 DEF NoStuckInterrupt, Pin
<1> QED
  BY <1>4, <1>5, <1>6, <1>7, <1>9 DEF IInv

(* Filling the FIFO, whole or torn, takes the packet out of the hand.      *)
LEMMA FillStep ==
  ASSUME IInv, NEW STATE n, FillFifo(n), pc = "fifo", pc' = "restore",
         chip' \in Chip, irq' \in BOOLEAN,
         cut' \in BOOLEAN, cuts' \in 0..MaxCuts, torn' \in BOOLEAN,
         CutInv', NoStuckInterrupt',
         UNCHANGED <<tx_queue, rx_queue, queued>>
  PROVE  IInv'
<1>0. TypeOK /\ HandInv /\ EachLoadedOnce
  BY DEF IInv
<1>1. /\ hand # NoPacket /\ hand' = NoPacket
      /\ loaded' = Append(loaded, hand)
      /\ UNCHANGED <<old_mode, steady, tx_packets>>
  BY <1>0 DEF FillFifo, HandInv
<1>2. /\ hand \in Nat /\ loaded \in Seq(Nat)
      /\ Len(loaded) \in Nat /\ Len(tx_queue) \in Nat
  BY <1>0 DEF TypeOK
<1>3. /\ Range(loaded') = Range(loaded) \cup {hand}
      /\ loaded' \in Seq(Nat) /\ Len(loaded') = Len(loaded) + 1
  BY <1>1, <1>2, RangeFacts
<1>4. TypeOK'
  BY <1>0, <1>1, <1>3 DEF TypeOK, Points, NoPacket
<1>5. HandInv'
  BY <1>1 DEF HandInv
<1>6. InHand = 1 /\ InHand' = 0
  BY <1>1 DEF InHand
<1>7. Range(loaded') \cup Range(tx_queue) \cup ({hand'} \ {NoPacket}) = 1..queued
  BY <1>0, <1>1, <1>3 DEF EachLoadedOnce
<1>8. Len(loaded') + Len(tx_queue) + InHand' = queued
  BY <1>0, <1>2, <1>3, <1>6 DEF EachLoadedOnce
<1>9. tx_packets = Len(loaded') - 1
  BY <1>0, <1>2, <1>3 DEF EachLoadedOnce
<1>10. EachLoadedOnce'
  BY <1>1, <1>7, <1>8, <1>9 DEF EachLoadedOnce, Range
<1> QED
  BY <1>4, <1>5, <1>10 DEF IInv

(* A torn write leaves registers in the chip and the packets where they    *)
(* were.                                                                   *)
LEMMA CutWriteStep ==
  ASSUME TypeOK, NEW p, NEW q, NEW c \in Chip, CutWrite(p, q, c)
  PROVE  /\ chip' \in Chip /\ steady' \in BOOLEAN /\ pc = p /\ pc' = q
         /\ UNCHANGED <<hand, old_mode, tx_packets, loaded>>
<1>1. steady' \in BOOLEAN
  BY Zenon DEF CutWrite
<1> QED
  BY <1>1 DEF CutWrite

(* A torn transfer keeps the invariant, whatever it leaves in a register.  *)
LEMMA CutStep == IInv /\ CutTransfer => IInv'
<1> SUFFICES ASSUME IInv, CutTransfer PROVE IInv'
  OBVIOUS
<1>0. TypeOK /\ HandInv /\ CutInv /\ NoStuckInterrupt /\ EachLoadedOnce
  BY DEF IInv
<1>1. /\ irq /\ cuts < MaxCuts /\ cut' = TRUE /\ cuts' = cuts + 1 /\ torn' = TRUE
      /\ UNCHANGED <<irq, tx_queue, rx_queue, queued>>
  BY DEF CutTransfer
<1>2. /\ CutInv' /\ NoStuckInterrupt' /\ irq' \in BOOLEAN
      /\ cut' \in BOOLEAN /\ cuts' \in 0..MaxCuts /\ torn' \in BOOLEAN
  BY <1>0, <1>1, MaxCutsAssumption DEF CutInv, NoStuckInterrupt, TypeOK
<1>3. ASSUME chip' \in Chip, steady' \in BOOLEAN, old_mode' \in Modes, pc' \in Points,
             UNCHANGED <<hand, tx_packets, loaded>>,
             pc \in {"get_mode", "standby", "fifo"} <=> pc' \in {"get_mode", "standby", "fifo"},
             pc \in {"restore", "clear"} <=> pc' \in {"restore", "clear"}
      PROVE  IInv'
  <2>1. TypeOK'
    BY <1>0, <1>1, <1>2, <1>3 DEF TypeOK
  <2>2. HandInv'
    BY <1>0, <1>3 DEF HandInv
  <2>3. EachLoadedOnce'
    BY <1>0, <1>1, <1>3 DEF EachLoadedOnce, Range, InHand
  <2> QED
    BY <1>2, <2>1, <2>2, <2>3 DEF IInv
<1>4. /\ chip \in Chip /\ chip.mode \in Modes /\ old_mode \in Modes /\ steady \in BOOLEAN
      /\ pc \in Points
  BY <1>0 DEF TypeOK, Chip
<1>5. ASSUME NEW p \in Points, NEW q \in Points, NEW mode \in Modes, CutSetMode(p, q, mode)
      PROVE  /\ chip' \in Chip /\ steady' \in BOOLEAN /\ pc = p /\ pc' = q
             /\ UNCHANGED <<hand, old_mode, tx_packets, loaded>>
  <2>1. PICK m \in {chip.mode, mode, "OTHER"} : CutWrite(p, q, [chip EXCEPT !.mode = m])
    BY <1>5 DEF CutSetMode
  <2>2. [chip EXCEPT !.mode = m] \in Chip
    BY <1>0, <1>4, Registers DEF Modes
  <2> QED
    BY <1>0, <2>1, <2>2, CutWriteStep
<1>6. ASSUME NEW p \in Points, NEW q \in Points, CutSetDio(p, q)
      PROVE  /\ chip' \in Chip /\ steady' \in BOOLEAN /\ pc = p /\ pc' = q
             /\ UNCHANGED <<hand, old_mode, tx_packets, loaded>>
  <2>1. PICK d \in Flags : CutWrite(p, q, [chip EXCEPT !.dio = d])
    BY <1>6 DEF CutSetDio
  <2>2. [chip EXCEPT !.dio = d] \in Chip
    BY <1>0, Registers
  <2> QED
    BY <1>0, <2>1, <2>2, CutWriteStep
<1> USE DEF Points
<1>7. CASE CutReadOfWrite
  BY <1>3, <1>4, <1>7 DEF CutReadOfWrite, task
<1>8. CASE CutSetMode("transmit", "transmit_dio", "TX")
  BY <1>3, <1>4, <1>5, <1>8 DEF Modes
<1>9. CASE CutSetDio("transmit_dio", "tx_done")
  BY <1>3, <1>4, <1>6, <1>9
<1>10. CASE CutGetMode
  BY <1>3, <1>4, <1>10 DEF CutGetMode
<1>11. CASE CutSetMode("standby", "fifo", "STANDBY")
  BY <1>3, <1>4, <1>5, <1>11 DEF Modes
<1>12. CASE CutFifo
  <2>1. pc = "fifo" /\ pc' = "restore" /\ FillFifo(NoPacket)
    BY <1>12 DEF CutFifo
  <2>2. chip' = [chip EXCEPT !.fifo = NoPacket]
    BY <2>1 DEF FillFifo
  <2>3. chip' \in Chip
    BY <1>4, <2>2 DEF Chip, NoPacket
  <2> QED
    BY <1>1, <1>2, <2>1, <2>3, FillStep
<1>13. CASE CutSetMode("restore", "clear", old_mode)
  BY <1>3, <1>4, <1>5, <1>13
<1>14. CASE CutFinishSending
  <2>1. /\ pc = "clear" /\ pc' = "idle" /\ tx_packets' = tx_packets + 1
        /\ UNCHANGED <<hand, old_mode, steady, loaded>>
        /\ chip' \in {chip, Cleared(chip)}
    BY <1>14 DEF CutFinishSending
  <2>2. chip' \in Chip
    BY <1>0, <1>4, <2>1, Registers
  <2>3. tx_packets' = Len(loaded) /\ tx_packets' \in Nat
    BY <1>0, <2>1 DEF EachLoadedOnce, TypeOK
  <2>4. TypeOK'
    BY <1>0, <1>1, <1>2, <2>1, <2>2, <2>3 DEF TypeOK
  <2>5. HandInv'
    BY <1>0, <2>1 DEF HandInv
  <2>6. EachLoadedOnce'
    BY <1>0, <1>1, <2>1, <2>3 DEF EachLoadedOnce, Range, InHand
  <2> QED
    BY <1>2, <2>4, <2>5, <2>6 DEF IInv
<1>15. CASE CutClear("clear_last", "listen")
  <2>1. PICK c \in {chip, Cleared(chip)} : CutWrite("clear_last", "listen", c)
    BY <1>15 DEF CutClear
  <2>2. c \in Chip
    BY <1>0, <1>4, Registers
  <2>3. /\ chip' \in Chip /\ steady' \in BOOLEAN /\ pc = "clear_last" /\ pc' = "listen"
        /\ UNCHANGED <<hand, old_mode, tx_packets, loaded>>
    BY <1>0, <2>1, <2>2, CutWriteStep
  <2> QED
    BY <1>3, <1>4, <2>3
<1>16. CASE CutSetMode("listen", "listen_dio", "RX")
  BY <1>3, <1>4, <1>5, <1>16 DEF Modes
<1>17. CASE CutSetDio("listen_dio", "idle")
  BY <1>3, <1>4, <1>6, <1>17
<1> QED
  BY <1>7, <1>8, <1>9, <1>10, <1>11, <1>12, <1>13, <1>14, <1>15, <1>16, <1>17
  DEF CutTransfer

(* Every step keeps the invariant.                                         *)
LEMMA Step == IInv /\ [Next]_vars => IInv'
<1> SUFFICES ASSUME IInv, [Next]_vars PROVE IInv'
  OBVIOUS
<1>0. TypeOK /\ HandInv /\ CutInv /\ NoStuckInterrupt /\ EachLoadedOnce
  BY DEF IInv
<1> USE DEF task, cutting
<1>1. CASE TransmissionEnds
  <2>1. /\ Becomes([chip EXCEPT !.mode = "STANDBY", !.flags = @ \cup {"TxDone"}])
        /\ UNCHANGED <<task, tx_queue, rx_queue, tx_packets, queued, loaded, cutting>>
    BY <1>1 DEF TransmissionEnds
  <2>2. chip' \in Chip /\ irq' \in BOOLEAN /\ (Pin(chip') => irq' \/ torn)
    BY <1>0, <2>1, Registers, BecomesSafe DEF TypeOK
  <2>3. NoStuckInterrupt' /\ CutInv'
    BY <1>0, <2>1, <2>2 DEF NoStuckInterrupt, CutInv, Pin, Becomes
  <2> QED
    BY <1>0, <2>1, <2>2, <2>3, PacketsKept DEF IInv, TypeOK, HandInv
<1>2. CASE ReceptionEnds
  <2>1. PICK g \in BOOLEAN :
          /\ Becomes([chip EXCEPT !.flags = @ \cup {"RxDone"}, !.fifo = NoPacket, !.heard = g])
          /\ UNCHANGED <<task, tx_queue, rx_queue, tx_packets, queued, loaded, cutting>>
    BY <1>2 DEF ReceptionEnds
  <2>2. chip' \in Chip /\ irq' \in BOOLEAN /\ (Pin(chip') => irq' \/ torn)
    BY <1>0, <2>1, Registers, BecomesSafe DEF TypeOK
  <2>3. NoStuckInterrupt' /\ CutInv'
    BY <1>0, <2>1, <2>2 DEF NoStuckInterrupt, CutInv, Pin, Becomes
  <2> QED
    BY <1>0, <2>1, <2>2, <2>3, PacketsKept DEF IInv, TypeOK, HandInv
<1>3. CASE rfm9x_interrupt_received
  <2>1. /\ irq /\ irq' = FALSE /\ cut' = FALSE /\ cuts' = cuts
        /\ chip' \in Chip /\ torn' \in BOOLEAN /\ (Pin(chip') => torn')
    <3>1. CASE NeitherInterrupt
      BY <1>3, <3>1, HandlerIdle DEF rfm9x_interrupt_received
    <3>2. CASE TxDoneInterrupt \/ RxDoneInterrupt
      BY <1>0, <1>3, <3>2, HandlerChip DEF rfm9x_interrupt_received
    <3> QED
      BY <1>3, <3>1, <3>2 DEF rfm9x_interrupt_received
  <2>2. NoStuckInterrupt' /\ CutInv'
    BY <2>1 DEF NoStuckInterrupt, Pin, CutInv
  <2>3. steady' \in BOOLEAN
    BY <1>3, Zenon DEF rfm9x_interrupt_received
  <2>4. UNCHANGED <<pc, hand, old_mode, queued>>
    BY <1>3 DEF rfm9x_interrupt_received
  <2>5. HandInv'
    BY <1>0, <2>4 DEF HandInv
  <2>6. rx_queue' \in 0..RxQueueSize
    BY <1>0, <1>3, QueueSizesAssumption
    DEF rfm9x_interrupt_received, TxDoneInterrupt, RxDoneInterrupt, NeitherInterrupt, TypeOK
  <2>7. CASE UNCHANGED <<tx_queue, tx_packets, loaded>>
    <3>1. TypeOK'
      BY <1>0, <2>1, <2>3, <2>4, <2>6, <2>7 DEF TypeOK
    <3>2. EachLoadedOnce'
      BY <2>4, <2>7, PacketsKept
    <3> QED
      BY <2>2, <2>5, <3>1, <3>2 DEF IInv
  <2>8. CASE /\ tx_queue # <<>>
             /\ tx_queue' = Tail(tx_queue)
             /\ tx_packets' = tx_packets + 1
             /\ loaded' = Append(loaded, Head(tx_queue))
    <3>1. /\ tx_queue \in Seq(Nat) /\ loaded \in Seq(Nat) /\ Len(tx_queue) \in Nat
          /\ Len(loaded) \in Nat /\ tx_packets \in Nat
      BY <1>0 DEF TypeOK
    <3>2. /\ Range(tx_queue) = {Head(tx_queue)} \cup Range(tx_queue')
          /\ tx_queue' \in Seq(Nat) /\ Len(tx_queue') = Len(tx_queue) - 1
          /\ Range(loaded') = Range(loaded) \cup {Head(tx_queue)}
          /\ loaded' \in Seq(Nat) /\ Len(loaded') = Len(loaded) + 1
      BY <2>8, <3>1, RangeFacts
    <3>3. TypeOK'
      <4>1. Len(tx_queue') <= TxQueueSize /\ tx_packets' \in Nat
        BY <1>0, <2>8, <3>1, <3>2, QueueSizesAssumption DEF TypeOK
      <4> QED
        BY <1>0, <2>1, <2>3, <2>4, <2>6, <3>2, <4>1 DEF TypeOK
    <3>4. InHand' = InHand /\ InHand \in Nat
      BY <2>4 DEF InHand
    <3>5. /\ Range(loaded') \cup Range(tx_queue') \cup ({hand'} \ {NoPacket}) = 1..queued'
      BY <1>0, <2>4, <3>2 DEF EachLoadedOnce
    <3>6. Len(loaded') + Len(tx_queue') + InHand' = queued'
      BY <1>0, <2>4, <3>1, <3>2, <3>4 DEF EachLoadedOnce
    <3>7. tx_packets' = IF pc' \in {"restore", "clear"} THEN Len(loaded') - 1 ELSE Len(loaded')
      BY <1>0, <2>4, <2>8, <3>1, <3>2 DEF EachLoadedOnce
    <3>8. EachLoadedOnce'
      BY <3>5, <3>6, <3>7 DEF EachLoadedOnce, Range
    <3> QED
      BY <2>2, <2>5, <3>3, <3>8 DEF IInv
  <2> QED
    BY <1>3, <2>7, <2>8
    DEF rfm9x_interrupt_received, TxDoneInterrupt, RxDoneInterrupt, NeitherInterrupt
<1>4. CASE radio_task_dispatch
  <2>1. /\ pc = "idle" /\ pc' \in {"transmit", "listen"}
        /\ UNCHANGED <<chip, irq, hand, old_mode, steady, tx_queue, rx_queue, tx_packets,
                       queued, loaded, cutting>>
    BY <1>4 DEF radio_task_dispatch, Goto
  <2> QED
    BY <1>0, <2>1, PacketsKept DEF IInv, TypeOK, HandInv, CutInv, NoStuckInterrupt, Points
<1>5. CASE rfm9x_transmit
  <2>0. UNCHANGED cutting /\ torn' \in BOOLEAN
    BY <1>0, <1>5 DEF rfm9x_transmit, TypeOK
  <2>1. CASE Goto("transmit", "transmit_dio") /\ Write([chip EXCEPT !.mode = "TX"])
    BY <1>0, <2>0, <2>1, Registers, WriteStep DEF Goto, Points, Modes
  <2>2. CASE Goto("transmit_dio", "tx_done") /\ Write([chip EXCEPT !.dio = "TxDone"])
    BY <1>0, <2>0, <2>2, Registers, WriteStep DEF Goto, Points, Flags
  <2> QED
    BY <1>5, <2>1, <2>2 DEF rfm9x_transmit
<1>6. CASE tx_done
  <2>1. /\ pc = "tx_done" /\ hand = NoPacket
        /\ UNCHANGED <<chip, irq, old_mode, steady, rx_queue, tx_packets, queued, loaded, cutting>>
    BY <1>0, <1>6 DEF tx_done, Goto, HandInv
  <2>2. CASE tx_queue = <<>>
    <3>1. pc' = "clear_last" /\ UNCHANGED <<hand, tx_queue>>
      BY <1>6, <2>2 DEF tx_done, Goto
    <3> QED
      BY <1>0, <2>1, <3>1, PacketsKept DEF IInv, TypeOK, HandInv, CutInv, NoStuckInterrupt, Points
  <2>3. CASE tx_queue # <<>>
    <3>1. pc' = "get_mode" /\ hand' = Head(tx_queue) /\ tx_queue' = Tail(tx_queue)
      BY <1>6, <2>3 DEF tx_done, Goto
    <3>2. /\ tx_queue \in Seq(Nat) /\ Len(tx_queue) \in Nat /\ Len(loaded) \in Nat
      BY <1>0 DEF TypeOK
    <3>3. /\ Range(tx_queue) = {hand'} \cup Range(tx_queue')
          /\ tx_queue' \in Seq(Nat) /\ Len(tx_queue') = Len(tx_queue) - 1
          /\ hand' \in Nat
      BY <2>3, <3>1, <3>2, RangeFacts
    <3>4. hand' \in 1..queued
      BY <1>0, <3>3 DEF EachLoadedOnce
    <3>5. hand' # NoPacket
      BY <3>4 DEF NoPacket
    <3>6. TypeOK'
      <4>1. Len(tx_queue') <= TxQueueSize
        BY <1>0, <3>2, <3>3, QueueSizesAssumption DEF TypeOK
      <4> QED
        BY <1>0, <2>1, <3>1, <3>3, <4>1 DEF TypeOK, Points
    <3>7. HandInv' /\ CutInv' /\ NoStuckInterrupt'
      BY <1>0, <2>1, <3>1, <3>5 DEF HandInv, CutInv, NoStuckInterrupt
    <3>8. Range(loaded) \cup Range(tx_queue') \cup ({hand'} \ {NoPacket}) = 1..queued
      BY <1>0, <2>1, <3>3, <3>5 DEF EachLoadedOnce
    <3>9. InHand = 0 /\ InHand' = 1
      BY <2>1, <3>5 DEF InHand
    <3>10. Len(loaded) + Len(tx_queue') + InHand' = queued
      BY <1>0, <3>2, <3>3, <3>9 DEF EachLoadedOnce
    <3>11. EachLoadedOnce'
      BY <1>0, <2>1, <3>1, <3>8, <3>10, ZenonT(60) DEF EachLoadedOnce, Range
    <3> QED
      BY <3>6, <3>7, <3>11 DEF IInv
  <2> QED
    BY <2>2, <2>3
<1>7. CASE rfm9x_get_mode
  <2>1. /\ pc = "get_mode" /\ pc' = "standby" /\ old_mode' = chip.mode
        /\ UNCHANGED <<chip, irq, hand, steady, tx_queue, rx_queue, tx_packets, queued, loaded,
                       cutting>>
    BY <1>7 DEF rfm9x_get_mode, Goto
  <2>2. old_mode' \in Modes
    BY <1>0, <2>1 DEF TypeOK, Chip
  <2> QED
    BY <1>0, <2>1, <2>2, PacketsKept DEF IInv, TypeOK, HandInv, CutInv, NoStuckInterrupt, Points
<1>8. CASE rfm9x_packet_to_fifo
  <2>0. UNCHANGED cutting /\ torn' \in BOOLEAN
    BY <1>0, <1>8 DEF rfm9x_packet_to_fifo, TypeOK
  <2>1. CASE Goto("standby", "fifo") /\ Write([chip EXCEPT !.mode = "STANDBY"])
    BY <1>0, <2>0, <2>1, Registers, WriteStep DEF Goto, Points, Modes
  <2>2. CASE Goto("fifo", "restore") /\ FillFifo(hand)
               /\ UNCHANGED <<irq, tx_queue, rx_queue, queued>>
    <3>1. /\ chip' = [chip EXCEPT !.fifo = hand] /\ hand \in Nat
          /\ pc = "fifo" /\ pc' = "restore"
      BY <1>0, <2>2 DEF FillFifo, Goto, TypeOK
    <3>2. chip' \in Chip /\ Pin(chip') = Pin(chip)
      BY <1>0, <3>1 DEF TypeOK, Chip, Pin
    <3>3. NoStuckInterrupt'
      BY <1>0, <2>0, <2>2, <3>2 DEF NoStuckInterrupt, Pin
    <3>4. CutInv' /\ cut' \in BOOLEAN /\ cuts' \in 0..MaxCuts
      BY <1>0, <2>0, <2>2 DEF CutInv, TypeOK
    <3>5. irq' \in BOOLEAN
      BY <1>0, <2>2 DEF TypeOK
    <3> QED
      BY <2>0, <2>2, <3>1, <3>2, <3>3, <3>4, <3>5, FillStep
  <2>3. CASE Goto("restore", "clear") /\ Write([chip EXCEPT !.mode = old_mode])
    <3>1. old_mode \in Modes
      BY <1>0 DEF TypeOK
    <3> QED
      BY <1>0, <2>0, <2>3, <3>1, Registers, WriteStep DEF Goto, Points
  <2> QED
    BY <1>8, <2>1, <2>2, <2>3 DEF rfm9x_packet_to_fifo
<1>9. CASE FinishSending
  <2>1. /\ pc = "clear" /\ pc' = "idle" /\ Becomes(Cleared(chip))
        /\ tx_packets' = tx_packets + 1 /\ steady' = TRUE
        /\ ~irq /\ torn' = FALSE
        /\ UNCHANGED <<hand, old_mode, tx_queue, rx_queue, queued, loaded, cut, cuts>>
    BY <1>9 DEF FinishSending, Goto
  <2>2. chip' \in Chip /\ irq' \in BOOLEAN
    BY <1>0, <2>1, Registers, BecomesSafe DEF TypeOK
  <2>7. NoStuckInterrupt' /\ CutInv'
    BY <1>0, <2>1 DEF NoStuckInterrupt, CutInv, Pin, Becomes, Cleared, TypeOK, Chip
  <2>3. tx_packets' = Len(loaded) /\ tx_packets' \in Nat
    BY <1>0, <2>1 DEF EachLoadedOnce, TypeOK
  <2>4. TypeOK'
    BY <1>0, <2>1, <2>2, <2>3 DEF TypeOK, Points
  <2>5. HandInv'
    BY <1>0, <2>1 DEF HandInv
  <2>6. EachLoadedOnce'
    BY <1>0, <2>1, <2>3 DEF EachLoadedOnce, Range, InHand
  <2> QED
    BY <2>2, <2>4, <2>5, <2>6, <2>7 DEF IInv
<1>10. CASE rfm9x_clear_interrupts
  <2>1. ~Pin(Cleared(chip)) /\ Cleared(chip) \in Chip
    BY <1>0, Registers DEF Pin, Cleared, TypeOK, Chip
  <2> QED
    BY <1>0, <1>10, <2>1, WriteStep DEF rfm9x_clear_interrupts, Goto, Points
<1>11. CASE rfm9x_listen
  <2>0. UNCHANGED cutting /\ torn' \in BOOLEAN
    BY <1>0, <1>11 DEF rfm9x_listen, TypeOK
  <2>1. CASE Goto("listen", "listen_dio") /\ Write([chip EXCEPT !.mode = "RX"])
    BY <1>0, <2>0, <2>1, Registers, WriteStep DEF Goto, Points, Modes
  <2>2. CASE /\ Goto("listen_dio", "idle")
             /\ Becomes([chip EXCEPT !.dio = "RxDone"])
             /\ steady' = TRUE
             /\ UNCHANGED <<hand, old_mode, tx_queue, rx_queue, tx_packets, queued, loaded>>
    <3>1. chip' \in Chip /\ irq' \in BOOLEAN /\ (Pin(chip') => irq' \/ torn)
      BY <1>0, <2>2, Registers, BecomesSafe DEF TypeOK, Flags
    <3>2. pc = "listen_dio" /\ pc' = "idle" /\ ~irq
      BY <2>2 DEF Goto
    <3>3. NoStuckInterrupt' /\ CutInv'
      BY <1>0, <2>0, <3>1, <3>2 DEF NoStuckInterrupt, CutInv, Pin
    <3> QED
      BY <1>0, <2>0, <2>2, <3>1, <3>2, <3>3, PacketsKept DEF IInv, TypeOK, HandInv, Points
  <2> QED
    BY <1>11, <2>1, <2>2 DEF rfm9x_listen
<1>12. CASE QueuePacket
  <2>1. /\ queued < MaxPackets /\ Len(tx_queue) < TxQueueSize
        /\ queued' = queued + 1
        /\ tx_queue' = Append(tx_queue, queued + 1)
        /\ UNCHANGED <<chip, irq, task, rx_queue, tx_packets, loaded, cutting>>
    BY <1>12 DEF QueuePacket
  <2>2. /\ tx_queue \in Seq(Nat) /\ queued \in Nat /\ queued + 1 \in Nat
        /\ Len(loaded) \in Nat /\ Len(tx_queue) \in Nat
    BY <1>0 DEF TypeOK
  <2>3. /\ Range(tx_queue') = Range(tx_queue) \cup {queued + 1}
        /\ tx_queue' \in Seq(Nat) /\ Len(tx_queue') = Len(tx_queue) + 1
    BY <2>1, <2>2, RangeFacts
  <2>4. TypeOK'
    <3>1. Len(tx_queue') <= TxQueueSize /\ queued' \in 0..MaxPackets
      BY <2>1, <2>2, <2>3, QueueSizesAssumption, MaxPacketsAssumption
    <3> QED
      BY <1>0, <2>1, <2>3, <3>1 DEF TypeOK
  <2>5. HandInv' /\ CutInv' /\ NoStuckInterrupt'
    BY <1>0, <2>1 DEF HandInv, CutInv, NoStuckInterrupt
  <2>6. 1..queued' = 1..queued \cup {queued + 1}
    BY <2>1, <2>2
  <2>7. Range(loaded) \cup Range(tx_queue') \cup ({hand} \ {NoPacket}) = 1..queued'
    BY <1>0, <2>3, <2>6 DEF EachLoadedOnce
  <2>8. InHand \in Nat /\ InHand' = InHand
    BY <2>1 DEF InHand
  <2>9. Len(loaded) + Len(tx_queue') + InHand = queued'
    <3>1. Len(loaded) + Len(tx_queue) + InHand = queued
      BY <1>0 DEF EachLoadedOnce
    <3>2. Len(tx_queue') = Len(tx_queue) + 1 /\ queued' = queued + 1
      BY <2>1, <2>3
    <3> QED
      BY <2>2, <2>8, <3>1, <3>2
  <2>10. EachLoadedOnce'
    BY <1>0, <2>1, <2>7, <2>8, <2>9 DEF EachLoadedOnce, Range
  <2> QED
    BY <2>4, <2>5, <2>10 DEF IInv
<1>13. CASE TakePacket
  <2>1. /\ rx_queue > 0 /\ rx_queue' = rx_queue - 1
        /\ UNCHANGED <<chip, irq, task, tx_queue, tx_packets, queued, loaded, cutting>>
    BY <1>13 DEF TakePacket
  <2>2. rx_queue' \in 0..RxQueueSize
    BY <1>0, <2>1, QueueSizesAssumption DEF TypeOK
  <2> QED
    BY <1>0, <2>1, <2>2, PacketsKept DEF IInv, TypeOK, HandInv, CutInv, NoStuckInterrupt
<1>14. CASE UNCHANGED vars
  BY <1>0, <1>14, PacketsKept DEF vars, IInv, TypeOK, HandInv, CutInv, NoStuckInterrupt
<1>15. CASE CutTransfer
  BY <1>15, CutStep
<1> QED
  BY <1>1, <1>2, <1>3, <1>4, <1>5, <1>6, <1>7, <1>8, <1>9, <1>10, <1>11, <1>12,
     <1>13, <1>14, <1>15 DEF Next, Dispatch

(* The invariant holds throughout.                                         *)
LEMMA Invariance == Spec => []IInv
  BY InitIInv, Step, PTL DEF Spec

(* The radio's state has its type, and neither queue exceeds its size.     *)
THEOREM TypeCorrect == Spec => []TypeOK
<1>1. IInv => TypeOK
  BY DEF IInv
<1> QED
  BY Invariance, <1>1, PTL

(* DIO0 is never high without an interrupt pending: wherever the handlers  *)
(* interrupt radio_task_dispatch, the radio does not go deaf.              *)
THEOREM InterruptNeverStuck == Spec => []NoStuckInterrupt
<1>1. IInv => NoStuckInterrupt
  BY DEF IInv
<1> QED
  BY Invariance, <1>1, PTL

(* The two callers of tx_done never load one packet twice and never drop   *)
(* one between the queue and the FIFO.                                     *)
THEOREM PacketsLoadedOnce == Spec => []EachLoadedOnce
<1>1. IInv => EachLoadedOnce
  BY DEF IInv
<1> QED
  BY Invariance, <1>1, PTL

=============================================================================
