----------------------------- MODULE FileTransfer -----------------------------
(***************************************************************************)
(* A file transfer between the payload and its peer:                       *)
(* SerialFileTransfer.send_file on one side, receive_file on the other.    *)
(*                                                                         *)
(* The packets go over SerialPacketHandler (PayloadLink).  Here a packet   *)
(* either arrives while the other side is reading, or does not; nobody     *)
(* looks at what write_packet returns, so a lost acknowledgement makes no  *)
(* difference.  A reader may time out at any moment, whatever the reason.  *)
(*                                                                         *)
(* The file has `packets` packets; `short` says that the last one is not   *)
(* full.  What a packet holds is left out, except that the bytes of one    *)
(* that is no number are, read as a number, greater than any file, and     *)
(* that no data is one of the two command strings.                         *)
(***************************************************************************)
EXTENDS Naturals

CONSTANTS
  GROUP_SIZE,         \* packets before the sender asks (32)
  MAX_ACK_RETRIES,    \* times it asks (3)
  MAX_RESEND_CYCLES,  \* times it resends what is missing (3)
  MAX_BAD_PACKETS,    \* bad packets in a row before the receiver stops (3)
  MaxPackets          \* bound of the model: packets of a file

ASSUME ProtocolAssumption ==
  {GROUP_SIZE, MAX_ACK_RETRIES, MAX_RESEND_CYCLES, MAX_BAD_PACKETS} \subseteq Nat \ {0}
ASSUME MaxPacketsAssumption == MaxPackets \in Nat

(* What the bytes of a packet are as a number of packets.                  *)
Huge == MaxPackets + 2 * GROUP_SIZE

Upto(a, b) == IF a <= b THEN a ELSE b

Sender == [at : {"num", "data", "ask", "answer", "resend", "abort",
                 "success", "failure", "exception"},
           seq : Nat,                        \* the next packet of the file
           final : BOOLEAN,                  \* asking for the last time
           cycle : 0..MAX_RESEND_CYCLES - 1,
           tries : 0..MAX_ACK_RETRIES - 1,
           resend : SUBSET Nat]              \* the answer, less what was resent
Receiver == [at : {"num", "receive", "answer", "complete", "failure", "exception"},
             num_packets : Nat,
             missing_packets : SUBSET Nat,
             group_start : Nat,
             bad : 0..MAX_BAD_PACKETS - 1,   \* consecutive_bad_packets
             last : BOOLEAN]                 \* received_last_packet

VARIABLES packets, short, sender, receiver,
          written       \* the packets written to the receiver's file

transferVars == <<packets, short, sender, receiver, written>>

TransferInit ==
  /\ packets \in 0..MaxPackets
  /\ short \in BOOLEAN /\ (packets = 0 => ~short)
  /\ sender = [at |-> "num", seq |-> 0, final |-> FALSE, cycle |-> 0, tries |-> 0, resend |-> {}]
  /\ receiver = [at |-> "num", num_packets |-> 0, missing_packets |-> {}, group_start |-> 0,
                 bad |-> 0, last |-> FALSE]
  /\ written = {}

-----------------------------------------------------------------------------
(* receive_file.                                                           *)

Group(start, n) == start..(Upto(start + GROUP_SIZE, n) - 1)

(* An empty group has no first packet to log: IndexError.                  *)
BeginGroup(r, start) ==
  LET group == Group(start, r.num_packets)
  IN [r EXCEPT !.at = IF group = {} THEN "exception" ELSE "receive",
               !.group_start = start, !.missing_packets = group]

ReceiveNumber(n) ==
  /\ receiver.at = "num"
  /\ receiver' = BeginGroup([receiver EXCEPT !.num_packets = n], 0)
  /\ UNCHANGED written

(* A good packet; the commands carry sequence number 0.                    *)
Good(seq_num) ==
  [receiver EXCEPT !.bad = 0, !.missing_packets = @ \ {seq_num}]

(* Mutant: the last packet is never recognised.                            *)
ReceiveDataUnflagged(q) ==
  /\ receiver.at = "receive"
  /\ receiver' = [Good(q) EXCEPT !.last = @ \/ q = receiver.num_packets]
  /\ written' = written \cup {q}

ReceiveData(q) ==
  /\ receiver.at = "receive"
  /\ receiver' = [Good(q) EXCEPT !.last = @ \/ q = receiver.num_packets - 1]
  /\ written' = written \cup {q}

ReceiveSendAck ==
  /\ receiver.at = "receive"
  /\ receiver' = [Good(0) EXCEPT !.at = "answer"]
  /\ UNCHANGED written

ReceiveAbort ==
  /\ receiver.at = "receive"
  /\ receiver' = [Good(0) EXCEPT !.at = "failure"]
  /\ UNCHANGED written

(* Having answered, the receiver goes on, heard or not.                    *)
Answered ==
  IF receiver.missing_packets # {} THEN [receiver EXCEPT !.at = "receive"]
  ELSE IF receiver.last THEN [receiver EXCEPT !.at = "complete"]
  ELSE BeginGroup(receiver, receiver.group_start + GROUP_SIZE)

(* Mutant: bad packets are not counted.                                    *)
BadPacketUncounted ==
  /\ receiver.at \in {"num", "receive"}
  /\ receiver' = IF receiver.at = "num" THEN [receiver EXCEPT !.at = "failure"] ELSE receiver
  /\ UNCHANGED <<packets, short, sender, written>>

(* read_packet returns None.                                               *)
BadPacket ==
  /\ receiver.at \in {"num", "receive"}
  /\ receiver' = IF receiver.at = "num" \/ receiver.bad + 1 = MAX_BAD_PACKETS
                   THEN [receiver EXCEPT !.at = "failure"]
                   ELSE [receiver EXCEPT !.bad = @ + 1]
  /\ UNCHANGED <<packets, short, sender, written>>

-----------------------------------------------------------------------------
(* send_file.                                                              *)

(* A packet arrives where it can be read, or nothing arrives.              *)
Deliver(arrives) == arrives \/ UNCHANGED <<receiver, written>>

(* A packet that is no number, to a receiver that waits for the number.    *)
DeliverOther(arrives) == Deliver(arrives \/ ReceiveNumber(Huge))

Ask(s, final) == [s EXCEPT !.at = "ask", !.final = final, !.cycle = 0, !.tries = 0]

(* On to packet n, or to the last call of _send_missing_packets.           *)
Continue(s, n) ==
  IF n < packets THEN [s EXCEPT !.at = "data", !.seq = n]
                 ELSE Ask([s EXCEPT !.seq = n], TRUE)

SendNumber ==
  /\ sender.at = "num"
  /\ Deliver(ReceiveNumber(packets))
  /\ sender' = Continue(sender, 0)

IsShort(q) == short /\ q = packets - 1

SendData ==
  LET n == sender.seq + 1
  IN /\ sender.at = "data"
     /\ DeliverOther(ReceiveData(sender.seq))
     /\ sender' = IF ~IsShort(sender.seq) /\ n % GROUP_SIZE = 0
                    THEN Ask([sender EXCEPT !.seq = n], FALSE)
                    ELSE Continue(sender, n)

(* _request_missing_packets.                                               *)
SendAck ==
  /\ sender.at = "ask"
  /\ DeliverOther(ReceiveSendAck)
  /\ sender' = [sender EXCEPT !.at = "answer"]

NoAnswer ==
  /\ sender.at = "answer"
  /\ sender' = IF sender.tries + 1 = MAX_ACK_RETRIES
                 THEN [sender EXCEPT !.at = "abort"]
                 ELSE [sender EXCEPT !.at = "ask", !.tries = @ + 1]
  /\ UNCHANGED <<receiver, written>>

(* _send_missing_packets has its answer.                                   *)
Hears(missing) ==
  IF missing # {} THEN [sender EXCEPT !.at = "resend", !.resend = missing]
  ELSE IF sender.final THEN [sender EXCEPT !.at = "success"]
  ELSE Continue(sender, sender.seq)

(* Mutant: what was resent is not asked for again.                         *)
ResentUnasked ==
  IF sender.final THEN [sender EXCEPT !.at = "success"] ELSE Continue(sender, sender.seq)

(* All was resent: one cycle is over.                                      *)
Resent ==
  IF sender.cycle + 1 = MAX_RESEND_CYCLES
    THEN [sender EXCEPT !.at = "abort", !.resend = {}]
    ELSE [sender EXCEPT !.at = "ask", !.cycle = @ + 1, !.tries = 0, !.resend = {}]

(* A packet that is not full does not fit the view it is assigned to:      *)
(* ValueError.                                                             *)
Resend ==
  \E q \in sender.resend :
    LET rest == sender.resend \ {q}
    IN /\ sender.at = "resend"
       /\ \A m \in rest : q < m
       /\ \/ /\ IsShort(q) \/ q >= packets
             /\ sender' = [sender EXCEPT !.at = "exception"]
             /\ UNCHANGED <<receiver, written>>
          \/ /\ ~IsShort(q) /\ q < packets
             /\ DeliverOther(ReceiveData(q))
             /\ sender' = IF rest = {} THEN Resent ELSE [sender EXCEPT !.resend = rest]

SendAbort ==
  /\ sender.at = "abort"
  /\ DeliverOther(ReceiveAbort)
  /\ sender' = [sender EXCEPT !.at = "failure"]

(* The receiver answers; the sender hears it if it still listens.          *)
SendMissing ==
  /\ receiver.at = "answer"
  /\ receiver' = Answered
  /\ \/ sender.at = "answer" /\ sender' = Hears(receiver.missing_packets)
     \/ UNCHANGED sender
  /\ UNCHANGED <<packets, short, written>>

-----------------------------------------------------------------------------
send_file ==
  /\ SendNumber \/ SendData \/ SendAck \/ NoAnswer \/ Resend \/ SendAbort
  /\ UNCHANGED <<packets, short>>
receive_file == BadPacket \/ SendMissing

TransferNext == send_file \/ receive_file

TransferSpec == TransferInit /\ [][TransferNext]_transferVars

(* Both programs run, and their reads time out.                            *)
FairSpec == TransferSpec /\ WF_transferVars(send_file) /\ WF_transferVars(receive_file)

-----------------------------------------------------------------------------
(* Properties.                                                             *)

(* Both sides have their types; no count passes its limit.                 *)
TransferTypeOK ==
  /\ packets \in 0..MaxPackets
  /\ short \in BOOLEAN
  /\ sender \in Sender
  /\ receiver \in Receiver
  /\ written \subseteq Nat

(* "File transfer is COMPLETE!" of the receiver, and "completed            *)
(* successfully!" of the sender, hold for all packets but the first: a     *)
(* lost answer makes the receiver run a group ahead, never behind.  As     *)
(* everywhere here, data taken for the number exceeds any file: with a     *)
(* first packet of zeros and a small number at its end, the receiver would *)
(* expect too few packets.                                                 *)
OnlyFirstMayBeMissing ==
  receiver.at = "complete" \/ sender.at = "success" => 1..(packets - 1) \subseteq written

(* The receiver runs past its last group only when that group held packet  *)
(* 0 alone, or nothing.  This rests on the same assumption on data         *)
(* (serial_file_transfer.py:65): of a larger file whose number is lost and *)
(* whose first packet is all zeros, the receiver expects no packet, and    *)
(* line 71 raises IndexError.                                              *)
RaisesOnlyOnTinyFiles == receiver.at = "exception" => packets <= 1

(* Both sides come to an end, whatever is lost.                            *)
Ends ==
  <>(/\ sender.at \in {"success", "failure", "exception"}
     /\ receiver.at \in {"complete", "failure", "exception"})

(* serial_file_transfer.py:113: "File transfer is COMPLETE!"               *)
CompleteMeansWhole == receiver.at = "complete" => 0..(packets - 1) \subseteq written
=============================================================================
