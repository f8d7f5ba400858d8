----------------------------- MODULE PayloadLink -----------------------------
(***************************************************************************)
(* The serial line between the flight computer and the payload, a          *)
(* Raspberry Pi: payload_uart.c on one side, serial_packet_handler.py on   *)
(* the other, the payload task's retries above the one and the payload's   *)
(* command loop above the other.                                           *)
(*                                                                         *)
(* A packet is written as sync bytes, start byte, header and body, each    *)
(* part but the start byte waiting for an ACK byte.  Nothing marks which   *)
(* ACK answers what, and nobody empties a receive queue: bytes that arrive *)
(* after their reader has given up are found by the next reader.  Either   *)
(* side may take any time before it reads; a read times out when nothing   *)
(* is there.                                                               *)
(*                                                                         *)
(* A header and a body are one byte each.  They carry the number of the    *)
(* write they belong to, which only the history tells apart: the checksum  *)
(* of a header fits every body with the same packet, and no other.  A      *)
(* header made of other bytes has a length that is refused or waited for.  *)
(*                                                                         *)
(* payload_task_dispatch at present writes a ping and returns (line 303);  *)
(* the loop behind that return is modelled as well, as it is written.      *)
(* payload_turn_off, with its own packet, is like that ping.               *)
(***************************************************************************)
EXTENDS Naturals, Sequences, FiniteSets

CONSTANTS
  NCommands,     \* bound of the model: commands queued by command_parser.c
  SynCount,      \* SYN_COUNT (3)
  SynRetries,    \* SYN_RETRIES (3)
  StartTries,    \* START_TRIES (10); the payload makes one more
  MaxRetry,      \* MAX_PAYLOAD_RETRY_COUNT (3)
  QueueSize,     \* bytes in rpi_uart_queue (256)
  MaxWrites,     \* bound of the model: packets the flight computer writes
  MaxFaults      \* bound of the model: bytes lost or garbled on the line

ASSUME ProtocolAssumption ==
  {SynCount, SynRetries, StartTries, QueueSize} \subseteq Nat \ {0}
ASSUME BoundsAssumption == {NCommands, MaxRetry, MaxWrites, MaxFaults} \subseteq Nat

Ping == 0
Packets == {Ping} \cup 1..NCommands

Byte == [kind : {"syn", "ack", "start", "header", "body", "noise", "none"}, id : Nat]
Plain(kind) == [kind |-> kind, id |-> 0]
Syn == Plain("syn")
Ack == Plain("ack")
Start == Plain("start")
Noise == Plain("noise")
Timeout == Plain("none")
Header(w) == [kind |-> "header", id |-> w]
Body(w) == [kind |-> "body", id |-> w]

(* Where an endpoint is: writing a packet, reading one, or in its caller.  *)
Writing == {"syn_ack", "header_ack", "body_ack"}
Reading == {"sync", "start", "header", "body"}
Endpoint == [at : Writing \cup Reading \cup {"idle", "execute"},
             n : Nat,            \* tries or sync bytes counted
             id : Nat,           \* the write whose packet it sends or executes
             header : Byte]      \* the header it has read

VARIABLES
  end,           \* the flight computer "obc" and the payload "pi"
  wire,          \* bytes sent to each, not yet read
  call,          \* what the flight computer does: "execute", "ping", "test"
  commands,      \* slate->payload_command_data
  RETRY_COUNT,   \* static in payload_task.h
  faults,        \* faults so far
  \* History:
  begun,         \* the packets payload_uart_write_packet began to write
  executed,      \* the writes whose command the payload ran
  reported       \* the writes reported as SUCCESSFUL_WRITE

task == <<call, commands, RETRY_COUNT>>
vars == <<end, wire, task, faults, begun, executed, reported>>

(* An endpoint that has just come to a place.                              *)
At(place, w) == [at |-> place, n |-> 0, id |-> w, header |-> Timeout]
Idle == At("idle", 0)
ReadPacket == At("sync", 0)

Init ==
  /\ end = [x \in {"obc", "pi"} |-> IF x = "obc" THEN Idle ELSE ReadPacket]
  /\ wire = [x \in {"obc", "pi"} |-> <<>>]
  /\ call = "test"
  /\ commands = [k \in 1..NCommands |-> k]
  /\ RETRY_COUNT = 0
  /\ faults = 0
  /\ begun = <<>>
  /\ executed = <<>>
  /\ reported = {}

-----------------------------------------------------------------------------
(* Reading and sending bytes.                                              *)

Other(x) == IF x = "obc" THEN "pi" ELSE "obc"

(* What receive_into, or serial.read, of one byte finds.                   *)
Received(x) == IF wire[x] = <<>> THEN Timeout ELSE Head(wire[x])
Rest(x) == IF wire[x] = <<>> THEN <<>> ELSE Tail(wire[x])

(* Bytes arrive at x; uart_rx_callback drops what its queue cannot hold.   *)
Arriving(x, bytes) ==
  LET all == wire[x] \o bytes
  IN IF x = "obc" /\ Len(all) > QueueSize THEN SubSeq(all, 1, QueueSize) ELSE all

(* x reads a byte or times out, sends an answer and goes on as next.       *)
Step(x, answer, next) ==
  /\ end' = [end EXCEPT ![x] = next]
  /\ wire' = [wire EXCEPT ![x] = Rest(x), ![Other(x)] = Arriving(Other(x), answer)]

SynBytes == [i \in 1..SynCount |-> Syn]

-----------------------------------------------------------------------------
(* Writing a packet: payload_uart_write_packet and write_packet.           *)

WritePacket(w) == At("syn_ack", w)

(* Mutant: RETRY_COUNT is not increased.                                   *)
WrittenUncounted(ok) ==
  /\ \/ /\ call = "execute"
        /\ commands' = IF ok \/ RETRY_COUNT > MaxRetry THEN Tail(commands) ELSE commands
     \/ call # "execute" /\ UNCHANGED commands
  /\ reported' = IF ok THEN reported \cup {end["obc"].id} ELSE reported
  /\ UNCHANGED RETRY_COUNT

(* The caller of the flight computer's write: try_execute_payload_command  *)
(* and the count its result makes payload_task_dispatch keep, ping_command *)
(* and the bare write.                                                     *)
Written(ok) ==
  /\ \/ /\ call = "execute"
        /\ IF ok \/ RETRY_COUNT > MaxRetry
             THEN commands' = Tail(commands) /\ RETRY_COUNT' = 0
             ELSE RETRY_COUNT' = RETRY_COUNT + 1 /\ UNCHANGED commands
     \/ call # "execute" /\ UNCHANGED <<commands, RETRY_COUNT>>
  /\ reported' = IF ok THEN reported \cup {end["obc"].id} ELSE reported

(* The payload ignores the result and waits for the next command; a ping   *)
(* that was written is followed by reading the answer.                     *)
AfterWrite(x, ok) ==
  IF x = "pi" \/ (ok /\ call = "ping") THEN ReadPacket ELSE Idle

WriteReturns(x, ok) ==
  /\ Step(x, <<>>, AfterWrite(x, ok))
  /\ IF x = "obc" THEN Written(ok) ELSE UNCHANGED <<commands, RETRY_COUNT, reported>>

WriteGoesOn(x, bytes, next) ==
  /\ Step(x, bytes, next)
  /\ UNCHANGED <<commands, RETRY_COUNT, reported>>

(* Left out: UART_WRITE_TIMEDOUT (payload_uart.c:342-346).  The eight      *)
(* bytes of a header fit in the UART's FIFO and need none of the 10 ms.    *)
AwaitSynAck(x) ==
  LET e == end[x]
      acked == Received(x) = Ack
  IN /\ e.at = "syn_ack"
     /\ \/ /\ acked
           /\ WriteGoesOn(x, <<Start, Header(e.id)>>, [e EXCEPT !.at = "header_ack"])
        \/ /\ ~acked /\ e.n + 1 < SynRetries
           /\ WriteGoesOn(x, SynBytes, [e EXCEPT !.n = @ + 1])
        \/ /\ ~acked /\ e.n + 1 = SynRetries
           /\ WriteReturns(x, FALSE)

(* uart_write_timeout gives up on a body that takes more than 10 ms, which *)
(* is about 115 bytes, and nobody looks at its result.                     *)
Sent(x) == IF x = "obc" THEN {<<Body(end[x].id)>>, <<>>} ELSE {<<Body(end[x].id)>>}

AwaitHeaderAck(x) ==
  /\ end[x].at = "header_ack"
  /\ \/ /\ Received(x) = Ack
        /\ \E body \in Sent(x) : WriteGoesOn(x, body, [end[x] EXCEPT !.at = "body_ack"])
     \/ /\ Received(x) # Ack
        /\ WriteReturns(x, FALSE)

AwaitBodyAck(x) ==
  /\ end[x].at = "body_ack"
  /\ WriteReturns(x, Received(x) = Ack)

Write(x) ==
  /\ AwaitSynAck(x) \/ AwaitHeaderAck(x) \/ AwaitBodyAck(x)
  /\ UNCHANGED <<call, faults, begun, executed>>

-----------------------------------------------------------------------------
(* Reading a packet: payload_uart_read_packet and read_packet.             *)

(* What reading returns to: the flight computer's ping_command, or the     *)
(* payload's loop, which reads again.                                      *)
GiveUp(x) == IF x = "obc" THEN Idle ELSE ReadPacket

(* Mutant: receive_syn waits for sync bytes without a time-out.            *)
AwaitSyncForever(x) ==
  LET e == end[x]
      b == Received(x)
  IN /\ e.at = "sync"
     /\ \/ b = Syn /\ e.n + 1 < SynCount /\ Step(x, <<>>, [e EXCEPT !.n = @ + 1])
        \/ b = Syn /\ e.n + 1 >= SynCount /\ Step(x, <<Ack>>, [e EXCEPT !.at = "start", !.n = 0])
        \/ b # Syn /\ Step(x, <<>>, e)

(* receive_syn keeps its count over other bytes, _wait_for_sync starts     *)
(* again.                                                                  *)
AwaitSync(x) ==
  LET e == end[x]
      b == Received(x)
  IN /\ e.at = "sync"
     /\ \/ b = Syn /\ e.n + 1 < SynCount /\ Step(x, <<>>, [e EXCEPT !.n = @ + 1])
        \/ b = Syn /\ e.n + 1 >= SynCount /\ Step(x, <<Ack>>, [e EXCEPT !.at = "start", !.n = 0])
        \/ b \notin {Syn, Timeout} /\ Step(x, <<>>, IF x = "obc" THEN e ELSE ReadPacket)
        \/ b = Timeout /\ Step(x, <<>>, GiveUp(x))

(* A time-out ends receive_header_start and counts as a wrong byte in      *)
(* read_packet.                                                            *)
AwaitStart(x) ==
  LET e == end[x]
      b == Received(x)
      tries == IF x = "obc" THEN StartTries ELSE StartTries + 1
      last == e.n + 1 = tries \/ (x = "obc" /\ b = Timeout)
  IN /\ e.at = "start"
     /\ Step(x, <<>>, IF b = Start THEN [e EXCEPT !.at = "header"]
                      ELSE IF last THEN GiveUp(x) ELSE [e EXCEPT !.n = @ + 1])

(* A header that is none may have a length that is refused: after the ACK  *)
(* in payload_uart.c, instead of it in read_packet.                        *)
AwaitHeader(x) ==
  LET b == Received(x)
  IN /\ end[x].at = "header"
     /\ \/ b = Timeout /\ Step(x, <<>>, GiveUp(x))
        \/ b # Timeout /\ Step(x, <<Ack>>, [end[x] EXCEPT !.at = "body", !.header = b])
        \/ b.kind \notin {"none", "header"}
             /\ Step(x, IF x = "obc" THEN <<Ack>> ELSE <<>>, GiveUp(x))

ChecksumFits(header, body) ==
  header.kind = "header" /\ body.kind = "body" /\ begun[header.id] = begun[body.id]

(* Mutant: the checksum is not verified.                                   *)
AwaitBodyUnchecked(x) ==
  LET e == end[x]
      b == Received(x)
      accepted == IF x = "obc" THEN Idle ELSE At("execute", b.id)
  IN /\ e.at = "body"
     /\ Step(x, IF b # Timeout THEN <<Ack>> ELSE <<>>,
                IF b # Timeout THEN accepted ELSE GiveUp(x))

AwaitBody(x) ==
  LET e == end[x]
      b == Received(x)
      accepted == IF x = "obc" THEN Idle ELSE At("execute", b.id)
  IN /\ e.at = "body"
     /\ \/ ChecksumFits(e.header, b) /\ Step(x, <<Ack>>, accepted)
        \/ ~ChecksumFits(e.header, b) /\ Step(x, <<>>, GiveUp(x))

Read(x) ==
  /\ AwaitSync(x) \/ AwaitStart(x) \/ AwaitHeader(x) \/ AwaitBody(x)
  /\ UNCHANGED <<task, faults, begun, executed, reported>>

-----------------------------------------------------------------------------
(* The programs above.                                                     *)

BeginWrite(k) ==
  /\ end["obc"].at = "idle"
  /\ Len(begun) < MaxWrites
  /\ end' = [end EXCEPT !["obc"] = WritePacket(Len(begun) + 1)]
  /\ wire' = [wire EXCEPT !["pi"] = Arriving("pi", SynBytes)]
  /\ begun' = Append(begun, k)
  /\ UNCHANGED <<commands, RETRY_COUNT, faults, executed, reported>>

try_execute_payload_command ==
  /\ commands # <<>>
  /\ call' = "execute"
  /\ BeginWrite(Head(commands))

ping_command == call' = "ping" /\ BeginWrite(Ping)
payload_uart_write_on_test == call' = "test" /\ BeginWrite(Ping)

(* The payload runs the command and begins to write the result.            *)
DispatchCommand ==
  /\ end["pi"].at = "execute"
  /\ executed' = Append(executed, end["pi"].id)
  /\ end' = [end EXCEPT !["pi"] = WritePacket(end["pi"].id)]
  /\ wire' = [wire EXCEPT !["obc"] = Arriving("obc", SynBytes)]
  /\ UNCHANGED <<task, faults, begun, reported>>

(* The next byte on its way to x is lost or garbled.                       *)
Fault(x) ==
  /\ faults < MaxFaults
  /\ wire[x] # <<>>
  /\ \E rest \in {Tail(wire[x]), <<Noise>> \o Tail(wire[x])} : wire' = [wire EXCEPT ![x] = rest]
  /\ faults' = faults + 1
  /\ UNCHANGED <<end, task, begun, executed, reported>>

Obc == Write("obc") \/ Read("obc")
Pi == Write("pi") \/ Read("pi") \/ DispatchCommand
Task == try_execute_payload_command \/ ping_command \/ payload_uart_write_on_test

Next == Obc \/ Pi \/ Task \/ Fault("obc") \/ Fault("pi")

(* Both sides keep reading: bytes come or their time-outs expire.          *)
Fairness == WF_vars(Obc) /\ WF_vars(Pi)

Spec == Init /\ [][Next]_vars
FairSpec == Spec /\ Fairness

-----------------------------------------------------------------------------
(* Properties.                                                             *)

(* The endpoints and the line have their types, and the receive queue its  *)
(* bound.                                                                  *)
TypeOK ==
  /\ end \in [{"obc", "pi"} -> Endpoint]
  /\ wire \in [{"obc", "pi"} -> Seq(Byte)]
  /\ Len(wire["obc"]) <= QueueSize
  /\ call \in {"execute", "ping", "test"}
  /\ commands \in Seq(1..NCommands)
  /\ RETRY_COUNT \in Nat
  /\ faults \in 0..MaxFaults
  /\ begun \in Seq(Packets)
  /\ executed \in Seq(Nat)
  /\ reported \subseteq Nat

(* Whatever the time-outs, stale ACKs and repeated syncs: the payload runs *)
(* what was written, in that order, and each write at most once.           *)
ExecutedAsWritten ==
  /\ \A i \in DOMAIN executed : executed[i] \in DOMAIN begun
  /\ \A i, j \in DOMAIN executed : i < j => executed[i] < executed[j]

(* The writes of a packet.                                                 *)
Attempts(k) == {i \in DOMAIN begun : begun[i] = k}

(* No command is written more often than its retries allow, and so none    *)
(* runs more often.                                                        *)
AttemptsBounded == \A k \in 1..NCommands : Cardinality(Attempts(k)) <= MaxRetry + 2

(* Every write and every reading of an answer ends: the payload cannot     *)
(* hold up the flight computer's scheduler.                                *)
ObcReturns == []<>(end["obc"].at = "idle")

(* payload_task.c: "removeFromQueue is true if we succesfully sent the     *)
(* packet to the payload".  What is reported as written has been run, is   *)
(* about to be run, or is at least still on the line.                      *)
WrittenIsReceived ==
  \A w \in reported :
    \/ \E i \in DOMAIN executed : begun[executed[i]] = begun[w]
    \/ end["pi"].at = "execute" /\ begun[end["pi"].id] = begun[w]
    \/ \E i \in DOMAIN wire["pi"] : wire["pi"][i] = Body(w)
=============================================================================
