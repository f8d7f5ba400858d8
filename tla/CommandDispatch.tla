--------------------------- MODULE CommandDispatch ---------------------------
(***************************************************************************)
(* What becomes of an authenticated command: dispatch_command              *)
(* (command_parser.c) on one side, and on the other the payload task, with *)
(* its heartbeat and its retries, that takes commands from the queue       *)
(* between them.  The answer to a PING shares the radio's queue with the   *)
(* beacons.                                                                *)
(*                                                                         *)
(* A unit of time is the payload task's period, one second.  A pass of the *)
(* scheduler that processes a command takes none of it, since ten such     *)
(* passes fit in; the answers of the payload take what they take.  The     *)
(* handshake is PayloadLink's, here it is written or not.  The loop of     *)
(* payload_task_dispatch is modelled as it stands behind the return of     *)
(* line 303.                                                               *)
(***************************************************************************)
EXTENDS Integers, Sequences

CONSTANTS
  Capacity,         \* PAYLOAD_DATA_CAPACITY (32)
  TxQueueSize,      \* TX_QUEUE_SIZE
  SeqMod,           \* seq_num is uint16_t
  CountMod,         \* number_commands_processed is uint8_t
  PerDispatch,      \* MAX_PAYLOAD_COMMANDS_PER_DISPATCH (3)
  MaxRetry,         \* MAX_PAYLOAD_RETRY_COUNT (3)
  Timeout,          \* PAYLOAD_HEARTBEAT_TIMEOUT_MS (10 units)
  PingTimes,        \* what a ping may take
  WriteTimes,       \* what payload_uart_write_packet may take
  AwayTimes,        \* what a visit to the burn wire state may take
  MaxCommands       \* bound of the model: commands from the ground

ASSUME CapacityAssumption ==
  {Capacity, TxQueueSize, SeqMod, CountMod, PerDispatch, Timeout} \subseteq Nat \ {0}
ASSUME RetryAssumption == MaxRetry \in Nat /\ MaxCommands \in Nat
ASSUME TimesAssumption == PingTimes \cup WriteTimes \cup AwayTimes \subseteq Nat

VARIABLES
  at,                         \* where sched_dispatch is
  current_state_id, manual_override_state_id,
  number_commands_processed,
  curr_command_seq_num,
  payload_command_data,       \* the queue, of numbers and sequence numbers
  tx_queue,                   \* counts that answer a PING, and beacons
  is_payload_on,
  age,                        \* time since payload_most_recent_ping_time, at most Timeout
  k,                          \* commands tried in this dispatch
  RETRY_COUNT,
  \* History:
  dispatched,                 \* commands from the ground
  written,                    \* the numbers of commands written to the payload
  answering                   \* whether the payload answered the last time

command == <<number_commands_processed, curr_command_seq_num, manual_override_state_id,
             dispatched>>
payload == <<is_payload_on, age, answering>>
task == <<payload_command_data, k, RETRY_COUNT, written>>
dispatchVars == <<at, current_state_id, command, tx_queue, payload, task>>

States == {"RUNNING", "INIT", "BURN_WIRE", "BURN_WIRE_RESET"}
Beacon == -1

DispatchInit ==
  /\ at = "tasks"
  /\ current_state_id = "RUNNING"
  /\ manual_override_state_id = "NONE"
  /\ number_commands_processed = 0
  /\ curr_command_seq_num = 0
  /\ payload_command_data = <<>>
  /\ tx_queue = <<>>
  /\ is_payload_on = FALSE
  /\ age = 0
  /\ k = 0
  /\ RETRY_COUNT = 0
  /\ dispatched = 0
  /\ written = <<>>
  /\ answering = FALSE

-----------------------------------------------------------------------------
(* tx_queue, which radio and beacon share.                                 *)

Send(x) == tx_queue' = IF Len(tx_queue) < TxQueueSize THEN Append(tx_queue, x) ELSE tx_queue

beacon_task_dispatch ==
  /\ at = "tasks" /\ current_state_id = "RUNNING"
  /\ Send(Beacon)
  /\ UNCHANGED <<at, current_state_id, command, payload, task>>

tx_done ==
  /\ tx_queue # <<>>
  /\ tx_queue' = Tail(tx_queue)
  /\ UNCHANGED <<at, current_state_id, command, payload, task>>

-----------------------------------------------------------------------------
(* dispatch_command.                                                       *)

(* Time, as far as the heartbeat tells it apart.                           *)
Aged(d) == IF age + d < Timeout THEN age + d ELSE Timeout

payload_turn_on == is_payload_on' = TRUE /\ age' = 0 /\ answering' = FALSE

(* The shutdown packet is written, however that ends.                      *)
payload_turn_off == is_payload_on' = FALSE /\ UNCHANGED <<age, answering>>

(* Every command that is authenticated counts, the unknown ones too.       *)
Processed ==
  /\ at = "tasks" /\ current_state_id = "RUNNING"
  /\ dispatched < MaxCommands
  /\ dispatched' = dispatched + 1
  /\ number_commands_processed' = (number_commands_processed + 1) % CountMod
  /\ at' = "transition"
  /\ UNCHANGED current_state_id

(* Mutant: the number counts what waits.                                   *)
NumberOfWaiting == Len(payload_command_data)
SeqNum == curr_command_seq_num % SeqMod

(* Mutant: the queue has no bound.                                         *)
AddAlways(cmd) == payload_command_data' = Append(payload_command_data, cmd)

(* Mutant: a full queue loses its oldest command.                          *)
AddDropOldest(cmd) ==
  payload_command_data' =
    Append(IF Len(payload_command_data) < Capacity THEN payload_command_data
           ELSE Tail(payload_command_data), cmd)

(* queue_try_add, whose result nobody looks at.                            *)
Add(cmd) ==
  payload_command_data' =
    IF Len(payload_command_data) < Capacity THEN Append(payload_command_data, cmd)
    ELSE payload_command_data

PAYLOAD_EXEC ==
  /\ Processed
  /\ curr_command_seq_num' = curr_command_seq_num + 1
  /\ Add([number |-> curr_command_seq_num, seq_num |-> SeqNum])
  /\ UNCHANGED <<manual_override_state_id, tx_queue, payload, k, RETRY_COUNT, written>>

PING ==
  /\ Processed
  /\ Send(number_commands_processed')
  /\ UNCHANGED <<curr_command_seq_num, manual_override_state_id, payload, task>>

PAYLOAD_TURN_ON ==
  /\ Processed
  /\ payload_turn_on
  /\ UNCHANGED <<curr_command_seq_num, manual_override_state_id, tx_queue, task>>

PAYLOAD_TURN_OFF ==
  /\ Processed
  /\ payload_turn_off
  /\ UNCHANGED <<curr_command_seq_num, manual_override_state_id, tx_queue, task>>

MANUAL_STATE_OVERRIDE ==
  /\ Processed
  /\ manual_override_state_id' \in States \cup {"NONE"}
  /\ UNCHANGED <<curr_command_seq_num, tx_queue, payload, task>>

(* ADCS_EXEC and unknown commands.                                         *)
OtherCommand ==
  /\ Processed
  /\ UNCHANGED <<curr_command_seq_num, manual_override_state_id, tx_queue, payload, task>>

-----------------------------------------------------------------------------
(* payload_task_dispatch.                                                  *)

PayloadPass == at = "tasks" /\ current_state_id = "RUNNING"

PayloadOff ==
  /\ PayloadPass /\ ~is_payload_on
  /\ at' = "tick"
  /\ UNCHANGED <<current_state_id, command, tx_queue, payload, task>>

(* send_heartbeat, when the last answer is too old: off, and on.           *)
payload_restart ==
  /\ PayloadPass /\ is_payload_on /\ age >= Timeout
  /\ payload_turn_on
  /\ at' = "tick"
  /\ UNCHANGED <<current_state_id, command, tx_queue, task>>

(* Mutant: the time is renewed by the ping, answered or not.               *)
ping_renews ==
  /\ PayloadPass /\ is_payload_on /\ age < Timeout
  /\ age' = 0
  /\ \/ /\ answering' = TRUE
        /\ at' = "commands" /\ k' = 0
     \/ /\ answering' = FALSE
        /\ at' = "tick" /\ UNCHANGED k
  /\ UNCHANGED <<current_state_id, command, tx_queue, is_payload_on, payload_command_data,
                 RETRY_COUNT, written>>

ping_command ==
  /\ PayloadPass /\ is_payload_on /\ age < Timeout
  /\ \/ /\ age' = 0 /\ answering' = TRUE
        /\ at' = "commands" /\ k' = 0
     \/ /\ \E d \in PingTimes : age' = Aged(d)
        /\ answering' = FALSE
        /\ at' = "tick" /\ UNCHANGED k
  /\ UNCHANGED <<current_state_id, command, tx_queue, is_payload_on, payload_command_data,
                 RETRY_COUNT, written>>

NextCommand ==
  /\ k' = (k + 1) % PerDispatch
  /\ at' = IF k' = 0 THEN "tick" ELSE "commands"

NoCommand ==
  /\ at = "commands" /\ payload_command_data = <<>>
  /\ RETRY_COUNT' = 0
  /\ NextCommand
  /\ UNCHANGED <<current_state_id, command, tx_queue, payload, payload_command_data, written>>

CommandWritten ==
  /\ at = "commands" /\ payload_command_data # <<>>
  /\ \E d \in WriteTimes : age' = Aged(d)
  /\ written' = Append(written, Head(payload_command_data).number)
  /\ payload_command_data' = Tail(payload_command_data)
  /\ RETRY_COUNT' = 0
  /\ answering' = TRUE
  /\ NextCommand
  /\ UNCHANGED <<current_state_id, command, tx_queue, is_payload_on>>

(* Mutant: a command that fails is tried for ever.                         *)
RetryForever ==
  /\ at = "commands" /\ payload_command_data # <<>>
  /\ \E d \in WriteTimes : age' = Aged(d)
  /\ answering' = FALSE
  /\ at' = "tick"
  /\ UNCHANGED <<RETRY_COUNT, payload_command_data, k>>
  /\ UNCHANGED <<current_state_id, command, tx_queue, is_payload_on, written>>

CommandFails ==
  /\ at = "commands" /\ payload_command_data # <<>>
  /\ \E d \in WriteTimes : age' = Aged(d)
  /\ answering' = FALSE
  /\ IF RETRY_COUNT > MaxRetry
     THEN /\ payload_command_data' = Tail(payload_command_data)
          /\ RETRY_COUNT' = 0
          /\ NextCommand
     ELSE /\ RETRY_COUNT' = RETRY_COUNT + 1
          /\ at' = "tick"
          /\ UNCHANGED <<payload_command_data, k>>
  /\ UNCHANGED <<current_state_id, command, tx_queue, is_payload_on, written>>

-----------------------------------------------------------------------------
(* sched_dispatch: the end of a pass.                                      *)

get_next_state ==
  CASE current_state_id = "INIT" -> "BURN_WIRE"
    [] OTHER -> "RUNNING"

Transition(d) ==
  /\ age' = IF is_payload_on THEN Aged(d) ELSE age
  /\ IF manual_override_state_id # "NONE"
     THEN current_state_id' = manual_override_state_id
     ELSE current_state_id' = get_next_state
  /\ manual_override_state_id' = "NONE"
  /\ at' = "tasks"
  /\ UNCHANGED <<number_commands_processed, curr_command_seq_num, dispatched, tx_queue,
                 is_payload_on, answering, task>>

EndOfPass ==
  \/ at = "transition" /\ Transition(0)
  \/ at = "tick" /\ Transition(1)

(* A pass in another state; in the burn wire state, all of its passes.     *)
Away ==
  /\ at = "tasks"
  /\ \/ current_state_id \in {"INIT", "BURN_WIRE_RESET"} /\ Transition(0)
     \/ current_state_id = "BURN_WIRE" /\ \E d \in AwayTimes : Transition(d)

Commands ==
  \/ PAYLOAD_EXEC \/ PING \/ PAYLOAD_TURN_ON \/ PAYLOAD_TURN_OFF
  \/ MANUAL_STATE_OVERRIDE \/ OtherCommand

PayloadTask ==
  \/ PayloadOff \/ payload_restart \/ ping_command
  \/ NoCommand \/ CommandWritten \/ CommandFails

DispatchNext == beacon_task_dispatch \/ tx_done \/ Commands \/ PayloadTask \/ EndOfPass \/ Away

(* The scheduler goes on and dispatches the payload task again and again.  *)
DispatchFairness == WF_dispatchVars(PayloadTask \/ EndOfPass \/ Away)

(* Nothing makes the payload answer.                                       *)
DispatchSpec == DispatchInit /\ [][DispatchNext]_dispatchVars
FairDispatchSpec == DispatchSpec /\ DispatchFairness

-----------------------------------------------------------------------------
(* Properties.                                                             *)

(* The variables have their types, and the queues their bounds.            *)
DispatchTypeOK ==
  /\ at \in {"tasks", "commands", "transition", "tick"}
  /\ current_state_id \in States
  /\ manual_override_state_id \in States \cup {"NONE"}
  /\ number_commands_processed \in 0..(CountMod - 1)
  /\ curr_command_seq_num \in 0..MaxCommands
  /\ payload_command_data \in Seq([number : Nat, seq_num : 0..(SeqMod - 1)])
  /\ Len(payload_command_data) <= Capacity
  /\ tx_queue \in Seq({Beacon} \cup 0..(CountMod - 1)) /\ Len(tx_queue) <= TxQueueSize
  /\ is_payload_on \in BOOLEAN /\ answering \in BOOLEAN
  /\ age \in 0..Timeout
  /\ k \in 0..(PerDispatch - 1)
  /\ RETRY_COUNT \in 0..(MaxRetry + 1)
  /\ dispatched \in 0..MaxCommands
  /\ written \in Seq(Nat)

(* The payload tells the commands that wait apart by the numbers they      *)
(* carry, as long as no more were numbered, the refused ones included,     *)
(* since the first of them than the numbers' width can tell apart.         *)
NumbersTellApart ==
  LET q == payload_command_data
  IN q # <<>> /\ curr_command_seq_num - Head(q).number <= SeqMod =>
       \A i, j \in DOMAIN q : i # j => q[i].seq_num # q[j].seq_num

Numbers(q) == [i \in DOMAIN q |-> q[i].number]

(* Heartbeat, restarts, switching on and off and other states between:     *)
(* commands are refused only by a full queue, written in the order they    *)
(* came in, each at most once, and given up only when it was tried         *)
(* MaxRetry + 2 times.                                                     *)
CommandsInTurn ==
  INSTANCE Outbox WITH Tries <- MaxRetry + 2,
    numbered <- curr_command_seq_num,
    waiting <- Numbers(payload_command_data),
    tried <- RETRY_COUNT
OutboxImplemented == CommandsInTurn!Spec

(* send_heartbeat: a payload that stays on is pinged again and again, and  *)
(* one that stops answering for good is restarted again and again: its     *)
(* silence is never overlooked.  Nothing is assumed of its answers.        *)
Answered == ping_command /\ answering'
SilenceEnds ==
  <>[]is_payload_on =>
    /\ []<><<ping_command>>_dispatchVars
    /\ []<><<Answered>>_dispatchVars \/ []<><<payload_restart>>_dispatchVars

(* No command is left waiting by a payload that stays on and answers pings *)
(* again and again, however often the writing of commands fails.           *)
CommandsSettle ==
  <>[]is_payload_on /\ []<><<Answered>>_dispatchVars => []<>(payload_command_data = <<>>)

(* payload_task.c: "since we aren't getting responses": the heartbeat does *)
(* not restart a payload that has just answered.                           *)
AnsweringIsNotRestarted == [][payload_restart => ~answering]_dispatchVars
=============================================================================
