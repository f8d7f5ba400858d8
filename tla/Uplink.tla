------------------------------- MODULE Uplink -------------------------------
(***************************************************************************)
(* The path of a command from the operator to dispatch_command: the ground *)
(* station's StateManager (ground_station/state.py), which numbers the     *)
(* packets and keeps its numbers in a file; the air, which loses, repeats  *)
(* and garbles packets; the receive queue that rx_done fills               *)
(* (src/tasks/radio/radio_task.c); and command_task_dispatch, which lets   *)
(* through what is_packet_authenticated (src/packet/packet.c) accepts.     *)
(* Both ends restart: the ground station from its file, the satellite with *)
(* an empty RAM and a new boot number.                                     *)
(***************************************************************************)
EXTENDS Naturals, Sequences

CONSTANTS
  RxQueueSize,   \* RX_QUEUE_SIZE (16 in radio_task.h)
  MaxSends,      \* bound of the model: commands sent
  MaxBoot,       \* bound of the model: highest boot number
  MaxTorn,       \* bound of the model: reboots whose flash write was torn
  MaxCrashes     \* bound of the model: ground station crashes

ASSUME RxQueueSizeAssumption == RxQueueSize \in Nat \ {0}
ASSUME BoundsAssumption ==
  MaxSends \in Nat /\ MaxBoot \in Nat /\ MaxTorn \in Nat /\ MaxCrashes \in Nat

VARIABLES
  ground,      \* the StateManager: boot_count, msg_id, dirty, recent
  file,        \* gs_state.json: boot_count, msg_id
  sends,       \* commands sent so far
  sent,        \* the packets they were sent in; any of them may still arrive
  crashes,     \* ground station crashes so far
  rx_queue,    \* slate->rx_queue
  reboot_counter,     \* slate->reboot_counter
  last_seen_msg_id,   \* packet.c's static, 0 after a reset
  torn,        \* reboots so far that found no marked record in flash
  \* History, read by no action:
  executed,    \* packets handed to dispatch_command
  earlier,     \* how many of them were handed over in earlier boots
  sound        \* those handed over before any flash write was torn

groundVars == <<ground, file, crashes>>
satelliteVars == <<rx_queue, reboot_counter, last_seen_msg_id, torn>>
history == <<executed, earlier, sound>>
vars == <<groundVars, satelliteVars, sends, sent, history>>

(* A packet carries the two numbers; n tells two sendings apart.           *)
Packet == [n : Nat, boot_count : Nat, msg_id : Nat]

(* What rx_done queues: a packet as it arrived, and whether its HMAC still *)
(* matches its contents.                                                   *)
Arrival == [packet : Packet, intact : BOOLEAN]

Init ==
  /\ ground = [boot_count |-> 0, msg_id |-> 0, dirty |-> FALSE, recent |-> FALSE]
  /\ file = [boot_count |-> 0, msg_id |-> 0]
  /\ crashes = 0
  /\ sends = 0
  /\ sent = {}
  /\ rx_queue = <<>>
  /\ reboot_counter = 0
  /\ last_seen_msg_id = 0
  /\ torn = 0
  /\ executed = <<>>
  /\ earlier = 0
  /\ sound = <<>>

-----------------------------------------------------------------------------
(* The ground station.                                                     *)

(* save(force), on the state g: skipped unless forced or due and dirty;    *)
(* atomic by rename; a failure is logged and leaves g dirty.               *)
Save(g, force) ==
  \/ /\ force \/ (~g.recent /\ g.dirty)
     /\ file' = [boot_count |-> g.boot_count, msg_id |-> g.msg_id]
     /\ ground' = [g EXCEPT !.dirty = FALSE, !.recent = TRUE]
  \/ \* not due, or an exception
     /\ ground' = g
     /\ UNCHANGED file

(* SAVE_INTERVAL_SEC have passed since the last save.                      *)
SaveIntervalPasses ==
  /\ ground.recent
  /\ ground' = [ground EXCEPT !.recent = FALSE]
  /\ UNCHANGED <<file, crashes, sends, sent, satelliteVars, history>>

(* A beacon is heard (try_get_packet): update_from_beacon.                 *)
HearBeacon ==
  /\ reboot_counter # ground.boot_count
  /\ Save([ground EXCEPT !.boot_count = reboot_counter, !.dirty = TRUE], TRUE)
  /\ UNCHANGED <<crashes, sends, sent, satelliteVars, history>>

(* send_command: Packet.create takes boot_count and get_next_msg_id.       *)
SendCommand ==
  /\ sends < MaxSends
  /\ sends' = sends + 1
  /\ sent' = sent \cup {[n |-> sends + 1, boot_count |-> ground.boot_count,
                         msg_id |-> ground.msg_id + 1]}
  /\ Save([ground EXCEPT !.msg_id = @ + 1, !.dirty = TRUE], FALSE)
  /\ UNCHANGED <<crashes, satelliteVars, history>>

(* __init__ and load: the state a StateManager starts from.                *)
Loaded(f) ==
  [boot_count |-> f.boot_count, msg_id |-> f.msg_id, dirty |-> FALSE, recent |-> FALSE]

(* shutdown saves what is dirty; then the program is started again.        *)
Restart ==
  /\ \/ /\ ground.dirty
        /\ file' = [boot_count |-> ground.boot_count, msg_id |-> ground.msg_id]
     \/ /\ ~ground.dirty
        /\ UNCHANGED file
  /\ ground' = Loaded(file')
  /\ UNCHANGED <<crashes, sends, sent, satelliteVars, history>>

(* The program dies without shutdown (or its last save fails).             *)
Crash ==
  /\ crashes < MaxCrashes
  /\ crashes' = crashes + 1
  /\ ground' = Loaded(file)
  /\ UNCHANGED <<file, sends, sent, satelliteVars, history>>

-----------------------------------------------------------------------------
(* The satellite.                                                          *)

(* rx_done on a packet that parse_packet takes and that is addressed to    *)
(* the satellite; a full queue drops it.                                   *)
rx_done(a) ==
  /\ rx_queue' = IF Len(rx_queue) < RxQueueSize THEN Append(rx_queue, a) ELSE rx_queue
  /\ UNCHANGED <<groundVars, sends, sent, reboot_counter, last_seen_msg_id, torn, history>>

(* A packet sent at some time arrives; or a garbled one does, whose id is  *)
(* above every genuine one and whose HMAC does not match.                  *)
Garbled(b) ==
  [packet |-> [n |-> 0, boot_count |-> b, msg_id |-> MaxSends + 1], intact |-> FALSE]

Arrive ==
  \/ \E p \in sent : rx_done([packet |-> p, intact |-> TRUE])
  \/ \E b \in 0..MaxBoot : rx_done(Garbled(b))

(* Mutants: without the boot number; without the message id.               *)
authenticated_any_boot(a) == a.packet.msg_id > last_seen_msg_id /\ a.intact
authenticated_any_id(a) == a.packet.boot_count = reboot_counter /\ a.intact

(* The checks of is_packet_authenticated, in their order.                  *)
is_packet_authenticated(a) ==
  /\ a.packet.boot_count = reboot_counter
  /\ a.packet.msg_id > last_seen_msg_id
  /\ a.intact

(* Mutant: last_seen_msg_id moves before the HMAC is compared.             *)
command_task_dispatch_early ==
  /\ rx_queue # <<>>
  /\ rx_queue' = Tail(rx_queue)
  /\ LET a == Head(rx_queue)
         fresh == a.packet.boot_count = reboot_counter /\ a.packet.msg_id > last_seen_msg_id
     IN /\ last_seen_msg_id' = IF fresh THEN a.packet.msg_id ELSE last_seen_msg_id
        /\ executed' = IF fresh /\ a.intact THEN Append(executed, a.packet) ELSE executed
  /\ sound' = IF torn = 0 THEN executed' ELSE sound
  /\ UNCHANGED <<groundVars, sends, sent, reboot_counter, torn, earlier>>

(* command_task_dispatch: one packet per pass; last_seen_msg_id moves only *)
(* with an authenticated packet, which goes to dispatch_command.           *)
command_task_dispatch ==
  /\ rx_queue # <<>>
  /\ rx_queue' = Tail(rx_queue)
  /\ IF is_packet_authenticated(Head(rx_queue))
     THEN /\ last_seen_msg_id' = Head(rx_queue).packet.msg_id
          /\ executed' = Append(executed, Head(rx_queue).packet)
     ELSE UNCHANGED <<last_seen_msg_id, executed>>
  /\ sound' = IF torn = 0 THEN executed' ELSE sound
  /\ UNCHANGED <<groundVars, sends, sent, reboot_counter, torn, earlier>>

(* The satellite resets.  It comes up under a higher number, boots that    *)
(* did not get as far as the scheduler having used up the ones between     *)
(* (Deployment, BootNumbersFresh); or, if a flash write was torn, under 0. *)
Reboot ==
  /\ \/ /\ reboot_counter' \in (reboot_counter + 1)..MaxBoot
        /\ UNCHANGED torn
     \/ /\ torn < MaxTorn
        /\ torn' = torn + 1
        /\ reboot_counter' = 0
  /\ last_seen_msg_id' = 0
  /\ rx_queue' = <<>>
  /\ earlier' = Len(executed)
  /\ UNCHANGED <<groundVars, sends, sent, executed, sound>>

Next ==
  \/ SaveIntervalPasses
  \/ HearBeacon
  \/ SendCommand
  \/ Restart
  \/ Crash
  \/ Arrive
  \/ command_task_dispatch
  \/ Reboot

Spec == Init /\ [][Next]_vars

-----------------------------------------------------------------------------
(* The state has its type.                                                 *)
TypeOK ==
  /\ ground \in [boot_count : Nat, msg_id : Nat, dirty : BOOLEAN, recent : BOOLEAN]
  /\ file \in [boot_count : Nat, msg_id : Nat]
  /\ crashes \in 0..MaxCrashes
  /\ sends \in 0..MaxSends
  /\ sent \subseteq Packet
  /\ rx_queue \in Seq(Arrival) /\ Len(rx_queue) <= RxQueueSize
  /\ reboot_counter \in Nat
  /\ last_seen_msg_id \in Nat
  /\ torn \in 0..MaxTorn
  /\ executed \in Seq(Packet)
  /\ earlier \in 0..Len(executed)
  /\ sound \in Seq(Packet)

(* packet.c: "The msg_id must be strictly greater than the last seen       *)
(* msg_id for the current boot_count."  Garbled packets, repeats and       *)
(* rejected ones leave no trace: the ids executed since the last reset     *)
(* increase, and last_seen_msg_id is the last of them, or 0.               *)
LastSeenIsLastExecuted ==
  /\ \A i, j \in (earlier + 1)..Len(executed) :
       i < j => executed[i].msg_id < executed[j].msg_id
  /\ last_seen_msg_id = IF Len(executed) = earlier THEN 0
                        ELSE executed[Len(executed)].msg_id

(* The satellite carries out only what the ground sent, and no sending     *)
(* twice, however the air repeats packets, garbles them and both ends      *)
(* restart or crash.  A torn flash write hands out boot numbers a second   *)
(* time (Deployment); the promise is about what was executed before it.    *)
Channel == INSTANCE CommandChannel WITH
  Command <- Packet, issued <- sent, executed <- sound

AtMostOnce == Channel!Spec

(* As long as the ground station has not crashed, commands take effect in  *)
(* the order they were sent, across satellite reboots too.                 *)
InSendOrder ==
  crashes = 0 /\ torn = 0 =>
    \A i, j \in 1..Len(executed) : i < j => executed[i].n < executed[j].n
=============================================================================
