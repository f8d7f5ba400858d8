---------------------------- MODULE CommandProofs ----------------------------
(***************************************************************************)
(* Proofs about the path of a command: Uplink, for every queue size and    *)
(* every number of commands, boots and crashes, and CommandDispatch, for   *)
(* every queue size, width of the numbers and number of retries.           *)
(***************************************************************************)
EXTENDS Uplink, CommandDispatch, TLAPS

(* The sendings are told apart by their number.                            *)
SentInv ==
  /\ \A p \in sent : p.n \in 1..sends
  /\ \A p, q \in sent : p.n = q.n => p = q

(* What carries a good HMAC was signed by the ground.                      *)
QueueInv ==
  \A i \in 1..Len(rx_queue) : rx_queue[i].intact => rx_queue[i].packet \in sent

(* Without torn flash writes, what was executed lies behind the pair       *)
(* (reboot_counter, last_seen_msg_id) in the order the two checks impose.  *)
ExecutedInv ==
  /\ \A i \in 1..Len(executed) : executed[i] \in sent
  /\ torn = 0 => \A i \in 1..Len(executed) :
       \/ executed[i].boot_count < reboot_counter
       \/ /\ executed[i].boot_count = reboot_counter
          /\ executed[i].msg_id <= last_seen_msg_id

(* Until a torn write, what counts as executed before it is everything.    *)
SoundInv == torn = 0 => sound = executed

(* A StateManager with nothing to save is what its file says.              *)
FileInv ==
  ~ground.dirty => file.boot_count = ground.boot_count /\ file.msg_id = ground.msg_id

(* Until the first crash the ids number the sendings and the boot numbers  *)
(* the ground attaches to them never go back.                              *)
NumberingInv ==
  crashes = 0 /\ torn = 0 =>
    /\ ground.msg_id = sends
    /\ ground.boot_count <= reboot_counter
    /\ \A p \in sent : p.msg_id = p.n /\ p.boot_count <= ground.boot_count
    /\ \A p, q \in sent : p.n < q.n => p.boot_count <= q.boot_count

IInv ==
  /\ TypeOK /\ SentInv /\ QueueInv /\ ExecutedInv /\ FileInv
  /\ NumberingInv /\ LastSeenIsLastExecuted /\ InSendOrder /\ SoundInv

(* What save leaves behind when it is called on an unsaved state.          *)
LEMMA SaveResult ==
  ASSUME TypeOK,
         NEW g \in [boot_count : Nat, msg_id : Nat, dirty : BOOLEAN, recent : BOOLEAN],
         NEW force \in BOOLEAN, g.dirty, Save(g, force)
  PROVE  /\ ground' \in [boot_count : Nat, msg_id : Nat, dirty : BOOLEAN, recent : BOOLEAN]
         /\ file' \in [boot_count : Nat, msg_id : Nat]
         /\ ground'.boot_count = g.boot_count
         /\ ground'.msg_id = g.msg_id
         /\ ground'.dirty \/ (file'.boot_count = g.boot_count /\ file'.msg_id = g.msg_id)
<1>1. CASE /\ file' = [boot_count |-> g.boot_count, msg_id |-> g.msg_id]
           /\ ground' = [g EXCEPT !.dirty = FALSE, !.recent = TRUE]
  BY <1>1
<1>2. CASE ground' = g /\ UNCHANGED file
  BY <1>2 DEF TypeOK
<1> QED
  BY <1>1, <1>2 DEF Save

(* The state a beacon leaves in the StateManager.                          *)
LEMMA BeaconResult ==
  ASSUME TypeOK, HearBeacon
  PROVE  /\ ground' \in [boot_count : Nat, msg_id : Nat, dirty : BOOLEAN, recent : BOOLEAN]
         /\ file' \in [boot_count : Nat, msg_id : Nat]
         /\ ground'.boot_count = reboot_counter
         /\ ground'.msg_id = ground.msg_id
         /\ FileInv'
         /\ UNCHANGED <<crashes, sends, sent, satelliteVars, history>>
<1> DEFINE g == [ground EXCEPT !.boot_count = reboot_counter, !.dirty = TRUE]
<1>1. /\ g \in [boot_count : Nat, msg_id : Nat, dirty : BOOLEAN, recent : BOOLEAN]
      /\ g.dirty
      /\ g.boot_count = reboot_counter
      /\ g.msg_id = ground.msg_id
  BY DEF TypeOK
<1>2. Save(g, TRUE) /\ UNCHANGED <<crashes, sends, sent, satelliteVars, history>>
  BY DEF HearBeacon
<1> HIDE DEF g
<1> QED
  BY <1>1, <1>2, SaveResult DEF FileInv

(* The state a sending leaves in the StateManager, and the packet sent.    *)
LEMMA SendResult ==
  ASSUME TypeOK, SendCommand
  PROVE  /\ ground' \in [boot_count : Nat, msg_id : Nat, dirty : BOOLEAN, recent : BOOLEAN]
         /\ file' \in [boot_count : Nat, msg_id : Nat]
         /\ ground'.boot_count = ground.boot_count
         /\ ground'.msg_id = ground.msg_id + 1
         /\ FileInv'
         /\ sends' = sends + 1 /\ sends' \in 0..MaxSends
         /\ sent' = sent \cup {[n |-> sends + 1, boot_count |-> ground.boot_count,
                                msg_id |-> ground.msg_id + 1]}
         /\ UNCHANGED <<crashes, satelliteVars, history>>
<1> DEFINE g == [ground EXCEPT !.msg_id = @ + 1, !.dirty = TRUE]
<1>1. /\ g \in [boot_count : Nat, msg_id : Nat, dirty : BOOLEAN, recent : BOOLEAN]
      /\ g.dirty
      /\ g.boot_count = ground.boot_count
      /\ g.msg_id = ground.msg_id + 1
  <2>1. ground.msg_id + 1 \in Nat
    BY DEF TypeOK
  <2>2. g.dirty = TRUE
    BY DEF TypeOK
  <2>3. g.boot_count = ground.boot_count /\ g.msg_id = ground.msg_id + 1
    BY DEF TypeOK
  <2>4. g \in [boot_count : Nat, msg_id : Nat, dirty : BOOLEAN, recent : BOOLEAN]
    BY <2>1 DEF TypeOK
  <2> QED
    BY <2>2, <2>3, <2>4
<1>2. Save(g, FALSE)
  BY DEF SendCommand
<1>3. /\ ground' \in [boot_count : Nat, msg_id : Nat, dirty : BOOLEAN, recent : BOOLEAN]
      /\ file' \in [boot_count : Nat, msg_id : Nat]
      /\ ground'.boot_count = g.boot_count
      /\ ground'.msg_id = g.msg_id
      /\ FileInv'
  <2> HIDE DEF g
  <2> QED
    BY <1>1, <1>2, SaveResult DEF FileInv
<1>4. sends' = sends + 1 /\ sends' \in 0..MaxSends
  BY BoundsAssumption, SMTT(60) DEF SendCommand, TypeOK
<1> QED
  BY <1>1, <1>3, <1>4 DEF SendCommand

(* A restart loads what was just saved, or what the file still holds.      *)
LEMMA RestartResult ==
  ASSUME TypeOK, FileInv, Restart
  PROVE  /\ ground' \in [boot_count : Nat, msg_id : Nat, dirty : BOOLEAN, recent : BOOLEAN]
         /\ file' \in [boot_count : Nat, msg_id : Nat]
         /\ ground'.boot_count = ground.boot_count
         /\ ground'.msg_id = ground.msg_id
         /\ FileInv'
         /\ UNCHANGED <<crashes, sends, sent, satelliteVars, history>>
<1>1. /\ file' \in [boot_count : Nat, msg_id : Nat]
      /\ file'.boot_count = ground.boot_count
      /\ file'.msg_id = ground.msg_id
  BY DEF Restart, TypeOK, FileInv
<1>2. ground' = [boot_count |-> file'.boot_count, msg_id |-> file'.msg_id,
                 dirty |-> FALSE, recent |-> FALSE]
  BY DEF Restart, Loaded
<1>3. UNCHANGED <<crashes, sends, sent, satelliteVars, history>>
  BY DEF Restart
<1> QED
  BY <1>1, <1>2, <1>3 DEF FileInv

(* The queue after rx_done: one more arrival or none, within its size.     *)
LEMMA RxDoneResult ==
  ASSUME TypeOK, NEW a \in Arrival, rx_done(a)
  PROVE  /\ rx_queue' \in Seq(Arrival) /\ Len(rx_queue') <= RxQueueSize
         /\ \A i \in 1..Len(rx_queue') :
              \/ i \in 1..Len(rx_queue) /\ rx_queue'[i] = rx_queue[i]
              \/ rx_queue'[i] = a
         /\ UNCHANGED <<groundVars, sends, sent, reboot_counter, last_seen_msg_id,
                        torn, history>>
  BY RxQueueSizeAssumption, SMTT(60) DEF TypeOK, rx_done

(* A garbled packet is an arrival too.                                     *)
LEMMA GarbledArrives == ASSUME NEW b \in 0..MaxBoot PROVE Garbled(b) \in Arrival
  BY BoundsAssumption DEF Garbled, Arrival, Packet

(* What a pass of the command task does, whether or not it accepts.        *)
LEMMA DispatchResult ==
  ASSUME TypeOK, command_task_dispatch
  PROVE  /\ rx_queue \in Seq(Arrival) /\ rx_queue # <<>>
         /\ Head(rx_queue) = rx_queue[1] /\ 1 \in 1..Len(rx_queue)
         /\ rx_queue[1] \in Arrival
         /\ rx_queue' \in Seq(Arrival) /\ Len(rx_queue') = Len(rx_queue) - 1
         /\ \A i \in 1..Len(rx_queue') : rx_queue'[i] = rx_queue[i + 1]
         /\ UNCHANGED <<groundVars, sends, sent, reboot_counter, torn, earlier>>
         /\ sound' = IF torn = 0 THEN executed' ELSE sound
         /\ \/ UNCHANGED <<last_seen_msg_id, executed>>
            \/ /\ is_packet_authenticated(rx_queue[1])
               /\ last_seen_msg_id' = rx_queue[1].packet.msg_id
               /\ executed' = Append(executed, rx_queue[1].packet)
  BY SMTT(60) DEF TypeOK, command_task_dispatch

-----------------------------------------------------------------------------
(* The invariant holds at the start.                                       *)
LEMMA InitIInv == Init => IInv
<1> SUFFICES ASSUME Init PROVE IInv
  OBVIOUS
<1>1. TypeOK
  BY RxQueueSizeAssumption, BoundsAssumption DEF Init, TypeOK
<1>2. SentInv /\ QueueInv /\ ExecutedInv /\ NumberingInv /\ InSendOrder /\ SoundInv
  BY DEF Init, SoundInv, SentInv, QueueInv, ExecutedInv, NumberingInv, InSendOrder
<1>3. FileInv
  BY DEF Init, FileInv
<1>4. LastSeenIsLastExecuted
  BY DEF Init, LastSeenIsLastExecuted
<1> QED
  BY <1>1, <1>2, <1>3, <1>4 DEF IInv

(* Every step keeps the types, and with them the queue within its size.    *)
LEMMA TypeOKStep == IInv /\ [Next]_vars => TypeOK'
<1> SUFFICES ASSUME IInv, [Next]_vars PROVE TypeOK'
  OBVIOUS
<1>0. TypeOK /\ FileInv
  BY DEF IInv
<1> USE DEF groundVars, satelliteVars, history
<1>1. CASE SaveIntervalPasses
  BY <1>0, <1>1 DEF SaveIntervalPasses, TypeOK
<1>2. CASE HearBeacon
  <2>1. /\ ground' \in [boot_count : Nat, msg_id : Nat, dirty : BOOLEAN, recent : BOOLEAN]
        /\ file' \in [boot_count : Nat, msg_id : Nat]
        /\ UNCHANGED <<crashes, sends, sent, satelliteVars, history>>
    BY <1>0, <1>2, BeaconResult
  <2> QED
    BY <1>0, <2>1 DEF TypeOK
<1>3. CASE SendCommand
  <2>1. /\ ground' \in [boot_count : Nat, msg_id : Nat, dirty : BOOLEAN, recent : BOOLEAN]
        /\ file' \in [boot_count : Nat, msg_id : Nat]
        /\ sends' \in 0..MaxSends
        /\ UNCHANGED <<crashes, satelliteVars, history>>
    BY <1>0, <1>3, SendResult
  <2>2. sent' = sent \cup {[n |-> sends + 1, boot_count |-> ground.boot_count,
                            msg_id |-> ground.msg_id + 1]}
    BY <1>0, <1>3, SendResult
  <2>3. sends + 1 \in Nat /\ ground.boot_count \in Nat /\ ground.msg_id + 1 \in Nat
    BY <1>0 DEF TypeOK
  <2>4. sent' \subseteq Packet
    BY <1>0, <2>2, <2>3 DEF TypeOK, Packet
  <2> QED
    BY <1>0, <2>1, <2>4 DEF TypeOK
<1>4. CASE Restart
  <2>1. /\ ground' \in [boot_count : Nat, msg_id : Nat, dirty : BOOLEAN, recent : BOOLEAN]
        /\ file' \in [boot_count : Nat, msg_id : Nat]
        /\ UNCHANGED <<crashes, sends, sent, satelliteVars, history>>
    BY <1>0, <1>4, RestartResult
  <2> QED
    BY <1>0, <2>1 DEF TypeOK
<1>5. CASE Crash
  BY <1>0, <1>5, BoundsAssumption DEF Crash, Loaded, TypeOK
<1>6. CASE Arrive
  <2>1. ASSUME NEW a \in Arrival, rx_done(a) PROVE TypeOK'
    <3>1. rx_queue' \in Seq(Arrival) /\ Len(rx_queue') <= RxQueueSize
      BY <1>0, <2>1, RxDoneResult
    <3> QED
      BY <1>0, <2>1, <3>1 DEF rx_done, TypeOK
  <2>2. ASSUME NEW p \in sent PROVE [packet |-> p, intact |-> TRUE] \in Arrival
    BY <1>0 DEF TypeOK, Arrival
  <2> QED
    BY <1>6, <2>1, <2>2, GarbledArrives DEF Arrive
<1>7. CASE command_task_dispatch
  <2>1. /\ rx_queue' \in Seq(Arrival) /\ Len(rx_queue') = Len(rx_queue) - 1
        /\ rx_queue[1] \in Arrival
        /\ UNCHANGED <<groundVars, sends, sent, reboot_counter, torn, earlier>>
    BY <1>0, <1>7, DispatchResult
  <2>2. Len(rx_queue') <= RxQueueSize
    BY <1>0, <2>1, RxQueueSizeAssumption DEF TypeOK
  <2>3. /\ last_seen_msg_id' \in Nat
        /\ executed' \in Seq(Packet)
        /\ Len(executed') >= Len(executed)
    <3>1. rx_queue[1].packet \in Packet /\ rx_queue[1].packet.msg_id \in Nat
      BY <2>1 DEF Arrival, Packet
    <3>2. \/ UNCHANGED <<last_seen_msg_id, executed>>
          \/ /\ last_seen_msg_id' = rx_queue[1].packet.msg_id
             /\ executed' = Append(executed, rx_queue[1].packet)
      BY <1>0, <1>7, DispatchResult
    <3>3. last_seen_msg_id \in Nat /\ executed \in Seq(Packet)
      BY <1>0 DEF TypeOK
    <3>4. CASE UNCHANGED <<last_seen_msg_id, executed>>
      BY <3>3, <3>4
    <3>5. CASE /\ last_seen_msg_id' = rx_queue[1].packet.msg_id
               /\ executed' = Append(executed, rx_queue[1].packet)
      BY <3>1, <3>3, <3>5
    <3> QED
      BY <3>2, <3>4, <3>5
  <2>4. earlier' \in 0..Len(executed')
    BY <1>0, <2>1, <2>3 DEF TypeOK
  <2>5. sound' \in Seq(Packet)
    <3>1. sound' = IF torn = 0 THEN executed' ELSE sound
      BY <1>0, <1>7, DispatchResult
    <3> QED
      BY <1>0, <2>3, <3>1 DEF TypeOK
  <2> QED
    BY <1>0, <2>1, <2>2, <2>3, <2>4, <2>5 DEF TypeOK
<1>8. CASE Reboot
  <2>1. reboot_counter' \in Nat /\ torn' \in 0..MaxTorn
    BY <1>0, <1>8, BoundsAssumption, SMTT(60) DEF Reboot, TypeOK
  <2> QED
    BY <1>0, <1>8, <2>1, RxQueueSizeAssumption, SMTT(60) DEF Reboot, TypeOK
<1>9. CASE UNCHANGED vars
  BY <1>0, <1>9 DEF vars, TypeOK
<1> QED
  BY <1>1, <1>2, <1>3, <1>4, <1>5, <1>6, <1>7, <1>8, <1>9 DEF Next

(* What is executed: nothing, or one packet the ground sent, which passes  *)
(* both checks and comes last.                                             *)
LEMMA ExecutedResult ==
  ASSUME IInv, command_task_dispatch
  PROVE  \/ UNCHANGED <<last_seen_msg_id, executed>>
         \/ \E q \in sent :
              /\ q.boot_count = reboot_counter
              /\ q.msg_id > last_seen_msg_id
              /\ last_seen_msg_id' = q.msg_id
              /\ executed' = Append(executed, q)
              /\ Len(executed') = Len(executed) + 1
              /\ executed'[Len(executed')] = q
              /\ \A i \in 1..Len(executed) : executed'[i] = executed[i]
<1>1. SUFFICES ASSUME is_packet_authenticated(rx_queue[1]),
                      last_seen_msg_id' = rx_queue[1].packet.msg_id,
                      executed' = Append(executed, rx_queue[1].packet)
               PROVE  \E q \in sent :
                        /\ q.boot_count = reboot_counter
                        /\ q.msg_id > last_seen_msg_id
                        /\ last_seen_msg_id' = q.msg_id
                        /\ executed' = Append(executed, q)
                        /\ Len(executed') = Len(executed) + 1
                        /\ executed'[Len(executed')] = q
                        /\ \A i \in 1..Len(executed) : executed'[i] = executed[i]
  BY DispatchResult DEF IInv
<1> DEFINE q == rx_queue[1].packet
<1>2. q \in sent
  <2>1. 1 \in 1..Len(rx_queue)
    BY DispatchResult DEF IInv
  <2> QED
    BY <1>1, <2>1 DEF is_packet_authenticated, IInv, QueueInv
<1>3. q.boot_count = reboot_counter /\ q.msg_id > last_seen_msg_id
  BY <1>1 DEF is_packet_authenticated
<1>4. executed \in Seq(Packet) /\ q \in Packet
  BY <1>2 DEF IInv, TypeOK
<1>5. executed' = Append(executed, q) /\ last_seen_msg_id' = q.msg_id
  BY <1>1
<1> HIDE DEF q
<1>6. /\ Len(executed') = Len(executed) + 1
      /\ executed'[Len(executed')] = q
      /\ \A i \in 1..Len(executed) : executed'[i] = executed[i]
  BY <1>4, <1>5
<1> QED
  BY <1>2, <1>3, <1>5, <1>6

(* Sendings keep their numbers; what is queued keeps its origin; the file  *)
(* keeps up with a saved state.                                            *)
LEMMA GroundStep == IInv /\ [Next]_vars => SentInv' /\ QueueInv' /\ FileInv'
<1> SUFFICES ASSUME IInv, [Next]_vars PROVE SentInv' /\ QueueInv' /\ FileInv'
  OBVIOUS
<1>0. TypeOK /\ SentInv /\ QueueInv /\ FileInv
  BY DEF IInv
<1> USE DEF groundVars, satelliteVars, history
<1>1. CASE SaveIntervalPasses
  BY <1>0, <1>1 DEF SaveIntervalPasses, TypeOK, SentInv, QueueInv, FileInv
<1>2. CASE HearBeacon
  BY <1>0, <1>2, BeaconResult DEF SentInv, QueueInv
<1>3. CASE SendCommand
  <2>1. /\ sends' = sends + 1 /\ sends \in Nat
        /\ sent' = sent \cup {[n |-> sends + 1, boot_count |-> ground.boot_count,
                                msg_id |-> ground.msg_id + 1]}
        /\ UNCHANGED rx_queue
        /\ FileInv'
    BY <1>0, <1>3, SendResult DEF TypeOK
  <2>2. SentInv'
    BY <1>0, <2>1 DEF SentInv
  <2>3. QueueInv'
    BY <1>0, <2>1 DEF QueueInv
  <2> QED
    BY <2>1, <2>2, <2>3
<1>4. CASE Restart
  BY <1>0, <1>4, RestartResult DEF SentInv, QueueInv
<1>5. CASE Crash
  BY <1>0, <1>5 DEF Crash, Loaded, TypeOK, SentInv, QueueInv, FileInv
<1>6. CASE Arrive
  <2>1. ASSUME NEW a \in Arrival, rx_done(a), a.intact => a.packet \in sent
        PROVE  SentInv' /\ QueueInv' /\ FileInv'
    <3>1. /\ \A i \in 1..Len(rx_queue') :
               \/ i \in 1..Len(rx_queue) /\ rx_queue'[i] = rx_queue[i]
               \/ rx_queue'[i] = a
          /\ UNCHANGED <<ground, file, sends, sent>>
      BY <1>0, <2>1, RxDoneResult
    <3> QED
      BY <1>0, <2>1, <3>1 DEF SentInv, QueueInv, FileInv
  <2>2. ASSUME NEW p \in sent
        PROVE  /\ [packet |-> p, intact |-> TRUE] \in Arrival
               /\ [packet |-> p, intact |-> TRUE].packet = p
    BY <1>0 DEF TypeOK, Arrival
  <2>3. ASSUME NEW b \in 0..MaxBoot PROVE Garbled(b).intact = FALSE
    BY DEF Garbled
  <2> QED
    BY <1>6, <2>1, <2>2, <2>3, GarbledArrives DEF Arrive
<1>7. CASE command_task_dispatch
  <2>1. /\ Len(rx_queue') = Len(rx_queue) - 1
        /\ \A i \in 1..Len(rx_queue') : rx_queue'[i] = rx_queue[i + 1]
        /\ UNCHANGED <<ground, file, sends, sent>>
    BY <1>0, <1>7, DispatchResult
  <2>2. Len(rx_queue) \in Nat
    BY <1>0 DEF TypeOK
  <2> QED
    BY <1>0, <2>1, <2>2 DEF SentInv, QueueInv, FileInv
<1>8. CASE Reboot
  BY <1>0, <1>8 DEF Reboot, SentInv, QueueInv, FileInv
<1>9. CASE UNCHANGED vars
  BY <1>0, <1>9 DEF vars, SentInv, QueueInv, FileInv
<1> QED
  BY <1>1, <1>2, <1>3, <1>4, <1>5, <1>6, <1>7, <1>8, <1>9 DEF Next

(* Steps of the ground and of the air leave the satellite's account alone; *)
(* a pass of the command task adds to it what lies ahead of it; a reboot   *)
(* puts all of it into the past.                                           *)
LEMMA ExecutedStep == IInv /\ [Next]_vars => ExecutedInv' /\ LastSeenIsLastExecuted'
<1> SUFFICES ASSUME IInv, [Next]_vars PROVE ExecutedInv' /\ LastSeenIsLastExecuted'
  OBVIOUS
<1>0. TypeOK /\ ExecutedInv /\ LastSeenIsLastExecuted
  BY DEF IInv
<1>a. /\ executed \in Seq(Packet) /\ Len(executed) \in Nat
      /\ earlier \in 0..Len(executed)
      /\ reboot_counter \in Nat /\ last_seen_msg_id \in Nat /\ torn \in Nat
      /\ \A p \in sent : p.boot_count \in Nat /\ p.msg_id \in Nat
  BY <1>0, BoundsAssumption DEF TypeOK, Packet
<1> USE DEF groundVars, satelliteVars, history
<1>1. CASE /\ sent \subseteq sent'
           /\ UNCHANGED <<reboot_counter, last_seen_msg_id, torn, executed, earlier>>
  BY <1>0, <1>1 DEF ExecutedInv, LastSeenIsLastExecuted
<1>2. CASE command_task_dispatch
  <2>1. UNCHANGED <<sent, reboot_counter, torn, earlier>>
    BY <1>0, <1>2, DispatchResult
  <2>2. CASE UNCHANGED <<last_seen_msg_id, executed>>
    BY <1>1, <2>1, <2>2
  <2>3. CASE \E q \in sent :
               /\ q.boot_count = reboot_counter
               /\ q.msg_id > last_seen_msg_id
               /\ last_seen_msg_id' = q.msg_id
               /\ executed' = Append(executed, q)
               /\ Len(executed') = Len(executed) + 1
               /\ executed'[Len(executed')] = q
               /\ \A i \in 1..Len(executed) : executed'[i] = executed[i]
    <3>1. PICK q \in sent :
               /\ q.boot_count = reboot_counter
               /\ q.msg_id > last_seen_msg_id
               /\ last_seen_msg_id' = q.msg_id
               /\ Len(executed') = Len(executed) + 1
               /\ executed'[Len(executed')] = q
               /\ \A i \in 1..Len(executed) : executed'[i] = executed[i]
      BY <2>3
    <3>2. \A i \in 1..Len(executed') : i = Len(executed') \/ i \in 1..Len(executed)
      BY <1>a, <3>1
    <3>3. \A i \in 1..Len(executed) :
            executed[i] \in sent /\ executed[i].msg_id \in Nat
      BY <1>0, <1>a DEF ExecutedInv
    <3>4. ExecutedInv'
      <4>1. ASSUME NEW i \in 1..Len(executed') PROVE executed'[i] \in sent'
        BY <2>1, <3>1, <3>2, <3>3
      <4>2. ASSUME torn' = 0, NEW i \in 1..Len(executed')
            PROVE  \/ executed'[i].boot_count < reboot_counter'
                   \/ /\ executed'[i].boot_count = reboot_counter'
                      /\ executed'[i].msg_id <= last_seen_msg_id'
        <5>1. CASE i = Len(executed')
          BY <1>a, <2>1, <3>1, <5>1
        <5>2. CASE i \in 1..Len(executed)
          <6>1. /\ executed'[i] = executed[i]
                /\ \/ executed[i].boot_count < reboot_counter
                   \/ /\ executed[i].boot_count = reboot_counter
                      /\ executed[i].msg_id <= last_seen_msg_id
            BY <1>0, <2>1, <3>1, <4>2, <5>2 DEF ExecutedInv
          <6>2. executed[i].msg_id \in Nat /\ q.msg_id \in Nat
            BY <1>a, <3>3, <5>2
          <6> QED
            BY <1>a, <2>1, <3>1, <6>1, <6>2
        <5> QED
          BY <3>2, <5>1, <5>2
      <4> QED
        BY <4>1, <4>2 DEF ExecutedInv
    <3>5. LastSeenIsLastExecuted'
      <4>1. last_seen_msg_id' = IF Len(executed') = earlier' THEN 0
                                ELSE executed'[Len(executed')].msg_id
        BY <1>a, <2>1, <3>1
      <4>2. ASSUME NEW i \in (earlier' + 1)..Len(executed'),
                   NEW j \in (earlier' + 1)..Len(executed'), i < j
            PROVE  executed'[i].msg_id < executed'[j].msg_id
        <5>1. i \in (earlier + 1)..Len(executed) /\ i \in 1..Len(executed)
          BY <1>a, <2>1, <3>1, <4>2
        <5>2. /\ executed'[i] = executed[i]
              /\ executed[i].msg_id \in Nat
          BY <3>1, <3>3, <5>1
        <5>3. CASE j = Len(executed')
          <6>1. Len(executed) # earlier /\ Len(executed) \in (earlier + 1)..Len(executed)
            BY <1>a, <5>1
          <6>2. last_seen_msg_id = executed[Len(executed)].msg_id
            BY <1>0, <6>1 DEF LastSeenIsLastExecuted
          <6>3. i = Len(executed) \/ i < Len(executed)
            BY <1>a, <5>1
          <6>4. executed[i].msg_id <= last_seen_msg_id
            BY <1>0, <1>a, <5>1, <5>2, <6>1, <6>2, <6>3, SMTT(60) DEF LastSeenIsLastExecuted
          <6> QED
            BY <1>a, <3>1, <5>2, <5>3, <6>4
        <5>4. CASE j \in 1..Len(executed)
          <6>1. j \in (earlier + 1)..Len(executed) /\ executed'[j] = executed[j]
            BY <1>a, <2>1, <3>1, <4>2, <5>4
          <6> QED
            BY <1>0, <4>2, <5>1, <5>2, <6>1 DEF LastSeenIsLastExecuted
        <5>5. j \in 1..Len(executed')
          BY <1>a, <2>1, <3>1
        <5> QED
          BY <3>2, <5>3, <5>4, <5>5
      <4> QED
        BY <4>1, <4>2 DEF LastSeenIsLastExecuted
    <3> QED
      BY <3>4, <3>5
  <2> QED
    BY <1>2, <2>2, <2>3, ExecutedResult
<1>3. CASE Reboot
  <2>1. /\ last_seen_msg_id' = 0
        /\ earlier' = Len(executed)
        /\ UNCHANGED <<sent, executed>>
        /\ torn' = 0 => torn = 0 /\ reboot_counter' > reboot_counter /\ reboot_counter' \in Nat
    BY <1>a, <1>3, BoundsAssumption DEF Reboot
  <2>2. \A i \in 1..Len(executed) : executed[i].boot_count \in Nat
    BY <1>0, <1>a DEF ExecutedInv
  <2>3. ExecutedInv'
    BY <1>0, <1>a, <2>1, <2>2 DEF ExecutedInv
  <2>4. LastSeenIsLastExecuted'
    BY <1>a, <2>1 DEF LastSeenIsLastExecuted
  <2> QED
    BY <2>3, <2>4
<1>4. CASE SaveIntervalPasses
  BY <1>1, <1>4 DEF SaveIntervalPasses
<1>5. CASE HearBeacon
  BY <1>1, <1>5 DEF HearBeacon
<1>6. CASE SendCommand
  BY <1>1, <1>6 DEF SendCommand
<1>7. CASE Restart
  BY <1>1, <1>7 DEF Restart
<1>8. CASE Crash
  BY <1>1, <1>8 DEF Crash
<1>9. CASE Arrive
  BY <1>1, <1>9 DEF Arrive, rx_done
<1>10. CASE UNCHANGED vars
  BY <1>1, <1>10 DEF vars
<1> QED
  BY <1>2, <1>3, <1>4, <1>5, <1>6, <1>7, <1>8, <1>9, <1>10 DEF Next

(* sound follows executed until a torn write, and no step but a pass of    *)
(* the command task before any torn write moves it.                        *)
LEMMA SoundStep ==
  IInv /\ [Next]_vars => SoundInv' /\ (sound' # sound => torn = 0 /\ command_task_dispatch)
<1> SUFFICES ASSUME IInv, [Next]_vars
             PROVE  SoundInv' /\ (sound' # sound => torn = 0 /\ command_task_dispatch)
  OBVIOUS
<1>0. TypeOK /\ SoundInv
  BY DEF IInv
<1> USE DEF groundVars, satelliteVars, history
<1>1. CASE UNCHANGED <<torn, executed, sound>>
  BY <1>0, <1>1 DEF SoundInv
<1>2. CASE command_task_dispatch
  <2>1. UNCHANGED torn /\ sound' = IF torn = 0 THEN executed' ELSE sound
    BY <1>0, <1>2, DispatchResult
  <2> QED
    BY <1>2, <2>1 DEF SoundInv
<1>3. CASE Reboot
  <2>1. UNCHANGED <<executed, sound>> /\ (torn' = torn \/ torn' = torn + 1)
    BY <1>3 DEF Reboot
  <2>2. torn \in Nat
    BY <1>0, BoundsAssumption DEF TypeOK
  <2> QED
    BY <1>0, <2>1, <2>2 DEF SoundInv
<1>4. CASE SaveIntervalPasses
  BY <1>1, <1>4 DEF SaveIntervalPasses
<1>5. CASE HearBeacon
  BY <1>1, <1>5 DEF HearBeacon
<1>6. CASE SendCommand
  BY <1>1, <1>6 DEF SendCommand
<1>7. CASE Restart
  BY <1>1, <1>7 DEF Restart
<1>8. CASE Crash
  BY <1>1, <1>8 DEF Crash
<1>9. CASE Arrive
  BY <1>1, <1>9 DEF Arrive, rx_done
<1>10. CASE UNCHANGED vars
  BY <1>1, <1>10 DEF vars
<1> QED
  BY <1>2, <1>3, <1>4, <1>5, <1>6, <1>7, <1>8, <1>9, <1>10 DEF Next

(* Until the first crash a sending gets the next id and a boot number not  *)
(* below the ones before it; a beacon and a reboot only move forward.      *)
LEMMA NumberingStep == IInv /\ [Next]_vars => NumberingInv'
<1> SUFFICES ASSUME IInv, [Next]_vars, crashes' = 0, torn' = 0
             PROVE  /\ ground'.msg_id = sends'
                    /\ ground'.boot_count <= reboot_counter'
                    /\ \A p \in sent' : p.msg_id = p.n /\ p.boot_count <= ground'.boot_count
                    /\ \A p, q \in sent' : p.n < q.n => p.boot_count <= q.boot_count
  BY DEF NumberingInv
<1>0. TypeOK /\ SentInv /\ FileInv /\ NumberingInv
  BY DEF IInv
<1>a. /\ ground.boot_count \in Nat /\ ground.msg_id \in Nat /\ sends \in Nat
      /\ reboot_counter \in Nat /\ torn \in Nat /\ crashes \in Nat
      /\ \A p \in sent : p.n \in 1..sends /\ p.boot_count \in Nat
  BY <1>0, BoundsAssumption DEF TypeOK, Packet, SentInv
<1> USE DEF groundVars, satelliteVars, history
<1>1. CASE /\ UNCHANGED <<crashes, torn, sends, sent, reboot_counter>>
           /\ ground'.boot_count = ground.boot_count
           /\ ground'.msg_id = ground.msg_id
  BY <1>0, <1>1 DEF NumberingInv
<1>2. CASE HearBeacon
  <2>1. /\ ground'.boot_count = reboot_counter
        /\ ground'.msg_id = ground.msg_id
        /\ UNCHANGED <<crashes, torn, sends, sent, reboot_counter>>
    BY <1>0, <1>2, BeaconResult
  <2> QED
    BY <1>0, <1>a, <2>1 DEF NumberingInv
<1>3. CASE SendCommand
  <2> DEFINE new == [n |-> sends + 1, boot_count |-> ground.boot_count,
                     msg_id |-> ground.msg_id + 1]
  <2>1. /\ ground'.boot_count = ground.boot_count
        /\ ground'.msg_id = ground.msg_id + 1
        /\ sends' = sends + 1
        /\ sent' = sent \cup {new}
        /\ UNCHANGED <<crashes, torn, reboot_counter>>
    BY <1>0, <1>3, SendResult
  <2>2. /\ new.n = sends + 1 /\ new.boot_count = ground.boot_count
        /\ new.msg_id = ground.msg_id + 1
    OBVIOUS
  <2>3. /\ ground.msg_id = sends
        /\ ground.boot_count <= reboot_counter
        /\ \A p \in sent : p.msg_id = p.n /\ p.boot_count <= ground.boot_count
        /\ \A p, q \in sent : p.n < q.n => p.boot_count <= q.boot_count
    BY <1>0, <2>1 DEF NumberingInv
  <2> HIDE DEF new
  <2>4. \A p \in sent' : p.msg_id = p.n /\ p.boot_count <= ground'.boot_count
    BY <1>a, <2>1, <2>2, <2>3
  <2>5. \A p, q \in sent' : p.n < q.n => p.boot_count <= q.boot_count
    BY <1>a, <2>1, <2>2, <2>3
  <2> QED
    BY <2>1, <2>3, <2>4, <2>5
<1>4. CASE Restart
  BY <1>0, <1>1, <1>4, RestartResult
<1>5. CASE Crash
  BY <1>a, <1>5 DEF Crash
<1>6. CASE Reboot
  <2>1. /\ torn = 0 /\ reboot_counter' > reboot_counter /\ reboot_counter' \in Nat
        /\ UNCHANGED <<ground, crashes, sends, sent>>
    BY <1>a, <1>6, BoundsAssumption DEF Reboot
  <2> QED
    BY <1>0, <1>a, <2>1 DEF NumberingInv
<1>7. CASE SaveIntervalPasses
  BY <1>0, <1>1, <1>7 DEF SaveIntervalPasses, TypeOK
<1>8. CASE Arrive
  BY <1>1, <1>8 DEF Arrive, rx_done
<1>9. CASE command_task_dispatch
  BY <1>1, <1>9 DEF command_task_dispatch
<1>10. CASE UNCHANGED vars
  BY <1>1, <1>10 DEF vars
<1> QED
  BY <1>2, <1>3, <1>4, <1>5, <1>6, <1>7, <1>8, <1>9, <1>10 DEF Next

(* A packet that passes both checks was sent after all that were executed: *)
(* in this boot because its id is larger, and before it because the boot   *)
(* numbers on the sendings never go back.                                  *)
LEMMA OrderStep == IInv /\ [Next]_vars => InSendOrder'
<1> SUFFICES ASSUME IInv, [Next]_vars, crashes' = 0, torn' = 0,
                    NEW i \in 1..Len(executed'), NEW j \in 1..Len(executed'), i < j
             PROVE  executed'[i].n < executed'[j].n
  BY DEF InSendOrder
<1>0. TypeOK /\ SentInv /\ ExecutedInv /\ NumberingInv /\ InSendOrder
  BY DEF IInv
<1>a. /\ executed \in Seq(Packet) /\ Len(executed) \in Nat
      /\ crashes \in Nat /\ torn \in Nat
      /\ reboot_counter \in Nat /\ last_seen_msg_id \in Nat
      /\ \A p \in sent : p.n \in Nat /\ p.boot_count \in Nat /\ p.msg_id \in Nat
  BY <1>0, BoundsAssumption, SMTT(60) DEF TypeOK, Packet
<1> USE DEF groundVars, satelliteVars, history
<1>b. crashes = 0 /\ torn = 0
  <2>1. CASE SaveIntervalPasses
    BY <2>1 DEF SaveIntervalPasses
  <2>2. CASE HearBeacon
    BY <2>2 DEF HearBeacon
  <2>3. CASE SendCommand
    BY <2>3 DEF SendCommand
  <2>4. CASE Restart
    BY <2>4 DEF Restart
  <2>5. CASE Arrive
    BY <2>5 DEF Arrive, rx_done
  <2>6. CASE command_task_dispatch
    BY <2>6 DEF command_task_dispatch
  <2>7. CASE Crash
    BY <1>a, <2>7 DEF Crash
  <2>8. CASE Reboot
    BY <1>a, <2>8 DEF Reboot
  <2>9. CASE UNCHANGED vars
    BY <2>9 DEF vars
  <2> QED
    BY <2>1, <2>2, <2>3, <2>4, <2>5, <2>6, <2>7, <2>8, <2>9 DEF Next
<1>1. CASE UNCHANGED executed
  BY <1>0, <1>b, <1>1 DEF InSendOrder
<1>2. CASE command_task_dispatch /\ ~UNCHANGED executed
  <2>1. PICK q \in sent :
          /\ q.boot_count = reboot_counter
          /\ q.msg_id > last_seen_msg_id
          /\ Len(executed') = Len(executed) + 1
          /\ executed'[Len(executed')] = q
          /\ \A m \in 1..Len(executed) : executed'[m] = executed[m]
    BY <1>2, ExecutedResult
  <2>2. i \in 1..Len(executed) /\ executed'[i] = executed[i]
    BY <1>a, <2>1
  <2>3. CASE j \in 1..Len(executed)
    BY <1>0, <1>b, <2>1, <2>2, <2>3 DEF InSendOrder
  <2>4. CASE j = Len(executed')
    <3> DEFINE p == executed[i]
    <3>1. /\ p \in sent
          /\ \/ p.boot_count < reboot_counter
             \/ p.boot_count = reboot_counter /\ p.msg_id <= last_seen_msg_id
      BY <1>0, <1>b, <2>2 DEF ExecutedInv
    <3>2. /\ \A r \in sent : r.msg_id = r.n
          /\ \A r, t \in sent : r.n < t.n => r.boot_count <= t.boot_count
          /\ \A r, t \in sent : r.n = t.n => r = t
      BY <1>0, <1>b DEF NumberingInv, SentInv
    <3> HIDE DEF p
    <3>3. p.n < q.n
      BY <1>a, <2>1, <3>1, <3>2, SMTT(60)
    <3> QED
      BY <2>1, <2>2, <2>4, <3>3 DEF p
  <2> QED
    BY <1>a, <2>1, <2>3, <2>4
<1>3. CASE SaveIntervalPasses
  BY <1>1, <1>3 DEF SaveIntervalPasses
<1>4. CASE HearBeacon
  BY <1>1, <1>4 DEF HearBeacon
<1>5. CASE SendCommand
  BY <1>1, <1>5 DEF SendCommand
<1>6. CASE Restart
  BY <1>1, <1>6 DEF Restart
<1>7. CASE Arrive
  BY <1>1, <1>7 DEF Arrive, rx_done
<1>8. CASE Crash
  BY <1>1, <1>8 DEF Crash
<1>9. CASE Reboot
  BY <1>1, <1>9 DEF Reboot
<1>10. CASE UNCHANGED vars
  BY <1>1, <1>10 DEF vars
<1> QED
  BY <1>1, <1>2, <1>3, <1>4, <1>5, <1>6, <1>7, <1>8, <1>9, <1>10 DEF Next

-----------------------------------------------------------------------------
(* The invariant of all that follows.                                      *)
LEMMA Invariance == Spec => []IInv
<1>1. IInv /\ [Next]_vars => IInv'
  BY TypeOKStep, GroundStep, ExecutedStep, NumberingStep, OrderStep, SoundStep
     DEF IInv
<1> QED
  BY InitIInv, <1>1, PTL DEF Spec

(* The state has its type; in particular rx_done never overfills the queue *)
(* of RX_QUEUE_SIZE packets.                                               *)
THEOREM TypeCorrect == Spec => []TypeOK
<1>1. IInv => TypeOK
  BY DEF IInv
<1> QED
  BY Invariance, <1>1, PTL

(* Nothing but a command handed to dispatch_command moves                  *)
(* last_seen_msg_id, also when boot numbers are used again.                *)
THEOREM LastSeenMovesWithExecution == Spec => []LastSeenIsLastExecuted
<1>1. IInv => LastSeenIsLastExecuted
  BY DEF IInv
<1> QED
  BY Invariance, <1>1, PTL

(* Until the ground station crashes or a flash write is torn, commands are *)
(* handed to dispatch_command in the order send_command sent them.         *)
THEOREM ExecutedInSendOrder == Spec => []InSendOrder
<1>1. IInv => InSendOrder
  BY DEF IInv
<1> QED
  BY Invariance, <1>1, PTL

(* The uplink implements the at-most-once channel: every step sends one    *)
(* command, executes one that was sent and not executed yet, or changes    *)
(* neither; what happens after a torn flash write is not counted.          *)
THEOREM AtMostOnceHolds == Spec => AtMostOnce
<1>1. Init => Channel!Init
  BY DEF Init, Channel!Init
<1>2. IInv /\ [Next]_vars => [Channel!Next]_<<sent, sound>>
  <2> SUFFICES ASSUME IInv, [Next]_vars
               PROVE  Channel!Next \/ UNCHANGED <<sent, sound>>
    OBVIOUS
  <2> USE DEF groundVars, satelliteVars, history
  <2>0. CASE UNCHANGED <<sent, sound>>
    BY <2>0
  <2>1. CASE SendCommand
    <3> DEFINE new == [n |-> sends + 1, boot_count |-> ground.boot_count,
                       msg_id |-> ground.msg_id + 1]
    <3>1. sent' = sent \cup {new} /\ UNCHANGED sound
      BY <2>1 DEF SendCommand
    <3>2. sends + 1 \in Nat /\ ground.boot_count \in Nat /\ ground.msg_id + 1 \in Nat
      BY DEF IInv, TypeOK
    <3>3. new \in Packet /\ new.n = sends + 1
      BY <3>2 DEF Packet
    <3> HIDE DEF new
    <3>4. new \notin sent
      BY <3>3 DEF IInv, SentInv, TypeOK
    <3> QED
      BY <3>1, <3>3, <3>4 DEF Channel!Next, Channel!Issue
  <2>2. CASE command_task_dispatch /\ sound' # sound
    <3>1. UNCHANGED <<sent, torn>> /\ sound' = IF torn = 0 THEN executed' ELSE sound
      BY <2>2, DispatchResult DEF IInv
    <3>2. torn = 0 /\ sound = executed /\ sound' = executed'
      BY <2>2, <3>1 DEF IInv, SoundInv
    <3>3. PICK q \in sent :
            /\ q.boot_count = reboot_counter
            /\ q.msg_id > last_seen_msg_id
            /\ executed' = Append(executed, q)
      BY <2>2, <3>2, ExecutedResult
    <3>4. last_seen_msg_id \in Nat /\ reboot_counter \in Nat /\ q.msg_id \in Nat
      BY DEF IInv, TypeOK, Packet
    <3>5. ASSUME NEW i \in 1..Len(executed) PROVE executed[i] # q
      BY <3>2, <3>3, <3>4 DEF IInv, ExecutedInv
    <3>6. sound' = Append(sound, q) /\ \A i \in 1..Len(sound) : sound[i] # q
      BY <3>2, <3>3, <3>5
    <3> QED
      BY <3>1, <3>3, <3>6 DEF Channel!Next, Channel!Execute
  <2>3. sent' # sent => SendCommand
    <3>1. CASE command_task_dispatch
      BY <3>1, DispatchResult DEF IInv
    <3> QED
      BY <3>1 DEF Next, vars, SaveIntervalPasses, HearBeacon, Restart, Crash, Arrive,
                  rx_done, Reboot
  <2> QED
    BY <2>0, <2>1, <2>2, <2>3, SoundStep
<1> QED
  BY Invariance, <1>1, <1>2, PTL DEF Spec, AtMostOnce, Channel!Spec

-----------------------------------------------------------------------------
(* The commands that wait for the payload.                                 *)

Numbered == [number : Nat, seq_num : 0..(SeqMod - 1)]

(* They are numbered below n, in the order in which they came, and their   *)
(* sequence numbers are what is left of the numbers in sixteen bits.       *)
WellNumbered(q, n) ==
  \A i \in DOMAIN q :
    /\ q[i].number < n
    /\ q[i].seq_num = q[i].number % SeqMod
    /\ \A j \in DOMAIN q : i < j => q[i].number < q[j].number

(* No more commands are numbered than came from the ground, and a queue    *)
(* that has emptied leaves no count of tries for the next command.         *)
DispatchInv ==
  /\ DispatchTypeOK
  /\ curr_command_seq_num <= dispatched
  /\ WellNumbered(payload_command_data, curr_command_seq_num)
  /\ payload_command_data = <<>> => RETRY_COUNT = 0

LEMMA Remainder ==
  ASSUME NEW a \in Nat, NEW m \in Nat \ {0}
  PROVE  a % m \in 0..(m - 1)
OBVIOUS

LEMMA AddNumbered ==
  ASSUME NEW q \in Seq(Numbered), NEW n \in Nat, WellNumbered(q, n)
  PROVE  LET r == Append(q, [number |-> n, seq_num |-> n % SeqMod])
         IN r \in Seq(Numbered) /\ Len(r) = Len(q) + 1 /\ WellNumbered(r, n + 1)
<1> DEFINE x == [number |-> n, seq_num |-> n % SeqMod]
           r == Append(q, x)
<1>1. x \in Numbered /\ x.number = n /\ x.seq_num = n % SeqMod
  <2>1. n % SeqMod \in 0..(SeqMod - 1)
    BY CapacityAssumption
  <2> QED
    BY <2>1 DEF Numbered
<1> HIDE DEF x
<1>2. /\ r \in Seq(Numbered) /\ Len(r) = Len(q) + 1 /\ Len(q) \in Nat
      /\ DOMAIN r = 1..(Len(q) + 1) /\ DOMAIN q = 1..Len(q)
      /\ r[Len(q) + 1] = x
      /\ \A i \in 1..Len(q) : r[i] = q[i] /\ q[i] \in Numbered
  BY <1>1
<1>3. \A i \in 1..Len(q) : q[i].number \in Nat
  BY <1>2 DEF Numbered
<1> HIDE DEF r
<1>4. WellNumbered(r, n + 1)
  BY <1>1, <1>2, <1>3 DEF WellNumbered
<1> QED
  BY <1>2, <1>4 DEF r, x

LEMMA TailNumbered ==
  ASSUME NEW q \in Seq(Numbered), NEW n \in Nat, WellNumbered(q, n), q # <<>>
  PROVE  /\ Tail(q) \in Seq(Numbered) /\ Len(Tail(q)) = Len(q) - 1
         /\ WellNumbered(Tail(q), n)
<1>1. /\ Tail(q) \in Seq(Numbered) /\ Len(Tail(q)) = Len(q) - 1 /\ Len(q) \in Nat
      /\ \A i \in DOMAIN Tail(q) : i \in Nat /\ i + 1 \in DOMAIN q /\ Tail(q)[i] = q[i + 1]
  OBVIOUS
<1>2. WellNumbered(Tail(q), n)
  BY <1>1 DEF WellNumbered
<1> QED
  BY <1>1, <1>2

(* A number that is given to nobody does no harm.                          *)
LEMMA SkipNumber ==
  ASSUME NEW q \in Seq(Numbered), NEW n \in Nat, WellNumbered(q, n)
  PROVE  WellNumbered(q, n + 1)
<1>1. \A i \in DOMAIN q : q[i].number \in Nat
  <2>1. \A i \in DOMAIN q : q[i] \in Numbered
    OBVIOUS
  <2> QED
    BY <2>1 DEF Numbered
<1> QED
  BY <1>1 DEF WellNumbered

(* The radio's queue takes what fits.                                      *)
LEMMA SendTypes ==
  ASSUME DispatchTypeOK, NEW x \in {Beacon} \cup 0..(CountMod - 1), Send(x)
  PROVE  tx_queue' \in Seq({Beacon} \cup 0..(CountMod - 1)) /\ Len(tx_queue') <= TxQueueSize
<1>1. CASE Len(tx_queue) < TxQueueSize
  BY <1>1, CapacityAssumption, SMTT(60) DEF Send, DispatchTypeOK
<1>2. CASE ~(Len(tx_queue) < TxQueueSize)
  BY <1>2 DEF Send, DispatchTypeOK
<1> QED
  BY <1>1, <1>2

LEMMA AgedTypes ==
  ASSUME DispatchTypeOK, NEW d \in Nat
  PROVE  Aged(d) \in 0..Timeout
BY CapacityAssumption, SMTT(60) DEF Aged, DispatchTypeOK

LEMMA InitDispatchInv == DispatchInit => DispatchInv
<1> SUFFICES ASSUME DispatchInit PROVE DispatchInv
  OBVIOUS
<1>1. DispatchTypeOK
  <2>1. /\ 0 \in 0..(CountMod - 1) /\ 0 \in 0..(PerDispatch - 1) /\ 0 \in 0..Timeout
        /\ 0 \in 0..(MaxRetry + 1) /\ 0 \in 0..MaxCommands
        /\ 0 <= Capacity /\ 0 <= TxQueueSize
    BY CapacityAssumption, RetryAssumption
  <2>2. /\ <<>> \in Seq([number : Nat, seq_num : 0..(SeqMod - 1)])
        /\ <<>> \in Seq({Beacon} \cup 0..(CountMod - 1)) /\ <<>> \in Seq(Nat)
        /\ Len(<<>>) = 0
    OBVIOUS
  <2>3. "RUNNING" \in States
    BY DEF States
  <2> QED
    BY <2>1, <2>2, <2>3 DEF DispatchInit, DispatchTypeOK
<1> QED
  BY <1>1 DEF DispatchInit, DispatchInv, WellNumbered

(* What every command from the ground does, and the rest of the state.     *)
LEMMA ProcessedTypes ==
  ASSUME DispatchInv, Processed
  PROVE  /\ number_commands_processed' \in 0..(CountMod - 1)
         /\ dispatched' \in 0..MaxCommands /\ dispatched' = dispatched + 1
         /\ at' = "transition" /\ current_state_id' = current_state_id
<1>1. (number_commands_processed + 1) % CountMod \in 0..(CountMod - 1)
  <2>1. number_commands_processed + 1 \in Nat
    BY CapacityAssumption DEF DispatchInv, DispatchTypeOK
  <2> QED
    BY <2>1, CapacityAssumption, Remainder
<1> QED
  BY <1>1, RetryAssumption DEF Processed, DispatchInv, DispatchTypeOK

LEMMA ExecStep ==
  ASSUME DispatchInv, PAYLOAD_EXEC
  PROVE  DispatchInv'
<1> DEFINE q == payload_command_data
           n == curr_command_seq_num
           cmd == [number |-> n, seq_num |-> n % SeqMod]
<1>1. /\ q \in Seq(Numbered) /\ n \in Nat /\ WellNumbered(q, n) /\ Len(q) <= Capacity
      /\ dispatched \in Nat /\ n <= dispatched
      /\ Len(q) \in Nat /\ Capacity \in Nat \ {0}
  BY CapacityAssumption, RetryAssumption DEF DispatchInv, DispatchTypeOK, Numbered
<1>2. /\ Processed /\ n' = n + 1 /\ Add(cmd)
      /\ UNCHANGED <<manual_override_state_id, tx_queue, is_payload_on, age, answering,
                     k, RETRY_COUNT, written>>
  BY DEF PAYLOAD_EXEC, payload, SeqNum
<1>3. /\ number_commands_processed' \in 0..(CountMod - 1)
      /\ dispatched' \in 0..MaxCommands /\ dispatched' = dispatched + 1
      /\ at' = "transition" /\ current_state_id' = current_state_id
  BY <1>2, ProcessedTypes
<1>4. /\ q' \in Seq(Numbered) /\ Len(q') <= Capacity /\ WellNumbered(q', n + 1)
      /\ q' = <<>> => q = <<>>
  <2>1. CASE Len(q) < Capacity
    <3>1. q' = Append(q, cmd)
      BY <1>2, <2>1 DEF Add
    <3>2. /\ Append(q, cmd) \in Seq(Numbered) /\ Len(Append(q, cmd)) = Len(q) + 1
          /\ WellNumbered(Append(q, cmd), n + 1)
      BY <1>1, AddNumbered
    <3> HIDE DEF q, cmd
    <3>3. Len(q') = Len(q) + 1
      BY <3>1, <3>2
    <3> QED
      BY <1>1, <2>1, <3>1, <3>2, <3>3
  <2>2. CASE ~(Len(q) < Capacity)
    BY <1>1, <1>2, <2>2, SkipNumber DEF Add
  <2> QED
    BY <2>1, <2>2
<1>5. n' \in 0..MaxCommands /\ n' <= dispatched'
  BY <1>1, <1>2, <1>3, RetryAssumption
<1>6. DispatchTypeOK'
  BY <1>2, <1>3, <1>4, <1>5 DEF DispatchInv, DispatchTypeOK, Numbered
<1> QED
  BY <1>2, <1>4, <1>5, <1>6 DEF DispatchInv

(* The other commands leave the payload's queue alone.                     *)
LEMMA OtherCommandsStep ==
  ASSUME DispatchInv, Processed, UNCHANGED <<curr_command_seq_num, task>>,
         manual_override_state_id' \in States \cup {"NONE"},
         tx_queue' \in Seq({Beacon} \cup 0..(CountMod - 1)), Len(tx_queue') <= TxQueueSize,
         is_payload_on' \in BOOLEAN, answering' \in BOOLEAN, age' \in 0..Timeout
  PROVE  DispatchInv'
<1>1. /\ number_commands_processed' \in 0..(CountMod - 1)
      /\ dispatched' \in 0..MaxCommands /\ dispatched' = dispatched + 1
      /\ at' = "transition" /\ current_state_id' = current_state_id
  BY ProcessedTypes
<1>2. DispatchTypeOK'
  BY <1>1 DEF task, DispatchInv, DispatchTypeOK
<1>3. curr_command_seq_num' <= dispatched'
  BY <1>1, RetryAssumption DEF DispatchInv, DispatchTypeOK
<1> QED
  BY <1>2, <1>3 DEF task, DispatchInv, WellNumbered

LEMMA CommandsStep ==
  ASSUME DispatchInv, Commands
  PROVE  DispatchInv'
<1>1. DispatchTypeOK
  BY DEF DispatchInv
<1>2. CASE PAYLOAD_EXEC
  BY <1>2, ExecStep
<1>3. CASE PING
  <2>1. Processed /\ Send(number_commands_processed')
        /\ UNCHANGED <<curr_command_seq_num, manual_override_state_id, payload, task>>
    BY <1>3 DEF PING
  <2>2. number_commands_processed' \in 0..(CountMod - 1)
    BY <2>1, ProcessedTypes
  <2>3. tx_queue' \in Seq({Beacon} \cup 0..(CountMod - 1)) /\ Len(tx_queue') <= TxQueueSize
    BY <1>1, <2>1, <2>2, SendTypes
  <2> QED
    BY <1>1, <2>1, <2>3, OtherCommandsStep DEF payload, DispatchTypeOK
<1>4. CASE PAYLOAD_TURN_ON
  <2>1. /\ is_payload_on' \in BOOLEAN /\ answering' \in BOOLEAN /\ age' \in 0..Timeout
        /\ UNCHANGED <<curr_command_seq_num, manual_override_state_id, tx_queue, task>>
        /\ Processed
    <3>1. 0 \in 0..Timeout
      BY CapacityAssumption
    <3> QED
      BY <1>4, <3>1 DEF PAYLOAD_TURN_ON, payload_turn_on
  <2> QED
    BY <1>1, <2>1, OtherCommandsStep DEF DispatchTypeOK
<1>5. CASE PAYLOAD_TURN_OFF
  <2>1. /\ is_payload_on' \in BOOLEAN /\ UNCHANGED <<answering, age>>
        /\ UNCHANGED <<curr_command_seq_num, manual_override_state_id, tx_queue, task>>
        /\ Processed
    BY <1>5 DEF PAYLOAD_TURN_OFF, payload_turn_off
  <2> QED
    BY <1>1, <2>1, OtherCommandsStep DEF DispatchTypeOK
<1>6. CASE MANUAL_STATE_OVERRIDE
  BY <1>1, <1>6, OtherCommandsStep DEF MANUAL_STATE_OVERRIDE, payload, DispatchTypeOK
<1>7. CASE OtherCommand
  BY <1>1, <1>7, OtherCommandsStep DEF OtherCommand, payload, DispatchTypeOK
<1> QED
  BY <1>2, <1>3, <1>4, <1>5, <1>6, <1>7 DEF Commands

(* What the payload task's actions leave alone.                            *)
PayloadTaskFrame ==
  UNCHANGED <<current_state_id, manual_override_state_id, number_commands_processed,
              curr_command_seq_num, dispatched, tx_queue>>

(* The task goes on to the next command, or ends its dispatch.             *)
LEMMA NextCommandTypes ==
  ASSUME DispatchInv, NextCommand
  PROVE  k' \in 0..(PerDispatch - 1) /\ at' \in {"commands", "tick"}
<1>1. k + 1 \in Nat /\ PerDispatch \in Nat \ {0}
  BY CapacityAssumption DEF DispatchInv, DispatchTypeOK
<1>2. (k + 1) % PerDispatch \in 0..(PerDispatch - 1)
  BY <1>1, Remainder
<1> QED
  BY <1>2 DEF NextCommand

(* The head of the queue leaves it, and takes its count of tries with it.  *)
LEMMA LeavesQueue ==
  ASSUME DispatchInv, payload_command_data # <<>>, PayloadTaskFrame,
         payload_command_data' = Tail(payload_command_data), RETRY_COUNT' = 0,
         at' \in {"commands", "tick"}, k' \in 0..(PerDispatch - 1), age' \in 0..Timeout,
         is_payload_on' \in BOOLEAN, answering' \in BOOLEAN, written' \in Seq(Nat)
  PROVE  DispatchInv'
<1>1. /\ payload_command_data \in Seq(Numbered) /\ curr_command_seq_num \in Nat
      /\ WellNumbered(payload_command_data, curr_command_seq_num)
      /\ Len(payload_command_data) \in Nat /\ Len(payload_command_data) <= Capacity
      /\ Capacity \in Nat
  BY CapacityAssumption DEF DispatchInv, DispatchTypeOK, Numbered
<1>2. /\ payload_command_data' \in Seq(Numbered)
      /\ Len(payload_command_data') = Len(payload_command_data) - 1
      /\ WellNumbered(payload_command_data', curr_command_seq_num)
  BY <1>1, TailNumbered
<1>3. Len(payload_command_data') <= Capacity
  BY <1>1, <1>2
<1>4. 0 \in 0..(MaxRetry + 1)
  BY RetryAssumption
<1>5. DispatchTypeOK'
  BY <1>2, <1>3, <1>4 DEF DispatchInv, DispatchTypeOK, PayloadTaskFrame, Numbered
<1> QED
  BY <1>2, <1>5 DEF DispatchInv, PayloadTaskFrame

(* The queue stays as it is.                                               *)
LEMMA KeepsQueue ==
  ASSUME DispatchInv, PayloadTaskFrame, UNCHANGED <<payload_command_data, written>>,
         RETRY_COUNT' \in 0..(MaxRetry + 1),
         payload_command_data = <<>> => RETRY_COUNT' = 0,
         at' \in {"commands", "tick"}, k' \in 0..(PerDispatch - 1), age' \in 0..Timeout,
         is_payload_on' \in BOOLEAN, answering' \in BOOLEAN
  PROVE  DispatchInv'
<1>1. DispatchTypeOK'
  BY DEF DispatchInv, DispatchTypeOK, PayloadTaskFrame
<1> QED
  BY <1>1 DEF DispatchInv, PayloadTaskFrame

LEMMA PayloadTaskStep ==
  ASSUME DispatchInv, PayloadTask
  PROVE  DispatchInv'
<1> USE DEF command, payload, task
<1>0. /\ DispatchTypeOK
      /\ payload_command_data = <<>> => RETRY_COUNT = 0
      /\ 0 \in 0..Timeout /\ 0 \in 0..(PerDispatch - 1) /\ 0 \in 0..(MaxRetry + 1)
  BY CapacityAssumption, RetryAssumption DEF DispatchInv
<1>1. \A d \in PingTimes \cup WriteTimes : Aged(d) \in 0..Timeout
  BY <1>0, AgedTypes, TimesAssumption
<1>2. CASE PayloadOff
  BY <1>0, <1>2, KeepsQueue DEF PayloadOff, PayloadTaskFrame, DispatchTypeOK
<1>3. CASE payload_restart
  BY <1>0, <1>3, KeepsQueue
     DEF payload_restart, payload_turn_on, PayloadTaskFrame, DispatchTypeOK
<1>4. CASE ping_command
  <2>1. /\ PayloadTaskFrame /\ UNCHANGED <<payload_command_data, written, RETRY_COUNT>>
        /\ is_payload_on' \in BOOLEAN /\ answering' \in BOOLEAN
        /\ age' \in 0..Timeout /\ k' \in 0..(PerDispatch - 1)
        /\ at' \in {"commands", "tick"}
    BY <1>0, <1>1, <1>4 DEF ping_command, PayloadTaskFrame, DispatchTypeOK
  <2> QED
    BY <1>0, <2>1, KeepsQueue DEF DispatchTypeOK
<1>5. CASE NoCommand
  <2>1. NextCommand
    BY <1>5 DEF NoCommand
  <2>2. k' \in 0..(PerDispatch - 1) /\ at' \in {"commands", "tick"}
    BY <2>1, NextCommandTypes
  <2> QED
    BY <1>0, <1>5, <2>2, KeepsQueue DEF NoCommand, PayloadTaskFrame, DispatchTypeOK
<1>6. CASE CommandWritten
  <2>1. /\ NextCommand /\ payload_command_data # <<>> /\ PayloadTaskFrame
        /\ payload_command_data' = Tail(payload_command_data) /\ RETRY_COUNT' = 0
        /\ answering' = TRUE /\ is_payload_on' = is_payload_on
        /\ written' = Append(written, Head(payload_command_data).number)
    BY <1>6 DEF CommandWritten, PayloadTaskFrame
  <2>2. age' \in 0..Timeout
    BY <1>1, <1>6 DEF CommandWritten
  <2>3. written' \in Seq(Nat)
    <3>1. payload_command_data \in Seq(Numbered)
      BY <1>0 DEF DispatchTypeOK, Numbered
    <3>2. Head(payload_command_data) \in Numbered
      BY <2>1, <3>1
    <3>3. Head(payload_command_data).number \in Nat
      BY <3>2 DEF Numbered
    <3> QED
      BY <1>0, <2>1, <3>3 DEF DispatchTypeOK
  <2>4. k' \in 0..(PerDispatch - 1) /\ at' \in {"commands", "tick"}
    BY <2>1, NextCommandTypes
  <2> QED
    BY <1>0, <2>1, <2>2, <2>3, <2>4, LeavesQueue DEF DispatchTypeOK
<1>7. CASE CommandFails
  <2>1. /\ payload_command_data # <<>> /\ PayloadTaskFrame /\ UNCHANGED written
        /\ answering' = FALSE /\ is_payload_on' = is_payload_on
    BY <1>7 DEF CommandFails, PayloadTaskFrame
  <2>2. age' \in 0..Timeout
    BY <1>1, <1>7 DEF CommandFails
  <2>3. CASE RETRY_COUNT > MaxRetry
    <3>1. /\ payload_command_data' = Tail(payload_command_data) /\ RETRY_COUNT' = 0
          /\ NextCommand
      BY <1>7, <2>3 DEF CommandFails
    <3>2. k' \in 0..(PerDispatch - 1) /\ at' \in {"commands", "tick"}
      BY <3>1, NextCommandTypes
    <3> QED
      BY <1>0, <2>1, <2>2, <3>1, <3>2, LeavesQueue DEF DispatchTypeOK
  <2>4. CASE ~(RETRY_COUNT > MaxRetry)
    <3>1. /\ RETRY_COUNT' = RETRY_COUNT + 1 /\ at' = "tick"
          /\ UNCHANGED <<payload_command_data, k>>
      BY <1>7, <2>4 DEF CommandFails
    <3>2. RETRY_COUNT' \in 0..(MaxRetry + 1)
      BY <1>0, <2>4, <3>1, RetryAssumption DEF DispatchTypeOK
    <3> QED
      BY <1>0, <2>1, <2>2, <3>1, <3>2, KeepsQueue DEF DispatchTypeOK
  <2> QED
    BY <2>3, <2>4
<1> QED
  BY <1>2, <1>3, <1>4, <1>5, <1>6, <1>7 DEF PayloadTask

LEMMA TransitionStep ==
  ASSUME DispatchInv, NEW d \in Nat, Transition(d)
  PROVE  DispatchInv'
<1>1. Aged(d) \in 0..Timeout
  BY AgedTypes DEF DispatchInv
<1>2. current_state_id' \in States
  BY DEF Transition, get_next_state, States, DispatchInv, DispatchTypeOK
<1>3. age' \in 0..Timeout
  BY <1>1 DEF Transition, DispatchInv, DispatchTypeOK
<1>4. DispatchTypeOK'
  BY <1>2, <1>3 DEF Transition, task, DispatchInv, DispatchTypeOK
<1> QED
  BY <1>4 DEF Transition, task, DispatchInv

LEMMA NextDispatchInv == DispatchInv /\ [DispatchNext]_dispatchVars => DispatchInv'
<1> SUFFICES ASSUME DispatchInv, [DispatchNext]_dispatchVars PROVE DispatchInv'
  OBVIOUS
<1>1. CASE beacon_task_dispatch
  <2>1. /\ Send(Beacon)
        /\ UNCHANGED <<at, current_state_id, command, payload, task>>
    BY <1>1 DEF beacon_task_dispatch
  <2>2. tx_queue' \in Seq({Beacon} \cup 0..(CountMod - 1)) /\ Len(tx_queue') <= TxQueueSize
    BY <2>1, SendTypes DEF DispatchInv
  <2>3. DispatchTypeOK'
    BY <2>1, <2>2 DEF command, payload, task, DispatchInv, DispatchTypeOK
  <2> QED
    BY <2>1, <2>3 DEF command, task, DispatchInv
<1>2. CASE tx_done
  <2>1. /\ tx_queue # <<>> /\ tx_queue' = Tail(tx_queue)
        /\ UNCHANGED <<at, current_state_id, command, payload, task>>
    BY <1>2 DEF tx_done
  <2>2. tx_queue' \in Seq({Beacon} \cup 0..(CountMod - 1)) /\ Len(tx_queue') <= TxQueueSize
    BY <2>1, CapacityAssumption, SMTT(60) DEF DispatchInv, DispatchTypeOK
  <2>3. DispatchTypeOK'
    BY <2>1, <2>2 DEF command, payload, task, DispatchInv, DispatchTypeOK
  <2> QED
    BY <2>1, <2>3 DEF command, task, DispatchInv
<1>3. CASE Commands
  BY <1>3, CommandsStep
<1>4. CASE PayloadTask
  BY <1>4, PayloadTaskStep
<1>5. CASE EndOfPass
  BY <1>5, TransitionStep DEF EndOfPass
<1>6. CASE Away
  BY <1>6, TransitionStep, TimesAssumption DEF Away
<1>7. CASE UNCHANGED dispatchVars
  <2>1. UNCHANGED <<at, current_state_id, command, tx_queue, payload, task>>
    BY <1>7 DEF dispatchVars
  <2>2. DispatchTypeOK'
    BY <2>1 DEF command, payload, task, DispatchInv, DispatchTypeOK
  <2> QED
    BY <2>1, <2>2 DEF command, task, DispatchInv
<1> QED
  BY <1>1, <1>2, <1>3, <1>4, <1>5, <1>6, <1>7 DEF DispatchNext

LEMMA DispatchInvariance == DispatchSpec => []DispatchInv
BY InitDispatchInv, NextDispatchInv, PTL DEF DispatchSpec

(* The variables of dispatch_command and the payload task have their       *)
(* types, and their two queues their bounds.                               *)
THEOREM DispatchTypeCorrect == DispatchSpec => []DispatchTypeOK
<1>1. DispatchInv => DispatchTypeOK
  BY DEF DispatchInv
<1> QED
  BY <1>1, DispatchInvariance, PTL

(* Numbers closer together than m leave different remainders.              *)
LEMMA RemaindersDiffer ==
  ASSUME NEW m \in Nat \ {0}, NEW a \in Nat, NEW b \in Nat, a < b, b - a < m
  PROVE  a % m # b % m
<1> SUFFICES ASSUME a % m = b % m PROVE FALSE
  OBVIOUS
<1> DEFINE d == (b \div m) - (a \div m)
<1>1. /\ a = m * (a \div m) + (a % m) /\ b = m * (b \div m) + (b % m)
      /\ a \div m \in Int /\ b \div m \in Int /\ a % m \in Nat /\ b % m \in Nat
  OBVIOUS
<1>2. b - a = m * d /\ d \in Int
  BY <1>1
<1> HIDE DEF d
<1>3. CASE d <= 0
  <2>1. m * d <= 0
    BY <1>2, <1>3
  <2> QED
    BY <1>2, <2>1
<1>4. CASE d >= 1
  <2>1. m * d >= m
    BY <1>2, <1>4
  <2> QED
    BY <1>2, <2>1
<1> QED
  BY <1>2, <1>3, <1>4

(* The payload tells apart the commands that wait, as long as no more than *)
(* SeqMod were numbered since the first of them: they carry different      *)
(* sequence numbers, the numbers that a full queue refused included.       *)
THEOREM WaitingToldApart == DispatchSpec => []NumbersTellApart
<1> DEFINE q == payload_command_data
           n == curr_command_seq_num
<1>1. DispatchInv => NumbersTellApart
  <2> SUFFICES ASSUME DispatchInv, q # <<>>, n - Head(q).number <= SeqMod,
                      NEW i \in DOMAIN q, NEW j \in DOMAIN q, i < j
               PROVE  q[i].seq_num # q[j].seq_num
    <3>1. DOMAIN q \subseteq Nat
      BY DEF DispatchInv, DispatchTypeOK
    <3> QED
      BY <3>1 DEF NumbersTellApart
  <2>1. /\ q \in Seq(Numbered) /\ WellNumbered(q, n) /\ n \in Nat
        /\ SeqMod \in Nat \ {0}
    BY CapacityAssumption DEF DispatchInv, DispatchTypeOK, Numbered
  <2> HIDE DEF q, n
  <2>2. /\ 1 \in DOMAIN q /\ Head(q) = q[1] /\ i \in Nat /\ j \in Nat /\ 1 <= i
        /\ q[1] \in Numbered /\ q[i] \in Numbered /\ q[j] \in Numbered
    BY <2>1
  <2>3. /\ q[i].number \in Nat /\ q[j].number \in Nat /\ q[1].number \in Nat
    BY <2>2 DEF Numbered
  <2>4. /\ q[i].number < q[j].number /\ q[j].number < n
        /\ q[1].number <= q[i].number
    <3>1. q[1].number < q[i].number \/ i = 1
      BY <2>1, <2>2 DEF WellNumbered
    <3> QED
      BY <2>1, <2>3, <3>1 DEF WellNumbered
  <2>5. q[j].number - q[i].number < SeqMod
    BY <2>1, <2>2, <2>3, <2>4
  <2>6. q[i].number % SeqMod # q[j].number % SeqMod
    BY <2>1, <2>3, <2>4, <2>5, RemaindersDiffer
  <2> QED
    BY <2>1, <2>6 DEF WellNumbered
<1> QED
  BY <1>1, DispatchInvariance, PTL

-----------------------------------------------------------------------------
(* The queue and the payload task implement Outbox.                        *)

LEMMA NumbersOf ==
  ASSUME NEW q \in Seq(Numbered)
  PROVE  /\ Numbers(q) \in Seq(Nat) /\ Len(Numbers(q)) = Len(q)
         /\ \A x \in Numbered : Numbers(Append(q, x)) = Append(Numbers(q), x.number)
         /\ q # <<>> => /\ Numbers(q) # <<>>
                        /\ Numbers(Tail(q)) = Tail(Numbers(q))
                        /\ Head(Numbers(q)) = Head(q).number
<1>1. /\ DOMAIN q = 1..Len(q) /\ Len(q) \in Nat /\ \A i \in 1..Len(q) : q[i] \in Numbered
  OBVIOUS
<1>2. Numbers(q) = [i \in 1..Len(q) |-> q[i].number]
  BY <1>1 DEF Numbers
<1>3. \A i \in 1..Len(q) : q[i].number \in Nat
  BY <1>1 DEF Numbered
<1>4. Numbers(q) \in Seq(Nat) /\ Len(Numbers(q)) = Len(q)
  BY <1>1, <1>2, <1>3
<1>5. ASSUME NEW x \in Numbered
      PROVE  Numbers(Append(q, x)) = Append(Numbers(q), x.number)
  <2> DEFINE r == Append(q, x)
             s == Append(Numbers(q), x.number)
  <2>1. x.number \in Nat
    BY DEF Numbered
  <2>2. /\ DOMAIN r = 1..(Len(q) + 1) /\ r[Len(q) + 1] = x
        /\ \A i \in 1..Len(q) : r[i] = q[i]
    BY <1>1
  <2>3. /\ s \in Seq(Nat) /\ Len(s) = Len(q) + 1 /\ s[Len(q) + 1] = x.number
        /\ \A i \in 1..Len(q) : s[i] = Numbers(q)[i]
    BY <1>4, <2>1
  <2> HIDE DEF r, s
  <2>4. Numbers(r) = [i \in 1..(Len(q) + 1) |-> r[i].number]
    BY <2>2 DEF Numbers
  <2>5. s = [i \in 1..(Len(q) + 1) |-> s[i]]
    BY <2>3
  <2>6. \A i \in 1..(Len(q) + 1) : s[i] = r[i].number
    BY <1>1, <1>2, <2>2, <2>3
  <2> QED
    BY <2>4, <2>5, <2>6 DEF r, s
<1>6. ASSUME q # <<>>
      PROVE  /\ Numbers(q) # <<>> /\ Numbers(Tail(q)) = Tail(Numbers(q))
             /\ Head(Numbers(q)) = Head(q).number
  <2> DEFINE r == Tail(q)
             s == Tail(Numbers(q))
  <2>1. Len(q) >= 1 /\ 1 \in 1..Len(q) /\ Numbers(q) # <<>>
    BY <1>1, <1>4, <1>6
  <2>2. /\ DOMAIN r = 1..(Len(q) - 1)
        /\ \A i \in 1..(Len(q) - 1) : i + 1 \in 1..Len(q) /\ r[i] = q[i + 1]
    BY <1>1, <1>6
  <2>3. /\ s \in Seq(Nat) /\ Len(s) = Len(q) - 1
        /\ \A i \in 1..(Len(q) - 1) : s[i] = Numbers(q)[i + 1]
    BY <1>4, <2>1
  <2>4. Head(Numbers(q)) = Numbers(q)[1] /\ Head(q) = q[1]
    BY <1>4, <2>1
  <2> HIDE DEF r, s
  <2>5. Numbers(r) = [i \in 1..(Len(q) - 1) |-> r[i].number]
    BY <2>2 DEF Numbers
  <2>6. s = [i \in 1..(Len(q) - 1) |-> s[i]]
    BY <2>3, <2>1
  <2>7. \A i \in 1..(Len(q) - 1) : s[i] = r[i].number
    BY <1>2, <2>2, <2>3, ZenonT(60)
  <2>8. Head(Numbers(q)) = Head(q).number
    BY <1>2, <2>1, <2>4
  <2> QED
    BY <2>1, <2>5, <2>6, <2>7, <2>8 DEF r, s
<1> QED
  BY <1>4, <1>5, <1>6

(* Commands are refused only by a full queue, written in the order they    *)
(* came in, each at most once, and given up only when they were tried      *)
(* MaxRetry + 2 times: every step of dispatch_command, of the payload task *)
(* and of what comes between is a step of Outbox or changes nothing there. *)
THEOREM CommandsTakeTurns == DispatchSpec => OutboxImplemented
<1> DEFINE q == payload_command_data
           n == curr_command_seq_num
           outbox == <<n, Numbers(q), written, RETRY_COUNT>>
<1>1. DispatchInit => CommandsInTurn!Init
  BY DEF DispatchInit, CommandsInTurn!Init, Numbers
<1>2. ASSUME DispatchInv, [DispatchNext]_dispatchVars
      PROVE  [CommandsInTurn!Next]_(CommandsInTurn!vars)
  <2> SUFFICES ASSUME outbox' # outbox PROVE CommandsInTurn!Next
    BY DEF CommandsInTurn!vars
  <2>1. /\ q \in Seq(Numbered) /\ n \in Nat /\ RETRY_COUNT \in 0..(MaxRetry + 1)
        /\ q = <<>> => RETRY_COUNT = 0
    BY <1>2 DEF DispatchInv, DispatchTypeOK, Numbered
  <2>2. CASE PAYLOAD_EXEC
    <3> DEFINE cmd == [number |-> n, seq_num |-> n % SeqMod]
    <3>1. cmd \in Numbered /\ cmd.number = n
      BY <2>1, CapacityAssumption, Remainder DEF Numbered
    <3>2. n' = n + 1 /\ Add(cmd) /\ UNCHANGED <<written, RETRY_COUNT>>
      BY <2>2 DEF PAYLOAD_EXEC, SeqNum
    <3> HIDE DEF cmd
    <3>3. Len(Numbers(q)) = Len(q) /\ Numbers(Append(q, cmd)) = Append(Numbers(q), n)
      BY <2>1, <3>1, NumbersOf
    <3>4. Numbers(q)' = IF Len(Numbers(q)) < Capacity THEN Append(Numbers(q), n) ELSE Numbers(q)
      BY <3>2, <3>3 DEF Add
    <3> QED
      BY <3>2, <3>4 DEF CommandsInTurn!Next, CommandsInTurn!Come
  <2>3. CASE CommandWritten
    <3>1. /\ q # <<>> /\ q' = Tail(q) /\ written' = Append(written, Head(q).number)
          /\ RETRY_COUNT' = 0 /\ n' = n
      BY <2>3 DEF CommandWritten, command
    <3> QED
      BY <2>1, <3>1, NumbersOf DEF CommandsInTurn!Next, CommandsInTurn!Write
  <2>4. CASE CommandFails
    <3>1. q # <<>> /\ n' = n /\ written' = written
      BY <2>4 DEF CommandFails, command
    <3>2. Numbers(q) # <<>> /\ Numbers(Tail(q)) = Tail(Numbers(q))
      BY <2>1, <3>1, NumbersOf
    <3>3. CASE RETRY_COUNT > MaxRetry
      <4>1. q' = Tail(q) /\ RETRY_COUNT' = 0
        BY <2>4, <3>3 DEF CommandFails
      <4>2. RETRY_COUNT + 1 = MaxRetry + 2
        BY <2>1, <3>3, RetryAssumption
      <4> QED
        BY <3>1, <3>2, <4>1, <4>2 DEF CommandsInTurn!Next, CommandsInTurn!TryInVain
    <3>4. CASE ~(RETRY_COUNT > MaxRetry)
      <4>1. q' = q /\ RETRY_COUNT' = RETRY_COUNT + 1
        BY <2>4, <3>4 DEF CommandFails
      <4>2. RETRY_COUNT + 1 # MaxRetry + 2
        BY <2>1, <3>4, RetryAssumption
      <4> QED
        BY <3>1, <3>2, <4>1, <4>2 DEF CommandsInTurn!Next, CommandsInTurn!TryInVain
    <3> QED
      BY <3>3, <3>4
  <2>5. CASE UNCHANGED <<q, n, written, RETRY_COUNT>>
    BY <2>5
  <2>6. CASE NoCommand
    <3>1. q = <<>> /\ RETRY_COUNT' = 0 /\ UNCHANGED <<q, n, written>>
      BY <2>6 DEF NoCommand, command
    <3> QED
      BY <2>1, <2>5, <3>1
  <2>7. CASE beacon_task_dispatch \/ tx_done \/ UNCHANGED dispatchVars
    BY <2>5, <2>7 DEF beacon_task_dispatch, tx_done, dispatchVars, command, task
  <2>8. CASE PING \/ PAYLOAD_TURN_ON \/ PAYLOAD_TURN_OFF \/ MANUAL_STATE_OVERRIDE
             \/ OtherCommand
    BY <2>5, <2>8 DEF PING, PAYLOAD_TURN_ON, PAYLOAD_TURN_OFF, MANUAL_STATE_OVERRIDE,
                      OtherCommand, task
  <2>9. CASE PayloadOff \/ payload_restart \/ ping_command
    BY <2>5, <2>9 DEF PayloadOff, payload_restart, ping_command, command, task
  <2>10. CASE EndOfPass \/ Away
    BY <2>5, <2>10 DEF EndOfPass, Away, Transition, task
  <2> QED
    BY <1>2, <2>2, <2>3, <2>4, <2>6, <2>7, <2>8, <2>9, <2>10
       DEF DispatchNext, Commands, PayloadTask
<1> QED
  BY <1>1, <1>2, DispatchInvariance, PTL DEF DispatchSpec, OutboxImplemented, CommandsInTurn!Spec
=============================================================================
