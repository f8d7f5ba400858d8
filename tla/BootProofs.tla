----------------------------- MODULE BootProofs -----------------------------
(***************************************************************************)
(* Proofs about what main() does before and around its dispatch loop:      *)
(* Deployment, for every attempt budget, both build profiles and any       *)
(* number of power losses; and Watchdog, for every timing.                 *)
(***************************************************************************)
EXTENDS Deployment, Watchdog, TLAPS

(* Where the sector stands: erased while a record is on its way to it, and *)
(* otherwise either erased or marked.                                      *)
SectorInv ==
  /\ writing => flash = Erased /\ staged.marker
  /\ ~flash.marker => flash = Erased
  /\ pc \in {"boot", "load", "burn", "burning"} => ~writing

(* The burn circuit is on exactly between the two halves of                *)
(* burn_wire_activate, and an attempt runs only in the burn wire state,    *)
(* with budget left and some panel closed.                                 *)
CircuitInv ==
  /\ pc = "burning" => relay /\ enabled = {Channel} /\ todo # {}
  /\ pc # "burning" => ~relay /\ enabled = {}
  /\ pc \in {"burn", "burning"} =>
       /\ slate.current_state_id = "BURN_WIRE"
       /\ flash.burn_wire_attempts < MaxAttempts
       /\ closed # {} /\ todo \subseteq closed

(* Only the running state takes requests, and every state but INIT is      *)
(* reached through INIT with the remove-before-flight pin out.             *)
StateInv ==
  /\ slate.manual_override_state_id # NoState /\ pc \notin {"boot", "load", "count", "init"}
       => slate.current_state_id = "RUNNING"
  /\ rbf => slate.current_state_id = "INIT"

(* Every attempt begun is in the flash counter, is known to be uncounted,  *)
(* or is the one in progress.                                              *)
LedgerInv ==
  /\ begun = Intended.burn_wire_attempts + uncounted + (IF InAttempt THEN 1 ELSE 0)
  /\ Intended.burn_wire_attempts <= MaxAttempts
  /\ ~torn => uncounted <= losses

(* The counter meant for flash is above every boot number used so far; the *)
(* number main has loaded is one that has not been used.                   *)
BootInv ==
  /\ ~torn => \A b \in boots : b < Intended.reboot_counter
  /\ pc = "count" => loaded = Intended.reboot_counter
  /\ pc = "init" /\ ~torn => \A b \in boots : b < loaded
  /\ pc = "init" => Intended.reboot_counter = loaded + 1

IInv ==
  TypeOK /\ SectorInv /\ ReadsAreMarked /\ CircuitInv /\ StateInv /\ LedgerInv /\ BootInv

(* Every step keeps the type invariant.                                    *)
LEMMA TypeOKStep == IInv /\ [Next]_vars => TypeOK'
<1> SUFFICES ASSUME IInv, [Next]_vars PROVE TypeOK'
  OBVIOUS
<1> USE MaxAttemptsAssumption, FlightAssumption, MaxPowerLossesAssumption
<1> USE DEF IInv, persistent, outputs, environment, history, Idle, TypeOK,
       PersistentDataTypeOK, Record, Erased, Points, States, Panels, NoState,
       InAttempt, Channel
<1>1. CASE Disperse
  BY <1>1 DEF Disperse
<1>2. CASE init_persistent_data
  BY <1>2 DEF init_persistent_data, BeginWrite, LoadedRecord
<1>3. CASE increment_reboot_counter
  BY <1>3 DEF increment_reboot_counter, BeginWrite, RebootCounted
<1>4. CASE init
  BY <1>4 DEF init
<1>5. CASE DispatchNoTasks
  BY <1>5 DEF DispatchNoTasks
<1>6. CASE DispatchRunning
  <2>1. PICK seen \in {slate.panels, released}, request \in States \cup {NoState} :
          slate' = [slate EXCEPT !.panels = seen, !.manual_override_state_id = request]
    BY <1>6 DEF DispatchRunning
  <2>2. seen \in SUBSET Panels
    BY <2>1
  <2>3. slate' \in [current_state_id : States, manual_override_state_id : States \cup {NoState},
                   reboot_counter : Nat, panels : SUBSET Panels]
    BY <2>1, <2>2
  <2>4. pc' \in Points
    BY <1>6 DEF DispatchRunning
  <2>5. UNCHANGED <<persistent, loaded, outputs, todo, environment, history>>
    BY <1>6 DEF DispatchRunning
  <2> QED
    BY <2>3, <2>4, <2>5
<1>7. CASE burn_wire_task_dispatch
  BY <1>7, ZenonT(60) DEF burn_wire_task_dispatch
<1>8. CASE burn_wire_activate
  BY <1>8 DEF burn_wire_activate
<1>9. CASE burn_wire_deactivate
  BY <1>9, ZenonT(60) DEF burn_wire_deactivate
<1>10. CASE increment_burn_wire_attempts
  BY <1>10 DEF increment_burn_wire_attempts, BeginWrite, AttemptCounted
<1>11. CASE TransitionByOverride
  BY <1>11 DEF TransitionByOverride
<1>12. CASE Transition
  BY <1>12 DEF Transition, GetNextState, init_get_next_state,
         burn_wire_get_next_state
<1>13. CASE TransitionFromReset
  BY <1>13 DEF TransitionFromReset, BeginWrite, AttemptsReset, GetNextState
<1>14. CASE FinishWrite
  <2>1. PersistentDataTypeOK'
    BY <1>14 DEF FinishWrite, EndWrite
  <2>2. UNCHANGED <<pc, loaded, slate, outputs, todo, environment, history>>
    BY <1>14 DEF FinishWrite
  <2> QED
    BY <2>1, <2>2
<1>15. CASE PowerLoss
  <2>1. torn' \in BOOLEAN
    BY <1>15, Zenon DEF PowerLoss
  <2>2. losses' \in 0..MaxPowerLosses /\ uncounted' \in Nat
    BY <1>15 DEF PowerLoss
  <2>3. /\ flash' \in Record /\ writing' \in BOOLEAN /\ staged' \in Record
        /\ pc' \in Points /\ loaded' \in Nat
        /\ slate' \in [current_state_id : States,
                       manual_override_state_id : States \cup {NoState},
                       reboot_counter : Nat, panels : SUBSET Panels]
    BY <1>15 DEF PowerLoss, ClearedSlate
  <2>4. relay' = FALSE /\ enabled' = {} /\ todo' = {}
    BY <1>15 DEF PowerLoss
  <2>5. UNCHANGED <<rbf, released, begun, closed, boots>>
    BY <1>15 DEF PowerLoss
  <2> QED
    BY <2>1, <2>2, <2>3, <2>4, <2>5
<1>16. CASE RemoveRbf
  <2>1. rbf' \in BOOLEAN
    BY <1>16, Zenon DEF RemoveRbf
  <2>2. UNCHANGED <<persistent, pc, loaded, slate, outputs, todo, released, losses, history>>
    BY <1>16 DEF RemoveRbf
  <2> QED
    BY <2>1, <2>2
<1>17. ASSUME NEW p \in Panels, Release(p) PROVE TypeOK'
  BY <1>17 DEF Release
<1>18. CASE UNCHANGED vars
  BY <1>18 DEF vars
<1> QED
  BY <1>1, <1>2, <1>3, <1>4, <1>5, <1>6, <1>7, <1>8, <1>9, <1>10, <1>11,
         <1>12, <1>13, <1>14, <1>15, <1>16, <1>17, <1>18 DEF Next, Main

(* Every step keeps the sector erased or marked, and erased during a       *)
(* write.                                                                  *)
LEMMA SectorInvStep == IInv /\ [Next]_vars => SectorInv'
<1> SUFFICES ASSUME IInv, [Next]_vars PROVE SectorInv'
  OBVIOUS
<1> USE MaxAttemptsAssumption, FlightAssumption, MaxPowerLossesAssumption
<1> USE DEF IInv, persistent, outputs, environment, history, Idle, TypeOK,
       PersistentDataTypeOK, Record, SectorInv, ReadsAreMarked, Erased
<1>1. CASE Disperse
  BY <1>1 DEF Disperse
<1>2. CASE init_persistent_data
  BY <1>2 DEF init_persistent_data, BeginWrite, LoadedRecord
<1>3. CASE increment_reboot_counter
  BY <1>3 DEF increment_reboot_counter, BeginWrite, RebootCounted
<1>4. CASE init
  BY <1>4 DEF init
<1>5. CASE DispatchNoTasks
  BY <1>5 DEF DispatchNoTasks
<1>6. CASE DispatchRunning
  BY <1>6 DEF DispatchRunning
<1>7. CASE burn_wire_task_dispatch
  BY <1>7 DEF burn_wire_task_dispatch
<1>8. CASE burn_wire_activate
  BY <1>8 DEF burn_wire_activate
<1>9. CASE burn_wire_deactivate
  BY <1>9 DEF burn_wire_deactivate
<1>10. CASE increment_burn_wire_attempts
  BY <1>10 DEF increment_burn_wire_attempts, BeginWrite, AttemptCounted
<1>11. CASE TransitionByOverride
  BY <1>11 DEF TransitionByOverride
<1>12. CASE Transition
  BY <1>12 DEF Transition, GetNextState, init_get_next_state,
         burn_wire_get_next_state
<1>13. CASE TransitionFromReset
  BY <1>13 DEF TransitionFromReset, BeginWrite, AttemptsReset, GetNextState
<1>14. CASE FinishWrite
  BY <1>14 DEF FinishWrite, EndWrite
<1>15. CASE PowerLoss
  BY <1>15 DEF PowerLoss, ClearedSlate
<1>16. CASE RemoveRbf
  BY <1>16 DEF RemoveRbf
<1>17. ASSUME NEW p \in Panels, Release(p) PROVE SectorInv'
  BY <1>17 DEF Release
<1>18. CASE UNCHANGED vars
  BY <1>18 DEF vars
<1> QED
  BY <1>1, <1>2, <1>3, <1>4, <1>5, <1>6, <1>7, <1>8, <1>9, <1>10, <1>11,
         <1>12, <1>13, <1>14, <1>15, <1>16, <1>17, <1>18 DEF Next, Main

(* No step of main but those before init_persistent_data's write meets an  *)
(* unmarked sector.                                                        *)
LEMMA ReadsAreMarkedStep == IInv /\ [Next]_vars => ReadsAreMarked'
<1> SUFFICES ASSUME IInv, [Next]_vars PROVE ReadsAreMarked'
  OBVIOUS
<1> USE MaxAttemptsAssumption, FlightAssumption, MaxPowerLossesAssumption
<1> USE DEF IInv, persistent, outputs, environment, history, Idle, TypeOK,
       PersistentDataTypeOK, Record, SectorInv, ReadsAreMarked, Erased
<1>1. CASE Disperse
  BY <1>1 DEF Disperse
<1>2. CASE init_persistent_data
  BY <1>2 DEF init_persistent_data, BeginWrite, LoadedRecord
<1>3. CASE increment_reboot_counter
  BY <1>3 DEF increment_reboot_counter, BeginWrite, RebootCounted
<1>4. CASE init
  BY <1>4 DEF init
<1>5. CASE DispatchNoTasks
  BY <1>5 DEF DispatchNoTasks
<1>6. CASE DispatchRunning
  BY <1>6 DEF DispatchRunning
<1>7. CASE burn_wire_task_dispatch
  BY <1>7 DEF burn_wire_task_dispatch
<1>8. CASE burn_wire_activate
  BY <1>8 DEF burn_wire_activate
<1>9. CASE burn_wire_deactivate
  BY <1>9 DEF burn_wire_deactivate
<1>10. CASE increment_burn_wire_attempts
  BY <1>10 DEF increment_burn_wire_attempts, BeginWrite, AttemptCounted
<1>11. CASE TransitionByOverride
  BY <1>11 DEF TransitionByOverride
<1>12. CASE Transition
  BY <1>12 DEF Transition, GetNextState, init_get_next_state,
         burn_wire_get_next_state
<1>13. CASE TransitionFromReset
  BY <1>13 DEF TransitionFromReset, BeginWrite, AttemptsReset, GetNextState
<1>14. CASE FinishWrite
  BY <1>14 DEF FinishWrite, EndWrite
<1>15. CASE PowerLoss
  BY <1>15 DEF PowerLoss, ClearedSlate
<1>16. CASE RemoveRbf
  BY <1>16 DEF RemoveRbf
<1>17. ASSUME NEW p \in Panels, Release(p) PROVE ReadsAreMarked'
  BY <1>17 DEF Release
<1>18. CASE UNCHANGED vars
  BY <1>18 DEF vars
<1> QED
  BY <1>1, <1>2, <1>3, <1>4, <1>5, <1>6, <1>7, <1>8, <1>9, <1>10, <1>11,
         <1>12, <1>13, <1>14, <1>15, <1>16, <1>17, <1>18 DEF Next, Main

(* Only burn_wire_activate turns the burn circuit on, and its second half  *)
(* always turns it off.                                                    *)
LEMMA CircuitInvStep == IInv /\ [Next]_vars => CircuitInv'
<1> SUFFICES ASSUME IInv, [Next]_vars PROVE CircuitInv'
  OBVIOUS
<1> USE MaxAttemptsAssumption, FlightAssumption, MaxPowerLossesAssumption
<1> USE DEF IInv, persistent, outputs, environment, history, Idle, TypeOK,
       PersistentDataTypeOK, Record, SectorInv, CircuitInv, Channel, Panels,
       get_burn_wire_attempts, Erased
<1>1. CASE Disperse
  BY <1>1 DEF Disperse
<1>2. CASE init_persistent_data
  BY <1>2 DEF init_persistent_data, BeginWrite, LoadedRecord
<1>3. CASE increment_reboot_counter
  BY <1>3 DEF increment_reboot_counter, BeginWrite, RebootCounted
<1>4. CASE init
  BY <1>4 DEF init
<1>5. CASE DispatchNoTasks
  BY <1>5 DEF DispatchNoTasks
<1>6. CASE DispatchRunning
  BY <1>6 DEF DispatchRunning
<1>7. CASE burn_wire_task_dispatch
  <2>1. CASE released = Panels \/ get_burn_wire_attempts >= MaxAttempts
    BY <1>7, <2>1 DEF burn_wire_task_dispatch
  <2>2. CASE ~(released = Panels \/ get_burn_wire_attempts >= MaxAttempts)
    <3>1. Panels \ released # {}
      BY <2>2
    <3>2. flash.burn_wire_attempts < MaxAttempts
      BY <2>2
    <3> QED
      BY <1>7, <2>2, <3>1, <3>2 DEF burn_wire_task_dispatch
  <2> QED
    BY <2>1, <2>2
<1>8. CASE burn_wire_activate
  BY <1>8 DEF burn_wire_activate
<1>9. CASE burn_wire_deactivate
  BY <1>9 DEF burn_wire_deactivate
<1>10. CASE increment_burn_wire_attempts
  BY <1>10 DEF increment_burn_wire_attempts, BeginWrite, AttemptCounted
<1>11. CASE TransitionByOverride
  BY <1>11 DEF TransitionByOverride
<1>12. CASE Transition
  BY <1>12 DEF Transition, GetNextState, init_get_next_state,
         burn_wire_get_next_state
<1>13. CASE TransitionFromReset
  BY <1>13 DEF TransitionFromReset, BeginWrite, AttemptsReset, GetNextState
<1>14. CASE FinishWrite
  BY <1>14 DEF FinishWrite, EndWrite
<1>15. CASE PowerLoss
  BY <1>15 DEF PowerLoss, ClearedSlate
<1>16. CASE RemoveRbf
  BY <1>16 DEF RemoveRbf
<1>17. ASSUME NEW p \in Panels, Release(p) PROVE CircuitInv'
  BY <1>17 DEF Release
<1>18. CASE UNCHANGED vars
  BY <1>18 DEF vars
<1> QED
  BY <1>1, <1>2, <1>3, <1>4, <1>5, <1>6, <1>7, <1>8, <1>9, <1>10, <1>11,
         <1>12, <1>13, <1>14, <1>15, <1>16, <1>17, <1>18 DEF Next, Main

(* No state but INIT is entered while the remove-before-flight pin is in.  *)
LEMMA StateInvStep == IInv /\ [Next]_vars => StateInv'
<1> SUFFICES ASSUME IInv, [Next]_vars PROVE StateInv'
  OBVIOUS
<1> USE MaxAttemptsAssumption, FlightAssumption, MaxPowerLossesAssumption
<1> USE DEF IInv, persistent, outputs, environment, history, Idle, TypeOK,
       StateInv, SectorInv, CircuitInv, States, NoState,
       get_burn_wire_attempts
<1>1. CASE Disperse
  BY <1>1 DEF Disperse
<1>2. CASE init_persistent_data
  BY <1>2 DEF init_persistent_data, BeginWrite, LoadedRecord
<1>3. CASE increment_reboot_counter
  BY <1>3 DEF increment_reboot_counter, BeginWrite, RebootCounted
<1>4. CASE init
  BY <1>4 DEF init
<1>5. CASE DispatchNoTasks
  BY <1>5 DEF DispatchNoTasks
<1>6. CASE DispatchRunning
  BY <1>6 DEF DispatchRunning
<1>7. CASE burn_wire_task_dispatch
  BY <1>7 DEF burn_wire_task_dispatch
<1>8. CASE burn_wire_activate
  BY <1>8 DEF burn_wire_activate
<1>9. CASE burn_wire_deactivate
  BY <1>9 DEF burn_wire_deactivate
<1>10. CASE increment_burn_wire_attempts
  BY <1>10 DEF increment_burn_wire_attempts, BeginWrite, AttemptCounted
<1>11. CASE TransitionByOverride
  BY <1>11 DEF TransitionByOverride
<1>12. CASE Transition
  BY <1>12 DEF Transition, GetNextState, init_get_next_state,
         burn_wire_get_next_state
<1>13. CASE TransitionFromReset
  BY <1>13 DEF TransitionFromReset, BeginWrite, AttemptsReset, GetNextState
<1>14. CASE FinishWrite
  BY <1>14 DEF FinishWrite, EndWrite
<1>15. CASE PowerLoss
  BY <1>15 DEF PowerLoss, ClearedSlate
<1>16. CASE RemoveRbf
  BY <1>16 DEF RemoveRbf
<1>17. ASSUME NEW p \in Panels, Release(p) PROVE StateInv'
  BY <1>17 DEF Release
<1>18. CASE UNCHANGED vars
  BY <1>18 DEF vars
<1> QED
  BY <1>1, <1>2, <1>3, <1>4, <1>5, <1>6, <1>7, <1>8, <1>9, <1>10, <1>11,
         <1>12, <1>13, <1>14, <1>15, <1>16, <1>17, <1>18 DEF Next, Main

(* The ledger of burn attempts balances across every step, power losses    *)
(* included.                                                               *)
LEMMA LedgerInvStep == IInv /\ [Next]_vars => LedgerInv'
<1> SUFFICES ASSUME IInv, [Next]_vars PROVE LedgerInv'
  OBVIOUS
<1> USE MaxAttemptsAssumption, FlightAssumption, MaxPowerLossesAssumption
<1> USE DEF IInv, persistent, outputs, environment, history, Idle, TypeOK,
       PersistentDataTypeOK, Record, SectorInv, ReadsAreMarked, CircuitInv,
       LedgerInv, Intended, InAttempt, Channel, Panels,
       get_burn_wire_attempts, Erased
<1>1. CASE Disperse
  BY <1>1 DEF Disperse
<1>2. CASE init_persistent_data
  BY <1>2 DEF init_persistent_data, BeginWrite, LoadedRecord
<1>3. CASE increment_reboot_counter
  BY <1>3 DEF increment_reboot_counter, BeginWrite, RebootCounted
<1>4. CASE init
  BY <1>4 DEF init
<1>5. CASE DispatchNoTasks
  BY <1>5 DEF DispatchNoTasks
<1>6. CASE DispatchRunning
  BY <1>6 DEF DispatchRunning
<1>7. CASE burn_wire_task_dispatch
  BY <1>7 DEF burn_wire_task_dispatch
<1>8. CASE burn_wire_activate
  BY <1>8 DEF burn_wire_activate
<1>9. CASE burn_wire_deactivate
  BY <1>9, ZenonT(60) DEF burn_wire_deactivate
<1>10. CASE increment_burn_wire_attempts
  BY <1>10 DEF increment_burn_wire_attempts, BeginWrite, AttemptCounted
<1>11. CASE TransitionByOverride
  BY <1>11 DEF TransitionByOverride
<1>12. CASE Transition
  BY <1>12 DEF Transition, GetNextState, init_get_next_state,
         burn_wire_get_next_state
<1>13. CASE TransitionFromReset
  BY <1>13 DEF TransitionFromReset, BeginWrite, AttemptsReset, GetNextState
<1>14. CASE FinishWrite
  BY <1>14 DEF FinishWrite, EndWrite
<1>15. CASE PowerLoss
  BY <1>15 DEF PowerLoss, ClearedSlate
<1>16. CASE RemoveRbf
  BY <1>16 DEF RemoveRbf
<1>17. ASSUME NEW p \in Panels, Release(p) PROVE LedgerInv'
  BY <1>17 DEF Release
<1>18. CASE UNCHANGED vars
  BY <1>18 DEF vars
<1> QED
  BY <1>1, <1>2, <1>3, <1>4, <1>5, <1>6, <1>7, <1>8, <1>9, <1>10, <1>11,
         <1>12, <1>13, <1>14, <1>15, <1>16, <1>17, <1>18 DEF Next, Main

(* The reboot counter in flash stays above every number used.              *)
LEMMA BootInvStep == IInv /\ [Next]_vars => BootInv'
<1> SUFFICES ASSUME IInv, [Next]_vars PROVE BootInv'
  OBVIOUS
<1> USE MaxAttemptsAssumption, FlightAssumption, MaxPowerLossesAssumption
<1> USE DEF IInv, persistent, outputs, environment, history, Idle, TypeOK,
       PersistentDataTypeOK, Record, SectorInv, ReadsAreMarked, BootInv,
       Intended, Erased
<1>1. CASE Disperse
  BY <1>1 DEF Disperse
<1>2. CASE init_persistent_data
  BY <1>2 DEF init_persistent_data, BeginWrite, LoadedRecord
<1>3. CASE increment_reboot_counter
  BY <1>3 DEF increment_reboot_counter, BeginWrite, RebootCounted
<1>4. CASE init
  BY <1>4 DEF init
<1>5. CASE DispatchNoTasks
  BY <1>5 DEF DispatchNoTasks
<1>6. CASE DispatchRunning
  BY <1>6 DEF DispatchRunning
<1>7. CASE burn_wire_task_dispatch
  BY <1>7 DEF burn_wire_task_dispatch
<1>8. CASE burn_wire_activate
  BY <1>8 DEF burn_wire_activate
<1>9. CASE burn_wire_deactivate
  BY <1>9 DEF burn_wire_deactivate
<1>10. CASE increment_burn_wire_attempts
  BY <1>10 DEF increment_burn_wire_attempts, BeginWrite, AttemptCounted
<1>11. CASE TransitionByOverride
  BY <1>11 DEF TransitionByOverride
<1>12. CASE Transition
  BY <1>12 DEF Transition, GetNextState, init_get_next_state,
         burn_wire_get_next_state
<1>13. CASE TransitionFromReset
  BY <1>13 DEF TransitionFromReset, BeginWrite, AttemptsReset, GetNextState
<1>14. CASE FinishWrite
  BY <1>14 DEF FinishWrite, EndWrite
<1>15. CASE PowerLoss
  BY <1>15 DEF PowerLoss, ClearedSlate
<1>16. CASE RemoveRbf
  BY <1>16 DEF RemoveRbf
<1>17. ASSUME NEW p \in Panels, Release(p) PROVE BootInv'
  BY <1>17 DEF Release
<1>18. CASE UNCHANGED vars
  BY <1>18 DEF vars
<1> QED
  BY <1>1, <1>2, <1>3, <1>4, <1>5, <1>6, <1>7, <1>8, <1>9, <1>10, <1>11,
         <1>12, <1>13, <1>14, <1>15, <1>16, <1>17, <1>18 DEF Next, Main

(* The invariant holds of the initial state and every step keeps it.       *)
LEMMA Invariance == Spec => []IInv
<1>1. Init => IInv
  <2> SUFFICES ASSUME Init PROVE IInv
    OBVIOUS
  <2> USE MaxAttemptsAssumption, MaxPowerLossesAssumption
  <2> USE DEF Init, PersistentDataInit, Erased, ClearedSlate, Idle
  <2>1. TypeOK
    <3>1. relay \in BOOLEAN /\ rbf \in BOOLEAN /\ torn \in BOOLEAN
      BY Zenon
    <3>2. PersistentDataTypeOK
      BY DEF PersistentDataTypeOK, Record
    <3>3. slate \in [current_state_id : States, manual_override_state_id : States \cup {NoState},
                    reboot_counter : Nat, panels : SUBSET Panels]
      BY DEF States, NoState
    <3>4. /\ pc \in Points /\ loaded \in Nat /\ losses \in 0..MaxPowerLosses
          /\ begun \in Nat /\ uncounted \in Nat
      BY DEF Points
    <3>5. /\ enabled \in SUBSET Panels /\ todo \in SUBSET Panels /\ released \in SUBSET Panels
          /\ closed \in SUBSET Panels /\ boots \in SUBSET Nat
      OBVIOUS
    <3> QED
      BY <3>1, <3>2, <3>3, <3>4, <3>5 DEF TypeOK
  <2>2. SectorInv /\ ReadsAreMarked
    BY DEF SectorInv, ReadsAreMarked
  <2>3. CircuitInv
    BY DEF CircuitInv
  <2>4. StateInv
    BY DEF StateInv, NoState
  <2>5. LedgerInv /\ BootInv
    BY DEF LedgerInv, BootInv, Intended, InAttempt
  <2> QED
    BY <2>1, <2>2, <2>3, <2>4, <2>5 DEF IInv
<1>2. IInv /\ [Next]_vars => IInv'
  BY TypeOKStep, SectorInvStep, ReadsAreMarkedStep, CircuitInvStep, StateInvStep,
     LedgerInvStep, BootInvStep DEF IInv
<1> QED
  BY <1>1, <1>2, PTL DEF Spec

(* The state of the boot and deployment logic has its type in every        *)
(* behaviour.                                                              *)
THEOREM TypeCorrect == Spec => []TypeOK
<1>1. IInv => TypeOK
  BY DEF IInv
<1> QED
  BY <1>1, Invariance, PTL

(* After any pattern of power losses, flash.c's counters are read only     *)
(* from a sector that carries the marker.                                  *)
THEOREM ReadsMarked == Spec => []ReadsAreMarked
<1>1. IInv => ReadsAreMarked
  BY DEF IInv
<1> QED
  BY <1>1, Invariance, PTL

(* The burn circuit of burn_wire.c is energised only under its interlock:  *)
(* burn wire state, pin out, budget left, one channel of a closed panel.   *)
THEOREM InterlockHolds == Spec => []BurnInterlock
<1>1. IInv => BurnInterlock
  BY ZenonT(60) DEF IInv, BurnInterlock, CircuitInv, StateInv, TypeOK, Channel, Panels, States,
         get_burn_wire_attempts
<1> QED
  BY <1>1, Invariance, PTL

(* burn_wire_task begins at most MAX_BURN_WIRE_ATTEMPTS attempts plus one  *)
(* per power loss, unless a power loss hits a flash write.                 *)
THEOREM BudgetHolds == Spec => []BurnBudget
<1>1. IInv => BurnBudget
  <2> SUFFICES ASSUME IInv, ~torn PROVE begun <= MaxAttempts + losses
    BY DEF BurnBudget
  <2>1. uncounted <= losses
    BY DEF IInv, LedgerInv
  <2>2. Intended.burn_wire_attempts + (IF InAttempt THEN 1 ELSE 0) <= MaxAttempts
    BY MaxAttemptsAssumption
       DEF IInv, LedgerInv, CircuitInv, SectorInv, TypeOK, PersistentDataTypeOK, Record,
           Intended, Idle, InAttempt
  <2> QED
    BY <2>1, <2>2, MaxAttemptsAssumption
       DEF IInv, LedgerInv, TypeOK, PersistentDataTypeOK, Record, Intended, InAttempt
<1> QED
  BY <1>1, Invariance, PTL

(* No two boots run under one number, unless a power loss hits a flash     *)
(* write.                                                                  *)
THEOREM BootNumbersAreFresh == Spec => BootNumbersFresh
<1>1. IInv /\ [Next]_vars =>
        [pc = "init" /\ pc' = "dispatch" => torn \/ slate'.reboot_counter \notin boots]_vars
  <2> SUFFICES ASSUME IInv, Next, pc = "init", pc' = "dispatch", ~torn
               PROVE  slate'.reboot_counter \notin boots
    BY DEF vars
  <2>1. init
    BY DEF Next, Main, Disperse, init_persistent_data, increment_reboot_counter,
           DispatchNoTasks, DispatchRunning, burn_wire_task_dispatch, burn_wire_activate,
           burn_wire_deactivate, increment_burn_wire_attempts, TransitionByOverride,
           Transition, TransitionFromReset, FinishWrite, PowerLoss, RemoveRbf, Release
  <2>2. slate'.reboot_counter = loaded
    BY <2>1 DEF init, IInv, TypeOK
  <2>3. \A b \in boots : b < loaded
    BY DEF IInv, BootInv
  <2> QED
    BY <2>2, <2>3 DEF IInv, TypeOK
<1> QED
  BY <1>1, Invariance, PTL DEF Spec, BootNumbersFresh

-----------------------------------------------------------------------------
(* What the slate says of the panels, and how the burn wire state is left. *)

(* Until sched_init runs, the slate is the cleared one.                    *)
ClearedUntilInit == pc \in {"boot", "load", "count", "init"} => slate = ClearedSlate

SlateInv == PanelBitsSound /\ ClearedUntilInit

(* The panel bits are only ever overwritten with the pins' readings, and   *)
(* a panel that is out stays out.                                          *)
LEMMA SlateInvStep == IInv /\ SlateInv /\ [Next]_vars => SlateInv'
<1> SUFFICES ASSUME IInv, SlateInv, [Next]_vars PROVE SlateInv'
  OBVIOUS
<1> USE DEF IInv, SlateInv, PanelBitsSound, ClearedUntilInit, TypeOK, environment, Idle
<1>1. CASE Disperse
  BY <1>1 DEF Disperse
<1>2. CASE init_persistent_data
  BY <1>2 DEF init_persistent_data
<1>3. CASE increment_reboot_counter
  BY <1>3 DEF increment_reboot_counter
<1>4. CASE init
  BY <1>4 DEF init
<1>5. CASE DispatchNoTasks
  BY <1>5 DEF DispatchNoTasks
<1>6. CASE DispatchRunning
  BY <1>6 DEF DispatchRunning
<1>7. CASE burn_wire_task_dispatch
  BY <1>7 DEF burn_wire_task_dispatch
<1>8. CASE burn_wire_activate
  BY <1>8 DEF burn_wire_activate
<1>9. CASE burn_wire_deactivate
  BY <1>9 DEF burn_wire_deactivate
<1>10. CASE increment_burn_wire_attempts
  BY <1>10 DEF increment_burn_wire_attempts
<1>11. CASE TransitionByOverride
  BY <1>11 DEF TransitionByOverride
<1>12. CASE Transition
  BY <1>12 DEF Transition
<1>13. CASE TransitionFromReset
  BY <1>13 DEF TransitionFromReset
<1>14. CASE FinishWrite
  BY <1>14 DEF FinishWrite
<1>15. CASE PowerLoss
  BY <1>15 DEF PowerLoss, ClearedSlate
<1>16. CASE RemoveRbf
  BY <1>16 DEF RemoveRbf
<1>17. ASSUME NEW p \in Panels, Release(p) PROVE SlateInv'
  BY <1>17 DEF Release
<1>18. CASE UNCHANGED vars
  BY <1>18 DEF vars
<1> QED
  BY <1>1, <1>2, <1>3, <1>4, <1>5, <1>6, <1>7, <1>8, <1>9, <1>10, <1>11,
         <1>12, <1>13, <1>14, <1>15, <1>16, <1>17, <1>18 DEF Next, Main

LEMMA SlateInvariance == Spec => []SlateInv
<1>1. Init => SlateInv
  BY DEF Init, SlateInv, PanelBitsSound, ClearedUntilInit, ClearedSlate
<1> QED
  BY <1>1, SlateInvStep, Invariance, PTL DEF Spec

(* The beacon never claims a panel that is not deployed.                   *)
THEOREM PanelBitsAreSound == Spec => []PanelBitsSound
<1>1. SlateInv => PanelBitsSound
  BY DEF SlateInv
<1> QED
  BY <1>1, SlateInvariance, PTL

(* The burn wire state is left only for running, with the panels out or    *)
(* the budget spent, and with the pins' readings in the slate: an override *)
(* cannot cut a deployment short, since only the running state takes one.  *)
THEOREM BurnWireLeft == Spec => BurnWireLeftForCause
<1>1. IInv /\ SlateInv /\ [Next]_vars =>
        [slate.current_state_id = "BURN_WIRE" /\ slate'.current_state_id # "BURN_WIRE"
           /\ pc' # "boot" =>
         /\ slate'.current_state_id = "RUNNING"
         /\ slate'.panels = released
         /\ released = Panels \/ get_burn_wire_attempts >= MaxAttempts]_vars
  <2> SUFFICES ASSUME IInv, SlateInv, Next, pc' # "boot",
                      slate.current_state_id = "BURN_WIRE",
                      slate'.current_state_id # "BURN_WIRE"
               PROVE  /\ slate'.current_state_id = "RUNNING"
                      /\ slate'.panels = released
                      /\ released = Panels \/ get_burn_wire_attempts >= MaxAttempts
    BY DEF vars
  <2>1. ~init
    BY DEF init, SlateInv, ClearedUntilInit, ClearedSlate
  <2>2. ~DispatchRunning
    BY DEF DispatchRunning
  <2>3. ~TransitionByOverride
    BY DEF TransitionByOverride, IInv, StateInv
  <2>4. ~PowerLoss
    BY DEF PowerLoss
  <2>5. Transition
    BY <2>1, <2>2, <2>3, <2>4
       DEF Next, Main, Disperse, init_persistent_data, increment_reboot_counter,
           DispatchNoTasks, burn_wire_task_dispatch, burn_wire_activate,
           burn_wire_deactivate, increment_burn_wire_attempts, TransitionFromReset,
           FinishWrite, RemoveRbf, Release
  <2>6. GetNextState = burn_wire_get_next_state
    BY DEF GetNextState
  <2>7. /\ slate'.current_state_id = burn_wire_get_next_state
        /\ slate'.panels = released
    BY <2>5, <2>6 DEF Transition, IInv, TypeOK
  <2> QED
    BY <2>7 DEF burn_wire_get_next_state
<1> QED
  BY <1>1, Invariance, SlateInvariance, PTL DEF Spec, BurnWireLeftForCause

-----------------------------------------------------------------------------
(* The watchdog.  The pulses are in time because a bound on the time since *)
(* the last edge is known at each place of the code, and because the       *)
(* watchdog task, as long as it is not due, was dispatched less than its   *)
(* period ago.                                                             *)

ScanWait == Max(ScanTimes)
ReadWait == Max(TelemetryTimes)
SynWait == AckWait + SynPause

(* How long the pin may stay as it is when the watchdog is fed, and the    *)
(* part of the write that is over.                                         *)
Base == Phase + IF fed THEN 0 ELSE BootGap
Spent == tries * SynWait
BeforeCommand == ShortPeriod + ReadWait + AdcsWait

(* The watchdog task is due no earlier than its period after a feed.       *)
DueInv == due["watchdog"] >= 0 => since <= Base + ShortPeriod - due["watchdog"]

(* The time since the last edge, in a pass.                                *)
PassInv ==
  /\ at = "telemetry" => since <= Base + ShortPeriod
  /\ at = "adcs" => since <= Base + ShortPeriod + ReadWait
  /\ at = "command" => since <= Base + BeforeCommand
  /\ at = "sync" => since <= Base + BeforeCommand + Spent
  /\ at = "header" => since + 2 * AckWait <= Base + BeforeCommand + Shutdown
  /\ at = "final" => since + AckWait <= Base + BeforeCommand + Shutdown

(* Between passes, and in those without tasks.                             *)
BetweenInv ==
  /\ at = "idle" =>
       since + (CASE next = "watchdog" -> 1 [] next = "init" -> 3 [] OTHER -> 2) * PassTime
         <= Base + LoopGap
  /\ at = "init" => since + 2 * PassTime <= Base + LoopGap
  /\ at \in {"burn", "reset"} => since + PassTime <= Base + LoopGap

(* In the sleeps that feed.                                                *)
SleepInv ==
  /\ at \in Sleeping /\ left <= Interval => fed /\ since <= Phase + Interval
  /\ at = "scan" => fed /\ since <= Phase + 2 * Interval
  /\ since <= Base + LoopGap

WatchdogInv == WatchdogTypeOK /\ DueInv /\ PassInv /\ BetweenInv /\ SleepInv

(* The waits are natural numbers, and how they add up.                     *)
LEMMA Numbers ==
  /\ ScanWait \in Nat /\ ReadWait \in Nat /\ AckWait \in Nat
  /\ \A d \in ScanTimes : d \in Nat /\ d <= ScanWait
  /\ \A d \in TelemetryTimes : d \in Nat /\ d <= ReadWait
  /\ \A d \in AckTimes : d \in Nat /\ d <= AckWait
<1> QED
  BY TimingAssumption DEF ScanWait, ReadWait, AckWait

LEMMA Products ==
  ASSUME NEW c \in Nat, NEW n \in Nat, NEW k \in Nat, n < k
  PROVE  /\ n * c \in Nat /\ k * c \in Nat
         /\ (n + 1) * c = n * c + c
         /\ n * c + c <= k * c
<1>1. k = n + 1 + (k - n - 1) /\ k - n - 1 \in Nat
  OBVIOUS
<1>2. \A j \in Nat : (n + 1 + j) * c = n * c + c + j * c /\ j * c \in Nat
  OBVIOUS
<1> QED
  BY <1>1, <1>2

(* The gaps, as sums.                                                      *)
LEMMA Gaps ==
  /\ SynWait \in Nat /\ SynRetries * SynWait \in Nat /\ SynRetries \in Nat \ {0}
  /\ Shutdown = SynRetries * SynWait + 2 * AckWait /\ Shutdown \in Nat
  /\ BeforeCommand \in Nat
  /\ BeforeCommand = ShortPeriod + ReadWait + AdcsWait
  /\ LoopGap = BeforeCommand + Shutdown + 3 * PassTime /\ LoopGap \in Nat
  /\ BootGap = 2 * Interval + ScanWait /\ BootGap \in Nat
  /\ 2 * Interval + 3 * PassTime <= LoopGap
  /\ Interval \in Nat \ {0} /\ PassTime \in Nat \ {0} /\ AdcsWait \in Nat /\ SynPause \in Nat
  /\ ShortPeriod \in Nat \ {0} /\ LongPeriod \in Nat \ {0}
<1>1. {Interval, PassTime, AdcsWait, SynPause, ShortPeriod, LongPeriod, SynRetries} \subseteq Nat
  BY TimingAssumption
<1>2. Interval # 0 /\ PassTime # 0 /\ ShortPeriod # 0 /\ LongPeriod # 0 /\ SynRetries # 0
  BY TimingAssumption
<1>3. SynWait \in Nat
  BY <1>1, Numbers DEF SynWait
<1>4. SynRetries * SynWait \in Nat
  BY <1>1, <1>3
<1>5. Shutdown = SynRetries * SynWait + 2 * AckWait
  BY DEF Shutdown, SynWait
<1>6. LoopGap = ShortPeriod + ReadWait + AdcsWait + Shutdown + 3 * PassTime
  BY DEF LoopGap, Period, Tasks, ReadWait
<1>7. BootGap = 2 * Interval + ScanWait
  BY DEF BootGap, ScanWait
<1>8. 2 * Interval <= LoopGap - 3 * PassTime
  BY TimingAssumption
<1> QED
  BY <1>1, <1>2, <1>3, <1>4, <1>5, <1>6, <1>7, <1>8, Numbers DEF BeforeCommand

(* The phases and their bounds are natural numbers.                        *)
LEMMA Bases ==
  ASSUME WatchdogTypeOK
  PROVE  Phase \in Nat /\ Base \in Nat /\ (fed => Base = Phase)
<1>1. Phase \in Nat
  BY TimingAssumption DEF Phase
<1>2. fed \in BOOLEAN
  BY DEF WatchdogTypeOK
<1> QED
  BY <1>1, <1>2, Gaps DEF Base

(* Deadlines stay above the one that is over.                              *)
LEMMA Deadlines ==
  ASSUME NEW ds \in [Tasks -> Int], NEW d \in Nat,
         \A t \in Tasks : ds[t] >= -1 /\ ds[t] <= Period[t]
  PROVE  /\ Later(ds, d) \in [Tasks -> Int]
         /\ \A t \in Tasks : Later(ds, d)[t] >= -1 /\ Later(ds, d)[t] <= Period[t]
         /\ Later(ds, d)["watchdog"] >= 0 =>
              Later(ds, d)["watchdog"] = ds["watchdog"] - d
<1>1. \A t \in Tasks : Period[t] \in Nat
  BY Gaps DEF Period
<1>2. \A t \in Tasks : Later(ds, d)[t] = IF ds[t] < d THEN -1 ELSE ds[t] - d
  BY DEF Later
<1>3. Later(ds, d) \in [Tasks -> Int]
  BY DEF Later
<1> QED
  BY <1>1, <1>2, <1>3 DEF Tasks

(* After a feed the pin has been as it is for no longer than its phase.    *)
LEMMA Fed ==
  ASSUME WatchdogTypeOK, NEW d \in Nat, watchdog_feed(d)
  PROVE  /\ set' \in BOOLEAN /\ since' \in Nat /\ soft' \in Nat /\ slow' \in 0..2
         /\ fed' /\ fed' \in BOOLEAN
         /\ Phase' \in Nat /\ Base' = Phase' /\ since' <= Phase' + d
<1>0. /\ since \in Nat /\ soft \in Nat /\ slow \in 0..2 /\ Phase \in Nat
      /\ High \in Nat /\ Low \in Nat
  BY Bases, TimingAssumption DEF WatchdogTypeOK
<1>1. set \in BOOLEAN
  BY DEF WatchdogTypeOK
<1>2. fed' = TRUE
  BY DEF watchdog_feed
<1>3. CASE /\ since <= Phase /\ since' = since + d
           /\ UNCHANGED <<set, slow>>
           /\ soft' = IF slow = 2 THEN 0 ELSE soft + d
  <2>1. set' \in BOOLEAN
    BY <1>1, <1>3
  <2>2. Phase' = Phase
    BY <1>3 DEF Phase
  <2>3. Base' = Phase'
    BY <1>2, <2>2, <1>0 DEF Base
  <2> QED
    BY <1>0, <1>2, <1>3, <2>1, <2>2, <2>3
<1>4. CASE /\ since >= Phase /\ since' = d
           /\ set' = ~set
           /\ IF ~set THEN slow' = 0 /\ soft' = d
              ELSE UNCHANGED slow /\ soft' = IF slow = 2 THEN 0 ELSE soft + d
  <2>1. set' \in BOOLEAN
    BY <1>1, <1>4
  <2>2. PICK phase \in Nat : Phase' = phase
    BY <1>0 DEF Phase
  <2>3. Base' = Phase' + 0
    BY <1>2 DEF Base
  <2>4. slow' \in 0..2 /\ soft' \in Nat
    BY <1>0, <1>4
  <2>5. since' = d
    BY <1>4
  <2>6. phase + 0 = phase /\ d <= phase + d
    OBVIOUS
  <2> QED
    BY <1>2, <2>1, <2>2, <2>3, <2>4, <2>5, <2>6
<1> QED
  BY <1>3, <1>4 DEF watchdog_feed

(* Time that passes without a feed counts in full.                         *)
LEMMA Waited ==
  ASSUME WatchdogTypeOK, NEW d \in Nat, Wait(d)
  PROVE  /\ set' \in BOOLEAN /\ since' \in Nat /\ soft' \in Nat /\ slow' \in 0..2
         /\ fed' \in BOOLEAN /\ fed' = fed
         /\ since' = since + d /\ Phase' = Phase /\ Base' = Base
<1>1. set' \in BOOLEAN /\ fed' \in BOOLEAN
  BY Zenon DEF WatchdogTypeOK, Wait
<1>2. fed' = fed /\ set' = set /\ slow' = slow /\ since' = since + d
  BY DEF Wait
<1>3. since' \in Nat /\ soft' \in Nat
  BY DEF WatchdogTypeOK, Wait
<1>4. slow' \in 0..2
  BY <1>2 DEF WatchdogTypeOK
<1>5. Phase' = Phase
  BY <1>2 DEF Phase
<1>6. Base' = Base
  BY <1>2, <1>5 DEF Base
<1> QED
  BY <1>1, <1>2, <1>3, <1>4, <1>5, <1>6

(* A sleep is longer than one interval, other places have no sleep.        *)
LEMMA Gone ==
  ASSUME NEW place \in Place, GoTo(place)
  PROVE  /\ at' = place /\ at' \in Place /\ left' \in Nat
         /\ place \in Sleeping => left' > Interval
<1>1. at' = place
  BY DEF GoTo
<1>2. /\ Dispersal \in Nat /\ Calibration \in Nat /\ BurnWait \in Nat
      /\ BurnTime \in Nat /\ Swing \in Nat
      /\ Dispersal > Interval /\ Calibration > Interval /\ BurnWait > Interval
      /\ BurnTime > Interval /\ Swing > Interval
  BY TimingAssumption
<1>3. left' \in Nat
  BY <1>2 DEF GoTo
<1>4. ASSUME place \in Sleeping PROVE left' > Interval
  BY <1>2, <1>4 DEF GoTo, Sleeping
<1> QED
  BY <1>1, <1>3, <1>4

-----------------------------------------------------------------------------
(* One lemma for each action.                                              *)

LEMMA SleepKeeps == WatchdogInv /\ safe_sleep_ms => WatchdogInv'
<1> SUFFICES ASSUME WatchdogInv, safe_sleep_ms PROVE WatchdogInv'
  OBVIOUS
<1>0. WatchdogTypeOK /\ DueInv /\ at \in Sleeping /\ left \in Nat /\ left > Interval
  BY DEF WatchdogInv, WatchdogTypeOK, safe_sleep_ms
<1>1. watchdog_feed(Interval) /\ due' = Later(due, Interval)
  BY DEF safe_sleep_ms
<1>2. /\ at' = at /\ left' = left - Interval
      /\ tries' = tries /\ next' = next /\ is_payload_on' = is_payload_on
  BY DEF safe_sleep_ms
<1>3. /\ set' \in BOOLEAN /\ since' \in Nat /\ soft' \in Nat /\ slow' \in 0..2
      /\ fed' /\ fed' \in BOOLEAN
      /\ Phase' \in Nat /\ Base' = Phase' /\ since' <= Phase' + Interval
  BY <1>0, <1>1, Gaps, Fed
<1>4. /\ due \in [Tasks -> Int]
      /\ \A t \in Tasks : due[t] >= -1 /\ due[t] <= Period[t]
  BY <1>0 DEF WatchdogTypeOK
<1>5. /\ due' \in [Tasks -> Int]
      /\ \A t \in Tasks : due'[t] >= -1 /\ due'[t] <= Period[t]
      /\ due'["watchdog"] >= 0 => due'["watchdog"] = due["watchdog"] - Interval
  BY <1>1, <1>4, Gaps, Deadlines
<1>6. WatchdogTypeOK'
  <2>1. left' \in Nat
    BY <1>0, <1>2, Gaps
  <2>2. at' \in Place /\ tries' \in 0..(SynRetries - 1)
        /\ next' \in {"init", "burn", "reset", "watchdog"}
    BY <1>0, <1>2 DEF WatchdogTypeOK
  <2>3. is_payload_on' \in BOOLEAN
    BY <1>0, <1>2, Zenon DEF WatchdogTypeOK
  <2> QED
    BY <1>3, <1>5, <2>1, <2>2, <2>3 DEF WatchdogTypeOK
<1>7. PICK phase \in Nat : Phase' = phase
  BY <1>3
<1>8. DueInv'
  <2>1. due["watchdog"] <= ShortPeriod /\ due["watchdog"] \in Int
    BY <1>4 DEF Tasks, Period
  <2> QED
    BY <1>3, <1>5, <1>7, <2>1, Gaps DEF DueInv
<1>9. SleepInv'
  BY <1>0, <1>2, <1>3, <1>7, Gaps DEF SleepInv, Sleeping
<1>10. PassInv' /\ BetweenInv'
  BY <1>0, <1>2 DEF PassInv, BetweenInv, Sleeping
<1> QED
  BY <1>6, <1>8, <1>9, <1>10 DEF WatchdogInv

(* Time that passes without a feed brings the watchdog task's deadline     *)
(* nearer by as much, whatever other deadlines are set anew.               *)
LEMMA Counted ==
  ASSUME WatchdogInv, NEW d \in Nat, since' = since + d, UNCHANGED <<set, fed>>, NEW ds, due' = Later(ds, d),
         \/ ds = due
         \/ \E t \in Tasks \ {"watchdog"} : ds = [due EXCEPT ![t] = Period[t]]
  PROVE  /\ due' \in [Tasks -> Int]
         /\ \A t \in Tasks : due'[t] >= -1 /\ due'[t] <= Period[t]
         /\ DueInv'
<1>1. /\ due \in [Tasks -> Int]
      /\ \A t \in Tasks : due[t] >= -1 /\ due[t] <= Period[t]
      /\ WatchdogTypeOK /\ DueInv
  BY DEF WatchdogInv, WatchdogTypeOK
<1>2. \A t \in Tasks : Period[t] \in Nat
  BY Gaps DEF Period
<1>3. /\ ds \in [Tasks -> Int]
      /\ \A t \in Tasks : ds[t] >= -1 /\ ds[t] <= Period[t]
      /\ ds["watchdog"] = due["watchdog"]
  <2>1. CASE ds = due
    BY <1>1, <2>1
  <2>2. CASE \E t \in Tasks \ {"watchdog"} : ds = [due EXCEPT ![t] = Period[t]]
    <3>1. PICK t \in Tasks \ {"watchdog"} : ds = [due EXCEPT ![t] = Period[t]]
      BY <2>2
    <3>2. ds \in [Tasks -> Int]
      BY <1>1, <1>2, <3>1
    <3>3. ds["watchdog"] = due["watchdog"]
      BY <1>1, <3>1 DEF Tasks
    <3>4. \A u \in Tasks : ds[u] = IF u = t THEN Period[t] ELSE due[u]
      BY <1>1, <3>1
    <3> QED
      BY <1>1, <1>2, <3>2, <3>3, <3>4
  <2> QED
    BY <2>1, <2>2
<1>4. /\ due' \in [Tasks -> Int]
      /\ \A t \in Tasks : due'[t] >= -1 /\ due'[t] <= Period[t]
      /\ due'["watchdog"] >= 0 => due'["watchdog"] = due["watchdog"] - d
  BY <1>3, Deadlines
<1>5. since' = since + d /\ Base' = Base
  BY DEF Base, Phase
<1>6. since \in Nat /\ Base \in Nat
  BY <1>1, Bases DEF WatchdogTypeOK
<1>7. due["watchdog"] \in Int /\ due'["watchdog"] \in Int
  BY <1>1, <1>4 DEF Tasks
<1>8. DueInv'
  BY <1>1, <1>4, <1>5, <1>6, <1>7, Gaps DEF DueInv
<1> QED
  BY <1>4, <1>8

LEMMA Elapsed ==
  ASSUME WatchdogInv, NEW d \in Nat, Wait(d), NEW ds, due' = Later(ds, d),
         \/ ds = due
         \/ \E t \in Tasks \ {"watchdog"} : ds = [due EXCEPT ![t] = Period[t]]
  PROVE  /\ due' \in [Tasks -> Int]
         /\ \A t \in Tasks : due'[t] >= -1 /\ due'[t] <= Period[t]
         /\ DueInv'
<1>1. since' = since + d /\ UNCHANGED <<set, fed>>
  BY DEF Wait
<1> QED
  BY <1>1, Counted

LEMMA WakeUpKeeps == WatchdogInv /\ WakeUp => WatchdogInv'
<1> SUFFICES ASSUME WatchdogInv, WakeUp PROVE WatchdogInv'
  OBVIOUS
<1>0. WatchdogTypeOK /\ SleepInv /\ at \in Sleeping /\ left \in Nat /\ left <= Interval
  BY DEF WatchdogInv, WatchdogTypeOK, WakeUp
<1>1. Wait(left) /\ due' = Later(due, left) /\ tries' = tries /\ is_payload_on' = is_payload_on
  BY DEF WakeUp
<1>2. PICK place \in Following : GoTo(place)
  BY DEF WakeUp
<1>3. place \in (Sleeping \ {"dispersal"}) \cup {"scan", "idle"} /\ place \in Place
  BY <1>0 DEF Following, Sleeping, Place
<1>4. /\ at' = place /\ at' \in Place /\ left' \in Nat
      /\ place \in Sleeping => left' > Interval
  BY <1>2, <1>3, Gone
<1>5. /\ set' \in BOOLEAN /\ since' \in Nat /\ soft' \in Nat /\ slow' \in 0..2
      /\ fed' \in BOOLEAN /\ fed' = fed
      /\ since' = since + left /\ Phase' = Phase /\ Base' = Base
  BY <1>0, <1>1, Waited
<1>6. /\ due' \in [Tasks -> Int]
      /\ \A t \in Tasks : due'[t] >= -1 /\ due'[t] <= Period[t]
      /\ DueInv'
  BY <1>0, <1>1, Elapsed
<1>7. next' \in {"init", "burn", "reset", "watchdog"}
  BY <1>0 DEF WakeUp, WatchdogTypeOK
<1>8. fed /\ since <= Phase + Interval
  BY <1>0 DEF SleepInv
<1>9. fed' /\ since' <= Phase + 2 * Interval /\ Base = Phase /\ Phase \in Nat /\ since \in Nat
  BY <1>0, <1>5, <1>8, Gaps, Bases DEF WatchdogTypeOK
<1>10. WatchdogTypeOK'
  <2>1. tries' \in 0..(SynRetries - 1)
    BY <1>0, <1>1 DEF WatchdogTypeOK
  <2>2. is_payload_on' \in BOOLEAN
    BY <1>0, <1>1, Zenon DEF WatchdogTypeOK
  <2> QED
    BY <1>4, <1>5, <1>6, <1>7, <2>1, <2>2 DEF WatchdogTypeOK
<1>11. since' + 3 * PassTime <= Base + LoopGap
  BY <1>5, <1>9, Gaps
<1>12. SleepInv'
  BY <1>3, <1>4, <1>5, <1>9, <1>11, Gaps DEF SleepInv, Sleeping
<1>13. PassInv'
  BY <1>3, <1>4 DEF PassInv, Sleeping
<1>14. BetweenInv'
  <2>1. (CASE next' = "watchdog" -> 1 [] next' = "init" -> 3 [] OTHER -> 2) \in {1, 2, 3}
    OBVIOUS
  <2> QED
    BY <1>3, <1>4, <1>5, <1>9, <1>11, <2>1, Gaps DEF BetweenInv, Sleeping
<1> QED
  BY <1>6, <1>10, <1>12, <1>13, <1>14 DEF WatchdogInv

LEMMA ScanKeeps == WatchdogInv /\ telemetry_task_init => WatchdogInv'
<1> SUFFICES ASSUME WatchdogInv, telemetry_task_init PROVE WatchdogInv'
  OBVIOUS
<1>0. WatchdogTypeOK /\ SleepInv /\ at = "scan"
  BY DEF WatchdogInv, telemetry_task_init
<1>1. PICK d \in ScanTimes :
        /\ since' = since + d
        /\ slow' = IF d = 0 THEN slow ELSE 2
        /\ soft' = IF slow' = 2 THEN 0 ELSE soft
  BY DEF telemetry_task_init
<1>2. fed' = FALSE /\ set' = set /\ due' = Period /\ GoTo("init")
      /\ tries' = tries /\ next' = next /\ is_payload_on' = is_payload_on
  BY DEF telemetry_task_init
<1>3. at' = "init" /\ at' \in Place /\ left' \in Nat
  <2>1. "init" \in Place
    BY DEF Place
  <2> QED
    BY <1>2, <2>1, Gone
<1>4. d \in Nat /\ d <= ScanWait /\ since \in Nat /\ since' \in Nat
  BY <1>0, <1>1, Numbers DEF WatchdogTypeOK
<1>5. due' \in [Tasks -> Int] /\ \A t \in Tasks : due'[t] >= -1 /\ due'[t] <= Period[t]
  BY <1>2, Gaps DEF Period
<1>6. due'["watchdog"] = ShortPeriod
  BY <1>2 DEF Period, Tasks
<1>7. WatchdogTypeOK'
  <2>1. set' \in BOOLEAN /\ is_payload_on' \in BOOLEAN /\ fed' \in BOOLEAN
    BY <1>0, <1>2, Zenon DEF WatchdogTypeOK
  <2>2. slow' \in 0..2 /\ soft' \in Nat
    BY <1>0, <1>1 DEF WatchdogTypeOK
  <2>3. tries' \in 0..(SynRetries - 1) /\ next' \in {"init", "burn", "reset", "watchdog"}
    BY <1>0, <1>2 DEF WatchdogTypeOK
  <2> QED
    BY <1>3, <1>4, <1>5, <2>1, <2>2, <2>3 DEF WatchdogTypeOK
<1>8. since <= Phase + 2 * Interval /\ Phase \in Nat
  BY <1>0, Bases DEF SleepInv
<1>9. Phase' = Phase
  BY <1>2 DEF Phase
<1>10. Base' = Phase + BootGap
  BY <1>2, <1>9 DEF Base
<1>11. since' <= Phase + BootGap
  BY <1>1, <1>4, <1>8, Gaps, Numbers
<1>12. DueInv'
  BY <1>4, <1>6, <1>8, <1>10, <1>11, Gaps DEF DueInv
<1>13. PassInv'
  BY <1>3 DEF PassInv
<1>14. BetweenInv' /\ SleepInv'
  BY <1>3, <1>4, <1>8, <1>10, <1>11, Gaps DEF BetweenInv, SleepInv, Sleeping
<1> QED
  BY <1>7, <1>12, <1>13, <1>14 DEF WatchdogInv

LEMMA NextPassKeeps == WatchdogInv /\ NextPass => WatchdogInv'
<1> SUFFICES ASSUME WatchdogInv, NextPass PROVE WatchdogInv'
  OBVIOUS
<1>0. WatchdogTypeOK /\ BetweenInv /\ SleepInv /\ at = "idle" /\ next \in {"init", "burn", "reset", "watchdog"}
  BY DEF WatchdogInv, WatchdogTypeOK, NextPass
<1>1. /\ Wait(PassTime) /\ due' = Later(due, PassTime) /\ GoTo(next)
      /\ tries' = tries /\ next' = next /\ is_payload_on' = is_payload_on
  BY DEF NextPass
<1>2. at' = next /\ at' \in Place /\ left' \in Nat
  <2>1. next \in Place
    BY <1>0 DEF Place, Tasks
  <2> QED
    BY <1>1, <2>1, Gone
<1>3. /\ set' \in BOOLEAN /\ since' \in Nat /\ soft' \in Nat /\ slow' \in 0..2
      /\ fed' \in BOOLEAN /\ fed' = fed
      /\ since' = since + PassTime /\ Phase' = Phase /\ Base' = Base
  BY <1>0, <1>1, Gaps, Waited
<1>4. /\ due' \in [Tasks -> Int]
      /\ \A t \in Tasks : due'[t] >= -1 /\ due'[t] <= Period[t]
      /\ DueInv'
  BY <1>1, Gaps, Elapsed
<1>5. WatchdogTypeOK'
  <2>1. tries' \in 0..(SynRetries - 1) /\ next' \in {"init", "burn", "reset", "watchdog"}
    BY <1>0, <1>1 DEF WatchdogTypeOK
  <2>2. is_payload_on' \in BOOLEAN
    BY <1>0, <1>1, Zenon DEF WatchdogTypeOK
  <2> QED
    BY <1>2, <1>3, <1>4, <2>1, <2>2 DEF WatchdogTypeOK
<1>6. since \in Nat /\ Base \in Nat
  BY <1>0, Bases DEF WatchdogTypeOK
<1>7. since + (IF next = "watchdog" THEN 1 ELSE IF next = "init" THEN 3 ELSE 2) * PassTime
        <= Base + LoopGap
  BY <1>0 DEF BetweenInv
<1>8. SleepInv'
  BY <1>0, <1>2, <1>3, <1>6, <1>7, Gaps DEF SleepInv, Sleeping
<1>9. PassInv' /\ BetweenInv'
  BY <1>0, <1>2, <1>3, <1>6, <1>7, Gaps DEF PassInv, BetweenInv
<1> QED
  BY <1>4, <1>5, <1>8, <1>9 DEF WatchdogInv

(* While no time passes, the clocks and the deadlines hold.                *)
LEMMA Still ==
  ASSUME WatchdogInv, UNCHANGED <<clocks, due>>
  PROVE  /\ set' \in BOOLEAN /\ since' \in Nat /\ soft' \in Nat /\ slow' \in 0..2
         /\ fed' \in BOOLEAN /\ due' \in [Tasks -> Int]
         /\ \A t \in Tasks : due'[t] >= -1 /\ due'[t] <= Period[t]
         /\ since' = since /\ Phase' = Phase /\ Base' = Base /\ DueInv'
<1>0. WatchdogTypeOK /\ DueInv
  BY DEF WatchdogInv
<1>1. /\ set' = set /\ since' = since /\ soft' = soft /\ slow' = slow /\ fed' = fed
      /\ due' = due
  BY DEF clocks
<1>2. set' \in BOOLEAN /\ fed' \in BOOLEAN
  BY <1>0, <1>1, Zenon DEF WatchdogTypeOK
<1>3. Phase' = Phase
  BY <1>1 DEF Phase
<1>4. Base' = Base
  BY <1>1, <1>3 DEF Base
<1>5. DueInv'
  BY <1>0, <1>1, <1>4 DEF DueInv
<1> QED
  BY <1>0, <1>1, <1>2, <1>3, <1>4, <1>5 DEF WatchdogTypeOK

LEMMA EmptyPassKeeps == WatchdogInv /\ PassWithoutTask => WatchdogInv'
<1> SUFFICES ASSUME WatchdogInv, PassWithoutTask PROVE WatchdogInv'
  OBVIOUS
<1>0. WatchdogTypeOK /\ BetweenInv /\ at \in {"init", "reset", "burn"}
  BY DEF WatchdogInv, PassWithoutTask
<1>1. /\ UNCHANGED <<clocks, due>> /\ tries' = tries /\ is_payload_on' = is_payload_on
      /\ GoTo("idle") /\ next' = IF at = "init" THEN "burn" ELSE "watchdog"
  BY DEF PassWithoutTask, EndPass
<1>2. at' = "idle" /\ at' \in Place /\ left' \in Nat
  <2>1. "idle" \in Place
    BY DEF Place
  <2> QED
    BY <1>1, <2>1, Gone
<1>3. /\ set' \in BOOLEAN /\ since' \in Nat /\ soft' \in Nat /\ slow' \in 0..2
      /\ fed' \in BOOLEAN /\ due' \in [Tasks -> Int]
      /\ \A t \in Tasks : due'[t] >= -1 /\ due'[t] <= Period[t]
      /\ since' = since /\ Phase' = Phase /\ Base' = Base /\ DueInv'
  BY <1>1, Still
<1>4. since \in Nat /\ Base \in Nat
  BY <1>0, Bases DEF WatchdogTypeOK
<1>5. WatchdogTypeOK'
  <2>1. tries' \in 0..(SynRetries - 1) /\ next' \in {"init", "burn", "reset", "watchdog"}
    BY <1>0, <1>1 DEF WatchdogTypeOK
  <2>2. is_payload_on' \in BOOLEAN
    BY <1>0, <1>1, Zenon DEF WatchdogTypeOK
  <2> QED
    BY <1>2, <1>3, <2>1, <2>2 DEF WatchdogTypeOK
<1>6. PassInv' /\ BetweenInv' /\ SleepInv'
  BY <1>0, <1>1, <1>2, <1>3, <1>4, Gaps DEF PassInv, BetweenInv, SleepInv, Sleeping
<1> QED
  BY <1>3, <1>5, <1>6 DEF WatchdogInv

LEMMA BurnKeeps == WatchdogInv /\ BurnWireTask => WatchdogInv'
<1> SUFFICES ASSUME WatchdogInv, BurnWireTask PROVE WatchdogInv'
  OBVIOUS
<1>0. WatchdogTypeOK /\ SleepInv /\ at = "burn"
  BY DEF WatchdogInv, BurnWireTask
<1>1. /\ UNCHANGED <<clocks, due>> /\ tries' = tries /\ next' = next
      /\ is_payload_on' = is_payload_on /\ GoTo("wait")
  BY DEF BurnWireTask
<1>2. at' = "wait" /\ at' \in Place /\ left' \in Nat /\ left' > Interval
  <2>1. "wait" \in Place /\ "wait" \in Sleeping
    BY DEF Place, Sleeping
  <2> QED
    BY <1>1, <2>1, Gone
<1>3. /\ set' \in BOOLEAN /\ since' \in Nat /\ soft' \in Nat /\ slow' \in 0..2
      /\ fed' \in BOOLEAN /\ due' \in [Tasks -> Int]
      /\ \A t \in Tasks : due'[t] >= -1 /\ due'[t] <= Period[t]
      /\ since' = since /\ Phase' = Phase /\ Base' = Base /\ DueInv'
  BY <1>1, Still
<1>4. WatchdogTypeOK'
  <2>1. tries' \in 0..(SynRetries - 1) /\ next' \in {"init", "burn", "reset", "watchdog"}
    BY <1>0, <1>1 DEF WatchdogTypeOK
  <2>2. is_payload_on' \in BOOLEAN
    BY <1>0, <1>1, Zenon DEF WatchdogTypeOK
  <2> QED
    BY <1>2, <1>3, <2>1, <2>2 DEF WatchdogTypeOK
<1>5. since <= Base + LoopGap
  BY <1>0 DEF SleepInv
<1>6. SleepInv'
  BY <1>2, <1>3, <1>5, Gaps DEF SleepInv
<1>7. PassInv' /\ BetweenInv'
  BY <1>2 DEF PassInv, BetweenInv
<1> QED
  BY <1>3, <1>4, <1>6, <1>7 DEF WatchdogInv

LEMMA NotDueKeeps == WatchdogInv /\ NotDue => WatchdogInv'
<1> SUFFICES ASSUME WatchdogInv, NotDue PROVE WatchdogInv'
  OBVIOUS
<1>0. WatchdogTypeOK /\ DueInv /\ PassInv /\ at \in Tasks /\ due[at] >= 0
  BY DEF WatchdogInv, NotDue
<1>1. /\ UNCHANGED <<clocks, due>> /\ tries' = tries /\ is_payload_on' = is_payload_on
      /\ GoTo(Successor[at])
      /\ next' = IF at = "command" THEN "watchdog" ELSE next
  BY DEF NotDue
<1>2. at' = Successor[at] /\ at' \in Place /\ left' \in Nat
  <2>1. Successor[at] \in Place
    BY <1>0 DEF Place, Successor, Tasks
  <2> QED
    BY <1>1, <2>1, Gone
<1>3. /\ set' \in BOOLEAN /\ since' \in Nat /\ soft' \in Nat /\ slow' \in 0..2
      /\ fed' \in BOOLEAN /\ due' \in [Tasks -> Int]
      /\ \A t \in Tasks : due'[t] >= -1 /\ due'[t] <= Period[t]
      /\ since' = since /\ Phase' = Phase /\ Base' = Base /\ DueInv'
  BY <1>1, Still
<1>4. since \in Nat /\ Base \in Nat
  BY <1>0, Bases DEF WatchdogTypeOK
<1>5. WatchdogTypeOK'
  <2>1. tries' \in 0..(SynRetries - 1) /\ next' \in {"init", "burn", "reset", "watchdog"}
    BY <1>0, <1>1 DEF WatchdogTypeOK
  <2>2. is_payload_on' \in BOOLEAN
    BY <1>0, <1>1, Zenon DEF WatchdogTypeOK
  <2> QED
    BY <1>2, <1>3, <2>1, <2>2 DEF WatchdogTypeOK
<1>6. CASE at = "watchdog"
  <2>1. at' = "telemetry"
    BY <1>2, <1>6 DEF Successor
  <2>2. due["watchdog"] \in Int /\ due["watchdog"] >= 0
    BY <1>0, <1>6 DEF WatchdogTypeOK
  <2>3. since <= Base + ShortPeriod
    BY <1>0, <1>4, <2>2, Gaps DEF DueInv
  <2>4. PassInv' /\ BetweenInv' /\ SleepInv'
    BY <1>3, <1>4, <2>1, <2>3, Gaps, Numbers DEF PassInv, BetweenInv, SleepInv, Sleeping
  <2> QED
    BY <1>3, <1>5, <2>4 DEF WatchdogInv
<1>7. CASE at = "telemetry"
  <2>1. at' = "adcs"
    BY <1>2, <1>7 DEF Successor
  <2>2. PassInv' /\ BetweenInv' /\ SleepInv'
    BY <1>0, <1>3, <1>4, <1>7, <2>1, Gaps, Numbers DEF PassInv, BetweenInv, SleepInv, Sleeping
  <2> QED
    BY <1>3, <1>5, <2>2 DEF WatchdogInv
<1>8. CASE at = "adcs"
  <2>1. at' = "command"
    BY <1>2, <1>8 DEF Successor
  <2>2. PassInv' /\ BetweenInv' /\ SleepInv'
    BY <1>0, <1>3, <1>4, <1>8, <2>1, Gaps, Numbers DEF PassInv, BetweenInv, SleepInv, Sleeping
  <2> QED
    BY <1>3, <1>5, <2>2 DEF WatchdogInv
<1>9. CASE at = "command"
  <2>1. at' = "idle" /\ next' = "watchdog"
    BY <1>1, <1>2, <1>9 DEF Successor
  <2>2. PassInv' /\ BetweenInv' /\ SleepInv'
    BY <1>0, <1>3, <1>4, <1>9, <2>1, Gaps, Numbers DEF PassInv, BetweenInv, SleepInv, Sleeping
  <2> QED
    BY <1>3, <1>5, <2>2 DEF WatchdogInv
<1> QED
  BY <1>0, <1>6, <1>7, <1>8, <1>9 DEF Tasks

LEMMA WatchdogKeeps == WatchdogInv /\ watchdog_task_dispatch => WatchdogInv'
<1> SUFFICES ASSUME WatchdogInv, watchdog_task_dispatch PROVE WatchdogInv'
  OBVIOUS
<1>0. WatchdogTypeOK /\ at = "watchdog" /\ 0 \in Nat
  BY DEF WatchdogInv, watchdog_task_dispatch, Dispatch
<1>1. /\ watchdog_feed(0) /\ GoTo("telemetry")
      /\ due' = Later([due EXCEPT !["watchdog"] = Period["watchdog"]], 0)
      /\ tries' = tries /\ next' = next /\ is_payload_on' = is_payload_on
  BY DEF watchdog_task_dispatch, Dispatch
<1>2. at' = "telemetry" /\ at' \in Place /\ left' \in Nat
  <2>1. "telemetry" \in Place
    BY DEF Place, Tasks
  <2> QED
    BY <1>1, <2>1, Gone
<1>3. /\ set' \in BOOLEAN /\ since' \in Nat /\ soft' \in Nat /\ slow' \in 0..2
      /\ fed' /\ fed' \in BOOLEAN
      /\ Phase' \in Nat /\ Base' = Phase' /\ since' <= Phase' + 0
  BY <1>0, <1>1, Fed
<1>4. /\ due' \in [Tasks -> Int]
      /\ \A t \in Tasks : due'[t] >= -1 /\ due'[t] <= Period[t]
  <2> DEFINE ds == [due EXCEPT !["watchdog"] = Period["watchdog"]]
  <2>1. \A t \in Tasks : Period[t] \in Nat
    BY Gaps DEF Period
  <2>2. "watchdog" \in Tasks
    BY DEF Tasks
  <2>3. ds \in [Tasks -> Int] /\ \A t \in Tasks : ds[t] >= -1 /\ ds[t] <= Period[t]
    BY <1>0, <2>1, <2>2 DEF WatchdogTypeOK
  <2>4. due' = Later(ds, 0)
    BY <1>1
  <2> HIDE DEF ds
  <2> QED
    BY <2>3, <2>4, Deadlines
<1>5. WatchdogTypeOK'
  <2>1. tries' \in 0..(SynRetries - 1) /\ next' \in {"init", "burn", "reset", "watchdog"}
    BY <1>0, <1>1 DEF WatchdogTypeOK
  <2>2. is_payload_on' \in BOOLEAN
    BY <1>0, <1>1, Zenon DEF WatchdogTypeOK
  <2> QED
    BY <1>2, <1>3, <1>4, <2>1, <2>2 DEF WatchdogTypeOK
<1>6. PICK phase \in Nat : Phase' = phase
  BY <1>3
<1>7. due'["watchdog"] <= ShortPeriod /\ due'["watchdog"] \in Int
  BY <1>4 DEF Tasks, Period
<1>8. DueInv' /\ PassInv' /\ BetweenInv' /\ SleepInv'
  BY <1>2, <1>3, <1>6, <1>7, Gaps, Numbers DEF DueInv, PassInv, BetweenInv, SleepInv, Sleeping
<1> QED
  BY <1>5, <1>8 DEF WatchdogInv

LEMMA TelemetryKeeps == WatchdogInv /\ telemetry_task_dispatch => WatchdogInv'
<1> SUFFICES ASSUME WatchdogInv, telemetry_task_dispatch PROVE WatchdogInv'
  OBVIOUS
<1>0. WatchdogTypeOK /\ PassInv /\ at = "telemetry"
  BY DEF WatchdogInv, telemetry_task_dispatch, Dispatch
<1>1. PICK d \in TelemetryTimes :
        /\ d \in Nat /\ d <= ReadWait /\ Wait(d)
        /\ due' = Later([due EXCEPT !["telemetry"] = Period["telemetry"]], d)
  BY Numbers DEF telemetry_task_dispatch, Dispatch
<1>2. GoTo("adcs") /\ tries' = tries /\ next' = next /\ is_payload_on' = is_payload_on
  BY DEF telemetry_task_dispatch
<1>3. at' = "adcs" /\ at' \in Place /\ left' \in Nat
  <2>1. "adcs" \in Place
    BY DEF Place, Tasks
  <2> QED
    BY <1>2, <2>1, Gone
<1>4. /\ set' \in BOOLEAN /\ since' \in Nat /\ soft' \in Nat /\ slow' \in 0..2
      /\ fed' \in BOOLEAN /\ fed' = fed
      /\ since' = since + d /\ Phase' = Phase /\ Base' = Base
  BY <1>0, <1>1, Waited
<1>5. /\ due' \in [Tasks -> Int]
      /\ \A t \in Tasks : due'[t] >= -1 /\ due'[t] <= Period[t]
      /\ DueInv'
  <2>1. "telemetry" \in Tasks \ {"watchdog"}
    BY DEF Tasks
  <2>2. \E t \in Tasks \ {"watchdog"} :
          [due EXCEPT !["telemetry"] = Period["telemetry"]] = [due EXCEPT ![t] = Period[t]]
    BY <2>1
  <2> QED
    BY <1>1, <2>2, Elapsed
<1>6. WatchdogTypeOK'
  <2>1. tries' \in 0..(SynRetries - 1) /\ next' \in {"init", "burn", "reset", "watchdog"}
    BY <1>0, <1>2 DEF WatchdogTypeOK
  <2>2. is_payload_on' \in BOOLEAN
    BY <1>0, <1>2, Zenon DEF WatchdogTypeOK
  <2> QED
    BY <1>3, <1>4, <1>5, <2>1, <2>2 DEF WatchdogTypeOK
<1>7. since \in Nat /\ Base \in Nat
  BY <1>0, Bases DEF WatchdogTypeOK
<1>8. PassInv' /\ BetweenInv' /\ SleepInv'
  BY <1>0, <1>1, <1>3, <1>4, <1>7, Gaps, Numbers DEF PassInv, BetweenInv, SleepInv, Sleeping
<1> QED
  BY <1>5, <1>6, <1>8 DEF WatchdogInv

LEMMA ADCSKeeps == WatchdogInv /\ adcs_task_dispatch => WatchdogInv'
<1> SUFFICES ASSUME WatchdogInv, adcs_task_dispatch PROVE WatchdogInv'
  OBVIOUS
<1>0. WatchdogTypeOK /\ PassInv /\ at = "adcs"
  BY DEF WatchdogInv, adcs_task_dispatch, Dispatch
<1>1. /\ AdcsWait \in Nat /\ Wait(AdcsWait)
      /\ due' = Later([due EXCEPT !["adcs"] = Period["adcs"]], AdcsWait)
  BY Gaps DEF adcs_task_dispatch, Dispatch
<1>2. GoTo("command") /\ tries' = tries /\ next' = next /\ is_payload_on' = is_payload_on
  BY DEF adcs_task_dispatch
<1>3. at' = "command" /\ at' \in Place /\ left' \in Nat
  <2>1. "command" \in Place
    BY DEF Place, Tasks
  <2> QED
    BY <1>2, <2>1, Gone
<1>4. /\ set' \in BOOLEAN /\ since' \in Nat /\ soft' \in Nat /\ slow' \in 0..2
      /\ fed' \in BOOLEAN /\ fed' = fed
      /\ since' = since + AdcsWait /\ Phase' = Phase /\ Base' = Base
  BY <1>0, <1>1, Waited
<1>5. /\ due' \in [Tasks -> Int]
      /\ \A t \in Tasks : due'[t] >= -1 /\ due'[t] <= Period[t]
      /\ DueInv'
  <2>1. "adcs" \in Tasks \ {"watchdog"}
    BY DEF Tasks
  <2>2. \E t \in Tasks \ {"watchdog"} :
          [due EXCEPT !["adcs"] = Period["adcs"]] = [due EXCEPT ![t] = Period[t]]
    BY <2>1
  <2> QED
    BY <1>1, <2>2, Elapsed
<1>6. WatchdogTypeOK'
  <2>1. tries' \in 0..(SynRetries - 1) /\ next' \in {"init", "burn", "reset", "watchdog"}
    BY <1>0, <1>2 DEF WatchdogTypeOK
  <2>2. is_payload_on' \in BOOLEAN
    BY <1>0, <1>2, Zenon DEF WatchdogTypeOK
  <2> QED
    BY <1>3, <1>4, <1>5, <2>1, <2>2 DEF WatchdogTypeOK
<1>7. since \in Nat /\ Base \in Nat
  BY <1>0, Bases DEF WatchdogTypeOK
<1>8. PassInv' /\ BetweenInv' /\ SleepInv'
  BY <1>0, <1>1, <1>3, <1>4, <1>7, Gaps, Numbers DEF PassInv, BetweenInv, SleepInv, Sleeping
<1> QED
  BY <1>5, <1>6, <1>8 DEF WatchdogInv

LEMMA CommandKeeps == WatchdogInv /\ command_task_dispatch => WatchdogInv'
<1> SUFFICES ASSUME WatchdogInv, command_task_dispatch PROVE WatchdogInv'
  OBVIOUS
<1>0. WatchdogTypeOK /\ PassInv /\ at = "command" /\ since \in Nat /\ Base \in Nat /\ 0 \in Nat
  BY Bases DEF WatchdogInv, WatchdogTypeOK, command_task_dispatch, Dispatch
<1>1. /\ set' = set /\ since' = since /\ soft' = soft /\ fed' = fed /\ slow' = slow
      /\ due' = Later([due EXCEPT !["command"] = Period["command"]], 0) /\ tries' = tries
  BY DEF command_task_dispatch, Dispatch, clocks
<1>2. PICK place \in {"init", "burn", "reset", "watchdog"} : EndPass(place)
  BY DEF command_task_dispatch
<1>3. at' = "idle" /\ at' \in Place /\ left' \in Nat /\ next' = place
  <2>1. "idle" \in Place
    BY DEF Place
  <2> QED
    BY <1>2, <2>1, Gone DEF EndPass
<1>4. /\ due' \in [Tasks -> Int]
      /\ \A t \in Tasks : due'[t] >= -1 /\ due'[t] <= Period[t]
      /\ DueInv'
  <2>1. "command" \in Tasks \ {"watchdog"}
    BY DEF Tasks
  <2>2. \E t \in Tasks \ {"watchdog"} :
          [due EXCEPT !["command"] = Period["command"]] = [due EXCEPT ![t] = Period[t]]
    BY <2>1
  <2>3. since' = since + 0
    BY <1>0, <1>1
  <2> QED
    BY <1>0, <1>1, <2>2, <2>3, Counted
<1>5. Phase' = Phase /\ Base' = Base
  BY <1>1 DEF Phase, Base
<1>6. WatchdogTypeOK'
  <2>1. is_payload_on' \in BOOLEAN
    BY <1>0, Zenon DEF command_task_dispatch, WatchdogTypeOK
  <2>2. set' \in BOOLEAN /\ fed' \in BOOLEAN
    BY <1>0, <1>1, Zenon DEF WatchdogTypeOK
  <2>3. since' \in Nat /\ soft' \in Nat /\ slow' \in 0..2 /\ tries' \in 0..(SynRetries - 1)
    BY <1>0, <1>1 DEF WatchdogTypeOK
  <2> QED
    BY <1>3, <1>4, <2>1, <2>2, <2>3 DEF WatchdogTypeOK
<1>7. since <= Base + BeforeCommand
  BY <1>0 DEF PassInv
<1>8. since + 3 * PassTime <= Base + LoopGap
  BY <1>0, <1>7, Gaps
<1>9. PassInv' /\ SleepInv'
  BY <1>0, <1>1, <1>3, <1>5, <1>8, Gaps DEF PassInv, SleepInv, Sleeping
<1>10. BetweenInv'
  <2>1. (CASE next' = "watchdog" -> 1 [] next' = "init" -> 3 [] OTHER -> 2) \in {1, 2, 3}
    OBVIOUS
  <2> QED
    BY <1>0, <1>1, <1>3, <1>5, <1>8, <2>1, Gaps DEF BetweenInv
<1> QED
  BY <1>4, <1>6, <1>9, <1>10 DEF WatchdogInv

LEMMA TurnOffKeeps == WatchdogInv /\ payload_turn_off => WatchdogInv'
<1> SUFFICES ASSUME WatchdogInv, payload_turn_off PROVE WatchdogInv'
  OBVIOUS
<1>0. WatchdogTypeOK /\ PassInv /\ at = "command" /\ since \in Nat /\ Base \in Nat /\ 0 \in Nat
  BY Bases DEF WatchdogInv, WatchdogTypeOK, payload_turn_off, Dispatch
<1>1. /\ set' = set /\ since' = since /\ fed' = fed
      /\ slow' = IF slow = 0 THEN 1 ELSE 2
      /\ soft' = IF slow' = 2 THEN 0 ELSE soft
      /\ due' = Later([due EXCEPT !["command"] = Period["command"]], 0)
      /\ tries' = 0 /\ next' = next /\ is_payload_on' = is_payload_on /\ GoTo("sync")
  BY DEF payload_turn_off, Dispatch
<1>3. at' = "sync" /\ at' \in Place /\ left' \in Nat
  <2>1. "sync" \in Place
    BY DEF Place, Answering
  <2> QED
    BY <1>1, <2>1, Gone
<1>4. /\ due' \in [Tasks -> Int]
      /\ \A t \in Tasks : due'[t] >= -1 /\ due'[t] <= Period[t]
      /\ DueInv'
  <2>1. "command" \in Tasks \ {"watchdog"}
    BY DEF Tasks
  <2>2. \E t \in Tasks \ {"watchdog"} :
          [due EXCEPT !["command"] = Period["command"]] = [due EXCEPT ![t] = Period[t]]
    BY <2>1
  <2>3. since' = since + 0
    BY <1>0, <1>1
  <2> QED
    BY <1>0, <1>1, <2>2, <2>3, Counted
<1>5. Phase' = Phase /\ Base' = Base
  BY <1>1 DEF Phase, Base
<1>6. WatchdogTypeOK'
  <2>1. is_payload_on' \in BOOLEAN /\ set' \in BOOLEAN /\ fed' \in BOOLEAN
    BY <1>0, <1>1, Zenon DEF WatchdogTypeOK
  <2>2. since' \in Nat /\ soft' \in Nat /\ slow' \in 0..2
    BY <1>0, <1>1 DEF WatchdogTypeOK
  <2>3. tries' \in 0..(SynRetries - 1) /\ next' \in {"init", "burn", "reset", "watchdog"}
    BY <1>0, <1>1, Gaps DEF WatchdogTypeOK
  <2> QED
    BY <1>3, <1>4, <2>1, <2>2, <2>3 DEF WatchdogTypeOK
<1>7. since <= Base + BeforeCommand
  BY <1>0 DEF PassInv
<1>8. Spent' = 0
  BY <1>1, Gaps DEF Spent, SynWait, AckWait
<1>9. PassInv' /\ BetweenInv' /\ SleepInv'
  BY <1>0, <1>1, <1>3, <1>5, <1>7, <1>8, Gaps DEF PassInv, BetweenInv, SleepInv, Sleeping
<1> QED
  BY <1>4, <1>6, <1>9 DEF WatchdogInv

(* The end of the write, however it ends.                                  *)
LEMMA OffKeeps ==
  ASSUME WatchdogInv, at \in Answering, NEW d \in Nat, Wait(d), due' = Later(due, d), Off,
         since + d <= Base + BeforeCommand + Shutdown
  PROVE  WatchdogInv'
<1>0. WatchdogTypeOK
  BY DEF WatchdogInv
<1>1. GoTo("idle") /\ next' = "watchdog" /\ is_payload_on' = FALSE /\ tries' = 0
  BY DEF Off, EndPass
<1>2. at' = "idle" /\ at' \in Place /\ left' \in Nat
  <2>1. "idle" \in Place
    BY DEF Place
  <2> QED
    BY <1>1, <2>1, Gone
<1>3. /\ set' \in BOOLEAN /\ since' \in Nat /\ soft' \in Nat /\ slow' \in 0..2
      /\ fed' \in BOOLEAN /\ fed' = fed
      /\ since' = since + d /\ Phase' = Phase /\ Base' = Base
  BY <1>0, Waited
<1>4. /\ due' \in [Tasks -> Int]
      /\ \A t \in Tasks : due'[t] >= -1 /\ due'[t] <= Period[t]
      /\ DueInv'
  BY <1>0, Elapsed
<1>5. WatchdogTypeOK'
  <2>1. tries' \in 0..(SynRetries - 1) /\ next' \in {"init", "burn", "reset", "watchdog"}
    BY <1>1, Gaps
  <2>2. is_payload_on' \in BOOLEAN
    BY <1>1
  <2> QED
    BY <1>2, <1>3, <1>4, <2>1, <2>2 DEF WatchdogTypeOK
<1>6. since \in Nat /\ Base \in Nat
  BY <1>0, Bases DEF WatchdogTypeOK
<1>7. PassInv' /\ BetweenInv' /\ SleepInv'
  BY <1>1, <1>2, <1>3, <1>6, Gaps DEF PassInv, BetweenInv, SleepInv, Sleeping
<1> QED
  BY <1>4, <1>5, <1>7 DEF WatchdogInv

(* A step of the write that is answered, or asked again.                   *)
LEMMA AnswerKeeps ==
  ASSUME WatchdogInv, NEW d \in Nat, Wait(d), due' = Later(due, d),
         at' \in Answering, left' \in Nat, tries' \in 0..(SynRetries - 1),
         next' = next, is_payload_on' = is_payload_on,
         since + d + AckWait <= Base + BeforeCommand + Shutdown,
         at' = "header" => since + d + 2 * AckWait <= Base + BeforeCommand + Shutdown,
         at' = "sync" => since + d <= Base + BeforeCommand + Spent'
  PROVE  WatchdogInv'
<1>0. WatchdogTypeOK
  BY DEF WatchdogInv
<1>1. at' \in Place
  BY DEF Place
<1>3. /\ set' \in BOOLEAN /\ since' \in Nat /\ soft' \in Nat /\ slow' \in 0..2
      /\ fed' \in BOOLEAN /\ fed' = fed
      /\ since' = since + d /\ Phase' = Phase /\ Base' = Base
  BY <1>0, Waited
<1>4. /\ due' \in [Tasks -> Int]
      /\ \A t \in Tasks : due'[t] >= -1 /\ due'[t] <= Period[t]
      /\ DueInv'
  BY <1>0, Elapsed
<1>5. WatchdogTypeOK'
  <2>1. next' \in {"init", "burn", "reset", "watchdog"}
    BY <1>0 DEF WatchdogTypeOK
  <2>2. is_payload_on' \in BOOLEAN
    BY <1>0, Zenon DEF WatchdogTypeOK
  <2> QED
    BY <1>1, <1>3, <1>4, <2>1, <2>2 DEF WatchdogTypeOK
<1>6. since \in Nat /\ Base \in Nat
  BY <1>0, Bases DEF WatchdogTypeOK
<1>7. PassInv' /\ BetweenInv' /\ SleepInv'
  BY <1>3, <1>6, Gaps, Numbers DEF PassInv, BetweenInv, SleepInv, Sleeping, Answering
<1> QED
  BY <1>4, <1>5, <1>7 DEF WatchdogInv

LEMMA SynchroniseKeeps == WatchdogInv /\ Synchronise => WatchdogInv'
<1> SUFFICES ASSUME WatchdogInv, Synchronise PROVE WatchdogInv'
  OBVIOUS
<1>0. WatchdogTypeOK /\ at = "sync" /\ at \in Answering /\ since \in Nat /\ Base \in Nat
  BY Bases DEF WatchdogInv, WatchdogTypeOK, Synchronise, Answering
<1>1. tries \in Nat /\ tries < SynRetries /\ left \in Nat
  BY <1>0, Gaps DEF WatchdogTypeOK
<1>2. Spent \in Nat /\ Spent + SynWait <= SynRetries * SynWait
      /\ (tries + 1) * SynWait = Spent + SynWait
  BY <1>1, Gaps, Products DEF Spent
<1>3. since <= Base + BeforeCommand + Spent
  BY <1>0 DEF WatchdogInv, PassInv
<1>4. SynWait = AckWait + SynPause
  BY DEF SynWait
<1>5. PICK d \in AckTimes :
        \/ /\ Wait(d) /\ due' = Later(due, d)
           /\ GoTo("header") /\ UNCHANGED <<tries, next, is_payload_on>>
        \/ /\ Wait(d + SynPause) /\ due' = Later(due, d + SynPause)
           /\ IF tries + 1 < SynRetries
              THEN tries' = tries + 1 /\ UNCHANGED <<at, left, next, is_payload_on>>
              ELSE Off
  BY DEF Synchronise
<1>6. d \in Nat /\ d <= AckWait /\ d + SynPause \in Nat /\ d + SynPause <= SynWait
  BY <1>4, Numbers, Gaps
<1>7. CASE /\ Wait(d) /\ due' = Later(due, d)
           /\ GoTo("header") /\ UNCHANGED <<tries, next, is_payload_on>>
  <2>1. "header" \in Place
    BY DEF Place, Answering
  <2>2. at' = "header" /\ left' \in Nat /\ at' \in Answering
    BY <1>7, <2>1, Gone DEF Answering
  <2>3. tries' \in 0..(SynRetries - 1)
    BY <1>0, <1>7 DEF WatchdogTypeOK
  <2>4. since + d + 2 * AckWait <= Base + BeforeCommand + Shutdown
    BY <1>0, <1>2, <1>3, <1>4, <1>6, Gaps, Numbers
  <2>5. since + d + AckWait <= Base + BeforeCommand + Shutdown
    BY <1>0, <1>6, <2>4, Gaps, Numbers
  <2> QED
    BY <1>6, <1>7, <2>2, <2>3, <2>4, <2>5, AnswerKeeps
<1>8. CASE /\ Wait(d + SynPause) /\ due' = Later(due, d + SynPause)
           /\ tries + 1 < SynRetries
           /\ tries' = tries + 1 /\ UNCHANGED <<at, left, next, is_payload_on>>
  <2>1. tries' \in 0..(SynRetries - 1)
    BY <1>1, <1>8, Gaps
  <2>2. Spent' = Spent + SynWait
    <3>1. Spent' = (tries + 1) * SynWait
      BY <1>8 DEF Spent, SynWait, AckWait
    <3> QED
      BY <1>2, <3>1
  <2>3. Spent + 2 * SynWait <= SynRetries * SynWait
    BY <1>1, <1>2, <1>8, Gaps, Products DEF Spent
  <2>4. since + (d + SynPause) <= Base + BeforeCommand + Spent'
    BY <1>0, <1>2, <1>3, <1>6, <2>2, Gaps
  <2>5. since + (d + SynPause) + AckWait <= Base + BeforeCommand + Shutdown
    BY <1>0, <1>2, <1>3, <1>6, Gaps, Numbers
  <2>6. at' = "sync" /\ at' \in Answering /\ left' \in Nat
    BY <1>0, <1>1, <1>8
  <2> QED
    BY <1>6, <1>8, <2>1, <2>4, <2>5, <2>6, AnswerKeeps
<1>9. CASE /\ Wait(d + SynPause) /\ due' = Later(due, d + SynPause) /\ Off
  <2>1. since + (d + SynPause) <= Base + BeforeCommand + Shutdown
    BY <1>0, <1>2, <1>3, <1>6, Gaps, Numbers
  <2> QED
    BY <1>0, <1>6, <1>9, <2>1, OffKeeps
<1> QED
  BY <1>5, <1>7, <1>8, <1>9

LEMMA WriteKeeps == WatchdogInv /\ WriteAcknowledged => WatchdogInv'
<1> SUFFICES ASSUME WatchdogInv, WriteAcknowledged PROVE WatchdogInv'
  OBVIOUS
<1>0. WatchdogTypeOK /\ PassInv /\ at \in {"header", "final"} /\ at \in Answering
      /\ since \in Nat /\ Base \in Nat
  BY Bases DEF WatchdogInv, WatchdogTypeOK, WriteAcknowledged, Answering
<1>1. PICK d \in AckTimes :
        /\ Wait(d) /\ due' = Later(due, d)
        /\ \/ at = "header" /\ GoTo("final") /\ UNCHANGED <<tries, next, is_payload_on>>
           \/ Off
  BY DEF WriteAcknowledged
<1>2. d \in Nat /\ d <= AckWait
  BY Numbers
<1>3. since + d <= Base + BeforeCommand + Shutdown
  BY <1>0, <1>2, Gaps, Numbers DEF PassInv
<1>4. CASE at = "header" /\ GoTo("final") /\ UNCHANGED <<tries, next, is_payload_on>>
  <2>1. "final" \in Place
    BY DEF Place, Answering
  <2>2. at' = "final" /\ left' \in Nat /\ at' \in Answering
    BY <1>4, <2>1, Gone DEF Answering
  <2>3. tries' \in 0..(SynRetries - 1)
    BY <1>0, <1>4 DEF WatchdogTypeOK
  <2>4. since + d + AckWait <= Base + BeforeCommand + Shutdown
    BY <1>0, <1>2, <1>4, Gaps, Numbers DEF PassInv
  <2> QED
    BY <1>1, <1>2, <1>4, <2>2, <2>3, <2>4, AnswerKeeps
<1>5. CASE Off
  BY <1>0, <1>1, <1>2, <1>3, <1>5, OffKeeps
<1> QED
  BY <1>1, <1>4, <1>5

-----------------------------------------------------------------------------
(* The invariant holds at boot.                                            *)
LEMMA InitIInv == WatchdogInit => WatchdogInv
<1> SUFFICES ASSUME WatchdogInit PROVE WatchdogInv
  OBVIOUS
<1>1. /\ set = FALSE /\ since = 0 /\ soft = UsbWait /\ due = Period
      /\ at = "dispersal" /\ left = Dispersal /\ tries = 0 /\ next = "burn"
      /\ is_payload_on = FALSE /\ fed = TRUE /\ slow = 0
  BY DEF WatchdogInit
<1>2. UsbWait \in Nat /\ Dispersal \in Nat /\ Dispersal > Interval
  BY TimingAssumption
<1>3. due \in [Tasks -> Int] /\ \A t \in Tasks : due[t] >= -1 /\ due[t] <= Period[t]
  BY <1>1, Gaps DEF Period
<1>4. due["watchdog"] = ShortPeriod
  BY <1>1 DEF Period, Tasks
<1>5. WatchdogTypeOK
  <2>1. at \in Place
    BY <1>1 DEF Place, Sleeping
  <2> QED
    <3>1. set \in BOOLEAN /\ fed \in BOOLEAN /\ is_payload_on \in BOOLEAN
      BY <1>1, Zenon
    <3>2. since \in Nat /\ soft \in Nat /\ left \in Nat /\ slow \in 0..2
      BY <1>1, <1>2
    <3>3. tries \in 0..(SynRetries - 1) /\ next \in {"init", "burn", "reset", "watchdog"}
      BY <1>1, Gaps
    <3> QED
      BY <1>3, <2>1, <3>1, <3>2, <3>3 DEF WatchdogTypeOK
<1>6. Base \in Nat
  BY <1>5, Bases
<1> QED
  BY <1>1, <1>2, <1>4, <1>5, <1>6, Gaps
  DEF WatchdogInv, DueInv, PassInv, BetweenInv, SleepInv

(* Every step preserves the invariant.                                     *)
LEMMA NextIInv == WatchdogInv /\ [WatchdogNext]_watchdogVars => WatchdogInv'
<1>1. ASSUME WatchdogInv, UNCHANGED watchdogVars PROVE WatchdogInv'
  BY <1>1 DEF watchdogVars, clocks, WatchdogInv, WatchdogTypeOK, DueInv, PassInv, BetweenInv, SleepInv,
              Base, Phase, Spent, SynWait, AckWait
<1> QED
  BY <1>1, SleepKeeps, WakeUpKeeps, ScanKeeps, NextPassKeeps, EmptyPassKeeps, BurnKeeps,
     NotDueKeeps, WatchdogKeeps, TelemetryKeeps, ADCSKeeps, CommandKeeps, TurnOffKeeps,
     SynchroniseKeeps, WriteKeeps
  DEF WatchdogNext

LEMMA InvariantHolds == WatchdogSpec => []WatchdogInv
<1> QED
  BY InitIInv, NextIInv, PTL DEF WatchdogSpec

(* Clocks, places and counters have their types, for every timing.         *)
THEOREM WatchdogTypeCorrect == WatchdogSpec => []WatchdogTypeOK
<1>1. WatchdogInv => WatchdogTypeOK
  BY DEF WatchdogInv
<1> QED
  BY <1>1, InvariantHolds, PTL

(* However long the waits are, the pin that feeds the hardware watchdog is *)
(* never held longer than its phase and the one gap, made of the longest   *)
(* waits that can fall into one pass, after which the watchdog task runs.  *)
THEOREM PulsesHold == WatchdogSpec => []PulsesInTime
<1>1. WatchdogInv => PulsesInTime
  <2>1. ASSUME WatchdogInv PROVE Phase \in Nat /\ since \in Nat /\ since <= Base + LoopGap
    BY <2>1, Bases DEF WatchdogInv, SleepInv, WatchdogTypeOK
  <2> QED
    BY <2>1, Gaps DEF PulsesInTime, Base
<1> QED
  BY <1>1, InvariantHolds, PTL

-----------------------------------------------------------------------------
(* The software watchdog.  A cycle of the pin is a high phase and a low    *)
(* one; as long as slow < 2, one shutdown at most falls into it, and Wrote *)
(* allows for it wherever it was.                                          *)

Wrote == IF slow = 1 THEN Shutdown ELSE 0

(* What the high phase may have taken, when it is over.                    *)
Carried == IF set THEN 0 ELSE High + QuietGap + 2 * Interval

SoftBase == Carried + Phase + Wrote + IF fed THEN 0 ELSE 2 * Interval

CycleInv == soft <= since + Carried + Wrote

SoftDueInv == due["watchdog"] >= 0 => soft <= SoftBase + ShortPeriod - due["watchdog"]

(* The time since watchdog_update at each place; in the write, what of it  *)
(* is still to come has been allowed for.                                  *)
SoftPlaceInv ==
  /\ soft <= SoftBase + QuietGap
  /\ at \in Sleeping /\ left <= Interval => soft <= SoftBase + Interval
  /\ at = "scan" => soft <= SoftBase + 2 * Interval
  /\ at = "idle" =>
       soft + (CASE next = "watchdog" -> 1 [] next = "init" -> 3 [] OTHER -> 2) * PassTime
         <= SoftBase + QuietGap
  /\ at = "init" => soft + 2 * PassTime <= SoftBase + QuietGap
  /\ at \in {"burn", "reset"} => soft + PassTime <= SoftBase + QuietGap
  /\ at = "telemetry" => soft <= SoftBase + ShortPeriod
  /\ at = "adcs" => soft <= SoftBase + ShortPeriod + ReadWait
  /\ at = "command" => soft <= SoftBase + BeforeCommand
  /\ at \in Answering => slow = 1
  /\ at = "sync" => soft + Shutdown <= SoftBase + BeforeCommand + Spent
  /\ at = "header" => soft + 2 * AckWait <= SoftBase + BeforeCommand
  /\ at = "final" => soft + AckWait <= SoftBase + BeforeCommand

SoftInv == slow < 2 => CycleInv /\ SoftDueInv /\ SoftPlaceInv

(* The quiet gap, as a sum, and what the assumption says of it.            *)
LEMMA SoftGaps ==
  /\ QuietGap = BeforeCommand + 3 * PassTime /\ QuietGap \in Nat
  /\ 2 * Interval <= BeforeCommand
  /\ Low + High + 2 * QuietGap + Shutdown + 4 * Interval <= SoftTimeout
  /\ UsbWait <= High + QuietGap
  /\ Low \in Nat /\ High \in Nat /\ UsbWait \in Nat
<1>1. QuietGap = BeforeCommand + 3 * PassTime
  BY Gaps DEF QuietGap
<1>2. Low \in Nat /\ High \in Nat /\ UsbWait \in Nat
  BY TimingAssumption
<1>3. /\ Low + High + 2 * QuietGap + Shutdown + 4 * Interval <= SoftTimeout
      /\ UsbWait <= High + QuietGap
      /\ 2 * Interval <= QuietGap - 3 * PassTime
  BY SoftwareAssumption
<1> QED
  BY <1>1, <1>2, <1>3, Gaps

LEMMA SoftBases ==
  ASSUME WatchdogTypeOK
  PROVE  /\ Wrote \in Nat /\ Wrote <= Shutdown /\ Carried \in Nat /\ SoftBase \in Nat
         /\ SoftBase <= High + QuietGap + Low + Shutdown + 4 * Interval
<1>1. Wrote \in Nat /\ Wrote <= Shutdown
  BY Gaps DEF Wrote
<1>2. /\ Carried \in Nat /\ Phase \in Nat
      /\ Carried + Phase <= High + QuietGap + 2 * Interval + Low
  BY SoftGaps, Gaps DEF Carried, Phase
<1> QED
  BY <1>1, <1>2, SoftGaps, Gaps DEF SoftBase

(* Where the pin and the count of shutdowns stay, soft and since pass      *)
(* together, and the watchdog task's deadline comes nearer by as much.     *)
LEMMA SoftPasses ==
  ASSUME WatchdogInv, WatchdogInv', SoftInv, slow < 2, NEW d \in Nat, since' = since + d, soft' = soft + d,
         UNCHANGED <<set, fed, slow>>,
         \/ due'["watchdog"] = -1
         \/ due'["watchdog"] = due["watchdog"] - d
  PROVE  /\ CycleInv' /\ SoftDueInv' /\ SoftPlaceInv
         /\ SoftBase' = SoftBase /\ SoftBase \in Nat /\ soft \in Nat /\ Wrote' = Wrote
<1>1. Wrote' = Wrote /\ Carried' = Carried /\ Phase' = Phase
  BY DEF Wrote, Carried, Phase
<1>2. SoftBase' = SoftBase
  BY <1>1 DEF SoftBase
<1>3. /\ soft \in Nat /\ since \in Nat /\ SoftBase \in Nat /\ Carried \in Nat /\ Wrote \in Nat
      /\ due["watchdog"] \in Int /\ due'["watchdog"] \in Int
  BY SoftBases DEF WatchdogInv, WatchdogTypeOK, Tasks
<1>4. CycleInv /\ SoftDueInv /\ SoftPlaceInv
  BY DEF SoftInv
<1>5. CycleInv'
  BY <1>1, <1>3, <1>4 DEF CycleInv
<1>6. SoftDueInv'
  BY <1>2, <1>3, <1>4, Gaps DEF SoftDueInv
<1> QED
  BY <1>1, <1>2, <1>3, <1>4, <1>5, <1>6

(* What Later does to the watchdog task's deadline.                        *)
LEMMA DeadlineNears ==
  ASSUME WatchdogTypeOK, NEW d \in Nat, NEW ds, due' = Later(ds, d),
         \/ ds = due
         \/ \E t \in Tasks \ {"watchdog"} : ds = [due EXCEPT ![t] = Period[t]]
  PROVE  due'["watchdog"] = -1 \/ due'["watchdog"] = due["watchdog"] - d
<1>1. ds["watchdog"] = due["watchdog"] /\ "watchdog" \in Tasks
  BY DEF WatchdogTypeOK, Tasks
<1> QED
  BY <1>1 DEF Later

(* After a feed a new cycle has begun, or the high phase is carried into   *)
(* the low one, or the phase is not over.                                  *)
LEMMA SoftFed ==
  ASSUME WatchdogInv, SoftInv, NEW d \in Nat, watchdog_feed(d), slow' < 2
  PROVE  CycleInv' /\ SoftBase' \in Nat /\ soft' \in Nat /\ soft' <= SoftBase' + d
<1>1. /\ WatchdogTypeOK /\ set \in BOOLEAN /\ slow \in 0..2 /\ since \in Nat /\ soft \in Nat
      /\ Wrote \in Nat
  BY SoftBases DEF WatchdogInv, WatchdogTypeOK
<1>2. fed' = TRUE
  BY DEF watchdog_feed
<1>3. CASE /\ since <= Phase /\ since' = since + d
           /\ UNCHANGED <<set, slow>>
           /\ soft' = IF slow = 2 THEN 0 ELSE soft + d
  <2>1. Wrote' = Wrote /\ Carried' = Carried /\ Phase' = Phase
    BY <1>3 DEF Wrote, Carried, Phase
  <2>2. Carried \in Nat /\ Phase \in Nat /\ SoftBase' = Carried + Phase + Wrote
    BY <1>1, <1>2, <2>1, SoftBases, Bases DEF SoftBase
  <2>3. soft' = soft + d /\ soft <= since + Carried + Wrote
    BY <1>1, <1>3 DEF SoftInv, CycleInv
  <2> QED
    BY <1>1, <1>3, <2>1, <2>2, <2>3 DEF CycleInv
<1>4. CASE ~set /\ since' = d /\ set' = ~set /\ slow' = 0 /\ soft' = d
  <2>0. set' = TRUE
    BY <1>1, <1>4, Zenon
  <2>1. Wrote' = 0 /\ Carried' = 0 /\ Phase' = High
    BY <1>4, <2>0 DEF Wrote, Carried, Phase
  <2>2. SoftBase' = High
    BY <1>2, <2>1, SoftGaps DEF SoftBase
  <2> QED
    BY <1>4, <2>1, <2>2, SoftGaps DEF CycleInv
<1>5. CASE /\ set /\ since' = d /\ set' = ~set /\ slow' = slow
           /\ soft' = IF slow = 2 THEN 0 ELSE soft + d
  <2>1. Wrote' = Wrote /\ Carried' = High + QuietGap + 2 * Interval /\ Phase' = Low
    BY <1>1, <1>5 DEF Wrote, Carried, Phase
  <2>2. SoftBase' = High + QuietGap + 2 * Interval + Low + Wrote
    BY <1>1, <1>2, <2>1, SoftGaps, Gaps DEF SoftBase
  <2>3. Carried = 0 /\ Phase = High
    BY <1>5 DEF Carried, Phase
  <2>4. SoftBase <= High + Wrote + 2 * Interval
    BY <1>1, <2>3, SoftGaps, Gaps DEF SoftBase
  <2>5. soft' = soft + d /\ soft <= SoftBase + QuietGap /\ SoftBase \in Nat
    BY <1>1, <1>5, SoftBases DEF SoftInv, SoftPlaceInv
  <2>6. soft' <= d + (High + QuietGap + 2 * Interval) + Wrote
    BY <1>1, <2>4, <2>5, SoftGaps, Gaps
  <2> QED
    BY <1>1, <1>5, <2>1, <2>2, <2>5, <2>6, SoftGaps, Gaps DEF CycleInv
<1> QED
  BY <1>1, <1>3, <1>4, <1>5 DEF watchdog_feed

-----------------------------------------------------------------------------
(* One lemma for each kind of action.                                      *)

LEMMA SoftSleeps ==
  ASSUME WatchdogInv, WatchdogInv', SoftInv, safe_sleep_ms, slow' < 2
  PROVE  CycleInv' /\ SoftDueInv' /\ SoftPlaceInv'
<1>1. /\ at \in Sleeping /\ at' = at /\ left > Interval /\ left \in Nat
      /\ watchdog_feed(Interval) /\ Interval \in Nat
      /\ due' = Later(due, Interval)
  BY Gaps DEF safe_sleep_ms, WatchdogInv, WatchdogTypeOK
<1>2. CycleInv' /\ SoftBase' \in Nat /\ soft' \in Nat /\ soft' <= SoftBase' + Interval
  BY <1>1, SoftFed
<1>3. PICK b \in Nat : SoftBase' = b
  BY <1>2
<1>4. /\ due'["watchdog"] \in Int
      /\ due'["watchdog"] <= ShortPeriod - Interval \/ due'["watchdog"] = -1
  <2>1. due["watchdog"] \in Int /\ due["watchdog"] <= ShortPeriod
    BY DEF WatchdogInv, WatchdogTypeOK, Tasks, Period
  <2>2. due'["watchdog"] = -1 \/ due'["watchdog"] = due["watchdog"] - Interval
    BY <1>1, DeadlineNears DEF WatchdogInv
  <2> QED
    BY <1>1, <2>1, <2>2, Gaps
<1>5. SoftDueInv'
  BY <1>2, <1>3, <1>4, Gaps DEF SoftDueInv
<1>6. SoftPlaceInv'
  BY <1>1, <1>2, <1>3, SoftGaps, Gaps DEF SoftPlaceInv, Sleeping, Answering
<1> QED
  BY <1>2, <1>5, <1>6

LEMMA SoftWakes ==
  ASSUME WatchdogInv, WatchdogInv', SoftInv, WakeUp, slow' < 2
  PROVE  CycleInv' /\ SoftDueInv' /\ SoftPlaceInv'
<1>1. /\ at \in Sleeping /\ left \in Nat /\ left <= Interval /\ Wait(left)
      /\ due' = Later(due, left)
  BY DEF WakeUp, WatchdogInv, WatchdogTypeOK
<1>2. PICK place \in Following : GoTo(place)
  BY DEF WakeUp
<1>3. place \in (Sleeping \ {"dispersal"}) \cup {"scan", "idle"} /\ place \in Place
  BY <1>1 DEF Following, Sleeping, Place
<1>4. at' = place /\ (place \in Sleeping => left' > Interval) /\ left' \in Nat
  BY <1>2, <1>3, Gone
<1>5. /\ UNCHANGED <<set, fed, slow>> /\ since' = since + left /\ soft' = soft + left
  BY DEF Wait, WakeUp
<1>6. due'["watchdog"] = -1 \/ due'["watchdog"] = due["watchdog"] - left
  BY <1>1, DeadlineNears DEF WatchdogInv
<1>7. /\ CycleInv' /\ SoftDueInv' /\ SoftPlaceInv
      /\ SoftBase' = SoftBase /\ SoftBase \in Nat /\ soft \in Nat
  BY <1>1, <1>5, <1>6, SoftPasses
<1>8. soft' <= SoftBase + 2 * Interval
  BY <1>1, <1>5, <1>7, Gaps DEF SoftPlaceInv
<1>9. SoftPlaceInv'
  <2>1. (CASE next' = "watchdog" -> 1 [] next' = "init" -> 3 [] OTHER -> 2) \in {1, 2, 3}
    OBVIOUS
  <2>2. soft' + 3 * PassTime <= SoftBase' + QuietGap
    BY <1>1, <1>5, <1>7, <1>8, SoftGaps, Gaps
  <2> QED
    BY <1>1, <1>3, <1>4, <1>5, <1>7, <1>8, <2>1, <2>2, SoftGaps, Gaps
       DEF SoftPlaceInv, Sleeping, Answering
<1> QED
  BY <1>7, <1>9

LEMMA SoftScans ==
  ASSUME WatchdogInv, WatchdogInv', SoftInv, telemetry_task_init, slow' < 2
  PROVE  CycleInv' /\ SoftDueInv' /\ SoftPlaceInv'
<1>1. /\ at = "scan" /\ at' = "init" /\ since' = since /\ soft' = soft
      /\ set' = set /\ slow' = slow /\ fed' = FALSE /\ due' = Period
  <2>1. PICK d \in ScanTimes :
          /\ since' = since + d
          /\ slow' = IF d = 0 THEN slow ELSE 2
          /\ soft' = IF slow' = 2 THEN 0 ELSE soft
    BY DEF telemetry_task_init
  <2>2. d = 0 /\ since \in Nat
    BY <2>1 DEF WatchdogInv, WatchdogTypeOK
  <2>3. since' = since /\ soft' = soft /\ slow' = slow
    BY <2>1, <2>2
  <2> QED
    BY <2>3 DEF telemetry_task_init, GoTo
<1>2. fed /\ WatchdogTypeOK
  BY <1>1 DEF WatchdogInv, SleepInv
<1>3. /\ soft \in Nat /\ since \in Nat /\ SoftBase \in Nat /\ Carried \in Nat /\ Wrote \in Nat
      /\ slow < 2
  BY <1>1, <1>2, SoftBases DEF WatchdogTypeOK
<1>4. /\ Wrote' = Wrote /\ Carried' = Carried /\ Phase' = Phase
      /\ due'["watchdog"] = ShortPeriod
  BY <1>1 DEF Wrote, Carried, Phase, Period, Tasks
<1>5. SoftBase' = SoftBase + 2 * Interval
  BY <1>1, <1>2, <1>3, <1>4, Bases, Gaps DEF SoftBase
<1>6. soft <= SoftBase + 2 * Interval /\ CycleInv
  BY <1>1, <1>3 DEF SoftInv, SoftPlaceInv
<1>7. CycleInv'
  BY <1>1, <1>4, <1>6 DEF CycleInv
<1>8. SoftDueInv'
  BY <1>1, <1>3, <1>4, <1>5, <1>6, Gaps DEF SoftDueInv
<1>9. SoftPlaceInv'
  BY <1>1, <1>3, <1>5, <1>6, SoftGaps, Gaps DEF SoftPlaceInv, Sleeping, Answering
<1> QED
  BY <1>7, <1>8, <1>9

LEMMA SoftNextPass ==
  ASSUME WatchdogInv, WatchdogInv', SoftInv, NextPass, slow' < 2
  PROVE  CycleInv' /\ SoftDueInv' /\ SoftPlaceInv'
<1>1. /\ at = "idle" /\ at' = next /\ next' = next
      /\ next \in {"init", "burn", "reset", "watchdog"}
      /\ Wait(PassTime) /\ due' = Later(due, PassTime)
  BY DEF NextPass, GoTo, WatchdogInv, WatchdogTypeOK
<1>2. UNCHANGED <<set, fed, slow>> /\ since' = since + PassTime /\ soft' = soft + PassTime
  BY <1>1 DEF Wait
<1>3. due'["watchdog"] = -1 \/ due'["watchdog"] = due["watchdog"] - PassTime
  BY <1>1, DeadlineNears, Gaps DEF WatchdogInv
<1>4. /\ CycleInv' /\ SoftDueInv' /\ SoftPlaceInv
      /\ SoftBase' = SoftBase /\ SoftBase \in Nat /\ soft \in Nat
  BY <1>2, <1>3, Gaps, SoftPasses
<1>5. soft + (IF next = "watchdog" THEN 1 ELSE IF next = "init" THEN 3 ELSE 2) * PassTime
        <= SoftBase + QuietGap
  BY <1>1, <1>4 DEF SoftPlaceInv
<1>6. SoftPlaceInv'
  BY <1>1, <1>2, <1>4, <1>5, SoftGaps, Gaps DEF SoftPlaceInv, Sleeping, Answering
<1> QED
  BY <1>4, <1>6

(* Code that takes no time: the clocks stay, and the watchdog task's       *)
(* deadline with them.                                                     *)
LEMMA SoftStill ==
  ASSUME WatchdogInv, WatchdogInv', SoftInv, UNCHANGED clocks, due'["watchdog"] \in {-1, due["watchdog"]}, slow' < 2
  PROVE  /\ CycleInv' /\ SoftDueInv' /\ SoftPlaceInv /\ slow < 2 /\ soft' = soft
         /\ SoftBase' = SoftBase /\ SoftBase \in Nat /\ soft \in Nat
<1>1. /\ slow' = slow /\ set' = set /\ fed' = fed /\ since' = since /\ soft' = soft
      /\ since \in Nat /\ soft \in Nat /\ due["watchdog"] \in Int
  BY DEF clocks, WatchdogInv, WatchdogTypeOK, Tasks
<1>2. since' = since + 0 /\ soft' = soft + 0 /\ slow < 2
  BY <1>1
<1>3. due'["watchdog"] = -1 \/ due'["watchdog"] = due["watchdog"] - 0
  BY <1>1
<1> QED
  BY <1>1, <1>2, <1>3, SoftPasses

(* With no time gone, Later(ds, 0) leaves the watchdog task's deadline.    *)
LEMMA DeadlineStays ==
  ASSUME WatchdogTypeOK, NEW t \in Tasks \ {"watchdog"},
         due' = Later([due EXCEPT ![t] = Period[t]], 0)
  PROVE  due'["watchdog"] \in {-1, due["watchdog"]}
<1>1. \E u \in Tasks \ {"watchdog"} :
        [due EXCEPT ![t] = Period[t]] = [due EXCEPT ![u] = Period[u]]
  OBVIOUS
<1>2. due'["watchdog"] = -1 \/ due'["watchdog"] = due["watchdog"] - 0
  BY <1>1, DeadlineNears
<1>3. due["watchdog"] \in Int
  BY DEF WatchdogTypeOK, Tasks
<1> QED
  BY <1>2, <1>3

LEMMA SoftEmptyPass ==
  ASSUME WatchdogInv, WatchdogInv', SoftInv, PassWithoutTask \/ BurnWireTask, slow' < 2
  PROVE  CycleInv' /\ SoftDueInv' /\ SoftPlaceInv'
<1>1. UNCHANGED clocks /\ due' = due
  BY DEF PassWithoutTask, BurnWireTask
<1>2. /\ CycleInv' /\ SoftDueInv' /\ SoftPlaceInv /\ soft' = soft
      /\ SoftBase' = SoftBase /\ SoftBase \in Nat /\ soft \in Nat
  BY <1>1, SoftStill
<1>3. CASE PassWithoutTask
  <2>1. /\ at \in {"init", "burn", "reset"} /\ at' = "idle"
        /\ next' = IF at = "init" THEN "burn" ELSE "watchdog"
    BY <1>3 DEF PassWithoutTask, EndPass, GoTo
  <2>2. SoftPlaceInv'
    BY <1>2, <2>1, SoftGaps, Gaps DEF SoftPlaceInv, Sleeping, Answering
  <2> QED
    BY <1>2, <2>2
<1>4. CASE BurnWireTask
  <2>1. at' = "wait" /\ left' > Interval /\ left' \in Nat
    <3>1. "wait" \in Place /\ "wait" \in Sleeping /\ GoTo("wait")
      BY <1>4 DEF Place, Sleeping, BurnWireTask
    <3> QED
      BY <3>1, Gone
  <2>2. soft <= SoftBase + QuietGap
    BY <1>2 DEF SoftPlaceInv
  <2>3. SoftPlaceInv'
    BY <1>2, <2>1, <2>2, SoftGaps, Gaps DEF SoftPlaceInv, Sleeping, Answering
  <2> QED
    BY <1>2, <2>3
<1> QED
  BY <1>3, <1>4

LEMMA SoftNotDue ==
  ASSUME WatchdogInv, WatchdogInv', SoftInv, NotDue, slow' < 2
  PROVE  CycleInv' /\ SoftDueInv' /\ SoftPlaceInv'
<1>1. /\ UNCHANGED clocks /\ due' = due /\ at' = Successor[at] /\ at \in Tasks
      /\ due[at] >= 0 /\ next' = IF at = "command" THEN "watchdog" ELSE next
  BY DEF NotDue, GoTo
<1>2. /\ CycleInv' /\ SoftDueInv' /\ SoftPlaceInv /\ slow < 2 /\ soft' = soft
      /\ SoftBase' = SoftBase /\ SoftBase \in Nat /\ soft \in Nat
  BY <1>1, SoftStill
<1>3. CASE at = "watchdog"
  <2>1. at' = "telemetry"
    BY <1>1, <1>3 DEF Successor
  <2>2. due["watchdog"] \in Int /\ due["watchdog"] >= 0
    BY <1>1, <1>3 DEF WatchdogInv, WatchdogTypeOK, Tasks
  <2>3. soft <= SoftBase + ShortPeriod
    BY <1>2, <2>2, Gaps DEF SoftInv, SoftDueInv
  <2>4. SoftPlaceInv'
    BY <1>2, <2>1, <2>3, SoftGaps, Gaps, Numbers DEF SoftPlaceInv, Sleeping, Answering
  <2> QED
    BY <1>2, <2>4
<1>4. CASE at = "telemetry"
  <2>1. at' = "adcs"
    BY <1>1, <1>4 DEF Successor
  <2>2. SoftPlaceInv'
    BY <1>2, <1>4, <2>1, SoftGaps, Gaps, Numbers DEF SoftPlaceInv, Sleeping, Answering
  <2> QED
    BY <1>2, <2>2
<1>5. CASE at = "adcs"
  <2>1. at' = "command"
    BY <1>1, <1>5 DEF Successor
  <2>2. SoftPlaceInv'
    BY <1>2, <1>5, <2>1, SoftGaps, Gaps, Numbers DEF SoftPlaceInv, Sleeping, Answering
  <2> QED
    BY <1>2, <2>2
<1>6. CASE at = "command"
  <2>1. at' = "idle" /\ next' = "watchdog"
    BY <1>1, <1>6 DEF Successor
  <2>2. SoftPlaceInv'
    BY <1>2, <1>6, <2>1, SoftGaps, Gaps, Numbers DEF SoftPlaceInv, Sleeping, Answering
  <2> QED
    BY <1>2, <2>2
<1> QED
  BY <1>1, <1>3, <1>4, <1>5, <1>6 DEF Tasks

LEMMA SoftWatchdogTask ==
  ASSUME WatchdogInv, WatchdogInv', SoftInv, watchdog_task_dispatch, slow' < 2
  PROVE  CycleInv' /\ SoftDueInv' /\ SoftPlaceInv'
<1>1. watchdog_feed(0) /\ at' = "telemetry" /\ 0 \in Nat
  BY DEF watchdog_task_dispatch, GoTo
<1>2. CycleInv' /\ SoftBase' \in Nat /\ soft' \in Nat /\ soft' <= SoftBase' + 0
  BY <1>1, SoftFed
<1>3. PICK b \in Nat : SoftBase' = b
  BY <1>2
<1>4. due'["watchdog"] \in Int /\ due'["watchdog"] <= ShortPeriod
  BY DEF WatchdogInv, WatchdogTypeOK, Tasks, Period
<1>5. SoftDueInv'
  BY <1>2, <1>3, <1>4, Gaps DEF SoftDueInv
<1>6. SoftPlaceInv'
  BY <1>1, <1>2, <1>3, SoftGaps, Gaps, Numbers DEF SoftPlaceInv, Sleeping, Answering
<1> QED
  BY <1>2, <1>5, <1>6

LEMMA SoftReads ==
  ASSUME WatchdogInv, WatchdogInv', SoftInv, telemetry_task_dispatch \/ adcs_task_dispatch, slow' < 2
  PROVE  CycleInv' /\ SoftDueInv' /\ SoftPlaceInv'
<1>1. PICK d \in Nat, t \in Tasks \ {"watchdog"} :
        /\ Wait(d) /\ due' = Later([due EXCEPT ![t] = Period[t]], d)
        /\ \/ at = "telemetry" /\ at' = "adcs" /\ d <= ReadWait
           \/ at = "adcs" /\ at' = "command" /\ d <= AdcsWait
  <2>1. CASE telemetry_task_dispatch
    <3>1. PICK d \in TelemetryTimes :
            /\ d \in Nat /\ d <= ReadWait /\ Wait(d) /\ at = "telemetry"
            /\ due' = Later([due EXCEPT !["telemetry"] = Period["telemetry"]], d)
      BY <2>1, Numbers DEF telemetry_task_dispatch, Dispatch
    <3>2. at' = "adcs" /\ "telemetry" \in Tasks \ {"watchdog"}
      BY <2>1 DEF telemetry_task_dispatch, GoTo, Tasks
    <3> QED
      BY <3>1, <3>2
  <2>2. CASE adcs_task_dispatch
    <3>1. /\ Wait(AdcsWait) /\ at = "adcs" /\ at' = "command"
          /\ due' = Later([due EXCEPT !["adcs"] = Period["adcs"]], AdcsWait)
          /\ "adcs" \in Tasks \ {"watchdog"} /\ AdcsWait \in Nat /\ AdcsWait <= AdcsWait
      BY <2>2, Gaps DEF adcs_task_dispatch, Dispatch, GoTo, Tasks
    <3> QED
      BY <3>1
  <2> QED
    BY <2>1, <2>2
<1>2. UNCHANGED <<set, fed, slow>> /\ since' = since + d /\ soft' = soft + d /\ slow < 2
  BY <1>1 DEF Wait, WatchdogInv, WatchdogTypeOK
<1>3. due'["watchdog"] = -1 \/ due'["watchdog"] = due["watchdog"] - d
  <2>1. WatchdogTypeOK
    BY DEF WatchdogInv
  <2> QED
    BY <1>1, <2>1, DeadlineNears
<1>4. /\ CycleInv' /\ SoftDueInv' /\ SoftPlaceInv
      /\ SoftBase' = SoftBase /\ SoftBase \in Nat /\ soft \in Nat
  BY <1>2, <1>3, SoftPasses
<1>5. SoftPlaceInv'
  BY <1>1, <1>2, <1>4, SoftGaps, Gaps, Numbers DEF SoftPlaceInv, Sleeping, Answering
<1> QED
  BY <1>4, <1>5

LEMMA SoftCommand ==
  ASSUME WatchdogInv, WatchdogInv', SoftInv, command_task_dispatch, slow' < 2
  PROVE  CycleInv' /\ SoftDueInv' /\ SoftPlaceInv'
<1>1. /\ UNCHANGED clocks /\ at = "command"
      /\ due' = Later([due EXCEPT !["command"] = Period["command"]], 0)
  BY DEF command_task_dispatch, Dispatch
<1>2. at' = "idle"
  BY DEF command_task_dispatch, EndPass, GoTo
<1>3. due'["watchdog"] \in {-1, due["watchdog"]}
  <2>1. WatchdogTypeOK /\ "command" \in Tasks \ {"watchdog"}
    BY DEF WatchdogInv, Tasks
  <2> QED
    BY <1>1, <2>1, DeadlineStays
<1>4. /\ CycleInv' /\ SoftDueInv' /\ SoftPlaceInv /\ soft' = soft
      /\ SoftBase' = SoftBase /\ SoftBase \in Nat /\ soft \in Nat
  BY <1>1, <1>3, SoftStill
<1>5. SoftPlaceInv'
  <2>1. (CASE next' = "watchdog" -> 1 [] next' = "init" -> 3 [] OTHER -> 2) \in {1, 2, 3}
    OBVIOUS
  <2>2. soft + 3 * PassTime <= SoftBase + QuietGap
    BY <1>1, <1>4, SoftGaps, Gaps DEF SoftPlaceInv
  <2> QED
    BY <1>2, <1>4, <2>1, <2>2, SoftGaps, Gaps DEF SoftPlaceInv, Sleeping, Answering
<1> QED
  BY <1>4, <1>5

(* The write of a shutdown is allowed for when it begins.                  *)
LEMMA SoftTurnOff ==
  ASSUME WatchdogInv, WatchdogInv', SoftInv, payload_turn_off, slow' < 2
  PROVE  CycleInv' /\ SoftDueInv' /\ SoftPlaceInv'
<1>1. /\ WatchdogTypeOK /\ at = "command" /\ at' = "sync" /\ tries' = 0
      /\ set' = set /\ since' = since /\ fed' = fed
      /\ slow' = IF slow = 0 THEN 1 ELSE 2
      /\ soft' = IF slow' = 2 THEN 0 ELSE soft
      /\ due' = Later([due EXCEPT !["command"] = Period["command"]], 0)
  BY DEF WatchdogInv, payload_turn_off, Dispatch, GoTo
<1>2. slow = 0 /\ slow' = 1 /\ soft' = soft
  BY <1>1
<1>3. Wrote = 0 /\ Wrote' = Shutdown /\ Carried' = Carried /\ Phase' = Phase /\ Shutdown \in Nat
  <2>1. Shutdown' = Shutdown
    BY DEF Shutdown, AckWait
  <2> QED
    BY <1>1, <1>2, <2>1, Gaps DEF Wrote, Carried, Phase
<1>4. SoftBase' = SoftBase + Shutdown /\ SoftBase \in Nat /\ Carried \in Nat
  BY <1>1, <1>3, SoftBases, Bases, Gaps DEF SoftBase
<1>5. soft \in Nat /\ since \in Nat /\ due["watchdog"] \in Int
  BY <1>1 DEF WatchdogTypeOK, Tasks
<1>6. CycleInv /\ SoftDueInv /\ SoftPlaceInv
  BY <1>2 DEF SoftInv
<1>7. due'["watchdog"] \in {-1, due["watchdog"]}
  <2>1. "command" \in Tasks \ {"watchdog"}
    BY DEF Tasks
  <2> QED
    BY <1>1, <2>1, DeadlineStays
<1>8. CycleInv'
  BY <1>1, <1>2, <1>3, <1>4, <1>5, <1>6 DEF CycleInv
<1>9. SoftDueInv'
  BY <1>2, <1>3, <1>4, <1>5, <1>6, <1>7, Gaps DEF SoftDueInv
<1>10. Spent' = 0
  BY <1>1, Gaps DEF Spent, SynWait, AckWait
<1>11. soft <= SoftBase + BeforeCommand
  BY <1>1, <1>6 DEF SoftPlaceInv
<1>12. SoftPlaceInv'
  BY <1>1, <1>2, <1>3, <1>4, <1>5, <1>10, <1>11, SoftGaps, Gaps
     DEF SoftPlaceInv, Sleeping, Answering
<1> QED
  BY <1>8, <1>9, <1>12

(* A step of the write: what of it is still to come becomes less.          *)
LEMMA SoftAnswers ==
  ASSUME WatchdogInv, WatchdogInv', SoftInv, slow < 2, at \in Answering, NEW d \in Nat,
         Wait(d), due' = Later(due, d), at' \in Answering \cup {"idle"},
         at' = "idle" => next' = "watchdog",
         soft + d + AckWait <= SoftBase + BeforeCommand \/ at' # "final",
         soft + d + 2 * AckWait <= SoftBase + BeforeCommand \/ at' # "header",
         soft + d + Shutdown <= SoftBase + BeforeCommand + Spent' \/ at' # "sync",
         soft + d <= SoftBase + BeforeCommand
  PROVE  CycleInv' /\ SoftDueInv' /\ SoftPlaceInv'
<1>1. UNCHANGED <<set, fed, slow>> /\ since' = since + d /\ soft' = soft + d
  BY DEF Wait
<1>2. due'["watchdog"] = -1 \/ due'["watchdog"] = due["watchdog"] - d
  BY DeadlineNears DEF WatchdogInv
<1>3. /\ CycleInv' /\ SoftDueInv' /\ SoftPlaceInv
      /\ SoftBase' = SoftBase /\ SoftBase \in Nat /\ soft \in Nat
  BY <1>1, <1>2, SoftPasses
<1>4. slow' = 1
  BY <1>1, <1>3 DEF SoftPlaceInv
<1>5. SoftPlaceInv'
  BY <1>1, <1>3, <1>4, SoftGaps, Gaps, Numbers DEF SoftPlaceInv, Sleeping, Answering
<1> QED
  BY <1>3, <1>5

LEMMA SoftSynchronise ==
  ASSUME WatchdogInv, WatchdogInv', SoftInv, Synchronise, slow' < 2
  PROVE  CycleInv' /\ SoftDueInv' /\ SoftPlaceInv'
<1>1. WatchdogTypeOK /\ at = "sync" /\ at \in Answering
  BY DEF WatchdogInv, Synchronise, Answering
<1>2. tries \in Nat /\ tries < SynRetries /\ soft \in Nat /\ SoftBase \in Nat
  BY <1>1, SoftBases, Gaps DEF WatchdogTypeOK
<1>3. Spent \in Nat /\ Spent + SynWait <= SynRetries * SynWait
      /\ (tries + 1) * SynWait = Spent + SynWait
  BY <1>2, Gaps, Products DEF Spent
<1>4. PICK d \in AckTimes :
        \/ /\ Wait(d) /\ due' = Later(due, d)
           /\ GoTo("header") /\ UNCHANGED <<tries, next, is_payload_on>>
        \/ /\ Wait(d + SynPause) /\ due' = Later(due, d + SynPause)
           /\ IF tries + 1 < SynRetries
              THEN tries' = tries + 1 /\ UNCHANGED <<at, left, next, is_payload_on>>
              ELSE Off
  BY DEF Synchronise
<1>5. SynWait = AckWait + SynPause
  BY DEF SynWait
<1>6. d \in Nat /\ d <= AckWait /\ d + SynPause \in Nat /\ d + SynPause <= SynWait
  BY <1>5, Numbers, Gaps
<1>7. slow < 2 /\ soft + Shutdown <= SoftBase + BeforeCommand + Spent
  <2>1. slow' = slow
    BY <1>4 DEF Wait
  <2> QED
    BY <1>1, <2>1 DEF SoftInv, SoftPlaceInv
<1>8. soft + (d + SynPause) + 2 * AckWait <= SoftBase + BeforeCommand
  BY <1>2, <1>3, <1>6, <1>7, Gaps, Numbers
<1>9. CASE /\ Wait(d) /\ due' = Later(due, d)
           /\ GoTo("header") /\ UNCHANGED <<tries, next, is_payload_on>>
  <2>1. at' = "header" /\ at' \in Answering
    BY <1>9 DEF GoTo, Answering
  <2>2. soft + d + 2 * AckWait <= SoftBase + BeforeCommand /\ soft + d <= SoftBase + BeforeCommand
    BY <1>2, <1>6, <1>8, Gaps, Numbers
  <2> QED
    BY <1>1, <1>6, <1>7, <1>9, <2>1, <2>2, SoftAnswers
<1>10. CASE /\ Wait(d + SynPause) /\ due' = Later(due, d + SynPause)
            /\ tries + 1 < SynRetries
            /\ tries' = tries + 1 /\ UNCHANGED <<at, left, next, is_payload_on>>
  <2>1. Spent' = Spent + SynWait
    <3>1. Spent' = (tries + 1) * SynWait
      BY <1>10 DEF Spent, SynWait, AckWait
    <3> QED
      BY <1>3, <3>1
  <2>2. soft + (d + SynPause) + Shutdown <= SoftBase + BeforeCommand + Spent'
    BY <1>2, <1>3, <1>6, <1>7, <2>1, Gaps
  <2>3. soft + (d + SynPause) <= SoftBase + BeforeCommand
    BY <1>2, <1>6, <1>8, Gaps, Numbers
  <2>4. at' = "sync"
    BY <1>1, <1>10
  <2> QED
    BY <1>1, <1>6, <1>7, <1>10, <2>2, <2>3, <2>4, SoftAnswers
<1>11. CASE Wait(d + SynPause) /\ due' = Later(due, d + SynPause) /\ Off
  <2>1. at' = "idle" /\ next' = "watchdog"
    BY <1>11 DEF Off, EndPass, GoTo
  <2>2. soft + (d + SynPause) <= SoftBase + BeforeCommand
    BY <1>2, <1>6, <1>8, Gaps, Numbers
  <2> QED
    BY <1>1, <1>6, <1>7, <1>11, <2>1, <2>2, SoftAnswers
<1> QED
  BY <1>4, <1>9, <1>10, <1>11

LEMMA SoftWrites ==
  ASSUME WatchdogInv, WatchdogInv', SoftInv, WriteAcknowledged, slow' < 2
  PROVE  CycleInv' /\ SoftDueInv' /\ SoftPlaceInv'
<1>1. WatchdogTypeOK /\ at \in {"header", "final"} /\ at \in Answering
  BY DEF WatchdogInv, WriteAcknowledged, Answering
<1>2. PICK d \in AckTimes :
        /\ Wait(d) /\ due' = Later(due, d)
        /\ \/ at = "header" /\ GoTo("final")
           \/ Off
  BY DEF WriteAcknowledged
<1>3. d \in Nat /\ d <= AckWait /\ soft \in Nat /\ SoftBase \in Nat
  BY <1>1, SoftBases, Numbers DEF WatchdogTypeOK
<1>4. slow < 2 /\ SoftPlaceInv
  <2>1. slow' = slow
    BY <1>2 DEF Wait
  <2> QED
    BY <2>1 DEF SoftInv
<1>5. soft + d <= SoftBase + BeforeCommand
  BY <1>1, <1>3, <1>4, Gaps, Numbers DEF SoftPlaceInv
<1>6. CASE at = "header" /\ GoTo("final")
  <2>1. at' = "final" /\ at' \in Answering
    BY <1>6 DEF GoTo, Answering
  <2>2. soft + d + AckWait <= SoftBase + BeforeCommand
    BY <1>3, <1>4, <1>6, Gaps, Numbers DEF SoftPlaceInv
  <2> QED
    BY <1>1, <1>2, <1>3, <1>4, <1>5, <2>1, <2>2, SoftAnswers
<1>7. CASE Off
  <2>1. at' = "idle" /\ next' = "watchdog"
    BY <1>7 DEF Off, EndPass, GoTo
  <2> QED
    BY <1>1, <1>2, <1>3, <1>4, <1>5, <2>1, SoftAnswers
<1> QED
  BY <1>2, <1>6, <1>7

(* At boot the low phase begins with main's first sleep carried into it.   *)
LEMMA InitSoft == WatchdogInit => SoftInv
<1> SUFFICES ASSUME WatchdogInit PROVE CycleInv /\ SoftDueInv /\ SoftPlaceInv
  BY DEF SoftInv
<1>1. /\ set = FALSE /\ since = 0 /\ soft = UsbWait /\ due = Period
      /\ at = "dispersal" /\ left = Dispersal /\ fed = TRUE /\ slow = 0
  BY DEF WatchdogInit
<1>2. Dispersal \in Nat /\ Dispersal > Interval
  BY TimingAssumption
<1>3. due["watchdog"] = ShortPeriod
  BY <1>1 DEF Period, Tasks
<1>4. Wrote = 0 /\ Carried = High + QuietGap + 2 * Interval /\ Phase = Low
  BY <1>1 DEF Wrote, Carried, Phase
<1>5. SoftBase = High + QuietGap + 2 * Interval + Low
  BY <1>1, <1>4, SoftGaps, Gaps DEF SoftBase
<1>6. CycleInv
  BY <1>1, <1>4, SoftGaps, Gaps DEF CycleInv
<1>7. SoftDueInv
  BY <1>1, <1>3, <1>5, SoftGaps, Gaps DEF SoftDueInv
<1>8. SoftPlaceInv
  BY <1>1, <1>2, <1>5, SoftGaps, Gaps DEF SoftPlaceInv, Answering
<1> QED
  BY <1>6, <1>7, <1>8

LEMMA NextSoft == WatchdogInv /\ WatchdogInv' /\ SoftInv /\ [WatchdogNext]_watchdogVars => SoftInv'
<1> SUFFICES ASSUME WatchdogInv, WatchdogInv', SoftInv, [WatchdogNext]_watchdogVars, slow' < 2
             PROVE  CycleInv' /\ SoftDueInv' /\ SoftPlaceInv'
  BY DEF SoftInv
<1>1. CASE UNCHANGED watchdogVars
  BY <1>1 DEF watchdogVars, clocks, SoftInv, CycleInv, SoftDueInv, SoftPlaceInv, SoftBase, Wrote,
              Carried, Phase, Spent, SynWait, AckWait, Shutdown, BeforeCommand, ReadWait,
              QuietGap, LoopGap, Period
<1> QED
  BY <1>1, SoftSleeps, SoftWakes, SoftScans, SoftNextPass, SoftEmptyPass, SoftNotDue,
     SoftWatchdogTask, SoftReads, SoftCommand, SoftTurnOff, SoftSynchronise, SoftWrites
  DEF WatchdogNext

(* The software watchdog of a trial image holds out between two feeds that *)
(* update it, however long the waits are, as long as one shutdown of the   *)
(* payload at most and no scan of the bus falls in between: its timeout is *)
(* longer than both phases of the pin, a quiet gap in each, one write of   *)
(* the shutdown and four last steps of a sleep.                            *)
THEOREM SoftwareWatchdogFed == WatchdogSpec => []SoftwareWatchdogHolds
<1>1. WatchdogInv /\ SoftInv => SoftwareWatchdogHolds
  <2> SUFFICES ASSUME WatchdogInv, SoftInv, slow < 2 PROVE soft <= SoftTimeout
    BY DEF SoftwareWatchdogHolds
  <2>1. WatchdogTypeOK /\ soft \in Nat /\ soft <= SoftBase + QuietGap
    BY DEF WatchdogInv, WatchdogTypeOK, SoftInv, SoftPlaceInv
  <2>2. /\ SoftBase \in Nat /\ SoftBase <= High + QuietGap + Low + Shutdown + 4 * Interval
    BY <2>1, SoftBases
  <2>3. SoftTimeout \in Nat
    BY TimingAssumption
  <2> QED
    BY <2>1, <2>2, <2>3, SoftGaps, Gaps
<1>2. WatchdogSpec => [](WatchdogInv /\ SoftInv)
  <2>1. WatchdogInit => WatchdogInv /\ SoftInv
    BY InitIInv, InitSoft
  <2>2. WatchdogInv /\ SoftInv /\ [WatchdogNext]_watchdogVars => (WatchdogInv /\ SoftInv)'
    BY NextIInv, NextSoft
  <2> QED
    BY <2>1, <2>2, PTL DEF WatchdogSpec
<1> QED
  BY <1>1, <1>2, PTL
=============================================================================
