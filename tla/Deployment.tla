----------------------------- MODULE Deployment -----------------------------
(***************************************************************************)
(* From power-on to normal operation: main() of src/main.c, the scheduler  *)
(* of src/scheduler/scheduler.c with the FLIGHT states under src/states/,  *)
(* and the burn wire task that releases the two solar panels, on top of    *)
(* the persistent record of flash.c.  Power may be lost at any step.       *)
(*                                                                         *)
(* The firmware is one thread of control; pc says where it stands.  Each   *)
(* place at which time passes (a safe_sleep_ms, a flash write) is a place  *)
(* between two steps, where a panel may release or power may go.           *)
(***************************************************************************)
EXTENDS PersistentData, FiniteSets

CONSTANTS
  MaxAttempts,     \* MAX_BURN_WIRE_ATTEMPTS (5 in burn_wire.h)
  Flight,          \* is this the FLIGHT build?
  MaxPowerLosses   \* bound of the model: how often power is lost

ASSUME MaxAttemptsAssumption == MaxAttempts \in Nat \ {0}
ASSUME FlightAssumption == Flight \in BOOLEAN
ASSUME MaxPowerLossesAssumption == MaxPowerLosses \in Nat

VARIABLES
  pc,              \* where main() stands
  loaded,          \* main's data->reboot_counter, the copy it loaded
  slate,           \* the fields of slate_t that this part uses
  relay,           \* the SAMWISE_BURN_RELAY output
  enabled,         \* the burn channels whose MOSFET is on
  todo,            \* panels the running attempt still has to burn
  rbf,             \* is the remove-before-flight pin in?
  released,        \* the panels whose detect pin reads deployed
  losses,          \* power losses so far
  \* History, read by no action:
  begun,           \* burn attempts begun since the counter was last reset
  uncounted,       \* those among them that no counter in flash shows
  closed,          \* panels found closed when the running attempt began
  boots,           \* boot numbers under which the scheduler has run
  torn             \* has power been lost in the middle of a flash write?

persistent == <<flash, writing, staged>>
outputs == <<relay, enabled>>
environment == <<rbf, released, losses>>
history == <<begun, uncounted, closed, boots, torn>>
vars == <<persistent, pc, loaded, slate, outputs, todo, environment, history>>

Panels == {"A", "B"}
States == {"INIT", "RUNNING", "BURN_WIRE", "BURN_WIRE_RESET"}
NoState == "NONE"

Points == {"boot", "load", "count", "init", "dispatch", "burn", "burning", "next"}

(* Mutant: the panel bits start out as deployed.                           *)
SlatePanelsPreset ==
  [current_state_id |-> "INIT", manual_override_state_id |-> "INIT",
   reboot_counter |-> 0, panels |-> Panels]

(* clear_and_init_slate zeroes the slate, and STATE_INIT is 0: until       *)
(* sched_init runs, the slate holds a request for the init state.          *)
ClearedSlate ==
  [current_state_id |-> "INIT", manual_override_state_id |-> "INIT",
   reboot_counter |-> 0, panels |-> {}]

Init ==
  /\ PersistentDataInit
  /\ pc = "boot"
  /\ loaded = 0
  /\ slate = ClearedSlate
  /\ relay = FALSE /\ enabled = {}
  /\ todo = {}
  /\ rbf = TRUE
  /\ released = {}
  /\ losses = 0
  /\ begun = 0 /\ uncounted = 0 /\ closed = {}
  /\ boots = {}
  /\ torn = FALSE

-----------------------------------------------------------------------------
(* main(), up to the dispatch loop.                                        *)

(* The slate is cleared, the pins are set up and the dispersal delay       *)
(* passes; every reset has cleared the RAM already.                        *)
Disperse ==
  /\ pc = "boot"
  /\ pc' = "load"
  /\ UNCHANGED <<persistent, loaded, slate, outputs, todo, environment, history>>

init_persistent_data ==
  /\ pc = "load"
  /\ BeginWrite(LoadedRecord)
  /\ loaded' = LoadedRecord.reboot_counter
  /\ pc' = "count"
  /\ UNCHANGED <<slate, outputs, todo, environment, history>>

(* The increment is made on a copy of its own: data, which main keeps,     *)
(* still holds the number it loaded.                                       *)
increment_reboot_counter ==
  /\ pc = "count"
  /\ BeginWrite(RebootCounted)
  /\ pc' = "init"
  /\ UNCHANGED <<loaded, slate, outputs, todo, environment, history>>

(* init(): drivers, burn_wire_init, sched_init; then the assignment of     *)
(* data->reboot_counter to the slate.                                      *)
init ==
  /\ pc = "init" /\ Idle
  /\ relay' = FALSE /\ enabled' = {}
  /\ slate' = [slate EXCEPT !.current_state_id = "INIT",
                            !.manual_override_state_id = NoState,
                            !.reboot_counter = loaded]
  /\ boots' = boots \cup {loaded}
  /\ pc' = "dispatch"
  /\ UNCHANGED <<persistent, loaded, todo, environment, begun, uncounted, closed, torn>>

-----------------------------------------------------------------------------
(* sched_dispatch, first half: the tasks of the current state.             *)

(* The init and burn_wire_reset states have no tasks.                      *)
DispatchNoTasks ==
  /\ pc = "dispatch" /\ Idle
  /\ slate.current_state_id \in {"INIT", "BURN_WIRE_RESET"}
  /\ pc' = "next"
  /\ UNCHANGED <<persistent, loaded, slate, outputs, todo, environment, history>>

(* The running state: telemetry, if due, refreshes the panel bits; then    *)
(* the command task, if a command is waiting, may request a state by a     *)
(* MANUAL_STATE_OVERRIDE (an unknown name requests NONE).                  *)
DispatchRunning ==
  /\ pc = "dispatch" /\ Idle
  /\ slate.current_state_id = "RUNNING"
  /\ \E seen \in {slate.panels, released}, request \in States \cup {NoState} :
       slate' = [slate EXCEPT !.panels = seen,
                              !.manual_override_state_id = request]
  /\ pc' = "next"
  /\ UNCHANGED <<persistent, loaded, outputs, todo, environment, history>>

(* burn_wire_task_dispatch up to its one-second sleep.  Its period is 0,   *)
(* so it is due on every pass.  The two detect pins are read once, here.   *)
burn_wire_task_dispatch ==
  /\ pc = "dispatch" /\ Idle
  /\ slate.current_state_id = "BURN_WIRE"
  /\ IF released = Panels \/ get_burn_wire_attempts >= MaxAttempts
     THEN /\ pc' = "next"
          /\ UNCHANGED <<todo, closed>>
     ELSE /\ pc' = "burn"
          /\ todo' = Panels \ released
          /\ closed' = Panels \ released
  /\ UNCHANGED <<persistent, loaded, slate, outputs, environment, begun, uncounted, boots, torn>>

(* Channel A goes before channel B.                                        *)
Channel == IF "A" \in todo THEN "A" ELSE "B"

(* Has the running attempt fired a channel without being counted yet?      *)
InAttempt == pc = "burning" \/ (pc = "burn" /\ todo # closed)

(* burn_wire_activate up to its sleep: relay first, then the MOSFET.       *)
burn_wire_activate ==
  /\ pc = "burn" /\ todo # {}
  /\ relay' = TRUE
  /\ enabled' = {Channel}
  /\ begun' = IF InAttempt THEN begun ELSE begun + 1
  /\ pc' = "burning"
  /\ UNCHANGED <<persistent, loaded, slate, todo, environment, uncounted, closed, boots, torn>>

(* burn_wire_activate after its sleep: everything off.                     *)
burn_wire_deactivate ==
  /\ pc = "burning"
  /\ relay' = FALSE /\ enabled' = {}
  /\ todo' = todo \ {Channel}
  /\ pc' = "burn"
  /\ UNCHANGED <<persistent, loaded, slate, environment, history>>

(* The end of burn_wire_task_dispatch: four seconds for the panels to      *)
(* swing clear, and only then is the attempt counted.                      *)
increment_burn_wire_attempts ==
  /\ pc = "burn" /\ todo = {}
  /\ BeginWrite(AttemptCounted)
  /\ pc' = "next"
  /\ UNCHANGED <<loaded, slate, outputs, todo, environment, history>>

-----------------------------------------------------------------------------
(* sched_dispatch, second half: the transition to the next state.          *)

(* get_next_state of the init, running, burn wire and burn wire reset      *)
(* states.                                                                 *)
(* (Mutant: the remove-before-flight pin is not looked at.)                *)
InitIgnoresRbf ==
  IF Flight THEN "BURN_WIRE" ELSE "RUNNING"

init_get_next_state ==
  IF rbf THEN "INIT" ELSE IF Flight THEN "BURN_WIRE" ELSE "RUNNING"

(* Mutants: one panel is taken for both; the budget is not looked at.      *)
BurnWireEitherPanel ==
  IF released # {} \/ get_burn_wire_attempts >= MaxAttempts
  THEN "RUNNING"
  ELSE "BURN_WIRE"

BurnWireNoBudget ==
  IF released = Panels THEN "RUNNING" ELSE "BURN_WIRE"

burn_wire_get_next_state ==
  IF released = Panels \/ get_burn_wire_attempts >= MaxAttempts
  THEN "RUNNING"
  ELSE "BURN_WIRE"

GetNextState ==
  CASE slate.current_state_id = "INIT" -> init_get_next_state
    [] slate.current_state_id = "BURN_WIRE" -> burn_wire_get_next_state
    [] OTHER -> "RUNNING"

(* A manual override, which is consumed, goes before get_next_state.       *)
TransitionByOverride ==
  /\ pc = "next" /\ Idle
  /\ slate.manual_override_state_id # NoState
  /\ slate' = [slate EXCEPT !.current_state_id = slate.manual_override_state_id,
                            !.manual_override_state_id = NoState]
  /\ pc' = "dispatch"
  /\ UNCHANGED <<persistent, loaded, outputs, todo, environment, history>>

(* burn_wire_get_next_state also caches the panel bits in the slate.       *)
Transition ==
  /\ pc = "next" /\ Idle
  /\ slate.manual_override_state_id = NoState
  /\ slate.current_state_id # "BURN_WIRE_RESET"
  /\ slate' = [slate EXCEPT !.current_state_id = GetNextState,
                            !.panels = IF slate.current_state_id = "BURN_WIRE"
                                       THEN released ELSE @]
  /\ pc' = "dispatch"
  /\ UNCHANGED <<persistent, loaded, outputs, todo, environment, history>>

(* burn_wire_reset_get_next_state: forget the attempts, then RUNNING.      *)
TransitionFromReset ==
  /\ pc = "next"
  /\ slate.manual_override_state_id = NoState
  /\ slate.current_state_id = "BURN_WIRE_RESET"
  /\ BeginWrite(AttemptsReset)
  /\ begun' = 0 /\ uncounted' = 0
  /\ slate' = [slate EXCEPT !.current_state_id = GetNextState]
  /\ pc' = "dispatch"
  /\ UNCHANGED <<loaded, outputs, todo, environment, closed, boots, torn>>

-----------------------------------------------------------------------------
(* flash_range_program returns.                                            *)
FinishWrite ==
  /\ EndWrite
  /\ UNCHANGED <<pc, loaded, slate, outputs, todo, environment, history>>

(* Power is lost, or a watchdog resets the processor: the RAM is gone, the *)
(* pins are inputs again, and main() starts over.  A write in progress     *)
(* leaves the sector erased.                                               *)
PowerLoss ==
  /\ losses < MaxPowerLosses
  /\ losses' = losses + 1
  /\ writing' = FALSE /\ staged' = Erased
  /\ torn' = (torn \/ ~Idle)
  /\ uncounted' = IF ~Idle THEN begun
                  ELSE IF InAttempt THEN uncounted + 1 ELSE uncounted
  /\ pc' = "boot"
  /\ loaded' = 0
  /\ slate' = ClearedSlate
  /\ relay' = FALSE /\ enabled' = {}
  /\ todo' = {}
  /\ UNCHANGED <<flash, rbf, released, begun, closed, boots>>

(* The remove-before-flight pin is pulled, once.                           *)
RemoveRbf ==
  /\ rbf
  /\ rbf' = FALSE
  /\ UNCHANGED <<persistent, pc, loaded, slate, outputs, todo, released, losses, history>>

(* A panel swings out, whether its wire was cut or let go by itself.       *)
Release(p) ==
  /\ p \notin released
  /\ released' = released \cup {p}
  /\ UNCHANGED <<persistent, pc, loaded, slate, outputs, todo, rbf, losses, history>>

Main ==
  \/ Disperse
  \/ init_persistent_data
  \/ increment_reboot_counter
  \/ init
  \/ DispatchNoTasks
  \/ DispatchRunning
  \/ burn_wire_task_dispatch
  \/ burn_wire_activate
  \/ burn_wire_deactivate
  \/ increment_burn_wire_attempts
  \/ TransitionByOverride
  \/ Transition
  \/ TransitionFromReset
  \/ FinishWrite

Next ==
  \/ Main
  \/ PowerLoss
  \/ RemoveRbf
  \/ \E p \in Panels : Release(p)

(* The processor keeps executing while it has power.                       *)
Fairness == WF_vars(Main)

Spec == Init /\ [][Next]_vars /\ Fairness

-----------------------------------------------------------------------------
(* The state has its type.                                                 *)
TypeOK ==
  /\ PersistentDataTypeOK
  /\ pc \in Points
  /\ loaded \in Nat
  /\ slate \in [current_state_id : States, manual_override_state_id : States \cup {NoState},
                reboot_counter : Nat, panels : SUBSET Panels]
  /\ relay \in BOOLEAN /\ enabled \in SUBSET Panels
  /\ todo \in SUBSET Panels
  /\ rbf \in BOOLEAN /\ released \in SUBSET Panels /\ losses \in 0..MaxPowerLosses
  /\ begun \in Nat /\ uncounted \in Nat /\ closed \in SUBSET Panels
  /\ boots \in SUBSET Nat
  /\ torn \in BOOLEAN

(* The counters are read only from a sector that carries the marker: no    *)
(* path from a reset, through an interrupted write of any of the four      *)
(* writers, to a get_burn_wire_attempts or an increment skips the          *)
(* initialisation in init_persistent_data.                                 *)
ReadsAreMarked ==
  pc \notin {"boot", "load"} /\ Idle => flash.marker

(* Whenever an output of the burn circuit is on, the satellite is in the   *)
(* burn wire state with the remove-before-flight pin out, the attempt      *)
(* budget is not spent, and the relay feeds exactly one channel, that of a *)
(* panel found closed when the attempt began.                              *)
BurnInterlock ==
  relay \/ enabled # {} =>
    /\ slate.current_state_id = "BURN_WIRE"
    /\ ~rbf
    /\ get_burn_wire_attempts < MaxAttempts
    /\ relay /\ \E p \in closed : enabled = {p}

(* Since the counter was last reset on request, burn_wire_task has begun   *)
(* at most MAX_BURN_WIRE_ATTEMPTS attempts, plus one for every power loss, *)
(* as long as no power loss has hit a flash write.                         *)
BurnBudget ==
  torn \/ begun <= MaxAttempts + losses

(* The number under which a boot runs, the one that beacons announce and   *)
(* that packets are checked against, was not the number of an earlier      *)
(* boot, as long as no power loss has hit a flash write.                   *)
BootNumbersFresh ==
  [][pc = "init" /\ pc' = "dispatch" => torn \/ slate'.reboot_counter \notin boots]_vars

(* The slate never claims a panel that is not deployed: what the beacon    *)
(* reports may lag, but only towards "closed".                             *)
PanelBitsSound ==
  slate.panels \subseteq released

(* The satellite leaves the burn wire state only for the running state,    *)
(* and only with both panels out or with no attempt left; and it then      *)
(* carries the pins' readings to the beacon.                               *)
BurnWireLeftForCause ==
  [][slate.current_state_id = "BURN_WIRE" /\ slate'.current_state_id # "BURN_WIRE"
       /\ pc' # "boot" =>
     /\ slate'.current_state_id = "RUNNING"
     /\ slate'.panels = released
     /\ released = Panels \/ get_burn_wire_attempts >= MaxAttempts]_vars

(* Once the remove-before-flight pin is out, the satellite gets to the     *)
(* running state, where the radio works, whatever the panels do, after     *)
(* each of the (finitely many) power losses.                               *)
ReachesRunning ==
  ~rbf ~> slate.current_state_id = "RUNNING"
=============================================================================
