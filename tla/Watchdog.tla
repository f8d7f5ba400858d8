------------------------------ MODULE Watchdog ------------------------------
(***************************************************************************)
(* Elapsed time: the waits of the flight software, the feeding of the      *)
(* watchdogs between them, and the dispatch periods of the scheduler.      *)
(*                                                                         *)
(* watchdog_feed (watchdog.c) is a clockwork: the pin of the hardware      *)
(* watchdog is low for more than us_low, then high for more than us_high,  *)
(* and changes only when somebody calls.  With each rising edge the        *)
(* software watchdog of the chip is updated.  Callers are the watchdog     *)
(* task and the loop of safe_sleep_ms; other waits do not feed.            *)
(*                                                                         *)
(* A step lets time pass, in units of 200 ms.  A unit hides the            *)
(* microseconds, so that a comparison goes either way at equality.  Code   *)
(* that waits for nobody takes at most one unit per pass, accounted for at *)
(* its end.  The tasks without a wait (print, beacon, radio) are left out, *)
(* and so is the time with the remove-before-flight pin in, during which   *)
(* nothing feeds: init_state has no tasks.                                 *)
(*                                                                         *)
(* The pin is taken to be wd->set.  init() runs gpio_init on it again      *)
(* (init.c:109), which puts it low when wd->set may still say high: that   *)
(* once, the low phase of the pin begins before the one of wd->set, by     *)
(* what was left of the high phase, one unit at most.                      *)
(***************************************************************************)
EXTENDS Integers, FiniteSetsExt

CONSTANTS
  Low, High,       \* us_low, us_high
  Interval,        \* MIN_WATCHDOG_INTERVAL_MS
  SoftTimeout,     \* of the software watchdog
  UsbWait,         \* main's sleep before watchdog_init
  Dispersal,       \* main's safe_sleep_ms, 15 minutes in flight
  Calibration,     \* rfm9x_init's
  ScanTimes,       \* what telemetry_task_init's scan of the bus may take
  BurnWait, BurnTime, Swing,   \* the burn wire task's three
  TelemetryTimes,  \* what the power monitor's transfers may take
  AdcsWait,        \* the ADCS task's sleeps
  AckTimes,        \* what receive_ack may take, its timeout the greatest
  SynPause,        \* after a SYN that is not acknowledged
  SynRetries,      \* SYN_RETRIES
  ShortPeriod,     \* dispatch_period_ms of the watchdog and the command task
  LongPeriod,      \* and of telemetry and ADCS
  PassTime         \* the code's own time, per pass

VARIABLES
  set, since,      \* watchdog: the pin, and the time since last_transition
  due,             \* each task: the time until next_dispatch, -1 once it is over
  at,              \* where the code waits or is about to
  left,            \* safe_sleep_ms: remaining_time
  tries,           \* payload_uart_write_packet: SYNs not acknowledged
  next,            \* where the next pass begins
  is_payload_on,
  \* History:
  fed,             \* whether the watchdog was fed since the scan of the bus
  slow,            \* shutdowns written since watchdog_update; a scan counts for two
  soft             \* time since watchdog_update, 0 if slow is 2

clocks == <<set, since, soft, fed, slow>>
watchdogVars == <<clocks, due, at, left, tries, next, is_payload_on>>

Tasks == {"watchdog", "telemetry", "adcs", "command"}
Period == [t \in Tasks |-> IF t \in {"watchdog", "command"} THEN ShortPeriod ELSE LongPeriod]

Sleeping == {"dispersal", "calibration", "wait", "burn_A", "burn_B", "swing"}
Answering == {"sync", "header", "final"}
Place == Sleeping \cup Tasks \cup Answering \cup {"scan", "init", "burn", "reset", "idle"}

AckWait == Max(AckTimes)

(* The longest write of the shutdown packet: SYN_RETRIES waits for an ACK, *)
(* the last of which succeeds, and two more.                               *)
Shutdown == SynRetries * (AckWait + SynPause) + 2 * AckWait

(* The longest time between two feeds once the satellite is running: the   *)
(* watchdog task is not quite due in one pass, every wait of that pass is  *)
(* as long as can be, and two passes without tasks follow.                 *)
LoopGap == Period["watchdog"] + Max(TelemetryTimes) + AdcsWait + Shutdown + 3 * PassTime
BootGap == 2 * Interval + Max(ScanTimes)

(* The same, when no shutdown of the payload is written.                   *)
QuietGap == LoopGap - Shutdown

ASSUME TimingAssumption ==
  /\ {Low, High, Interval, PassTime, SynRetries, ShortPeriod, LongPeriod} \subseteq Nat \ {0}
  /\ {SoftTimeout, UsbWait, AdcsWait, SynPause} \subseteq Nat
  /\ {Dispersal, Calibration, BurnWait, BurnTime, Swing} \subseteq {n \in Nat : n > Interval}
  /\ \A T \in {ScanTimes, TelemetryTimes, AckTimes} :
       T \subseteq Nat /\ Max(T) \in T /\ \A d \in T : d <= Max(T)
  /\ 2 * Interval <= LoopGap - 3 * PassTime

(* The software watchdog's time covers both phases of the pin, a gap in    *)
(* each, one shutdown and the last steps of the sleeps before the first    *)
(* pass; and main's first sleep is no longer than a high phase.            *)
ASSUME SoftwareAssumption ==
  /\ Low + High + 2 * QuietGap + Shutdown + 4 * Interval <= SoftTimeout
  /\ UsbWait <= High + QuietGap
  /\ 2 * Interval <= QuietGap - 3 * PassTime

-----------------------------------------------------------------------------
(* Time.                                                                   *)

Later(ds, d) == [t \in Tasks |-> IF ds[t] < d THEN -1 ELSE ds[t] - d]

(* How long the pin stays as it is.                                        *)
Phase == IF set THEN High ELSE Low

(* Time passes, and nobody feeds.                                          *)
Wait(d) ==
  /\ since' = since + d
  /\ soft' = IF slow = 2 THEN 0 ELSE soft + d
  /\ UNCHANGED <<set, fed, slow>>

(* watchdog_feed, and then time passes.                                    *)
watchdog_feed(d) ==
  /\ fed' = TRUE
  /\ \/ /\ since <= Phase /\ since' = since + d
        /\ UNCHANGED <<set, slow>>
        /\ soft' = IF slow = 2 THEN 0 ELSE soft + d
     \/ /\ since >= Phase /\ since' = d
        /\ set' = ~set
        /\ IF ~set THEN slow' = 0 /\ soft' = d
           ELSE UNCHANGED slow /\ soft' = IF slow = 2 THEN 0 ELSE soft + d

(* Mutant: a feed before the loop instead of in it.                        *)
safe_sleep_fed_once ==
  /\ at \in Sleeping /\ left > Interval
  /\ IF left \in {Dispersal, Calibration, BurnWait, BurnTime, Swing}
       THEN watchdog_feed(Interval) ELSE Wait(Interval)
  /\ due' = Later(due, Interval)
  /\ left' = left - Interval
  /\ UNCHANGED <<at, tries, next, is_payload_on>>

(* The loop of safe_sleep_ms.                                              *)
safe_sleep_ms ==
  /\ at \in Sleeping /\ left > Interval
  /\ watchdog_feed(Interval)
  /\ due' = Later(due, Interval)
  /\ left' = left - Interval
  /\ UNCHANGED <<at, tries, next, is_payload_on>>

GoTo(place) ==
  /\ at' = place
  /\ left' = CASE place = "dispersal" -> Dispersal [] place = "calibration" -> Calibration
               [] place = "wait" -> BurnWait [] place = "swing" -> Swing
               [] place \in {"burn_A", "burn_B"} -> BurnTime [] OTHER -> 0

(* Where the code goes from the end of each sleep: main and init, and the  *)
(* burn wire task, which burns what it has found closed.                   *)
Following ==
  CASE at = "dispersal" -> {"calibration"} [] at = "calibration" -> {"scan"}
    [] at = "wait" -> {"burn_A", "burn_B"} [] at = "burn_A" -> {"burn_B", "swing"}
    [] at = "burn_B" -> {"swing"} [] at = "swing" -> {"idle"}

(* The rest of safe_sleep_ms, which does not feed.                         *)
WakeUp ==
  /\ at \in Sleeping /\ left <= Interval
  /\ Wait(left)
  /\ due' = Later(due, left)
  /\ \E place \in Following : GoTo(place)
  /\ next' \in IF at = "swing" THEN {"burn", "watchdog"} ELSE {next}
  /\ UNCHANGED <<tries, is_payload_on>>

(* telemetry_task_init asks every address of the bus, each until it        *)
(* answers or the time is out; then sched_init sets the deadlines.         *)
telemetry_task_init ==
  /\ at = "scan"
  /\ \E d \in ScanTimes :
       /\ since' = since + d
       /\ slow' = IF d = 0 THEN slow ELSE 2
       /\ soft' = IF slow' = 2 THEN 0 ELSE soft
  /\ fed' = FALSE
  /\ UNCHANGED set
  /\ due' = Period
  /\ GoTo("init")
  /\ UNCHANGED <<tries, next, is_payload_on>>

-----------------------------------------------------------------------------
(* sched_dispatch.                                                         *)

EndPass(place) == GoTo("idle") /\ next' = place

(* The end of a pass: the code's own time, and the transition.             *)
NextPass ==
  /\ at = "idle"
  /\ Wait(PassTime)
  /\ due' = Later(due, PassTime)
  /\ GoTo(next)
  /\ UNCHANGED <<tries, next, is_payload_on>>

(* The states without tasks, and the burn wire state with nothing to burn. *)
PassWithoutTask ==
  /\ at \in {"init", "reset", "burn"}
  /\ EndPass(IF at = "init" THEN "burn" ELSE "watchdog")
  /\ UNCHANGED <<clocks, due, tries, is_payload_on>>

BurnWireTask ==
  /\ at = "burn"
  /\ GoTo("wait")
  /\ UNCHANGED <<clocks, due, tries, next, is_payload_on>>

(* The order of running_state's task_list.                                 *)
Successor == [watchdog |-> "telemetry", telemetry |-> "adcs", adcs |-> "command",
              command |-> "idle"]

(* A task is due: its next deadline counts from now.                       *)
Dispatch(t, d) ==
  /\ at = t /\ due[t] <= 0
  /\ due' = Later([due EXCEPT ![t] = Period[t]], d)

NotDue ==
  /\ at \in Tasks /\ due[at] >= 0
  /\ GoTo(Successor[at])
  /\ next' = IF at = "command" THEN "watchdog" ELSE next
  /\ UNCHANGED <<clocks, due, tries, is_payload_on>>

watchdog_task_dispatch ==
  /\ Dispatch("watchdog", 0)
  /\ watchdog_feed(0)
  /\ GoTo("telemetry")
  /\ UNCHANGED <<tries, next, is_payload_on>>

telemetry_task_dispatch ==
  /\ \E d \in TelemetryTimes : Dispatch("telemetry", d) /\ Wait(d)
  /\ GoTo("adcs")
  /\ UNCHANGED <<tries, next, is_payload_on>>

adcs_task_dispatch ==
  /\ Dispatch("adcs", AdcsWait)
  /\ Wait(AdcsWait)
  /\ GoTo("command")
  /\ UNCHANGED <<tries, next, is_payload_on>>

(* A command that waits for nobody: none, one that is not about time,      *)
(* PAYLOAD_TURN_ON, PAYLOAD_TURN_OFF with the payload off, or an override  *)
(* of the state.                                                           *)
command_task_dispatch ==
  /\ Dispatch("command", 0)
  /\ \/ EndPass("watchdog") /\ UNCHANGED is_payload_on
     \/ EndPass("watchdog") /\ is_payload_on' = TRUE
     \/ /\ \E place \in {"init", "burn", "reset"} : EndPass(place)
        /\ UNCHANGED is_payload_on
  /\ UNCHANGED <<clocks, tries>>

(* PAYLOAD_TURN_OFF: the shutdown packet is written.  For this and the     *)
(* steps of the write, rpi_uart_queue is taken to be initialised.  That is *)
(* done by payload_task_init, and no state lists payload_task today; an    *)
(* ACK can be waited for only in a build that does.                        *)
payload_turn_off ==
  /\ Dispatch("command", 0)
  /\ is_payload_on
  /\ GoTo("sync") /\ tries' = 0
  /\ slow' = IF slow = 0 THEN 1 ELSE 2
  /\ soft' = IF slow' = 2 THEN 0 ELSE soft
  /\ UNCHANGED <<set, since, fed, next, is_payload_on>>

Off == EndPass("watchdog") /\ is_payload_on' = FALSE /\ tries' = 0

(* Mutant: one SYN too many.                                               *)
Synchronise_more ==
  /\ at = "sync"
  /\ \E d \in AckTimes :
       \/ /\ Wait(d) /\ due' = Later(due, d)
          /\ GoTo("header") /\ UNCHANGED <<tries, next, is_payload_on>>
       \/ /\ Wait(d + SynPause) /\ due' = Later(due, d + SynPause)
          /\ IF tries < SynRetries
             THEN tries' = tries + 1 /\ UNCHANGED <<at, left, next, is_payload_on>>
             ELSE Off

(* payload_uart_write_packet: SYNs until one is acknowledged.              *)
Synchronise ==
  /\ at = "sync"
  /\ \E d \in AckTimes :
       \/ /\ Wait(d) /\ due' = Later(due, d)
          /\ GoTo("header") /\ UNCHANGED <<tries, next, is_payload_on>>
       \/ /\ Wait(d + SynPause) /\ due' = Later(due, d + SynPause)
          /\ IF tries + 1 < SynRetries
             THEN tries' = tries + 1 /\ UNCHANGED <<at, left, next, is_payload_on>>
             ELSE Off

(* Its header and its body.                                                *)
WriteAcknowledged ==
  /\ at \in {"header", "final"}
  /\ \E d \in AckTimes :
       /\ Wait(d) /\ due' = Later(due, d)
       /\ \/ at = "header" /\ GoTo("final") /\ UNCHANGED <<tries, next, is_payload_on>>
          \/ Off

-----------------------------------------------------------------------------
WatchdogInit ==
  /\ set = FALSE /\ since = 0 /\ soft = UsbWait
  /\ due = Period
  /\ at = "dispersal" /\ left = Dispersal
  /\ tries = 0
  /\ next = "burn"
  /\ is_payload_on = FALSE
  /\ fed = TRUE /\ slow = 0

WatchdogNext ==
  \/ safe_sleep_ms \/ WakeUp \/ telemetry_task_init
  \/ NextPass \/ PassWithoutTask \/ BurnWireTask \/ NotDue
  \/ watchdog_task_dispatch \/ telemetry_task_dispatch \/ adcs_task_dispatch
  \/ command_task_dispatch \/ payload_turn_off \/ Synchronise \/ WriteAcknowledged

WatchdogSpec == WatchdogInit /\ [][WatchdogNext]_watchdogVars

-----------------------------------------------------------------------------
(* Clocks, places and counters have their types.                           *)
WatchdogTypeOK ==
  /\ set \in BOOLEAN /\ since \in Nat /\ soft \in Nat
  /\ due \in [Tasks -> Int]
  /\ \A t \in Tasks : due[t] >= -1 /\ due[t] <= Period[t]
  /\ at \in Place
  /\ left \in Nat
  /\ tries \in 0..(SynRetries - 1)
  /\ next \in {"init", "burn", "reset", "watchdog"}
  /\ is_payload_on \in BOOLEAN /\ fed \in BOOLEAN
  /\ slow \in 0..2

(* The pulses of the feeding pin: however the waits of telemetry, ADCS,    *)
(* burn wire and the payload's handshake fall, the pin is never low longer *)
(* than us_low and one gap, nor high longer than us_high and one gap.      *)
PulsesInTime == since <= Phase + LoopGap + (IF fed THEN 0 ELSE BootGap)

(* The software watchdog of a trial image (watchdog.c:45) does not expire  *)
(* in a cycle in which the bus was not scanned and no two shutdowns of the *)
(* payload were written.                                                   *)
SoftwareWatchdogHolds == slow < 2 => soft <= SoftTimeout
=============================================================================
