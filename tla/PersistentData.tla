--------------------------- MODULE PersistentData ---------------------------
(***************************************************************************)
(* The persistent record of src/drivers/flash/flash.c: one flash sector    *)
(* that holds an initialisation marker, the reboot counter and the number  *)
(* of burn wire attempts.                                                  *)
(*                                                                         *)
(* write_persistent_data erases the whole sector and then programs one     *)
(* page.  Interrupts are off in between, so no other code of the firmware  *)
(* sees the erased sector, but a loss of power or a watchdog reset does    *)
(* not wait: what it leaves behind is a sector without the marker.  A      *)
(* write is therefore two steps, BeginWrite and EndWrite.                  *)
(***************************************************************************)
EXTENDS Naturals

VARIABLES
  flash,    \* what the sector holds
  writing,  \* is write_persistent_data between its erase and its program?
  staged    \* the record it is programming; Erased when it is not

(* persistent_data_t.  marker says whether the first word is INIT_MARKER.  *)
Record == [marker : BOOLEAN, reboot_counter : Nat, burn_wire_attempts : Nat]

(* An erased sector.  Its counter words read 0xFFFFFFFF; no code reads     *)
(* them without the marker (property ReadsAreMarked of Deployment), so 0   *)
(* stands for them.                                                        *)
Erased == [marker |-> FALSE, reboot_counter |-> 0, burn_wire_attempts |-> 0]

(* Mutant: the fresh record is built without its marker.                   *)
LoadedRecordUnmarked ==
  IF flash.marker
  THEN flash
  ELSE [marker |-> FALSE, reboot_counter |-> 0, burn_wire_attempts |-> 0]

(* init_persistent_data: keep a marked record, else start all over.        *)
LoadedRecord ==
  IF flash.marker
  THEN flash
  ELSE [marker |-> TRUE, reboot_counter |-> 0, burn_wire_attempts |-> 0]

(* Mutant: the increment is lost, the record is written back unchanged.    *)
NotCounted == flash

(* increment_reboot_counter, increment_ and reset_burn_wire_attempts: the  *)
(* record each of them reads from flash, changes and writes back.          *)
RebootCounted == [flash EXCEPT !.reboot_counter = @ + 1]
AttemptCounted == [flash EXCEPT !.burn_wire_attempts = @ + 1]
AttemptsReset == [flash EXCEPT !.burn_wire_attempts = 0]

get_burn_wire_attempts == flash.burn_wire_attempts

(* write_persistent_data: flash_range_erase, then flash_range_program.     *)
Idle == ~writing

BeginWrite(rec) ==
  /\ Idle
  /\ writing' = TRUE
  /\ flash' = Erased
  /\ staged' = rec

EndWrite ==
  /\ ~Idle
  /\ writing' = FALSE
  /\ flash' = staged
  /\ staged' = Erased

(* The record the firmware means the sector to hold: the one being         *)
(* written, if there is one.                                               *)
Intended == IF Idle THEN flash ELSE staged

PersistentDataInit ==
  /\ flash = Erased
  /\ writing = FALSE
  /\ staged = Erased

PersistentDataTypeOK ==
  /\ flash \in Record
  /\ writing \in BOOLEAN
  /\ staged \in Record
=============================================================================
