------------------------------- MODULE Outbox -------------------------------
(***************************************************************************)
(* What the ground may expect of the commands it has for the payload: they *)
(* are numbered as they come; one that finds Capacity others waiting is    *)
(* refused, and every other one is written in its turn, or given up when   *)
(* it has been tried Tries times in vain.                                  *)
(***************************************************************************)
EXTENDS Naturals, Sequences

CONSTANTS Capacity, Tries

VARIABLES
  numbered,   \* commands that came
  waiting,    \* the numbers of those not yet written or given up
  written,    \* the numbers of those that were written, in that order
  tried       \* how often the first one that waits was tried

vars == <<numbered, waiting, written, tried>>

Init == numbered = 0 /\ waiting = <<>> /\ written = <<>> /\ tried = 0

Come ==
  /\ numbered' = numbered + 1
  /\ waiting' = IF Len(waiting) < Capacity THEN Append(waiting, numbered) ELSE waiting
  /\ UNCHANGED <<written, tried>>

Write ==
  /\ waiting # <<>>
  /\ written' = Append(written, Head(waiting))
  /\ waiting' = Tail(waiting)
  /\ tried' = 0
  /\ UNCHANGED numbered

TryInVain ==
  /\ waiting # <<>>
  /\ IF tried + 1 = Tries THEN waiting' = Tail(waiting) /\ tried' = 0
                          ELSE tried' = tried + 1 /\ UNCHANGED waiting
  /\ UNCHANGED <<numbered, written>>

Next == Come \/ Write \/ TryInVain

Spec == Init /\ [][Next]_vars
=============================================================================
