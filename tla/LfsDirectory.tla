--------------------------- MODULE LfsDirectory ---------------------------
(***************************************************************************)
(* What littlefs promises of a directory: an operation on an entry takes   *)
(* effect at once and as a whole; when it has returned without an error it *)
(* has taken effect and stays; a loss of power leaves the state before it  *)
(* or the state after it.                                                  *)
(***************************************************************************)
CONSTANTS Files, Values, Gone

VARIABLES
  entries,   \* the value of each file's entry, or Gone
  op,        \* the operation in progress: <<file, value>>, or <<>>
  error      \* whether the last operation to return reported an error

vars == <<entries, op, error>>

Init == entries = [f \in Files |-> Gone] /\ op = <<>> /\ error = FALSE

Begin ==
  /\ op = <<>>
  /\ op' \in Files \X (Values \cup {Gone})
  /\ UNCHANGED <<entries, error>>

TakeEffect ==
  /\ op # <<>>
  /\ entries' = [entries EXCEPT ![op[1]] = op[2]]
  /\ UNCHANGED <<op, error>>

Return ==
  /\ op # <<>>
  /\ op' = <<>>
  /\ error' = FALSE
  /\ entries' = [entries EXCEPT ![op[1]] = op[2]]

Fail ==
  /\ op # <<>>
  /\ op' = <<>>
  /\ error' = TRUE
  /\ UNCHANGED entries

PowerLoss ==
  /\ op' = <<>>
  /\ error' = TRUE
  /\ UNCHANGED entries

Next == Begin \/ TakeEffect \/ Return \/ Fail \/ PowerLoss

Spec == Init /\ [][Next]_vars
=============================================================================
