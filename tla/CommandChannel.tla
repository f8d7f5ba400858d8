--------------------------- MODULE CommandChannel ---------------------------
(***************************************************************************)
(* What the ground expects of the uplink: a command that was sent may be   *)
(* lost, but it is never executed without having been sent, and never      *)
(* executed twice.  Commands are whatever identifies a sending.            *)
(***************************************************************************)
EXTENDS Naturals, Sequences

CONSTANT Command

VARIABLES
  issued,     \* commands the ground has sent
  executed    \* commands the satellite has carried out, in that order

Init ==
  /\ issued = {}
  /\ executed = <<>>

Issue ==
  /\ \E c \in issued' \ issued : c \in Command /\ issued' = issued \cup {c}
  /\ UNCHANGED executed

Execute ==
  /\ \E c \in issued :
       /\ \A i \in 1..Len(executed) : executed[i] # c
       /\ executed' = Append(executed, c)
  /\ UNCHANGED issued

Next == Issue \/ Execute

Spec == Init /\ [][Next]_<<issued, executed>>
=============================================================================
