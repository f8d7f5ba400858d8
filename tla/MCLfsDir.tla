----------------------------- MODULE MCLfsDir -----------------------------
(* The blocks other than the first two are interchangeable.                *)
EXTENDS LfsDir, TLC

SpareSymmetry == Permutations(Spare)
=============================================================================
