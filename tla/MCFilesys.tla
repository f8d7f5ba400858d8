------------------------------ MODULE MCFilesys ------------------------------
(* Instances of Filesys for TLC: a file shorter than the buffer, and one   *)
(* that takes two buffers, whose second part the buffer fills only partly. *)
EXTENDS Filesys

MCContents == {<<1>>, <<1, 0, 1>>}
=============================================================================
