------------------------------ MODULE MCMalloc ------------------------------
(***************************************************************************)
(* Requests around what is told apart: nothing at all, one that leaves a   *)
(* block at an address whose low byte is 127 or 128, half of the memory,   *)
(* all of it, and one byte too many.                                       *)
(***************************************************************************)
EXTENDS NMalloc

MCSizes == {0, 4, 125, 126, 16126, WHOLE, WHOLE + 1}
=============================================================================
