------------------------------ MODULE MCCfHost ------------------------------
(***************************************************************************)
(* A disk of three sectors of two bytes, all bytes different.              *)
(***************************************************************************)
EXTENDS CfHost

MCDisks == {NoDisk, <<11, 12, 21, 22, 31, 32>>}
=============================================================================
