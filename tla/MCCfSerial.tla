----------------------------- MODULE MCCfSerial -----------------------------
(***************************************************************************)
(* The data, a plain and the status register; bytes that look like         *)
(* commands; a line that is quiet, or has an answer or an acknowledgement  *)
(* of an earlier session in it.                                            *)
(***************************************************************************)
EXTENDS CfSerial

MCStale == {<<>>, <<64>>, <<240>>}
=============================================================================
