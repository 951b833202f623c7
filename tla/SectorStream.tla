---------------------------- MODULE SectorStream ----------------------------
(***************************************************************************)
(* What a card promises the program that reads it: a command makes a run   *)
(* of bytes available, and every read of the data register hands over the  *)
(* next of them, once, until none is left.                                 *)
(***************************************************************************)
EXTENDS Sequences

CONSTANT Requests        \* the runs of bytes a command can ask for

VARIABLES pending,       \* bytes still to be handed over
          data           \* bytes handed over since the last command

Init == pending = <<>> /\ data = <<>>

Command == /\ pending' \in Requests
           /\ data' = <<>>

Take == /\ pending # <<>>
        /\ data' = Append(data, Head(pending))
        /\ pending' = Tail(pending)

Next == Command \/ Take

Spec == Init /\ [][Next]_<<pending, data>>
=============================================================================
