------------------------------ MODULE CardPort ------------------------------
(***************************************************************************)
(* What a program expects of the card's registers, wherever the card is:   *)
(* accesses happen one at a time, in the order it makes them, once each,   *)
(* and a read gives what the register asked for holds.  While it waits for *)
(* a read the program does nothing else, and what it goes on with is what  *)
(* the card has given it.  Reading the data register moves the card on to  *)
(* its next byte.                                                          *)
(***************************************************************************)
EXTENDS Naturals

CONSTANTS Register, Byte, DATA

VARIABLES card, acc,
          place,     \* "free" to compute or access, or in a read: "asked", "answered"
          reg_sel    \* the register of the last access

\* A card is its registers and the number of data bytes handed over.
Cards == [regs : [Register -> Byte], taken : Nat]

Value(c, r)        == IF r = DATA THEN (c.regs[r] + c.taken) % 256 ELSE c.regs[r]
AfterRead(c, r)    == IF r = DATA THEN [c EXCEPT !.taken = @ + 1] ELSE c
AfterWrite(c, r, v) == [c EXCEPT !.regs[r] = v]

Compute == /\ place = "free"
           /\ acc' \in Byte
           /\ UNCHANGED <<card, place, reg_sel>>

Write(r) == /\ place = "free"
            /\ reg_sel' = r
            /\ card' = AfterWrite(card, r, acc)
            /\ UNCHANGED <<acc, place>>

Ask(r) == /\ place = "free" /\ place' = "asked"
          /\ reg_sel' = r
          /\ UNCHANGED <<card, acc>>

Read == /\ place = "asked" /\ place' = "answered"
        /\ acc' = Value(card, reg_sel)
        /\ card' = AfterRead(card, reg_sel)
        /\ UNCHANGED reg_sel

Return == /\ place = "answered" /\ place' = "free"
          /\ UNCHANGED <<card, acc, reg_sel>>

Next == Compute \/ (\E r \in Register : Write(r) \/ Ask(r)) \/ Read \/ Return
=============================================================================
