------------------------------ MODULE NandyTty ------------------------------
(***************************************************************************)
(* The serial console of the emulator, io_step_tty (ios_tty.c), and the    *)
(* standard input and output it is wired to.                               *)
(*                                                                         *)
(* stdin is unbuffered (nandy-emu.c:213), so what poll reports is what     *)
(* getc returns: typed holds every byte the user has typed, nread how many *)
(* of them getc has taken.  At the end of a file poll keeps reporting the  *)
(* input readable and getc returns EOF, the byte 255.                      *)
(***************************************************************************)
EXTENDS NandyWord, Sequences

CONSTANT SERIAL_COOLDOWN    \* steps between two bytes from stdin; 10 in the code

ASSUME CooldownAssumption == SERIAL_COOLDOWN \in Nat

VARIABLES tty,     \* the static variables of io_step_tty
          typed, nread, eof,
          out      \* bytes written to stdout

TTY_BASE == 0
DEVICE_BOUND == 8
EOF_BYTE == 255

TtyState == [input_available : BOOLEAN, incoming_input : Byte,
             cooldown : 0..SERIAL_COOLDOWN]

TtyInit == /\ tty = [input_available |-> FALSE, incoming_input |-> 0,
                     cooldown |-> 0]
           /\ typed = <<>> /\ nread = 0 /\ eof = FALSE
           /\ out = <<>>

stdinAvail == nread < Len(typed) \/ eof

\* Mutant: an end of file that reads as zero.
getcZero == IF nread < Len(typed) THEN typed[nread + 1] ELSE 0

getc == IF nread < Len(typed) THEN typed[nread + 1] ELSE EOF_BYTE

\* Whether a device at `base` is the one y selects; y is compared signed.
inbounds(base, y) == base <= Signed(y) /\ Signed(y) < base + DEVICE_BOUND

(***************************************************************************)
(* One call.  The cooldown runs down first, then a byte is taken from      *)
(* stdin if the last one has been read, then the strobes are served.       *)
(***************************************************************************)
\* Mutant: the cooldown runs below zero.
CooledPast == tty.cooldown - 1

Cooled == IF tty.cooldown > 0 THEN tty.cooldown - 1 ELSE 0

\* Mutant: a byte is taken although the last one has not been read.
ReceivesOver == Cooled = 0 /\ stdinAvail

Receives == ~tty.input_available /\ Cooled = 0 /\ stdinAvail

\* Mutant: no cooldown after a byte.
ReceivedAtOnce == IF Receives
                  THEN [input_available |-> TRUE, incoming_input |-> getc,
                        cooldown |-> 0]
                  ELSE [tty EXCEPT !.cooldown = Cooled]

Received == IF Receives
            THEN [input_available |-> TRUE, incoming_input |-> getc,
                  cooldown |-> SERIAL_COOLDOWN]
            ELSE [tty EXCEPT !.cooldown = Cooled]

\* Afterwards, when the instruction left the registers c: the device, the
\* registers, and the level of its interrupt line.
TtyReads(c)  == inbounds(TTY_BASE, c.y) /\ c.io_rd
TtyWrites(c) == inbounds(TTY_BASE, c.y) /\ c.io_wr

\* Mutant: reading leaves the byte on offer.
TtyAfterUnread(c) == Received

TtyAfter(c) == IF TtyReads(c) THEN [Received EXCEPT !.input_available = FALSE]
                              ELSE Received
TtyCpu(c) == IF TtyReads(c) THEN [c EXCEPT !.acc = Received.incoming_input]
                            ELSE c

\* Mutant: the line shows the state before the read.
TtyLineBefore(c) == Received.input_available

TtyLine(c) == TtyAfter(c).input_available

TtyStep(c) ==
  /\ tty' = TtyAfter(c)
  /\ nread' = IF Receives /\ nread < Len(typed) THEN nread + 1 ELSE nread
  /\ out' = IF TtyWrites(c) THEN Append(out, TtyCpu(c).acc) ELSE out
  /\ UNCHANGED <<typed, eof>>

\* The user's side of the line.
Type(b) == /\ ~eof
           /\ typed' = Append(typed, b)
           /\ UNCHANGED <<tty, nread, eof, out>>
CloseInput == /\ ~eof
              /\ eof' = TRUE
              /\ UNCHANGED <<tty, typed, nread, out>>
=============================================================================
