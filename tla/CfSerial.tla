------------------------------ MODULE CfSerial ------------------------------
(***************************************************************************)
(* The CompactFlash card behind a serial line (-S): the emulator's side is *)
(* the serial branches of io_step_compactflash, the other end the Arduino  *)
(* sketch arduino-serial-cf.ino, which works the pins of a real card.      *)
(*                                                                         *)
(* down and up are the bytes on their way to the Arduino and back, kernel  *)
(* and adapter buffers included.  Opening the line resets the Arduino; its *)
(* boot loader swallows what arrives until setup has run.                  *)
(***************************************************************************)
EXTENDS NandyWord, Sequences, SequencesExt

CONSTANTS Used,          \* the registers the program accesses
          Values,        \* the bytes it writes
          Stale,         \* what the line may hold before it is opened
          AckGarbage,    \* what an `ack` that was never read may hold
          MaxAccesses,
          MayFail,       \* whether open may fail
          MayInterrupt   \* whether the user may press Ctrl-C

Register == 0..7
CF_DATA == 0
ACK == 240

ASSUME UsedAssumption == Used \subseteq Register
ASSUME ValuesAssumption == Values \subseteq Byte /\ AckGarbage \subseteq Byte
ASSUME AccessesAssumption == MaxAccesses \in Nat
ASSUME StaleAssumption == Stale \subseteq Seq(Byte)
ASSUME SwitchAssumption ==
  MayFail \in BOOLEAN /\ MayInterrupt \in BOOLEAN

VARIABLES host,      \* where io_step_compactflash is
          fd,        \* whether serial_fd is an open line
          acc,
          reg_sel,   \* the register of the last access
          ack,       \* history: how it got past the acknowledgement
          down, up,
          sketch,    \* where the Arduino is
          command,   \* the byte its loop has read
          card,
          made       \* accesses made so far

hostVars == <<host, fd, acc, reg_sel, ack, made>>
sketchVars == <<sketch, command, card>>
vars == <<hostVars, down, up, sketchVars>>

\* Where the program is with its accesses: in a read until its answer, which is
\* on its way, has been taken.
Place == CASE host # "reading"              -> "free"
           [] host = "reading" /\ up = <<>> -> "asked"
           [] host = "reading" /\ up # <<>> -> "answered"

Port == INSTANCE CardPort WITH DATA <- CF_DATA, place <- Place

Init == /\ host = "first_access" /\ fd = FALSE
        /\ acc = 0 /\ reg_sel = 0 /\ ack = "none" /\ made = 0
        /\ down = <<>> /\ up \in Stale
        /\ sketch = "loop" /\ command = 0
        /\ card = [regs |-> [r \in Register |-> 0], taken |-> 0]
-----------------------------------------------------------------------------
(* The first access: open, tcflush, and the wait for the acknowledgement.  *)

Open == /\ host = "first_access"
        /\ host' = "opened" /\ fd' = TRUE
        /\ sketch' = "reset"
        /\ UNCHANGED <<acc, reg_sel, ack, made, down, up, command, card>>

\* The result of open is not looked at.
OpenFails == /\ MayFail
             /\ host = "first_access"
             /\ host' = "opened" /\ fd' = FALSE
             /\ UNCHANGED <<acc, reg_sel, ack, made, down, up, sketchVars>>

\* Mutant: what has arrived is kept.
tcflushNone == /\ host = "opened"
               /\ host' = "waiting"
               /\ UNCHANGED <<fd, acc, reg_sel, ack, made, down, up, sketchVars>>

tcflush == /\ host = "opened"
           /\ host' = "waiting"
           /\ up' = IF fd THEN <<>> ELSE up
           /\ UNCHANGED <<fd, acc, reg_sel, ack, made, down, sketchVars>>

Acknowledge(b, how) == /\ host' = IF b = ACK THEN "ready" ELSE "exited"
                       /\ ack' = how
                       /\ UNCHANGED <<fd, acc, reg_sel, made, down, sketchVars>>

ReadAck == /\ host = "waiting" /\ fd /\ up # <<>>
           /\ up' = Tail(up)
           /\ Acknowledge(Head(up), "read")

\* read fails at once without a line, and when a signal interrupts it: no
\* handler is installed with SA_RESTART.  Its result is not looked at.
NoAck == \E b \in AckGarbage : Acknowledge(b, "garbage") /\ UNCHANGED up
AckFails == host = "waiting" /\ ~fd /\ NoAck
AckCut   == MayInterrupt /\ host = "waiting" /\ fd /\ up = <<>> /\ NoAck
-----------------------------------------------------------------------------
(* The accesses: `wr io` sends two bytes and goes on; `rd io` sends one    *)
(* and waits for the answer.                                               *)

Access == /\ host = "ready" /\ made < MaxAccesses
          /\ made' = made + 1

\* The program computes what it writes next.
Compute == /\ host = "ready"
           /\ acc' \in Values
           /\ UNCHANGED <<host, fd, reg_sel, ack, made, down, up, sketchVars>>

Exit == host' = "exited" /\ UNCHANGED <<fd, acc, reg_sel, ack>>

WriteReg(r) == /\ Access
               /\ fd
               /\ reg_sel' = r
               /\ down' = down \o <<128 + r, acc>>
               /\ UNCHANGED <<host, fd, acc, ack, up, sketchVars>>

AskReg(r) == /\ Access
             /\ fd
             /\ reg_sel' = r
             /\ down' = Append(down, r)
             /\ host' = "reading"
             /\ UNCHANGED <<fd, acc, ack, up, sketchVars>>

NoLine == /\ Access /\ ~fd
          /\ Exit
          /\ UNCHANGED <<down, up, sketchVars>>

Answered == /\ host = "reading" /\ up # <<>>
            /\ acc' = Head(up) /\ up' = Tail(up)
            /\ host' = "ready"
            /\ UNCHANGED <<fd, reg_sel, ack, made, down, sketchVars>>

\* Ctrl-C while the answer is awaited ends the emulator.
AnswerCut == /\ MayInterrupt
             /\ host = "reading" /\ up = <<>>
             /\ Exit
             /\ UNCHANGED <<made, down, up, sketchVars>>

Await == tcflush \/ ReadAck \/ AckFails \/ Answered
Host == \/ Open \/ OpenFails \/ Compute \/ Await \/ AckCut
        \/ (\E r \in Used : WriteReg(r) \/ AskReg(r))
        \/ NoLine \/ AnswerCut
-----------------------------------------------------------------------------
(* The sketch.                                                             *)

Bootloader == /\ sketch = "reset" /\ down # <<>>
              /\ down' = Tail(down)
              /\ UNCHANGED <<hostVars, up, sketchVars>>

Setup == /\ sketch = "reset"
         /\ sketch' = "loop"
         /\ up' = Append(up, ACK)
         /\ UNCHANGED <<hostVars, down, command, card>>

\* Mutant: a zero is taken for no byte.
LoopZero == /\ sketch = "loop" /\ down # <<>>
            /\ down' = Tail(down)
            /\ command' = Head(down)
            /\ sketch' = CASE Head(down) \in 1..15   -> "read_reg"
                           [] Head(down) \div 16 = 8 -> "data"
                           [] OTHER                  -> "loop"
            /\ UNCHANGED <<hostVars, up, card>>

\* Loop reads a command; only the upper four bits tell what to do.
Loop == /\ sketch = "loop" /\ down # <<>>
        /\ down' = Tail(down)
        /\ command' = Head(down)
        /\ sketch' = CASE Head(down) \div 16 = 0 -> "read_reg"
                       [] Head(down) \div 16 = 8 -> "data"
                       [] OTHER                  -> "loop"
        /\ UNCHANGED <<hostVars, up, card>>

\* Mutant: a register read is answered with two of the three address lines.
ReadRegNarrow == /\ sketch = "read_reg"
                 /\ up' = Append(up, Port!Value(card, command % 4))
                 /\ card' = Port!AfterRead(card, command % 4)
                 /\ sketch' = "loop"
                 /\ UNCHANGED <<hostVars, down, command>>

ReadReg == /\ sketch = "read_reg"
           /\ up' = Append(up, Port!Value(card, command % 8))
           /\ card' = Port!AfterRead(card, command % 8)
           /\ sketch' = "loop"
           /\ UNCHANGED <<hostVars, down, command>>

\* The second byte of a write, whatever it looks like.
write_reg == /\ sketch = "data" /\ down # <<>>
             /\ down' = Tail(down)
             /\ card' = Port!AfterWrite(card, command % 8, Head(down))
             /\ sketch' = "loop"
             /\ UNCHANGED <<hostVars, up, command>>

Sketch == Setup \/ Loop \/ ReadReg \/ write_reg

Next == Host \/ Bootloader \/ Sketch
Spec == Init /\ [][Next]_vars

\* A byte that is awaited is read, and the Arduino never stops looping; the
\* program may stop making accesses, and nobody has to press Ctrl-C.
Fairness == WF_vars(Await) /\ WF_vars(Sketch)
FairSpec == Spec /\ Fairness
-----------------------------------------------------------------------------
TypeOK == /\ host \in {"first_access", "opened", "waiting", "ready", "reading", "exited"}
          /\ fd \in BOOLEAN /\ acc \in Byte /\ reg_sel \in Register
          /\ ack \in {"none", "read", "garbage"}
          /\ down \in Seq(Byte) /\ up \in Seq(Byte)
          /\ sketch \in {"reset", "loop", "read_reg", "data"}
          /\ command \in Byte
          /\ card \in [regs : [Register -> Byte], taken : Nat]
          /\ made \in 0..MaxAccesses

\* The emulator only "starts blasting" the Arduino once that listens
\* (ios_compactflash.c:194): when the acknowledgement was really read, no byte
\* of an access is swallowed by the boot loader.
ListensFirst == ack = "read" => sketch # "reset"

\* The card when every write on its way has been made, and the accumulator
\* when the answer on its way has arrived.
Sent == IF sketch = "data" THEN <<command>> \o down ELSE down
Posted(c, s) ==
  LET posted[n \in 0..(Len(s) \div 2)] ==
        IF n = 0 THEN c
        ELSE Port!AfterWrite(posted[n - 1], s[2 * n - 1] % 8, s[2 * n])
  IN posted[Len(s) \div 2]
PostedCard == Posted(card, Sent)
Received == IF host = "reading" /\ up # <<>> THEN Head(up) ELSE acc

\* To the program the remote card is the card itself: every access happens
\* once and in the order made, no byte of data is ever taken for a command,
\* and a read of any register gives what the writes before it left there, and
\* nothing else reaches the accumulator - as long as the emulator runs, and
\* unless the acknowledgement was garbage that happened to be right.
Direct == INSTANCE CardPort
            WITH DATA <- CF_DATA, card <- PostedCard, acc <- Received, place <- Place
AccessesInOrder ==
  [][host' = "exited" \/ ack = "garbage" \/ Direct!Next]_<<PostedCard, Received, Place, reg_sel>>

\* However fast the Arduino resets: an acknowledgement that tcflush has left on
\* the line, or that is sent after it, is not lost, nor is any answer, and the
\* emulator goes on (ios_compactflash.c:183-206, 241; the sketch's loop).
Proceeds ==
  (/\ ack # "garbage"
   /\ \/ host = "waiting" /\ (sketch = "reset" \/ up # <<>>)
      \/ host = "reading")
    ~> (host \in {"ready", "exited"} \/ ack = "garbage")
=============================================================================
