------------------------------ MODULE NandyEmu ------------------------------
(***************************************************************************)
(* The emulator: emu_step of nandy_emu_tools.c over the processor, the     *)
(* console and the CompactFlash card, run by main (nandy-emu.c) with no    *)
(* debugger attached, while a user types and may press Ctrl-C.             *)
(*                                                                         *)
(* One action per instruction.  Each is a whole emu_step: the instruction, *)
(* the devices in the order of iomap, the interrupt lines, the interrupt   *)
(* test, and the result that ends or continues main's loop.                *)
(***************************************************************************)
EXTENDS NandyCpu, NandyTty, CompactFlash

CONSTANTS Programs,      \* the ROM images the emulator may be started on
          InputBytes,    \* what the user types
          MaxTyped,      \* how much of it at most
          MayEnd,        \* whether standard input may reach its end
          MayInterrupt,  \* whether the user may press Ctrl-C
          WildBytes      \* what a read beyond the card's buffer may return

ASSUME ProgramsAssumption == \A r \in Programs : IsMemory(r)
ASSUME InputAssumption == /\ InputBytes \subseteq Byte
                          /\ WildBytes \subseteq Byte /\ WildBytes # {}

VARIABLES disk,   \* the card's image, read on the first step, never written
          card,   \* the card
          mode    \* where main is: "run" in its loop, "halted" or "exited"

emuVars == <<cpu, rom, ram, tty, typed, nread, eof, out, disk, card, mode>>

CF_BASE == 8
TTY_LINE == 1
CF_LINE  == 2

Init == /\ cpu = INIT_STATE
        /\ rom \in Programs
        /\ ram = <<>>
        /\ TtyInit
        /\ disk \in Disks
        /\ card = INIT_CARD
        /\ mode = "run"
-----------------------------------------------------------------------------
(* The card's turn, with the registers c that the console left.            *)

CfReads(c)  == inbounds(CF_BASE, c.y) /\ c.io_rd
CfWrites(c) == inbounds(CF_BASE, c.y) /\ c.io_wr

\* Mutant: half of the register address.
CfRegMasked(c) == c.y % 4

CfReg(c) == c.y % 8

CfCpu(c, wild) ==
  IF CfReads(c) THEN [c EXCEPT !.acc = ReadValue(card, disk, CfReg(c), @, wild)]
                ELSE c
CfAfter(c, byte) ==
  LET read == IF CfReads(c) THEN AfterRead(card, disk, CfReg(c)) ELSE card
  IN IF CfWrites(c) THEN AfterWrite(read, disk, CfReg(c), byte) ELSE read

\* The interrupt lines after the devices: the card never raises its own.
WithLines(c, ttyLine) ==
  [c EXCEPT !.ints_in = ByteOf((BitsOf(@) \ {TTY_LINE, CF_LINE})
                               \cup (IF ttyLine THEN {TTY_LINE} ELSE {}))]

\* Mutant: an active handler may be interrupted.
InterruptibleAlways(c) == c.int_en /\ c.ints_in # 0

Interruptible(c) == c.int_en /\ c.ints_in # 0 /\ ~c.int_active

\* Mutants: the test uses the lines of the step before; the return address
\* forgets that jxi adds one.
WithInterruptLate(c) ==
  IF Interruptible([c EXCEPT !.ints_in = cpu.ints_in])
  THEN [c EXCEPT !.ia = ToAddr(c.pc - 1), !.pc = ISR_ADDR, !.int_active = TRUE]
  ELSE c
WithInterruptAt(c) ==
  IF Interruptible(c)
  THEN [c EXCEPT !.ia = c.pc, !.pc = ISR_ADDR, !.int_active = TRUE]
  ELSE c

WithInterrupt(c) ==
  IF Interruptible(c)
  THEN [c EXCEPT !.ia = ToAddr(c.pc - 1), !.pc = ISR_ADDR, !.int_active = TRUE]
  ELSE c

\* Mutant: a handler runs to its end before the debugger is entered.
AfterStepLater(c, exited) == IF exited THEN "exited"
                             ELSE IF c.idbg /\ ~c.int_active THEN "halted"
                             ELSE "run"

AfterStep(c, exited) == CASE exited  -> "exited"
                          [] ~exited /\ c.idbg  -> "halted"
                          [] OTHER   -> "run"

\* The rest of emu_step once the instruction has left the registers `regs` and
\* the memory m: `served` after the devices, `done` after the interrupt test.
Retire(regs, m) ==
  \E c \in {regs}, wild \in WildBytes :
    \E served \in {CfCpu(TtyCpu(c), wild)} :
    \E done \in {WithInterrupt(WithLines(served, TtyLine(c)))} :
    /\ ram' = m
    /\ TtyStep(c)
    /\ card' = CfAfter(TtyCpu(c), served.acc)
    /\ cpu' = done
    /\ mode' = AfterStep(done, card'.exited)
    /\ UNCHANGED <<rom, disk>>

\* The current byte is an instance of the instruction m.
Runs(m) == mode = "run" /\ ilookup[ibyte] = m
-----------------------------------------------------------------------------
Rd  == Runs("rd") /\ Retire(exe_rmove, ram)
Wr  == Runs("wr") /\ Retire(exe_rmove, ram)
Sw  == Runs("sw") /\ Retire(exe_rmove, ram)

Jp  == Runs("jp")  /\ Retire(exe_jp, ram)
Jpr == Runs("jpr") /\ Retire(exe_jpr, ram)
Jxi == Runs("jxi") /\ Retire(exe_jxi, ram)
J   == Runs("j")   /\ Retire(exe_j, ram)
Jr  == Runs("jr")  /\ Retire(exe_jr, ram)
Jc  == Runs("jc")  /\ Retire(exe_jc, ram)

Brk  == Runs("brk")  /\ Retire(exe_brk, ram)
Dint == Runs("dint") /\ Retire(exe_dint, ram)
Eint == Runs("eint") /\ Retire(exe_eint, ram)

Ipoll == Runs("ipoll") /\ Retire(exe_ipoll, ram)
Or    == Runs("or")    /\ Retire(exe_or, ram)
And   == Runs("and")   /\ Retire(exe_and, ram)
Xor   == Runs("xor")   /\ Retire(exe_xor, ram)

Cclr  == Runs("cclr")  /\ Retire(exe_cclr, ram)
Nop   == Runs("nop")   /\ Retire(exe_nop, ram)
Nzero == Runs("nzero") /\ Retire(exe_nzero, ram)
Sgn   == Runs("sgn")   /\ Retire(exe_sgn, ram)
Cset  == Runs("cset")  /\ Retire(exe_cset, ram)
Ctog  == Runs("ctog")  /\ Retire(exe_ctog, ram)
Zero  == Runs("zero")  /\ Retire(exe_zero, ram)
Nsgn  == Runs("nsgn")  /\ Retire(exe_nsgn, ram)

Add == Runs("add") /\ Retire(exe_add, ram)
Sub == Runs("sub") /\ Retire(exe_sub, ram)
Sl  == Runs("sl")  /\ Retire(exe_sl, ram)
Slc == Runs("slc") /\ Retire(exe_slc, ram)
Sr  == Runs("sr")  /\ Retire(exe_sr, ram)
Src == Runs("src") /\ Retire(exe_src, ram)

Ld == Runs("ld") /\ Retire(exe_ld, ram)
St == Runs("st") /\ Retire(exe_st, StoredRam)

Rdi  == Runs("rdi")  /\ Retire(exe_rdi, ram)
Ori  == Runs("ori")  /\ Retire(exe_ori, ram)
Andi == Runs("andi") /\ Retire(exe_andi, ram)
Xori == Runs("xori") /\ Retire(exe_xori, ram)
Addi == Runs("addi") /\ Retire(exe_addi, ram)
Adci == Runs("adci") /\ Retire(exe_adci, ram)
Subi == Runs("subi") /\ Retire(exe_subi, ram)
Sbci == Runs("sbci") /\ Retire(exe_sbci, ram)

\* A byte no instruction claims: emu_step returns at once, before the devices.
Unknown == /\ Runs(Invalid)
           /\ cpu' = Fetched
           /\ mode' = "halted"
           /\ UNCHANGED <<rom, ram, tty, typed, nread, eof, out, disk, card>>

Moves    == Rd \/ Wr \/ Sw
Jumps    == Jp \/ Jpr \/ Jxi \/ J \/ Jr \/ Jc
Flags    == Brk \/ Dint \/ Eint
RegBit   == Ipoll \/ Or \/ And \/ Xor
Compares == Cclr \/ Nop \/ Nzero \/ Sgn \/ Cset \/ Ctog \/ Zero \/ Nsgn
RegAlu   == Add \/ Sub \/ Sl \/ Slc \/ Sr \/ Src
Memory   == Ld \/ St
ImmAlu   == Rdi \/ Ori \/ Andi \/ Xori \/ Addi \/ Adci \/ Subi \/ Sbci

\* adc, sbc and jcr have an execute function but no byte that selects it:
\* NandyDecode shows why, and no action stands for them.
emu_step == \/ Moves \/ Jumps \/ Flags \/ RegBit \/ Compares \/ RegAlu
            \/ Memory \/ ImmAlu \/ Unknown
-----------------------------------------------------------------------------
(* The user, at any moment between two steps.                              *)

UserTypes == /\ Len(typed) < MaxTyped
             /\ \E b \in InputBytes : Type(b)
             /\ UNCHANGED <<cpu, rom, ram, disk, card, mode>>

InputEnds == /\ MayEnd
             /\ CloseInput
             /\ UNCHANGED <<cpu, rom, ram, disk, card, mode>>

\* onInterrupt, the handler of SIGINT.
onInterrupt == /\ MayInterrupt /\ mode = "run"
               /\ cpu' = [cpu EXCEPT !.idbg = TRUE]
               /\ UNCHANGED <<rom, ram, tty, typed, nread, eof, out, disk,
                              card, mode>>

Next == emu_step \/ UserTypes \/ InputEnds \/ onInterrupt

\* main calls emu_step in a loop; the user owes nothing.
Spec == Init /\ [][Next]_emuVars
FairSpec == Spec /\ WF_emuVars(emu_step)
-----------------------------------------------------------------------------
(* Types.                                                                  *)

ConsoleTypeOK == /\ tty \in TtyState
                 /\ typed \in Seq(Byte) /\ out \in Seq(Byte)
                 /\ nread \in 0..Len(typed)
                 /\ eof \in BOOLEAN

\* The registers, memories, devices and loop position keep their C types.
TypeOK == /\ cpu \in Registers
          /\ IsMemory(rom) /\ IsMemory(ram)
          /\ ConsoleTypeOK
          /\ disk \in Disks /\ card \in Card
          /\ mode \in {"run", "halted", "exited"}
-----------------------------------------------------------------------------
(* Interrupts.                                                             *)

\* The interrupt register mirrors the console's line at every moment between
\* two steps: an ISR that polls it sees input exactly when there is some, and
\* the line drops with the read that takes the byte.
IrqFollowsInput == cpu.ints_in = IF tty.input_available THEN TTY_LINE ELSE 0

\* No request waits: whenever the loop is about to run an instruction with
\* interrupts enabled and a line raised, the handler is already active.
NoMissedInterrupt == mode = "run" => ~Interruptible(cpu)

\* Where the interrupted program will continue.
ForegroundPc(c) == IF c.int_active THEN ToAddr(c.ia + 1) ELSE c.pc

\* A handler is invisible to the control flow of the program it interrupts:
\* while it is active no step - jxi, a jxi that is interrupted again at once,
\* an unknown byte, a signal - moves the point where that program continues,
\* so handlers do not nest and the return address is never lost.
HandlerInvisible ==
  [][cpu.int_active => ForegroundPc(cpu') = ForegroundPc(cpu)]_emuVars

JumpMnemonics == {"jp", "jpr", "jxi", "j", "jr", "jc", "jcr"}

\* Outside a handler, an instruction that is not a jump is followed by the
\* instruction at the next address by nbytes, whether or not an interrupt is
\* taken in between.
FallsThrough ==
  [][ (emu_step /\ ~cpu.int_active
         /\ ilookup[ibyte] \notin JumpMnemonics \cup {Invalid})
      => ForegroundPc(cpu') = ToAddr(cpu.pc + nbytes(ibyte)) ]_emuVars

\* Ctrl-C stops the machine within one instruction, handler or not.
SignalStops == [][(emu_step /\ cpu.idbg) => mode' # "run"]_emuVars
-----------------------------------------------------------------------------
(* The console.                                                            *)

\* The byte the console offers is the last one taken from stdin, in order,
\* or the end-of-file byte once every typed byte has been taken.
OffersLatest ==
  tty.input_available =>
    \/ nread > 0 /\ tty.incoming_input = typed[nread]
    \/ eof /\ nread = Len(typed) /\ tty.incoming_input = EOF_BYTE

\* No overrun: a byte that is on offer stays until an instruction reads it,
\* however much is typed meanwhile.
NoOverrun ==
  [][ (tty.input_available /\ ~(cpu'.io_rd /\ inbounds(TTY_BASE, cpu'.y)))
      => (tty'.input_available /\ tty'.incoming_input = tty.incoming_input)
    ]_emuVars
=============================================================================
