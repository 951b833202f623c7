------------------------------ MODULE NandyCpu ------------------------------
(***************************************************************************)
(* The processor of the emulator: cpu_state_t (nandy_tools.h) and the      *)
(* execute function of every instruction (instrs_*.c).                     *)
(*                                                                         *)
(* cpu holds the registers and flags, rom and ram the two memories.  A     *)
(* memory is a function on the cells that have been written; every other   *)
(* cell is zero, as INIT_STATE leaves it.  The count of elapsed cycles is  *)
(* left out: nothing but the speed of the emulation depends on it.         *)
(*                                                                         *)
(* Each Exe operator is the register file its function leaves; the         *)
(* devices and the interrupt test that follow belong to NandyEmu.          *)
(***************************************************************************)
EXTENDS NandyDecode

VARIABLES cpu, rom, ram

ROM_SIZE == 32768
ISR_ADDR == 32512                                            \* 0x7F00

\* The cells of one memory chip, and what a memory may hold.
Cell == 0..ROM_SIZE-1
IsMemory(m) == /\ DOMAIN m \subseteq Cell
               /\ \A c \in DOMAIN m : m[c] \in Byte

Registers == [pc : Addr, ia : Addr, acc : Byte, sp : Byte, x : Byte, y : Byte,
              p : Addr, q : Addr, carry : BOOLEAN, int_en : BOOLEAN,
              int_active : BOOLEAN, io_rd : BOOLEAN, io_wr : BOOLEAN,
              idbg : BOOLEAN, ints_in : Byte]

INIT_STATE == [pc |-> 0, ia |-> 0, acc |-> 0, sp |-> 0, x |-> 0, y |-> 0,
               p |-> 0, q |-> 0, carry |-> FALSE, int_en |-> FALSE,
               int_active |-> FALSE, io_rd |-> FALSE, io_wr |-> FALSE,
               idbg |-> FALSE, ints_in |-> 0]
-----------------------------------------------------------------------------
(* Memory.                                                                 *)

ReadCell(m, c) == IF c \in DOMAIN m THEN m[c] ELSE 0
WriteCell(m, c, w) == [d \in DOMAIN m \cup {c} |-> IF d = c THEN w ELSE m[d]]

peek(a) == IF a \div ROM_SIZE = 1 THEN ReadCell(ram, a % ROM_SIZE)
                                  ELSE ReadCell(rom, a % ROM_SIZE)

\* ram after poke: the write lands in ram whatever the top address bit says.
poke(a, w) == WriteCell(ram, a % ROM_SIZE, w)

\* The bytes of the current instruction.
ibyte == peek(cpu.pc)
imm   == peek(ToAddr(cpu.pc + 1))

\* Register pairs.
Hi(r) == r \div 256
Lo(r) == r % 256
Pair(h, l) == 256 * h + l

\* cpu as emu_step hands it to the instruction, with the strobes lowered, and
\* the same with its pc moved past an instruction of n bytes.
Fetched == [cpu EXCEPT !.io_rd = FALSE, !.io_wr = FALSE]
Past(n) == [Fetched EXCEPT !.pc = ToAddr(cpu.pc + n)]
-----------------------------------------------------------------------------
(* instrs_register.c.  rd, wr and sw share exe_rmove; the register number  *)
(* orders SP, IO, X, Y, PL, PH, QL, QH.  A transfer with IO only raises a  *)
(* strobe: the device selected by y completes it in the same step.         *)

REG_IO == 1
RegId == ibyte % 8
IsRead  == HasBit(ibyte, 16)
IsWrite == HasBit(ibyte, 8)

RegFile == <<cpu.sp, cpu.acc, cpu.x, cpu.y, Lo(cpu.p), Hi(cpu.p),
             Lo(cpu.q), Hi(cpu.q)>>

\* The value register r holds after the move; acc moves in if r is written.
Moved(r, old) == IF IsWrite /\ RegId = r THEN cpu.acc ELSE old

exe_rmove ==
  [Past(1) EXCEPT
     !.acc   = IF IsRead THEN RegFile[RegId + 1] ELSE @,
     !.io_rd = IsRead /\ RegId = REG_IO,
     !.io_wr = IsWrite /\ RegId = REG_IO,
     !.sp = Moved(0, @),
     !.x  = Moved(2, @),
     !.y  = Moved(3, @),
     !.p  = Pair(Moved(5, Hi(@)), Moved(4, Lo(@))),
     !.q  = Pair(Moved(7, Hi(@)), Moved(6, Lo(@)))]
-----------------------------------------------------------------------------
(* instrs_jump.c and instrs_flags.c.                                       *)

exe_jp  == [Fetched EXCEPT !.pc = ToAddr(cpu.p + 1)]
exe_jpr == [Fetched EXCEPT !.pc = ToAddr(cpu.p + 1), !.p = cpu.pc]

\* Mutant: the return leaves the handler active.
exe_jxiActive == [Fetched EXCEPT !.pc = ToAddr(cpu.ia + 1)]

exe_jxi == [Fetched EXCEPT !.pc = ToAddr(cpu.ia + 1), !.int_active = FALSE]

\* IMMJ_MASK bits of the first byte above the eight of the second, 11 in all.
JumpField == 128 * BitAnd(ibyte, IMMJ_MASK) + imm
offset_from_instr == signExtend(JumpField, 1024)

exe_j  == [Fetched EXCEPT !.pc = ToAddr(cpu.pc + offset_from_instr + 1)]

\* Mutant: the return address of a one-byte call.
exe_jrShort == [exe_j EXCEPT !.p = cpu.pc]

exe_jr == [exe_j EXCEPT !.p = ToAddr(cpu.pc + 1)]
exe_jc == IF cpu.carry THEN exe_j ELSE Past(2)
exe_jcr == IF cpu.carry THEN exe_jr ELSE Past(2)

exe_brk  == [Past(1) EXCEPT !.idbg = TRUE]
exe_dint == [Past(1) EXCEPT !.int_en = FALSE]
exe_eint == [Past(1) EXCEPT !.int_en = TRUE]
-----------------------------------------------------------------------------
(* The ALU instructions: instrs_regbit.c, instrs_regcomp.c,                *)
(* instrs_regadd.c, instrs_regshift.c, instrs_immbit.c, instrs_immadd.c.   *)

getALUReg == IF HasBit(ibyte, XY_MASK) THEN cpu.y ELSE cpu.x

WithAcc(n, w)   == [Past(n) EXCEPT !.acc = w]
WithCarry(c)    == [Past(1) EXCEPT !.carry = c]
WithResult(n, r) == [Past(n) EXCEPT !.acc = r.word, !.carry = r.cout]

\* int_en lands on bit 6 and int_active on bit 7, over ints_in.
StatusBits == (IF cpu.int_en THEN {64} ELSE {})
              \cup (IF cpu.int_active THEN {128} ELSE {})
exe_ipoll == WithAcc(1, ByteOf(BitsOf(cpu.ints_in) \cup StatusBits))
exe_or  == WithAcc(1, BitOr(cpu.acc, getALUReg))
exe_and == WithAcc(1, BitAnd(cpu.acc, getALUReg))
exe_xor == WithAcc(1, BitXor(cpu.acc, getALUReg))

exe_cclr  == WithCarry(FALSE)
exe_nzero == WithCarry(cpu.acc # 0)
exe_sgn   == WithCarry(HasBit(cpu.acc, 128))
exe_cset  == WithCarry(TRUE)
exe_nop   == Past(1)
exe_ctog  == WithCarry(~cpu.carry)
exe_zero  == WithCarry(cpu.acc = 0)
exe_nsgn  == WithCarry(~HasBit(cpu.acc, 128))

exe_add == WithAcc(1, alu_add(cpu.acc, getALUReg, FALSE).word)
exe_adc == WithResult(1, alu_add(cpu.acc, getALUReg, cpu.carry))
exe_sub == WithAcc(1, alu_sub(cpu.acc, getALUReg, TRUE).word)
exe_sbc == WithResult(1, alu_sub(cpu.acc, getALUReg, cpu.carry))

exe_sl  == WithAcc(1, alu_sl(cpu.acc, FALSE).word)
exe_slc == WithResult(1, alu_sl(cpu.acc, cpu.carry))
exe_sr  == WithAcc(1, alu_sr(cpu.acc, FALSE).word)
exe_src == WithResult(1, alu_sr(cpu.acc, cpu.carry))

exe_rdi  == WithAcc(2, imm)
exe_ori  == WithAcc(2, BitOr(cpu.acc, imm))
exe_andi == WithAcc(2, BitAnd(cpu.acc, imm))
exe_xori == WithAcc(2, BitXor(cpu.acc, imm))
exe_addi == WithAcc(2, alu_add(cpu.acc, imm, FALSE).word)
exe_adci == WithResult(2, alu_add(cpu.acc, imm, cpu.carry))
exe_subi == WithAcc(2, alu_sub(cpu.acc, imm, TRUE).word)
exe_sbci == WithResult(2, alu_sub(cpu.acc, imm, cpu.carry))
-----------------------------------------------------------------------------
(* instrs_memory.c.  The stack mode ors the sign-extended sp into the page *)
(* 0xFF00 outside a handler and 0xFE00 inside one, before it adds the      *)
(* offset; the preincrement mode leaves its address in p.                  *)

imm4 == ibyte % 16
ModeField == (ibyte \div 32) % 4
MemMode == CASE ModeField = 0 -> "stack" [] ModeField = 1 -> "q"
             [] ModeField = 2 -> "p"     [] ModeField = 3 -> "+p"

\* Mutant: handlers share the stack of the program they interrupt.
StackPageShared == 255

StackPage == IF cpu.int_active /\ Signed(cpu.sp) >= 0 THEN 254 ELSE 255
getMemAddr == ToAddr(imm4 + CASE MemMode = "stack" -> Pair(StackPage, cpu.sp)
                              [] MemMode = "q"     -> cpu.q
                              [] MemMode \in {"p", "+p"} -> cpu.p)

\* Mutant: +p leaves p where it was.
AccessedKeepsP == Past(1)

Accessed == [Past(1) EXCEPT !.p = IF MemMode = "+p" THEN getMemAddr ELSE @]

exe_ld == [Accessed EXCEPT !.acc = peek(getMemAddr)]
exe_st == Accessed
StoredRam == poke(getMemAddr, cpu.acc)
-----------------------------------------------------------------------------
(* instr->execute for every entry of the table, adc, sbc and jcr included. *)

execute(m) ==
  CASE m \in {"rd", "wr", "sw"} -> exe_rmove
    [] m = "jp"    -> exe_jp    [] m = "jpr"   -> exe_jpr
    [] m = "jxi"   -> exe_jxi   [] m = "j"     -> exe_j
    [] m = "jr"    -> exe_jr    [] m = "jc"    -> exe_jc
    [] m = "jcr"   -> exe_jcr   [] m = "brk"   -> exe_brk
    [] m = "dint"  -> exe_dint  [] m = "eint"  -> exe_eint
    [] m = "ipoll" -> exe_ipoll [] m = "or"    -> exe_or
    [] m = "and"   -> exe_and   [] m = "xor"   -> exe_xor
    [] m = "cclr"  -> exe_cclr  [] m = "nop"   -> exe_nop
    [] m = "nzero" -> exe_nzero [] m = "sgn"   -> exe_sgn
    [] m = "cset"  -> exe_cset  [] m = "ctog"  -> exe_ctog
    [] m = "zero"  -> exe_zero  [] m = "nsgn"  -> exe_nsgn
    [] m = "add"   -> exe_add   [] m = "adc"   -> exe_adc
    [] m = "sub"   -> exe_sub   [] m = "sbc"   -> exe_sbc
    [] m = "sl"    -> exe_sl    [] m = "slc"   -> exe_slc
    [] m = "sr"    -> exe_sr    [] m = "src"   -> exe_src
    [] m = "ld"    -> exe_ld    [] m = "st"    -> exe_st
    [] m = "rdi"   -> exe_rdi   [] m = "ori"   -> exe_ori
    [] m = "andi"  -> exe_andi  [] m = "xori"  -> exe_xori
    [] m = "addi"  -> exe_addi  [] m = "adci"  -> exe_adci
    [] m = "subi"  -> exe_subi  [] m = "sbci"  -> exe_sbci
=============================================================================
