------------------------------ MODULE NandyAsm ------------------------------
(***************************************************************************)
(* What the assembler emits for one instruction or macro: the asm_*        *)
(* functions of nandy_parse_tools.c and instrs_jump.c and the macros of    *)
(* instrs_temp_macros.c, as sequences of bytes.  Operands are values that  *)
(* have been resolved already; text, labels and layout are not part of it. *)
(*                                                                         *)
(* The model-checking modules write their ROM images with it, so that the  *)
(* programs they run are the programs the assembler would produce.         *)
(***************************************************************************)
EXTENDS NandyDecode, SequencesExt

\* The registers, numbered as in regid_t.
SP == 0
IO == 1
X  == 2
Y  == 3
PL == 4
PH == 5
QL == 6
QH == 7
ACC == 8

\* The opcode of the table entry a mnemonic names (parseInstr: the first).
opcodes == [m \in {NANDY_ILIST[k].mnemonic : k \in DOMAIN NANDY_ILIST} |->
              LET named == {k \in DOMAIN NANDY_ILIST : NANDY_ILIST[k].mnemonic = m}
              IN NANDY_ILIST[CHOOSE k \in named : \A l \in named : k <= l].opcode]
opcode(m) == opcodes[m]

Or8(a, b) == BitOr(a % 256, b % 256)

asm_basic(m)       == << opcode(m) >>
asm_register(m, r) == << Or8(opcode(m), r) >>
asm_alu_reg(m, r)  == << IF r = Y THEN Or8(opcode(m), XY_MASK) ELSE opcode(m) >>
asm_alu_imm(m, v)  == << opcode(m), ToByte(v) >>

\* Addressing modes as in memmode_t; the offset keeps its low four bits.
MM_SP == 0
MM_Q  == 32
MM_P  == 64
MM_PPRE == 96
asm_mem(m, mode, v) == << Or8(Or8(opcode(m), mode), v % 16) >>

\* A relative jump at pos; `value` is the address jumped to.  isBounded
\* refuses an offset of more than eleven bits.
JumpOffset(pos, value) == value - pos - 1
Reaches(pos, value) == JumpOffset(pos, value) \in -1024..1023
asm_reljump(m, pos, value) ==
  LET offset == JumpOffset(pos, value)
  IN << Or8(opcode(m), BitAnd(ToByte(offset \div 128), IMMJ_MASK)),
        ToByte(offset) >>
-----------------------------------------------------------------------------
(* Macros.                                                                 *)

\* hi, lo: the halves of the pair; acc is kept.
LoadPair(hi, lo, v) == asm_register("wr", hi) \o asm_alu_imm("rdi", v)
                       \o asm_register("wr", lo) \o asm_alu_imm("rdi", v \div 256)
                       \o asm_register("sw", hi)
asm_rdp(v)  == LoadPair(PH, PL, v)
asm_rdq(v)  == LoadPair(QH, QL, v)
asm_rdja(v) == LoadPair(PH, PL, v - 1)
asm_call(v) == asm_rdja(v) \o asm_basic("jpr")
asm_goto(v) == asm_rdja(v) \o asm_basic("jp")

\* Mutant: the accumulator is not put back.
asm_moveThrough(a, b) == IF a = b THEN <<>>
                         ELSE asm_register("rd", a) \o asm_register("wr", b)

asm_move(a, b) ==
  CASE a = b                             -> <<>>
    [] a # b /\ b = ACC                  -> asm_register("rd", a)
    [] a = ACC /\ b # ACC                -> asm_register("wr", b)
    [] a = IO /\ b \notin {IO, ACC}      -> asm_register("sw", b)
                                            \o asm_register("rd", a)
                                            \o asm_register("sw", b)
    [] a \notin {b, ACC, IO} /\ b # ACC  -> asm_register("sw", a)
                                            \o asm_register("wr", b)
                                            \o asm_register("sw", a)

asm_swap(a, b) ==
  CASE a = b                             -> <<>>
    [] a # b /\ b = ACC                  -> asm_register("sw", a)
    [] a = ACC /\ b # ACC                -> asm_register("sw", b)
    [] a = IO /\ b \notin {IO, ACC}      -> asm_register("sw", b)
                                            \o asm_register("sw", a)
                                            \o asm_register("sw", b)
    [] a \notin {b, ACC, IO} /\ b # ACC  -> asm_register("sw", a)
                                            \o asm_register("sw", b)
                                            \o asm_register("sw", a)

asm_isc(v) == asm_register("sw", SP) \o asm_alu_imm("adci", v)
              \o asm_register("sw", SP)
asm_isp(v) == asm_register("sw", SP) \o asm_alu_imm("addi", v)
              \o asm_register("sw", SP)

asm_pusha(v) == asm_isc(-2)
                \o asm_alu_imm("rdi", v) \o asm_mem("st", MM_SP, 0)
                \o asm_alu_imm("rdi", v \div 256) \o asm_mem("st", MM_SP, 1)
-----------------------------------------------------------------------------
(* A ROM image: pieces of code, each <<address, bytes>>.                   *)

Placed(piece) == [c \in piece[1]..(piece[1] + Len(piece[2]) - 1) |->
                    piece[2][c - piece[1] + 1]]
Image(pieces) == FoldLeft(LAMBDA m, piece : m @@ Placed(piece), <<>>, pieces)
=============================================================================
