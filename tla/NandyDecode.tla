---------------------------- MODULE NandyDecode ----------------------------
(***************************************************************************)
(* Instruction bytes: the table default_instrs of nandy_instructions.c and *)
(* the first-match lookup that the emulator, the debugger's disassembler   *)
(* and nextinst use.                                                       *)
(***************************************************************************)
EXTENDS NandyWord, Sequences

MULTIBYTE_MASK == 64
MEM_MASK       == 128
XY_MASK        == 16
REGID_MASK     == 7
IMM4_MASK      == 15
IMMJ_MASK      == 14

\* One entry of the table: the mnemonic, the bits every instance has, and
\* the bits (opcode_mask) an instance may set freely.
Instr(mnemonic, opcode, mask) == [mnemonic |-> mnemonic, opcode |-> opcode,
                                  mask |-> mask]

MoveInstrs == <<
  Instr("rd", 16, REGID_MASK), Instr("wr", 8, REGID_MASK),
  Instr("sw", 24, REGID_MASK) >>

ControlInstrs == <<
  Instr("jp", 4, 0),   Instr("jpr", 5, 0),  Instr("jxi", 6, 0),
  Instr("brk", 0, 0),  Instr("dint", 2, 0), Instr("eint", 3, 0) >>

RegBitInstrs == <<
  Instr("ipoll", 32, XY_MASK), Instr("or", 33, XY_MASK),
  Instr("and", 34, XY_MASK),   Instr("xor", 35, XY_MASK) >>

CompareInstrs == <<
  Instr("cclr", 40, 0), Instr("nop", 41, 0),  Instr("nzero", 42, 0),
  Instr("sgn", 43, 0),  Instr("cset", 56, 0), Instr("ctog", 57, 0),
  Instr("zero", 58, 0), Instr("nsgn", 59, 0) >>

RegAddInstrs == <<
  Instr("add", 44, XY_MASK), Instr("adc", 44, XY_MASK),
  Instr("sub", 45, XY_MASK), Instr("sbc", 45, XY_MASK) >>

RegShiftInstrs == <<
  Instr("sl", 38, XY_MASK), Instr("slc", 46, XY_MASK),
  Instr("sr", 39, XY_MASK), Instr("src", 47, XY_MASK) >>

\* IMM4_MASK | MMODE_MASK
MemInstrs == << Instr("ld", 144, 111), Instr("st", 128, 111) >>

ImmInstrs == <<
  Instr("rdi", 96, 0), Instr("ori", 97, 0), Instr("andi", 98, 0),
  Instr("xori", 99, 0),
  Instr("addi", 100, XY_MASK), Instr("adci", 108, XY_MASK),
  Instr("subi", 101, XY_MASK), Instr("sbci", 109, XY_MASK) >>

JumpInstrs == <<
  Instr("j", 64, IMMJ_MASK),  Instr("jr", 65, IMMJ_MASK),
  Instr("jc", 80, IMM4_MASK), Instr("jcr", 81, IMMJ_MASK) >>

\* The order of default_instrs; the assembler's macros, which have no
\* execute function and which ilookup therefore skips, are left out.
NANDY_ILIST == MoveInstrs \o ControlInstrs \o RegBitInstrs \o CompareInstrs
               \o RegAddInstrs \o RegShiftInstrs \o MemInstrs \o ImmInstrs
               \o JumpInstrs

\* The entries that are never reached: one before them takes their bytes.
Shadowed == {"adc", "sbc", "jcr"}

\* i & ~mask, for a byte i.
Without(i, mask) == ByteOf(BitsOf(i) \ BitsOf(mask))

\* Mutant: bits outside the mask do not exclude an entry.
MatchesLoosely(i) == {k \in 1..Len(NANDY_ILIST) :
                        BitsOf(NANDY_ILIST[k].opcode) \subseteq BitsOf(i)}

\* The entries whose fixed bits a byte has.
Matches(i) == {k \in 1..Len(NANDY_ILIST) :
                 NANDY_ILIST[k].opcode = Without(i, NANDY_ILIST[k].mask)}

\* The mnemonic the byte executes as: the first entry that matches, in table
\* order; Invalid stands for the NULL of an unassigned byte.
Invalid == "invalid"
Lookup(i) == IF Matches(i) = {} THEN Invalid
             ELSE NANDY_ILIST[CHOOSE k \in Matches(i) :
                                \A m \in Matches(i) : k <= m].mnemonic
\* ilookup's cache, filled on the first call.
ilookup == [i \in Byte |-> Lookup(i)]

nbytes(i) == IF HasBit(i, MULTIBYTE_MASK) /\ ~HasBit(i, MEM_MASK) THEN 2 ELSE 1
nclocks(i) == IF HasBit(i, MULTIBYTE_MASK) \/ HasBit(i, MEM_MASK) THEN 2 ELSE 1
=============================================================================
