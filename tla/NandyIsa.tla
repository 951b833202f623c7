------------------------------ MODULE NandyIsa ------------------------------
(***************************************************************************)
(* The assembler against the emulator: one source line - an instruction or *)
(* a macro - is assembled at some address and its bytes are executed, with *)
(* no device and no interrupt in the way, until control leaves them.  What *)
(* the line then has done is compared with what Design/ says it does.      *)
(*                                                                         *)
(* A line is <<mnemonic>>, <<mnemonic, operand>> or <<mnemonic, a, b>>.    *)
(***************************************************************************)
EXTENDS NandyCpu, NandyAsm

CONSTANTS Lines, Origins,       \* the lines tried, where they are assembled
          Starts                \* the registers they start with

VARIABLES line, code, origin,   \* the line, its bytes and where they lie
          start,                \* cpu at the beginning
          left                  \* how many of the bytes are still to be executed

isaVars == <<cpu, rom, ram, line, code, origin, start, left>>

NoOperand == {"jp", "jpr", "cclr", "nop", "nzero", "sgn", "cset", "ctog",
              "zero", "nsgn", "sl", "slc", "sr", "src", "ipoll"}
RegAlu    == {"or", "and", "xor", "add", "adc", "sub", "sbc"}
ImmAlu    == {"rdi", "ori", "andi", "xori", "addi", "adci", "subi", "sbci"}
RelJumps  == {"j", "jr", "jc", "jcr"}
Single == NoOperand \cup RegAlu \cup ImmAlu \cup RelJumps
          \cup {"rd", "wr", "sw", "ld", "st"}

\* The registers but for the port, which would need a device.
Holders == {ACC, SP, X, Y, PL, PH, QL, QH}

\* The lines the assembler accepts.
Accepted(l) ==
  \/ l[1] \in NoOperand
  \/ l[1] \in {"rd", "wr", "sw"} /\ l[2] \in 0..7
  \/ l[1] \in RegAlu /\ l[2] \in {X, Y}
  \/ l[1] \in ImmAlu \cup {"isp", "isc"} /\ l[2] \in Int
  \/ l[1] \in {"ld", "st"} /\ l[2] \in {MM_SP, MM_Q, MM_P, MM_PPRE} /\ l[3] \in Int
  \/ l[1] \in RelJumps /\ l[2] \in Int /\ Reaches(0, l[2])
  \/ l[1] \in {"move", "swap"} /\ l[2] \in Holders /\ l[3] \in Holders
  \/ l[1] \in {"rdp", "rdq", "pusha"} /\ l[2] \in Addr
  \/ l[1] \in {"call", "goto"} /\ l[2] \in Addr \ {0}

\* The bytes of a line at an address.
Code(l, at) ==
  CASE l[1] \in NoOperand          -> asm_basic(l[1])
    [] l[1] \in {"rd", "wr", "sw"} -> asm_register(l[1], l[2])
    [] l[1] \in RegAlu             -> asm_alu_reg(l[1], l[2])
    [] l[1] \in ImmAlu             -> asm_alu_imm(l[1], l[2])
    [] l[1] \in {"ld", "st"}       -> asm_mem(l[1], l[2], l[3])
    [] l[1] \in RelJumps           -> asm_reljump(l[1], at, at + l[2])
    [] l[1] = "move"               -> asm_move(l[2], l[3])
    [] l[1] = "swap"               -> asm_swap(l[2], l[3])
    [] l[1] = "rdp"                -> asm_rdp(l[2])
    [] l[1] = "rdq"                -> asm_rdq(l[2])
    [] l[1] = "call"               -> asm_call(l[2])
    [] l[1] = "goto"               -> asm_goto(l[2])
    [] l[1] = "isp"                -> asm_isp(l[2])
    [] l[1] = "isc"                -> asm_isc(l[2])
    [] l[1] = "pusha"              -> asm_pusha(l[2])

ASSUME LinesAssumption == \A l \in Lines : Accepted(l) /\ l[1] \notin Shadowed
\* The line lies in ROM.
ASSUME OriginsAssumption ==
  \A at \in Origins : at \in Cell /\ \A l \in Lines : at + Len(Code(l, at)) <= ROM_SIZE
ASSUME StartsAssumption == Starts \subseteq Registers

\* The bytes at the origin, in front of ROM that is otherwise zero.
Init == /\ line \in Lines /\ origin \in Origins
        /\ start \in Starts
        /\ code = Code(line, origin)
        /\ cpu = [start EXCEPT !.pc = origin]
        /\ rom = Placed(<<origin, code>>)
        /\ ram = <<>>
        /\ left = Len(code)

\* The next instruction of the line, each once, even where it jumps to itself.
Execute == /\ left > 0
           /\ cpu' = execute(ilookup[ibyte])
           /\ ram' = IF ilookup[ibyte] = "st" THEN StoredRam ELSE ram
           /\ left' = left - nbytes(ibyte)
           /\ UNCHANGED <<rom, line, code, origin, start>>

Next == Execute
Spec == Init /\ [][Next]_isaVars
-----------------------------------------------------------------------------
(* Decoding.                                                               *)

\* What the assembler emits for an instruction is what the emulator, and the
\* disassembler that shares its lookup, take it for, and it is as long as
\* nbytes says.
DecodesAsWritten ==
  line[1] \in Single /\ left = Len(code) => /\ ilookup[ibyte] = line[1]
                                            /\ nbytes(ibyte) = Len(code)
-----------------------------------------------------------------------------
(* Arithmetic.                                                             *)

\* The line has been executed and is one of these.
After(ms) == left = 0 /\ line[1] \in ms

Operand == CASE line[1] \in ImmAlu -> ToByte(line[2])
             [] line[1] \in RegAlu -> IF line[2] = Y THEN start.y ELSE start.x
Borrow(c) == 1 - CarryIn(c)

\* Instruction reference: the instructions that take the carry in complete a
\* nine-bit result with the carry out, so that several of them in a row work
\* on longer numbers: no bit is lost between adci and adci, sbci and sbci, or
\* in a rotation by slc and src.
CarryChains ==
  /\ After({"adci"}) => cpu.acc + 256 * CarryIn(cpu.carry)
                          = start.acc + Operand + CarryIn(start.carry)
  /\ After({"sbci"}) => cpu.acc - 256 * Borrow(cpu.carry)
                          = start.acc - Operand - Borrow(start.carry)
  /\ After({"slc"}) => 256 * CarryIn(cpu.carry) + cpu.acc
                         = 2 * start.acc + CarryIn(start.carry)
  /\ After({"src"}) => 2 * cpu.acc + CarryIn(cpu.carry)
                         = 256 * CarryIn(start.carry) + start.acc

-----------------------------------------------------------------------------
(* Jumps.                                                                  *)

Target == CASE line[1] \in RelJumps -> ToAddr(origin + line[2])
            [] OTHER                -> line[2]
Taken == \/ line[1] \in {"j", "jr", "call", "goto"}
         \/ line[1] \in {"jc", "jcr"} /\ start.carry
ReturnAddress == ToAddr(origin + Len(code))

\* A jump arrives at the address it was assembled for, over the whole range
\* of the offset, and an untaken one at the next instruction.
JumpArrives ==
  After({"j", "jr", "jc", "call", "goto"}) =>
    cpu.pc = IF Taken THEN Target ELSE ReturnAddress

\* Instruction reference, note 2: the address a call leaves in p takes jp back
\* to the instruction after the call, whether the call takes one byte or two.
CallReturns ==
  After({"jr", "call", "jpr"}) => exe_jp.pc = ReturnAddress

-----------------------------------------------------------------------------
(* Macros.                                                                 *)

Get(c, r) == CASE r = ACC -> c.acc   [] r = SP -> c.sp
               [] r = X  -> c.x      [] r = Y  -> c.y
               [] r = PL -> Lo(c.p)  [] r = PH -> Hi(c.p)
               [] r = QL -> Lo(c.q)  [] r = QH -> Hi(c.q)
SameBut(rs) == /\ \A r \in Holders \ rs : Get(cpu, r) = Get(start, r)
               /\ cpu.carry = start.carry
               /\ cpu.pc = ReturnAddress

\* Assembler manual: move copies a register, swap exchanges two, rdp and rdq
\* load a pointer and isp moves the stack pointer, without disturbing any
\* other register, the accumulator they pass through and the carry included.
MacrosKeepRest ==
  /\ After({"move"}) => Get(cpu, line[3]) = Get(start, line[2])
                        /\ SameBut({line[3]})
  /\ After({"swap"}) => /\ Get(cpu, line[3]) = Get(start, line[2])
                        /\ Get(cpu, line[2]) = Get(start, line[3])
                        /\ SameBut({line[2], line[3]})
  /\ After({"rdp"}) => cpu.p = line[2] /\ SameBut({PL, PH})
  /\ After({"rdq"}) => cpu.q = line[2] /\ SameBut({QL, QH})
  /\ After({"isp"}) => cpu.sp = ToByte(start.sp + line[2]) /\ SameBut({SP})

=============================================================================
