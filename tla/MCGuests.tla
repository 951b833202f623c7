------------------------------ MODULE MCGuests ------------------------------
(***************************************************************************)
(* Programs interrupted anywhere: their results, their stack and their end *)
(* must not depend on when a byte arrives.  The handlers keep registers on *)
(* the interrupt stack, as the programmer's guide asks.                    *)
(***************************************************************************)
EXTENDS NandyEmu, NandyAsm

CONSTANT StackTop     \* what memcpy's caller first loads into sp; 0 in the test

-----------------------------------------------------------------------------
(* Every instruction a byte decodes to, at least once.  One image ends in  *)
(* brk, the other in the unassigned byte 1.                                *)

SaveAcc == asm_mem("st", MM_SP, 1) \o asm_register("rd", IO)
           \o asm_mem("ld", MM_SP, 1) \o asm_basic("jxi")

Arithmetic ==
  asm_basic("eint")
  \o asm_alu_imm("rdi", 240) \o asm_register("wr", X)
  \o asm_alu_imm("rdi", 5)   \o asm_register("wr", Y)
  \o asm_alu_imm("rdi", 60)
  \o asm_alu_reg("and", X) \o asm_alu_reg("or", Y) \o asm_alu_reg("xor", X)
  \o asm_alu_reg("add", Y) \o asm_alu_reg("sub", X)
  \o asm_mem("st", MM_SP, 1)
  \o asm_basic("cset") \o asm_basic("slc") \o asm_basic("src")
  \o asm_basic("sl") \o asm_basic("sr") \o asm_basic("ctog")
  \o asm_basic("nop")
  \o asm_alu_imm("adci", 200) \o asm_alu_imm("sbci", 4)
  \o asm_alu_imm("addi", 1) \o asm_alu_imm("subi", 1)
  \o asm_alu_imm("ori", 1) \o asm_alu_imm("andi", 15)
  \o asm_alu_imm("xori", 255)

\* At 36.
Branches ==
  asm_basic("sgn") \o asm_reljump("jc", 37, 41)
  \o asm_basic("brk") \o asm_basic("brk")
  \o asm_basic("nsgn") \o asm_reljump("jc", 42, 39)
  \o asm_basic("zero") \o asm_basic("nzero") \o asm_basic("cclr")
  \o asm_basic("dint") \o asm_basic("ipoll") \o asm_basic("eint")

\* At 50.
Pointers ==
  asm_rdq(32784) \o asm_mem("ld", MM_SP, 1) \o asm_mem("st", MM_Q, 2)
  \o asm_rdp(32783) \o asm_mem("ld", MM_PPRE, 3)
  \o asm_register("sw", X) \o asm_mem("st", MM_P, 1)
  \o asm_call(85) \o asm_reljump("j", 77, 90)

SamplerRom(last) ==
  Image(<< <<0, Arithmetic \o Branches \o Pointers>>,
           <<85, asm_register("rd", X) \o asm_basic("jp")>>,
           <<90, asm_reljump("jr", 90, 110) \o asm_goto(100)>>,
           <<100, <<last>> >>,
           <<110, asm_basic("jp")>>,
           <<ISR_ADDR, SaveAcc>> >>)

\* The image whose first instruction loads StackTop; a sampler's is eint.
RunsMemcpy == ReadCell(rom, 1) = StackTop

\* The program is at its end and no handler has started on its registers.
SamplerEnded == /\ mode = "halted" /\ ~RunsMemcpy
                /\ ForegroundPc(cpu) \in {100, 101}
                /\ cpu.int_active => cpu.pc = ISR_ADDR

\* The program computes the same result whenever the interrupts come: the
\* accumulator, carry, pointers and memory at its end are the ones the
\* instruction reference gives for it run alone.
ComputesAlone ==
  SamplerEnded =>
    /\ <<cpu.acc, cpu.x, cpu.y, cpu.sp>> = <<218, 218, 5, 0>>
    /\ <<cpu.p, cpu.q, cpu.carry>> = <<99, 32784, FALSE>>
    /\ ReadCell(ram, 18) = 218 /\ ReadCell(ram, 19) = 240

-----------------------------------------------------------------------------
(* tests/memcpy.na: pusha passes the source address on the stack, memcpy   *)
(* keeps its return address there too.  The test's own handler is a bare   *)
(* jxi; this one takes the byte.                                           *)

Data == <<7, 130>>
Buffer == 32768
Memcpy == 30
DataAt == 78

MainCode ==
  asm_alu_imm("rdi", StackTop) \o asm_register("wr", SP) \o asm_basic("eint")
  \o asm_alu_imm("rdi", 0) \o asm_register("wr", Y)
  \o asm_alu_imm("rdi", Len(Data)) \o asm_register("wr", X)
  \o asm_rdq(Buffer) \o asm_pusha(DataAt)
  \o asm_reljump("jr", 27, Memcpy) \o asm_basic("brk")

SaveAndFetch ==
  asm_isp(-3) \o asm_mem("st", MM_SP, 2)
  \o asm_register("rd", PH) \o asm_mem("st", MM_SP, 1)
  \o asm_register("rd", PL) \o asm_mem("st", MM_SP, 0)
  \o asm_basic("cset")
  \o asm_mem("ld", MM_SP, 3) \o asm_alu_imm("sbci", 1) \o asm_register("wr", PL)
  \o asm_mem("ld", MM_SP, 4) \o asm_alu_imm("sbci", 0) \o asm_register("wr", PH)
  \o asm_reljump("j", 48, 61)

CopyLoop ==
  asm_mem("ld", MM_PPRE, 1) \o asm_mem("st", MM_Q, 0) \o asm_basic("cclr")
  \o asm_register("rd", QL) \o asm_alu_imm("adci", 1) \o asm_register("wr", QL)
  \o asm_register("rd", QH) \o asm_alu_imm("adci", 0) \o asm_register("wr", QH)
  \o asm_basic("cset")
  \o asm_register("rd", X) \o asm_alu_imm("sbci", 1) \o asm_register("wr", X)
  \o asm_register("rd", Y) \o asm_alu_imm("sbci", 0) \o asm_register("wr", Y)
  \o asm_reljump("jc", 70, 50)

Return ==
  asm_mem("ld", MM_SP, 1) \o asm_register("wr", PH)
  \o asm_mem("ld", MM_SP, 0) \o asm_register("wr", PL)
  \o asm_mem("ld", MM_SP, 2) \o asm_basic("jp")

SaveAccAndY ==
  asm_mem("st", MM_SP, 0) \o asm_register("rd", Y) \o asm_mem("st", MM_SP, 1)
  \o asm_alu_imm("rdi", 0) \o asm_register("wr", Y) \o asm_register("rd", IO)
  \o asm_mem("ld", MM_SP, 1) \o asm_register("wr", Y)
  \o asm_mem("ld", MM_SP, 0) \o asm_basic("jxi")

MemcpyRom == Image(<< <<0, MainCode \o SaveAndFetch \o CopyLoop \o Return \o Data>>,
                      <<ISR_ADDR, SaveAccAndY>> >>)

MemcpyEnded == /\ mode = "halted" /\ RunsMemcpy
               /\ ForegroundPc(cpu) = 30
               /\ cpu.int_active => cpu.pc = ISR_ADDR

\* Once memcpy has returned and the program has run into its brk, the buffer
\* holds the data and the stack pointer is below the pushed argument again,
\* wherever the interrupts hit the copy.
CopiesData ==
  MemcpyEnded =>
    /\ \A i \in 1..Len(Data) :
         ReadCell(ram, (Buffer % ROM_SIZE) + i - 1) = Data[i]
    /\ cpu.sp = ToByte(StackTop - 5)

\* While memcpy runs, the return address it saved stays on its stack: a
\* handler's own stack accesses never reach the interrupted frame.
Frame == Pair(255, ToByte(StackTop - 5)) % ROM_SIZE
FrameKept == (RunsMemcpy /\ ForegroundPc(cpu) \in 39..72) =>
               <<ReadCell(ram, Frame), ReadCell(ram, Frame + 1)>> = <<28, 0>>

-----------------------------------------------------------------------------
MCPrograms == {SamplerRom(0), SamplerRom(1), MemcpyRom}
JustMemcpy == {MemcpyRom}
MCDisks == {NoDisk}

\* Both programs end, whatever is typed: no arrival of input keeps the machine
\* in handlers or leads it astray.
Finishes == <>(mode # "run")
=============================================================================
