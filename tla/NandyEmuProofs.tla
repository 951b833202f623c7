--------------------------- MODULE NandyEmuProofs ---------------------------
(***************************************************************************)
(* What the emulator keeps true of its interrupts, for every program, disk *)
(* and input.  The inductive invariant is TypeOK with IrqFollowsInput and  *)
(* NoMissedInterrupt; the action properties follow from it.  Then the same *)
(* of the emulator under its debugger, whose invariant is DInv: why it was *)
(* called, and what it left of the machine.                                *)
(***************************************************************************)
EXTENDS NandyDebug, CompactFlashProofs

(***************************************************************************)
(* The processor: every execute function leaves a register file of its C   *)
(* types, which of them touch the state of interrupts, and where they      *)
(* leave pc.                                                               *)
(***************************************************************************)
\* Two bytes make an address and an address is two bytes.
LEMMA PairType == \A h, l \in Byte : Pair(h, l) \in Addr
  BY ByteRange, AddrRange DEF Pair

LEMMA HalvesType == \A r \in Addr : Hi(r) \in Byte /\ Lo(r) \in Byte
  BY ByteRange, AddrRange DEF Hi, Lo

LEMMA ROMSize == ROM_SIZE \in Int /\ 0 < ROM_SIZE
  BY DEF ROM_SIZE

LEMMA PeekType ==
  ASSUME IsMemory(rom), IsMemory(ram), NEW a \in Addr
  PROVE  peek(a) \in Byte
  BY ByteRange DEF peek, ReadCell, IsMemory

-----------------------------------------------------------------------------
\* The state the instructions start from.
MachineOK == cpu \in Registers /\ IsMemory(rom) /\ IsMemory(ram)

\* What an execute function may do to the state of interrupts: a request for
\* the debugger stays and only brk makes one, the lines stay, and the return
\* address stays.
KeepsRequest(c) == /\ c.ints_in = cpu.ints_in
                   /\ cpu.idbg => c.idbg
                   /\ c.idbg => cpu.idbg \/ ilookup[ibyte] = "brk"
KeepsReturn(c)  == c.ia = cpu.ia /\ c.int_active = cpu.int_active
Executed(c) == c \in Registers /\ KeepsRequest(c) /\ KeepsReturn(c)

LEMMA FetchedType ==
  ASSUME MachineOK
  PROVE  /\ ibyte \in Byte /\ imm \in Byte
         /\ Executed(Fetched)
         /\ \A n \in Int : Executed(Past(n))
<1>0. cpu.pc \in Addr
  BY DEF MachineOK, Registers
<1>1. \A n \in Int : ToAddr(cpu.pc + n) \in Addr
  BY <1>0, Displaced
<1>2. ibyte \in Byte /\ imm \in Byte
  BY <1>0, <1>1, PeekType DEF MachineOK, ibyte, imm
<1>3. Executed(Fetched)
  BY DEF MachineOK, Fetched, Registers, Executed, KeepsRequest, KeepsReturn
<1>4. \A n \in Int : Executed(Past(n))
  BY <1>1, <1>3 DEF Past, Registers, Executed, KeepsRequest, KeepsReturn
<1> QED BY <1>2, <1>3, <1>4

\* Registers that may be changed without touching the state of interrupts.
LEMMA PcChanged ==
  ASSUME NEW c, Executed(c), NEW a \in Addr
  PROVE  Executed([c EXCEPT !.pc = a])
  BY DEF Executed, KeepsRequest, KeepsReturn, Registers

LEMMA PChanged ==
  ASSUME NEW c, Executed(c), NEW a \in Addr
  PROVE  Executed([c EXCEPT !.p = a])
  BY DEF Executed, KeepsRequest, KeepsReturn, Registers

LEMMA AccChanged ==
  ASSUME NEW c, Executed(c), NEW w \in Byte
  PROVE  Executed([c EXCEPT !.acc = w])
  BY DEF Executed, KeepsRequest, KeepsReturn, Registers

LEMMA CarryChanged ==
  ASSUME NEW c, Executed(c), NEW b \in BOOLEAN
  PROVE  Executed([c EXCEPT !.carry = b])
  BY DEF Executed, KeepsRequest, KeepsReturn, Registers
LEMMA ResultType ==
  ASSUME MachineOK, NEW n \in Int, NEW r \in AluResult
  PROVE  Executed(WithResult(n, r)) /\ Executed(WithAcc(n, r.word))
  BY FetchedType DEF WithResult, WithAcc, AluResult, Executed, KeepsRequest,
                     KeepsReturn, Registers
-----------------------------------------------------------------------------
(* The instructions, group by group.                                       *)

LEMMA AccType ==
  ASSUME MachineOK
  PROVE  /\ cpu.acc \in Byte /\ cpu.carry \in BOOLEAN
         /\ getALUReg \in Byte /\ imm \in Byte
  BY FetchedType DEF MachineOK, Registers, getALUReg

LEMMA WithAccExecuted ==
  ASSUME MachineOK, NEW n \in Int, NEW w \in Byte
  PROVE  Executed(WithAcc(n, w))
  BY FetchedType, AccChanged DEF WithAcc

LEMMA WithCarryExecuted ==
  ASSUME MachineOK, NEW b \in BOOLEAN
  PROVE  Executed(WithCarry(b))
  BY FetchedType, CarryChanged DEF WithCarry

LEMMA BitsExecuted ==
  ASSUME MachineOK
  PROVE  /\ Executed(exe_ipoll)
         /\ Executed(exe_or)  /\ Executed(exe_and)  /\ Executed(exe_xor)
         /\ Executed(exe_rdi) /\ Executed(exe_ori)
         /\ Executed(exe_andi) /\ Executed(exe_xori)
<1>1. Executed(exe_ipoll)
  BY ByteOfType, WithAccExecuted DEF exe_ipoll
<1>2. Executed(exe_or) /\ Executed(exe_and) /\ Executed(exe_xor)
  BY BitwiseType, WithAccExecuted DEF exe_or, exe_and, exe_xor
<1>3. Executed(exe_rdi)
  BY AccType, WithAccExecuted DEF exe_rdi
<1>4. Executed(exe_ori) /\ Executed(exe_andi) /\ Executed(exe_xori)
  BY BitwiseType, WithAccExecuted DEF exe_ori, exe_andi, exe_xori
<1> QED BY <1>1, <1>2, <1>3, <1>4

LEMMA ComparesExecuted ==
  ASSUME MachineOK
  PROVE  /\ Executed(exe_cclr) /\ Executed(exe_nzero) /\ Executed(exe_sgn)
         /\ Executed(exe_cset) /\ Executed(exe_nop)   /\ Executed(exe_ctog)
         /\ Executed(exe_zero) /\ Executed(exe_nsgn)
<1>1. Executed(exe_nop)
  BY FetchedType DEF exe_nop
<1>2. /\ cpu.carry \in BOOLEAN
      /\ HasBit(cpu.acc, 128) \in BOOLEAN
  BY AccType DEF HasBit
<1>3. /\ Executed(exe_cclr) /\ Executed(exe_cset) /\ Executed(exe_ctog)
      /\ Executed(exe_zero) /\ Executed(exe_nzero)
      /\ Executed(exe_sgn) /\ Executed(exe_nsgn)
  BY <1>2, WithCarryExecuted
     DEF exe_cclr, exe_cset, exe_ctog, exe_zero, exe_nzero, exe_sgn, exe_nsgn
<1> QED BY <1>1, <1>3

LEMMA SumsExecuted ==
  ASSUME MachineOK
  PROVE  /\ Executed(exe_add)  /\ Executed(exe_sub)
         /\ Executed(exe_addi) /\ Executed(exe_adci)
         /\ Executed(exe_subi) /\ Executed(exe_sbci)
<1>1. /\ alu_add(cpu.acc, getALUReg, FALSE) \in AluResult
      /\ alu_sub(cpu.acc, getALUReg, TRUE) \in AluResult
      /\ alu_add(cpu.acc, imm, FALSE) \in AluResult
      /\ alu_sub(cpu.acc, imm, TRUE) \in AluResult
      /\ alu_add(cpu.acc, imm, cpu.carry) \in AluResult
      /\ alu_sub(cpu.acc, imm, cpu.carry) \in AluResult
  BY AccType, AluType
<1>2. \A r \in AluResult : /\ Executed(WithAcc(1, r.word))
                           /\ Executed(WithAcc(2, r.word))
                           /\ Executed(WithResult(2, r))
  BY ResultType
<1>3. Executed(exe_add) /\ Executed(exe_sub)
  BY <1>1, <1>2, Zenon DEF exe_add, exe_sub
<1>4. Executed(exe_addi) /\ Executed(exe_subi)
  BY <1>1, <1>2, Zenon DEF exe_addi, exe_subi
<1>5. Executed(exe_adci) /\ Executed(exe_sbci)
  BY <1>1, <1>2, Zenon DEF exe_adci, exe_sbci
<1> QED BY <1>3, <1>4, <1>5

LEMMA ShiftsExecuted ==
  ASSUME MachineOK
  PROVE  /\ Executed(exe_sl) /\ Executed(exe_slc)
         /\ Executed(exe_sr) /\ Executed(exe_src)
<1>1. /\ alu_sl(cpu.acc, FALSE) \in AluResult
      /\ alu_sr(cpu.acc, FALSE) \in AluResult
      /\ alu_sl(cpu.acc, cpu.carry) \in AluResult
      /\ alu_sr(cpu.acc, cpu.carry) \in AluResult
  BY AccType, AluType
<1>2. \A r \in AluResult : /\ Executed(WithAcc(1, r.word))
                           /\ Executed(WithResult(1, r))
  BY ResultType
<1>3. Executed(exe_sl) /\ Executed(exe_sr)
  BY <1>1, <1>2, Zenon DEF exe_sl, exe_sr
<1>4. Executed(exe_slc) /\ Executed(exe_src)
  BY <1>1, <1>2, Zenon DEF exe_slc, exe_src
<1> QED BY <1>3, <1>4

LEMMA FlagsExecuted ==
  ASSUME MachineOK
  PROVE  /\ ilookup[ibyte] = "brk" => Executed(exe_brk)
         /\ Executed(exe_dint) /\ Executed(exe_eint)
<1>1. Executed(Past(1))
  BY FetchedType
<1> QED BY <1>1 DEF exe_brk, exe_dint, exe_eint,
                    Executed, KeepsRequest, KeepsReturn, Registers

LEMMA JumpsExecuted ==
  ASSUME MachineOK
  PROVE  /\ Executed(exe_jp) /\ Executed(exe_jpr)
         /\ Executed(exe_j) /\ Executed(exe_jr) /\ Executed(exe_jc)
<1>1. cpu.p \in Addr /\ cpu.pc \in Addr
  BY DEF MachineOK, Registers
<1>2. ToAddr(cpu.p + 1) \in Addr /\ ToAddr(cpu.pc + 1) \in Addr
  BY <1>1, Displaced
<1>3. Executed(exe_jp)
  BY <1>2, FetchedType, PcChanged DEF exe_jp
<1>4. Executed(exe_jpr)
  BY <1>1, <1>2, FetchedType, PcChanged, PChanged DEF exe_jpr
<1>5. offset_from_instr \in Int
  <2>1. JumpField \in Int
    <3>1. BitAnd(ibyte, IMMJ_MASK) \in Int /\ imm \in Int
      BY BitwiseType, FetchedType, ByteRange
    <3> QED BY <3>1 DEF JumpField
  <2>2. JumpField % 1024 \in Int
    BY <2>1
  <2> QED BY <2>2 DEF offset_from_instr, signExtend
<1>6. ToAddr(cpu.pc + offset_from_instr + 1) \in Addr
  <2>1. cpu.pc \in Int
    BY <1>1, AddrRange
  <2>2. cpu.pc + offset_from_instr + 1 \in Int
    BY <1>5, <2>1
  <2> QED BY <2>2, Truncated
<1>7. Executed(exe_j)
  BY <1>6, FetchedType, PcChanged DEF exe_j
<1>8. Executed(exe_jr)
  BY <1>2, <1>7, PChanged DEF exe_jr
<1>9. Executed(exe_jc)
  BY <1>7, FetchedType DEF exe_jc
<1> QED BY <1>3, <1>4, <1>7, <1>8, <1>9

\* A handler's return: the one instruction that moves the return address's
\* owner back to its place.
LEMMA ReturnExecuted ==
  ASSUME MachineOK
  PROVE  /\ exe_jxi \in Registers /\ KeepsRequest(exe_jxi)
         /\ exe_jxi.pc = ToAddr(cpu.ia + 1) /\ ~exe_jxi.int_active
<1>1. cpu.ia \in Addr
  BY DEF MachineOK, Registers
<1>2. ToAddr(cpu.ia + 1) \in Addr
  BY <1>1, Displaced
<1>3. Executed(Fetched)
  BY FetchedType
<1> QED BY <1>2, <1>3 DEF exe_jxi, Executed, KeepsRequest, Registers

LEMMA MovesExecuted ==
  ASSUME MachineOK
  PROVE  Executed(exe_rmove)
<1>1. /\ cpu.acc \in Byte /\ cpu.sp \in Byte /\ cpu.x \in Byte
      /\ cpu.y \in Byte /\ cpu.p \in Addr /\ cpu.q \in Addr
  BY DEF MachineOK, Registers
<1>2. \A r, old : old \in Byte => Moved(r, old) \in Byte
  BY <1>1 DEF Moved
<1>3. /\ Lo(cpu.p) \in Byte /\ Hi(cpu.p) \in Byte
      /\ Lo(cpu.q) \in Byte /\ Hi(cpu.q) \in Byte
  BY <1>1, HalvesType
<1>4. RegFile[RegId + 1] \in Byte
  <2>1. RegId \in 0..7
    <3>1. ibyte \in Int
      BY FetchedType, ByteRange
    <3> QED BY <3>1 DEF RegId
  <2> QED BY <1>1, <1>3, <2>1 DEF RegFile
<1>5. /\ Pair(Moved(5, Hi(cpu.p)), Moved(4, Lo(cpu.p))) \in Addr
      /\ Pair(Moved(7, Hi(cpu.q)), Moved(6, Lo(cpu.q))) \in Addr
  BY <1>2, <1>3, PairType
<1>6. /\ Past(1) = [cpu EXCEPT !.io_rd = FALSE, !.io_wr = FALSE,
                                !.pc = ToAddr(cpu.pc + 1)]
      /\ cpu \in Registers
  BY DEF Past, Fetched, MachineOK
<1>7. Executed(Past(1))
  BY FetchedType
<1>8. /\ Past(1).acc = cpu.acc /\ Past(1).sp = cpu.sp /\ Past(1).x = cpu.x
      /\ Past(1).y = cpu.y /\ Past(1).p = cpu.p /\ Past(1).q = cpu.q
  BY <1>6 DEF Registers
<1>9. /\ Moved(0, cpu.sp) \in Byte /\ Moved(2, cpu.x) \in Byte
      /\ Moved(3, cpu.y) \in Byte
  BY <1>1, <1>2
<1>10. (IF IsRead THEN RegFile[RegId + 1] ELSE cpu.acc) \in Byte
  BY <1>1, <1>4
<1>11. /\ (IsRead /\ RegId = REG_IO) \in BOOLEAN
       /\ (IsWrite /\ RegId = REG_IO) \in BOOLEAN
  OBVIOUS
<1>12. exe_rmove =
         [Past(1) EXCEPT
            !.acc = IF IsRead THEN RegFile[RegId + 1] ELSE cpu.acc,
            !.io_rd = IsRead /\ RegId = REG_IO,
            !.io_wr = IsWrite /\ RegId = REG_IO,
            !.sp = Moved(0, cpu.sp), !.x = Moved(2, cpu.x), !.y = Moved(3, cpu.y),
            !.p = Pair(Moved(5, Hi(cpu.p)), Moved(4, Lo(cpu.p))),
            !.q = Pair(Moved(7, Hi(cpu.q)), Moved(6, Lo(cpu.q)))]
  BY <1>8 DEF exe_rmove
<1> QED BY <1>5, <1>7, <1>9, <1>10, <1>11, <1>12
        DEF Executed, KeepsRequest, KeepsReturn, Registers
-----------------------------------------------------------------------------
(* Memory accesses.                                                        *)

LEMMA MemAddrType ==
  ASSUME MachineOK
  PROVE  getMemAddr \in Addr
<1>1. cpu.sp \in Byte /\ cpu.p \in Addr /\ cpu.q \in Addr
  BY DEF MachineOK, Registers
<1>2. imm4 \in Int
  <2>1. ibyte \in Int
    BY FetchedType, ByteRange
  <2> QED BY <2>1 DEF imm4
<1>3. MemMode \in {"stack", "q", "p", "+p"}
  <2>1. ibyte \in Int
    BY FetchedType, ByteRange
  <2>2. ModeField \in 0..3
    BY <2>1 DEF ModeField
  <2>3. CASE ModeField \in {0, 1}
    BY <2>3 DEF MemMode
  <2>4. CASE ModeField \in {2, 3}
    BY <2>4 DEF MemMode
  <2> QED BY <2>2, <2>3, <2>4
<1>4. Pair(StackPage, cpu.sp) \in Addr
  <2>1. StackPage \in Byte
    BY ByteRange DEF StackPage
  <2> QED BY <1>1, <2>1, PairType
<1>5. PICK a \in Addr : getMemAddr = ToAddr(imm4 + a)
  BY <1>1, <1>3, <1>4 DEF getMemAddr
<1>6. a \in Int /\ imm4 + a \in Int
  BY <1>2, AddrRange
<1> QED BY <1>5, <1>6, Truncated

LEMMA PokeType ==
  ASSUME IsMemory(ram), NEW a \in Addr, NEW w \in Byte
  PROVE  IsMemory(poke(a, w))
<1>1. a % ROM_SIZE \in Cell
  BY AddrRange, ROMSize DEF Cell
<1> QED BY <1>1 DEF IsMemory, poke, WriteCell

LEMMA MemoryExecuted ==
  ASSUME MachineOK
  PROVE  Executed(exe_ld) /\ Executed(exe_st) /\ IsMemory(StoredRam)
<1>1. getMemAddr \in Addr /\ peek(getMemAddr) \in Byte /\ cpu.acc \in Byte
  BY MemAddrType, PeekType DEF MachineOK, Registers
<1>2. Executed(Accessed)
  <2>1. Executed(Past(1))
    BY FetchedType
  <2>2. Past(1).p \in Addr
    BY <2>1 DEF Executed, Registers
  <2> QED BY <1>1, <2>1, <2>2, PChanged DEF Accessed
<1>3. Executed(exe_ld)
  BY <1>1, <1>2, AccChanged DEF exe_ld
<1>4. Executed(exe_st)
  BY <1>2 DEF exe_st
<1>5. IsMemory(StoredRam)
  BY <1>1, PokeType DEF MachineOK, StoredRam
<1> QED BY <1>3, <1>4, <1>5

-----------------------------------------------------------------------------
(* Where the instructions leave pc.                                        *)

MovesPast(c, n) == c.pc = ToAddr(cpu.pc + n)

LEMMA PastMoves ==
  ASSUME MachineOK, NEW n \in Int
  PROVE  /\ MovesPast(Past(n), n)
         /\ \A w : MovesPast(WithAcc(n, w), n)
         /\ \A r : MovesPast(WithResult(n, r), n)
<1>1. DOMAIN Past(n) = DOMAIN cpu /\ Past(n).pc = ToAddr(cpu.pc + n)
  BY DEF MachineOK, Past, Fetched, Registers
<1> QED BY <1>1 DEF MovesPast, WithAcc, WithResult

LEMMA OneByteMoves ==
  ASSUME MachineOK
  PROVE  /\ MovesPast(exe_rmove, 1)
         /\ MovesPast(exe_brk, 1) /\ MovesPast(exe_dint, 1) /\ MovesPast(exe_eint, 1)
         /\ MovesPast(exe_ipoll, 1) /\ MovesPast(exe_or, 1)
         /\ MovesPast(exe_and, 1) /\ MovesPast(exe_xor, 1)
         /\ MovesPast(exe_cclr, 1) /\ MovesPast(exe_nzero, 1) /\ MovesPast(exe_sgn, 1)
         /\ MovesPast(exe_cset, 1) /\ MovesPast(exe_nop, 1) /\ MovesPast(exe_ctog, 1)
         /\ MovesPast(exe_zero, 1) /\ MovesPast(exe_nsgn, 1)
         /\ MovesPast(exe_add, 1) /\ MovesPast(exe_sub, 1)
         /\ MovesPast(exe_sl, 1) /\ MovesPast(exe_slc, 1)
         /\ MovesPast(exe_sr, 1) /\ MovesPast(exe_src, 1)
         /\ MovesPast(exe_ld, 1) /\ MovesPast(exe_st, 1)
<1>1. /\ MovesPast(Past(1), 1)
      /\ \A w : MovesPast(WithAcc(1, w), 1)
      /\ \A r : MovesPast(WithResult(1, r), 1)
  BY PastMoves
<1>2. \A b : MovesPast(WithCarry(b), 1)
  BY <1>1 DEF WithCarry, MovesPast
<1>3. MovesPast(exe_rmove, 1)
  BY <1>1 DEF exe_rmove, MovesPast
<1>4. MovesPast(exe_brk, 1) /\ MovesPast(exe_dint, 1) /\ MovesPast(exe_eint, 1)
  BY <1>1 DEF exe_brk, exe_dint, exe_eint, MovesPast
<1>5. /\ MovesPast(exe_ipoll, 1) /\ MovesPast(exe_or, 1)
      /\ MovesPast(exe_and, 1) /\ MovesPast(exe_xor, 1)
  BY <1>1, Zenon DEF exe_ipoll, exe_or, exe_and, exe_xor
<1>6. /\ MovesPast(exe_cclr, 1) /\ MovesPast(exe_nzero, 1) /\ MovesPast(exe_sgn, 1)
      /\ MovesPast(exe_cset, 1) /\ MovesPast(exe_nop, 1) /\ MovesPast(exe_ctog, 1)
      /\ MovesPast(exe_zero, 1) /\ MovesPast(exe_nsgn, 1)
  BY <1>1, <1>2, Zenon
     DEF exe_cclr, exe_nzero, exe_sgn, exe_cset, exe_nop, exe_ctog, exe_zero, exe_nsgn
<1>7. /\ MovesPast(exe_add, 1) /\ MovesPast(exe_sub, 1)
      /\ MovesPast(exe_sl, 1) /\ MovesPast(exe_slc, 1)
      /\ MovesPast(exe_sr, 1) /\ MovesPast(exe_src, 1)
  BY <1>1, Zenon DEF exe_add, exe_sub, exe_sl, exe_slc, exe_sr, exe_src
<1>8. MovesPast(exe_ld, 1) /\ MovesPast(exe_st, 1)
  <2>1. MovesPast(Accessed, 1)
    BY <1>1 DEF Accessed, MovesPast
  <2> QED BY <2>1 DEF exe_ld, exe_st, MovesPast
<1> QED BY <1>3, <1>4, <1>5, <1>6, <1>7, <1>8

LEMMA TwoByteMoves ==
  ASSUME MachineOK
  PROVE  /\ MovesPast(exe_rdi, 2) /\ MovesPast(exe_ori, 2)
         /\ MovesPast(exe_andi, 2) /\ MovesPast(exe_xori, 2)
         /\ MovesPast(exe_addi, 2) /\ MovesPast(exe_adci, 2)
         /\ MovesPast(exe_subi, 2) /\ MovesPast(exe_sbci, 2)
<1>1. /\ \A w : MovesPast(WithAcc(2, w), 2)
      /\ \A r : MovesPast(WithResult(2, r), 2)
  BY PastMoves
<1> QED BY <1>1, Zenon DEF exe_rdi, exe_ori, exe_andi, exe_xori,
                           exe_addi, exe_adci, exe_subi, exe_sbci

\* The length of the instruction about to run.
LEMMA LengthHere ==
  ASSUME MachineOK
  PROVE  /\ ilookup[ibyte] \in OneByteEntries => nbytes(ibyte) = 1
         /\ ilookup[ibyte] \in ImmEntries => nbytes(ibyte) = 2
<1>1. ibyte \in Byte
  BY FetchedType
<1>2. \A m \in Mnemonics \ Shadowed : ilookup[ibyte] = m => ibyte \in Bytes(m)
  BY <1>1, OpcodeMap
<1>3. ilookup[ibyte] \notin Shadowed
  BY <1>1, ShadowedNeverRun
<1>4. /\ ilookup[ibyte] \in OneByteEntries
           => ilookup[ibyte] \notin ImmEntries \cup {"j", "jr", "jc", "jcr"}
      /\ OneByteEntries \subseteq Mnemonics /\ ImmEntries \subseteq Mnemonics
  BY DEF OneByteEntries, ImmEntries, Mnemonics
<1> QED BY <1>1, <1>2, <1>3, <1>4, LengthOf
-----------------------------------------------------------------------------
LEMMA TypesOfMachine ==
  ASSUME TypeOK
  PROVE  MachineOK
  BY DEF TypeOK, MachineOK

(***************************************************************************)
(* The console's turn.                                                     *)
(***************************************************************************)
LEMMA ConsoleServed ==
  ASSUME ConsoleTypeOK, NEW c \in Registers
  PROVE  /\ TtyAfter(c) \in TtyState
         /\ TtyCpu(c) \in Registers
         /\ \E a \in Byte : TtyCpu(c) = [c EXCEPT !.acc = a]
<1>1. Cooled \in 0..SERIAL_COOLDOWN
  BY CooldownAssumption DEF ConsoleTypeOK, TtyState, Cooled
<1>2. getc \in Byte
  <2>1. EOF_BYTE \in Byte
    BY ByteRange DEF EOF_BYTE
  <2>2. nread < Len(typed) => typed[nread + 1] \in Byte
    BY DEF ConsoleTypeOK
  <2> QED BY <2>1, <2>2 DEF getc
<1>3. Received \in TtyState
  <2>1. SERIAL_COOLDOWN \in 0..SERIAL_COOLDOWN
    BY CooldownAssumption
  <2> QED BY <1>1, <1>2, <2>1 DEF Received, TtyState, ConsoleTypeOK
<1>4. TtyAfter(c) \in TtyState
  BY <1>3 DEF TtyAfter, TtyState
<1>5. \E a \in Byte : TtyCpu(c) = [c EXCEPT !.acc = a]
  BY <1>3 DEF TtyCpu, TtyState, Registers
<1>6. TtyCpu(c) \in Registers
  BY <1>5 DEF Registers
<1> QED BY <1>4, <1>5, <1>6

LEMMA ConsoleStepType ==
  ASSUME ConsoleTypeOK, NEW c \in Registers, TtyStep(c)
  PROVE  ConsoleTypeOK'
<1>1. tty' \in TtyState
  BY ConsoleServed DEF TtyStep
<1>2. typed' = typed /\ eof' = eof
  BY DEF TtyStep
<1>3. nread' \in 0..Len(typed)
  BY DEF TtyStep, ConsoleTypeOK
<1>4. out' \in Seq(Byte)
  <2>1. TtyCpu(c).acc \in Byte
    BY ConsoleServed DEF Registers
  <2> QED BY <2>1 DEF TtyStep, ConsoleTypeOK
<1> QED BY <1>1, <1>2, <1>3, <1>4 DEF ConsoleTypeOK

(***************************************************************************)
(* The card's turn.                                                        *)
(***************************************************************************)
LEMMA CardServed ==
  ASSUME card \in Card, disk \in Disks, NEW c \in Registers,
         NEW wild \in Byte
  PROVE  /\ CfCpu(c, wild) \in Registers
         /\ \E a \in Byte : CfCpu(c, wild) = [c EXCEPT !.acc = a]
         /\ \A b \in Byte : CfAfter(c, b) \in Card
<1>1. c.acc \in Byte /\ c = [c EXCEPT !.acc = c.acc]
  BY DEF Registers
<1>2. CfReg(c) \in 0..7
  <2>1. c.y \in Int
    BY ByteRange DEF Registers
  <2> QED BY <2>1 DEF CfReg
<1>3. disk \in Seq(Byte)
  BY DiskAssumption
<1>4. ReadValue(card, disk, CfReg(c), c.acc, wild) \in Byte
  BY <1>1, <1>2, <1>3, ReadValueType
<1>5. \E a \in Byte : CfCpu(c, wild) = [c EXCEPT !.acc = a]
  BY <1>1, <1>4 DEF CfCpu
<1>6. CfCpu(c, wild) \in Registers
  BY <1>5 DEF Registers
<1>7. AfterRead(card, disk, CfReg(c)) \in Card
  BY AfterReadType
<1>8. \A b \in Byte : CfAfter(c, b) \in Card
  BY <1>2, <1>7, AfterWriteType DEF CfAfter
<1> QED BY <1>5, <1>6, <1>8

(***************************************************************************)
(* The interrupt lines and the interrupt test.                             *)
(***************************************************************************)
LineLevel(b) == IF b THEN TTY_LINE ELSE 0

\* With nothing but the console's line in the register, serving the lines
\* puts exactly the new level there.
LEMMA LinesServed ==
  ASSUME NEW c \in Registers, NEW old \in BOOLEAN, c.ints_in = LineLevel(old),
         NEW new \in BOOLEAN
  PROVE  WithLines(c, new) = [c EXCEPT !.ints_in = LineLevel(new)]
<1>1. BitsOf(0) = {} /\ BitsOf(1) = {1}
  BY DEF BitsOf, HasBit, Weights
<1>2. BitsOf(c.ints_in) \ {TTY_LINE, CF_LINE} = {}
  BY <1>1 DEF LineLevel, TTY_LINE
<1>3. ByteOf({}) = 0 /\ ByteOf({TTY_LINE}) = TTY_LINE
  BY DEF ByteOf, Part, TTY_LINE
<1>4. CASE new
  BY <1>2, <1>3, <1>4 DEF WithLines, LineLevel
<1>5. CASE ~new
  BY <1>2, <1>3, <1>5 DEF WithLines, LineLevel
<1> QED BY <1>4, <1>5

LEMMA IsrType == ISR_ADDR \in Addr
  BY AddrRange DEF ISR_ADDR

LEMMA InterruptTaken ==
  ASSUME NEW c \in Registers
  PROVE  /\ WithInterrupt(c) \in Registers
         /\ WithInterrupt(c).ints_in = c.ints_in
         /\ WithInterrupt(c).idbg = c.idbg
         /\ WithInterrupt(c).io_rd = c.io_rd /\ WithInterrupt(c).y = c.y
         /\ ~Interruptible(WithInterrupt(c))
         /\ ForegroundPc(WithInterrupt(c)) = ForegroundPc(c)
<1>1. c.pc \in Addr
  BY DEF Registers
<1>2. ToAddr(c.pc - 1) \in Addr /\ ToAddr(ToAddr(c.pc - 1) + 1) = c.pc
  BY <1>1, AddrRange DEF ToAddr
<1>3. CASE Interruptible(c)
  <2> DEFINE d == [c EXCEPT !.ia = ToAddr(c.pc - 1), !.pc = ISR_ADDR,
                            !.int_active = TRUE]
  <2>1. WithInterrupt(c) = d
    BY <1>3 DEF WithInterrupt
  <2>2. d \in Registers
    BY <1>2, IsrType DEF Registers
  <2>3. /\ d.ints_in = c.ints_in /\ d.idbg = c.idbg
        /\ d.io_rd = c.io_rd /\ d.y = c.y
        /\ d.int_active /\ d.ia = ToAddr(c.pc - 1)
    BY DEF Registers
  <2>4. ~c.int_active
    BY <1>3 DEF Interruptible
  <2> HIDE DEF d
  <2>5. ForegroundPc(d) = ForegroundPc(c)
    BY <1>2, <2>3, <2>4 DEF ForegroundPc
  <2>6. ~Interruptible(d)
    BY <2>3 DEF Interruptible
  <2> QED BY <2>1, <2>2, <2>3, <2>5, <2>6
<1>4. CASE ~Interruptible(c)
  BY <1>4 DEF WithInterrupt
<1> QED BY <1>3, <1>4

(***************************************************************************)
(* The rest of emu_step, for whatever the instruction did.                 *)
(***************************************************************************)
IInv == TypeOK /\ IrqFollowsInput /\ NoMissedInterrupt

LEMMA Retired ==
  ASSUME IInv, NEW regs \in Registers, KeepsRequest(regs),
         NEW m, IsMemory(m), Retire(regs, m)
  PROVE  /\ IInv'
         /\ ForegroundPc(cpu') = ForegroundPc(regs)
         /\ cpu.idbg => mode' # "run"
         /\ TtyStep(regs)
         /\ cpu'.io_rd = regs.io_rd /\ cpu'.y = regs.y
         /\ cpu'.idbg = regs.idbg /\ ~Interruptible(cpu')
         /\ mode' = AfterStep(cpu', card'.exited)
         /\ typed' = typed /\ rom' = rom
<1>1. PICK wild \in WildBytes :
        LET served == CfCpu(TtyCpu(regs), wild)
            done == WithInterrupt(WithLines(served, TtyLine(regs)))
        IN /\ ram' = m
           /\ TtyStep(regs)
           /\ card' = CfAfter(TtyCpu(regs), served.acc)
           /\ cpu' = done
           /\ mode' = AfterStep(done, card'.exited)
           /\ UNCHANGED <<rom, disk>>
  BY DEF Retire
<1> DEFINE served == CfCpu(TtyCpu(regs), wild)
           lined == WithLines(served, TtyLine(regs))
<1>2. wild \in Byte
  BY InputAssumption
<1>3. PICK a \in Byte : TtyCpu(regs) = [regs EXCEPT !.acc = a]
  BY ConsoleServed DEF IInv, TypeOK
<1>4. PICK b \in Byte : served = [TtyCpu(regs) EXCEPT !.acc = b]
  BY <1>2, CardServed, ConsoleServed DEF IInv, TypeOK
<1>5. served = [regs EXCEPT !.acc = b]
  BY <1>3, <1>4 DEF Registers
<1>6. /\ served \in Registers /\ served.ints_in = regs.ints_in
      /\ served.idbg = regs.idbg /\ ForegroundPc(served) = ForegroundPc(regs)
      /\ served.io_rd = regs.io_rd /\ served.y = regs.y /\ served.acc \in Byte
  BY <1>5 DEF Registers, ForegroundPc
<1>7. TtyAfter(regs) \in TtyState /\ TtyLine(regs) = TtyAfter(regs).input_available
  BY ConsoleServed DEF IInv, TypeOK, TtyLine
<1>8. lined = [served EXCEPT !.ints_in = LineLevel(TtyLine(regs))]
  <2>1. tty.input_available \in BOOLEAN /\ TtyLine(regs) \in BOOLEAN
    BY <1>7 DEF IInv, TypeOK, ConsoleTypeOK, TtyState
  <2>2. served.ints_in = LineLevel(tty.input_available)
    BY <1>6 DEF IInv, IrqFollowsInput, KeepsRequest, LineLevel
  <2> QED BY <1>6, <2>1, <2>2, LinesServed
<1>9. /\ lined \in Registers /\ lined.ints_in = LineLevel(TtyLine(regs))
      /\ lined.idbg = regs.idbg /\ ForegroundPc(lined) = ForegroundPc(regs)
      /\ lined.io_rd = regs.io_rd /\ lined.y = regs.y
  <2>1. LineLevel(TtyLine(regs)) \in Byte
    BY ByteRange DEF LineLevel, TTY_LINE
  <2> QED BY <1>6, <1>8, <2>1 DEF Registers, ForegroundPc
<1> HIDE DEF served, lined
<1>10. /\ cpu' = WithInterrupt(lined) /\ ram' = m /\ TtyStep(regs)
       /\ card' = CfAfter(TtyCpu(regs), served.acc)
       /\ mode' = AfterStep(cpu', card'.exited)
       /\ rom' = rom /\ disk' = disk
  BY <1>1 DEF served, lined
<1>11. /\ cpu' \in Registers /\ cpu'.ints_in = LineLevel(TtyLine(regs))
       /\ cpu'.idbg = regs.idbg /\ ~Interruptible(cpu')
       /\ ForegroundPc(cpu') = ForegroundPc(regs)
       /\ cpu'.io_rd = regs.io_rd /\ cpu'.y = regs.y
  BY <1>9, <1>10, InterruptTaken
<1>12. tty' = TtyAfter(regs)
  BY <1>10 DEF TtyStep
<1>13. card' \in Card
  <2>1. TtyCpu(regs) \in Registers
    BY ConsoleServed DEF IInv, TypeOK
  <2> QED BY <1>2, <1>6, <1>10, <2>1, CardServed DEF IInv, TypeOK
<1>14. mode' \in {"run", "halted", "exited"} /\ (cpu'.idbg => mode' # "run")
  BY <1>10 DEF AfterStep
<1>15. TypeOK'
  <2>1. ConsoleTypeOK'
    BY <1>10, ConsoleStepType DEF IInv, TypeOK
  <2>2. IsMemory(rom)' /\ IsMemory(ram)'
    BY <1>10 DEF IInv, TypeOK, IsMemory
  <2> QED BY <1>10, <1>11, <1>13, <1>14, <2>1, <2>2 DEF IInv, TypeOK
<1>16. IrqFollowsInput'
  BY <1>7, <1>11, <1>12 DEF IrqFollowsInput, LineLevel
<1>17. NoMissedInterrupt'
  BY <1>11 DEF NoMissedInterrupt
<1>18. cpu.idbg => mode' # "run"
  BY <1>11, <1>14 DEF KeepsRequest
<1>19. typed' = typed
  BY <1>10 DEF TtyStep
<1> QED BY <1>10, <1>19, <1>11, <1>15, <1>16, <1>17, <1>18 DEF IInv
-----------------------------------------------------------------------------
(* The steps.                                                              *)

\* What jxi leaves: the interrupted program in its place.
Returned(c) == /\ c \in Registers /\ KeepsRequest(c)
               /\ c.pc = ToAddr(cpu.ia + 1) /\ ~c.int_active

LEMMA InstructionRetired ==
  ASSUME IInv, emu_step
  PROVE  \/ Unknown
         \/ \E regs, m : /\ Executed(regs) \/ Returned(regs)
                        /\ IsMemory(m)
                        /\ Retire(regs, m)
<1>0. MachineOK /\ IsMemory(ram)
  BY TypesOfMachine DEF IInv, TypeOK
<1>1. CASE Moves
  BY <1>0, <1>1, MovesExecuted DEF Moves, Rd, Wr, Sw
<1>2. CASE Jumps
  BY <1>0, <1>2, JumpsExecuted, ReturnExecuted
     DEF Jumps, Jp, Jpr, Jxi, J, Jr, Jc, Returned
<1>3. CASE Flags
  BY <1>0, <1>3, FlagsExecuted DEF Flags, Brk, Dint, Eint, Runs
<1>4. CASE RegBit
  BY <1>0, <1>4, BitsExecuted DEF RegBit, Ipoll, Or, And, Xor
<1>5. CASE Compares
  BY <1>0, <1>5, ComparesExecuted
     DEF Compares, Cclr, Nop, Nzero, Sgn, Cset, Ctog, Zero, Nsgn
<1>6. CASE RegAlu
  BY <1>0, <1>6, SumsExecuted, ShiftsExecuted
     DEF RegAlu, Add, Sub, Sl, Slc, Sr, Src
<1>7. CASE Memory
  BY <1>0, <1>7, MemoryExecuted DEF Memory, Ld, St
<1>8. CASE ImmAlu
  BY <1>0, <1>8, BitsExecuted, SumsExecuted
     DEF ImmAlu, Rdi, Ori, Andi, Xori, Addi, Adci, Subi, Sbci
<1> QED BY <1>1, <1>2, <1>3, <1>4, <1>5, <1>6, <1>7, <1>8 DEF emu_step

\* Init establishes the invariant.
LEMMA InitInv ==
  ASSUME Init
  PROVE  IInv
<1>1. 0 \in Byte /\ 0 \in Addr
  BY ByteRange, AddrRange
<1>2. cpu \in Registers
  BY <1>1 DEF Init, INIT_STATE, Registers
<1>3. IsMemory(rom) /\ IsMemory(ram)
  BY ProgramsAssumption DEF Init, IsMemory
<1>4. ConsoleTypeOK
  <2>1. tty \in TtyState
    <3>1. 0 \in 0..SERIAL_COOLDOWN
      BY CooldownAssumption
    <3> QED BY <1>1, <3>1 DEF Init, TtyInit, TtyState
  <2>2. typed = <<>> /\ out = <<>> /\ nread = 0 /\ eof = FALSE
    BY DEF Init, TtyInit
  <2>3. <<>> \in Seq(Byte) /\ Len(<<>>) = 0
    OBVIOUS
  <2>4. nread \in 0..Len(typed)
    BY <2>2, <2>3
  <2> QED BY <2>1, <2>2, <2>3, <2>4 DEF ConsoleTypeOK
<1>5. TypeOK
  BY <1>2, <1>3, <1>4, InitType DEF Init, TypeOK
<1>6. IrqFollowsInput
  BY DEF Init, INIT_STATE, TtyInit, IrqFollowsInput
<1>7. NoMissedInterrupt
  BY DEF Init, INIT_STATE, NoMissedInterrupt, Interruptible
<1> QED BY <1>5, <1>6, <1>7 DEF IInv

\* The byte no instruction claims stops the machine as it is.
LEMMA UnknownInv ==
  ASSUME IInv, Unknown
  PROVE  IInv' /\ ForegroundPc(cpu') = ForegroundPc(cpu) /\ mode' # "run"
<1>1. Fetched \in Registers /\ KeepsRequest(Fetched) /\ KeepsReturn(Fetched)
  BY TypesOfMachine, FetchedType DEF IInv, Executed
<1>2. /\ cpu' = Fetched /\ mode' = "halted" /\ cpu'.ints_in = cpu.ints_in
      /\ UNCHANGED <<rom, ram, tty, typed, nread, eof, out, disk, card>>
  BY <1>1 DEF Unknown, KeepsRequest
<1>3. Fetched.pc = cpu.pc
  BY DEF Fetched, IInv, TypeOK, Registers
<1>4. TypeOK'
  BY <1>1, <1>2 DEF IInv, TypeOK, ConsoleTypeOK, IsMemory
<1>5. IrqFollowsInput' /\ NoMissedInterrupt'
  BY <1>2 DEF IInv, IrqFollowsInput, NoMissedInterrupt
<1>6. ForegroundPc(cpu') = ForegroundPc(cpu)
  BY <1>1, <1>2, <1>3 DEF ForegroundPc, KeepsReturn
<1> QED BY <1>2, <1>4, <1>5, <1>6 DEF IInv

\* The user's actions leave the machine alone but for the debug flag.
UserActs == UserTypes \/ InputEnds \/ onInterrupt

LEMMA UserInv ==
  ASSUME IInv, UserActs
  PROVE  IInv' /\ ForegroundPc(cpu') = ForegroundPc(cpu) /\ tty' = tty
<1>1. CASE UserTypes
  <2>1. PICK b \in InputBytes : Type(b)
    BY <1>1 DEF UserTypes
  <2>2. b \in Byte
    BY InputAssumption
  <2>3. ConsoleTypeOK'
    BY <2>1, <2>2 DEF IInv, TypeOK, ConsoleTypeOK, Type
  <2>4. /\ UNCHANGED <<cpu, rom, ram, disk, card, mode>> /\ tty' = tty
    BY <1>1, <2>1 DEF UserTypes, Type
  <2> QED BY <2>3, <2>4 DEF IInv, TypeOK, IsMemory, IrqFollowsInput,
                            NoMissedInterrupt, Interruptible, ForegroundPc
<1>2. CASE InputEnds
  <2>1. /\ UNCHANGED <<cpu, rom, ram, disk, card, mode, tty, typed, nread, out>>
        /\ eof' = TRUE
    BY <1>2 DEF InputEnds, CloseInput
  <2>2. ConsoleTypeOK'
    BY <2>1 DEF IInv, TypeOK, ConsoleTypeOK
  <2> QED BY <2>1, <2>2 DEF IInv, TypeOK, IsMemory, IrqFollowsInput,
                            NoMissedInterrupt, Interruptible, ForegroundPc
<1>3. CASE onInterrupt
  <2>1. /\ cpu' = [cpu EXCEPT !.idbg = TRUE]
        /\ UNCHANGED <<rom, ram, tty, typed, nread, eof, out, disk, card, mode>>
    BY <1>3 DEF onInterrupt
  <2>2. /\ cpu' \in Registers /\ cpu'.ints_in = cpu.ints_in
        /\ cpu'.int_en = cpu.int_en /\ cpu'.int_active = cpu.int_active
        /\ cpu'.ia = cpu.ia /\ cpu'.pc = cpu.pc
    BY <2>1 DEF IInv, TypeOK, Registers
  <2>3. TypeOK'
    BY <2>1, <2>2 DEF IInv, TypeOK, ConsoleTypeOK, IsMemory
  <2> QED BY <2>1, <2>2, <2>3 DEF IInv, IrqFollowsInput, NoMissedInterrupt,
                                  Interruptible, ForegroundPc
<1> QED BY <1>1, <1>2, <1>3 DEF UserActs
-----------------------------------------------------------------------------
(* The invariants.                                                         *)

LEMMA NextSplit ==
  ASSUME Next
  PROVE  emu_step \/ UserActs
  BY DEF Next, UserActs

\* Every step keeps the invariant.
LEMMA NextInv ==
  ASSUME IInv, [Next]_emuVars
  PROVE  IInv'
<1>1. CASE emu_step
  <2>1. CASE Unknown
    BY <2>1, UnknownInv
  <2>2. ASSUME NEW regs, NEW m, Executed(regs) \/ Returned(regs), IsMemory(m),
               Retire(regs, m)
        PROVE  IInv'
    <3>1. regs \in Registers /\ KeepsRequest(regs)
      BY <2>2 DEF Executed, Returned
    <3> QED BY <2>2, <3>1, Retired
  <2> QED BY <1>1, <2>1, <2>2, InstructionRetired
<1>2. CASE UserActs
  BY <1>2, UserInv
<1>3. CASE UNCHANGED emuVars
  BY <1>3 DEF emuVars, IInv, TypeOK, ConsoleTypeOK, IsMemory,
              IrqFollowsInput, NoMissedInterrupt, Interruptible
<1> QED BY <1>1, <1>2, <1>3, NextSplit

LEMMA Invariance == Spec => []IInv
<1>1. Init => IInv
  BY InitInv
<1>2. IInv /\ [Next]_emuVars => IInv'
  BY NextInv
<1> QED BY <1>1, <1>2, PTL DEF Spec

\* The registers, memories and devices keep the ranges of their C types, for
\* every program: no instruction leaves a register too wide, no device a
\* counter out of range (cpu_state_t, the static variables of both devices).
THEOREM TypeCorrect == Spec => []TypeOK
<1>1. IInv => TypeOK
  BY DEF IInv
<1> QED BY <1>1, Invariance, PTL

\* The interrupt register shows the console's input line between any two
\* steps, whatever the program does (emu_step after io_step_tty).
THEOREM LineMirrored == Spec => []IrqFollowsInput
<1>1. IInv => IrqFollowsInput
  BY DEF IInv
<1> QED BY <1>1, Invariance, PTL

\* No interrupt request is left waiting at the top of main's loop: the test
\* that ends emu_step has served it, or interrupts are off, or a handler runs.
THEOREM NothingMissed == Spec => []NoMissedInterrupt
<1>1. IInv => NoMissedInterrupt
  BY DEF IInv
<1> QED BY <1>1, Invariance, PTL
-----------------------------------------------------------------------------
(* The steps under the invariant.                                          *)

\* A handler never moves the point where the interrupted program continues,
\* through jxi, an interrupt taken in the very step of a jxi, an unknown byte
\* or a signal (exe_jxi, the interrupt test of emu_step).
THEOREM HandlersInvisible == Spec => HandlerInvisible
<1>1. ASSUME IInv, [Next]_emuVars, cpu.int_active
      PROVE  ForegroundPc(cpu') = ForegroundPc(cpu)
  <2>1. CASE emu_step
    <3>1. CASE Unknown
      BY <1>1, <3>1, UnknownInv
    <3>2. ASSUME NEW regs, NEW m, Executed(regs) \/ Returned(regs),
                 IsMemory(m), Retire(regs, m)
          PROVE  ForegroundPc(cpu') = ForegroundPc(cpu)
      <4>1. regs \in Registers /\ KeepsRequest(regs)
        BY <3>2 DEF Executed, Returned
      <4>2. ForegroundPc(cpu') = ForegroundPc(regs)
        BY <1>1, <3>2, <4>1, Retired
      <4>3. ForegroundPc(regs) = ForegroundPc(cpu)
        BY <1>1, <3>2 DEF Executed, KeepsReturn, Returned, ForegroundPc
      <4> QED BY <4>2, <4>3
    <3> QED BY <1>1, <2>1, <3>1, <3>2, InstructionRetired
  <2>2. CASE UserActs
    BY <1>1, <2>2, UserInv
  <2>3. CASE UNCHANGED emuVars
    BY <2>3 DEF emuVars
  <2> QED BY <1>1, <2>1, <2>2, <2>3, NextSplit
<1>2. IInv /\ [Next]_emuVars
      => [cpu.int_active => ForegroundPc(cpu') = ForegroundPc(cpu)]_emuVars
  BY <1>1
<1> QED BY <1>2, Invariance, PTL DEF Spec, HandlerInvisible

\* A step begun with the debug flag up leaves main's loop, in a handler or
\* not: no execute function, device or interrupt lowers the flag.
THEOREM SignalsStop == Spec => SignalStops
<1>1. ASSUME IInv, emu_step, cpu.idbg
      PROVE  mode' # "run"
  <2>1. CASE Unknown
    BY <1>1, <2>1, UnknownInv
  <2>2. ASSUME NEW regs, NEW m, Executed(regs) \/ Returned(regs), IsMemory(m),
               Retire(regs, m)
        PROVE  mode' # "run"
    <3>1. regs \in Registers /\ KeepsRequest(regs)
      BY <2>2 DEF Executed, Returned
    <3> QED BY <1>1, <2>2, <3>1, Retired
  <2> QED BY <1>1, <2>1, <2>2, InstructionRetired
<1>2. IInv /\ [Next]_emuVars => [(emu_step /\ cpu.idbg) => mode' # "run"]_emuVars
  BY <1>1
<1> QED BY <1>2, Invariance, PTL DEF Spec, SignalStops

\* What an instruction that is no jump leaves: pc past its bytes.
LEMMA StraightOn ==
  ASSUME IInv, emu_step, ilookup[ibyte] \notin JumpMnemonics \cup {Invalid}
  PROVE  \E regs, m : /\ Executed(regs) /\ MovesPast(regs, nbytes(ibyte))
                      /\ IsMemory(m) /\ Retire(regs, m)
<1> DEFINE Steps(regs, n) == /\ Executed(regs) /\ MovesPast(regs, n)
                             /\ nbytes(ibyte) = n
<1>0. MachineOK /\ IsMemory(ram)
  BY TypesOfMachine DEF IInv, TypeOK
<1>1. ASSUME NEW regs, NEW m, NEW n, Steps(regs, n), IsMemory(m), Retire(regs, m)
      PROVE  \E r, k : /\ Executed(r) /\ MovesPast(r, nbytes(ibyte))
                       /\ IsMemory(k) /\ Retire(r, k)
  BY <1>1
<1>2. CASE Moves
  <2>1. nbytes(ibyte) = 1 /\ Retire(exe_rmove, ram)
    BY <1>0, <1>2, LengthHere DEF Moves, Rd, Wr, Sw, Runs, OneByteEntries
  <2> QED BY <1>0, <1>1, <2>1, MovesExecuted, OneByteMoves
<1>3. CASE Flags
  <2>1. /\ nbytes(ibyte) = 1
        /\ \/ Retire(exe_brk, ram) /\ ilookup[ibyte] = "brk"
           \/ Retire(exe_dint, ram) \/ Retire(exe_eint, ram)
    BY <1>0, <1>3, LengthHere DEF Flags, Brk, Dint, Eint, Runs, OneByteEntries
  <2> QED BY <1>0, <1>1, <2>1, FlagsExecuted, OneByteMoves
<1>4. CASE RegBit
  <2>1. /\ nbytes(ibyte) = 1
        /\ \/ Retire(exe_ipoll, ram) \/ Retire(exe_or, ram)
           \/ Retire(exe_and, ram) \/ Retire(exe_xor, ram)
    BY <1>0, <1>4, LengthHere DEF RegBit, Ipoll, Or, And, Xor, Runs, OneByteEntries
  <2> QED BY <1>0, <1>1, <2>1, BitsExecuted, OneByteMoves
<1>5. CASE Compares
  <2>1. /\ nbytes(ibyte) = 1
        /\ \/ Retire(exe_cclr, ram) \/ Retire(exe_nop, ram)
           \/ Retire(exe_nzero, ram) \/ Retire(exe_sgn, ram)
           \/ Retire(exe_cset, ram) \/ Retire(exe_ctog, ram)
           \/ Retire(exe_zero, ram) \/ Retire(exe_nsgn, ram)
    BY <1>0, <1>5, LengthHere
       DEF Compares, Cclr, Nop, Nzero, Sgn, Cset, Ctog, Zero, Nsgn, Runs,
           OneByteEntries
  <2> QED BY <1>0, <1>1, <2>1, ComparesExecuted, OneByteMoves
<1>6. CASE RegAlu
  <2>1. /\ nbytes(ibyte) = 1
        /\ \/ Retire(exe_add, ram) \/ Retire(exe_sub, ram)
           \/ Retire(exe_sl, ram) \/ Retire(exe_slc, ram)
           \/ Retire(exe_sr, ram) \/ Retire(exe_src, ram)
    BY <1>0, <1>6, LengthHere
       DEF RegAlu, Add, Sub, Sl, Slc, Sr, Src, Runs, OneByteEntries
  <2> QED BY <1>0, <1>1, <2>1, SumsExecuted, ShiftsExecuted, OneByteMoves
<1>7. CASE Memory
  <2>1. /\ nbytes(ibyte) = 1
        /\ Retire(exe_ld, ram) \/ Retire(exe_st, StoredRam)
    BY <1>0, <1>7, LengthHere DEF Memory, Ld, St, Runs, OneByteEntries
  <2> QED BY <1>0, <1>1, <2>1, MemoryExecuted, OneByteMoves
<1>8. CASE ImmAlu
  <2>1. /\ nbytes(ibyte) = 2
        /\ \/ Retire(exe_rdi, ram) \/ Retire(exe_ori, ram)
           \/ Retire(exe_andi, ram) \/ Retire(exe_xori, ram)
           \/ Retire(exe_addi, ram) \/ Retire(exe_adci, ram)
           \/ Retire(exe_subi, ram) \/ Retire(exe_sbci, ram)
    BY <1>0, <1>8, LengthHere
       DEF ImmAlu, Rdi, Ori, Andi, Xori, Addi, Adci, Subi, Sbci, Runs, ImmEntries
  <2> QED BY <1>0, <1>1, <2>1, BitsExecuted, SumsExecuted, TwoByteMoves
<1>9. CASE Jumps \/ Unknown
  BY <1>9 DEF Jumps, Jp, Jpr, Jxi, J, Jr, Jc, Unknown, Runs, JumpMnemonics
<1> QED BY <1>2, <1>3, <1>4, <1>5, <1>6, <1>7, <1>8, <1>9 DEF emu_step

\* The program goes on at the address after the instruction, by the length
\* the decoder gives it, through any interrupt taken in between: every execute
\* function moves pc by nbytes of its own byte, and the interrupt test of
\* emu_step keeps the address a handler returns to.
THEOREM RunsStraight == Spec => FallsThrough
<1>1. ASSUME IInv, emu_step, ~cpu.int_active,
             ilookup[ibyte] \notin JumpMnemonics \cup {Invalid}
      PROVE  ForegroundPc(cpu') = ToAddr(cpu.pc + nbytes(ibyte))
  <2>1. PICK regs, m : /\ Executed(regs) /\ MovesPast(regs, nbytes(ibyte))
                       /\ IsMemory(m) /\ Retire(regs, m)
    BY <1>1, StraightOn
  <2>2. ForegroundPc(cpu') = ForegroundPc(regs)
    BY <1>1, <2>1, Retired DEF Executed
  <2>3. ~regs.int_active /\ regs.pc = ToAddr(cpu.pc + nbytes(ibyte))
    BY <1>1, <2>1 DEF Executed, KeepsReturn, MovesPast
  <2> QED BY <2>2, <2>3 DEF ForegroundPc
<1>2. IInv /\ [Next]_emuVars
      => [ emu_step /\ ~cpu.int_active
             /\ ilookup[ibyte] \notin JumpMnemonics \cup {Invalid}
           => ForegroundPc(cpu') = ToAddr(cpu.pc + nbytes(ibyte)) ]_emuVars
  BY <1>1
<1> QED BY <1>2, Invariance, PTL DEF Spec, FallsThrough

LEMMA OfferKept ==
  ASSUME IInv, NEW c, TtyStep(c), tty.input_available, ~TtyReads(c)
  PROVE  tty'.input_available /\ tty'.incoming_input = tty.incoming_input
<1>1. Received = [tty EXCEPT !.cooldown = Cooled]
  BY DEF Received, Receives
<1>2. tty' = [tty EXCEPT !.cooldown = Cooled]
  BY <1>1 DEF TtyStep, TtyAfter
<1> QED BY <1>2 DEF IInv, TypeOK, ConsoleTypeOK, TtyState

\* A byte on offer is neither replaced nor withdrawn until an instruction
\* reads it, however much is typed and however long the program takes
\* (io_step_tty polls stdin only while nothing is on offer).
THEOREM NothingOverrun == Spec => NoOverrun
<1> DEFINE Offered == tty'.input_available
                      /\ tty'.incoming_input = tty.incoming_input
           Untaken == tty.input_available
                      /\ ~(cpu'.io_rd /\ inbounds(TTY_BASE, cpu'.y))
<1>1. ASSUME IInv, [Next]_emuVars, Untaken
      PROVE  Offered
  <2>1. CASE emu_step
    <3>1. CASE Unknown
      BY <1>1, <3>1 DEF Unknown
    <3>2. ASSUME NEW regs, NEW m, Executed(regs) \/ Returned(regs),
                 IsMemory(m), Retire(regs, m)
          PROVE  Offered
      <4>1. regs \in Registers /\ KeepsRequest(regs)
        BY <3>2 DEF Executed, Returned
      <4>2. TtyStep(regs) /\ cpu'.io_rd = regs.io_rd /\ cpu'.y = regs.y
        BY <1>1, <3>2, <4>1, Retired
      <4>3. ~TtyReads(regs)
        BY <1>1, <4>2 DEF TtyReads
      <4> QED BY <1>1, <4>2, <4>3, OfferKept
    <3> QED BY <1>1, <2>1, <3>1, <3>2, InstructionRetired
  <2>2. CASE UserActs
    BY <1>1, <2>2, UserInv
  <2>3. CASE UNCHANGED emuVars
    BY <1>1, <2>3 DEF emuVars
  <2> QED BY <1>1, <2>1, <2>2, <2>3, NextSplit
<1>2. IInv /\ [Next]_emuVars => [Untaken => Offered]_emuVars
  BY <1>1
<1> QED BY <1>2, Invariance, PTL DEF Spec, NoOverrun
-----------------------------------------------------------------------------
(* The byte on offer.                                                      *)

\* A step of the console offers what it has just taken, or keeps its offer.
LEMMA StepOffers ==
  ASSUME IInv, OffersLatest, NEW c, TtyStep(c)
  PROVE  OffersLatest'
<1>1. CASE tty.input_available
  BY <1>1, OfferKept DEF OffersLatest, TtyStep, TtyAfter, Receives, TtyState,
                         IInv, TypeOK, ConsoleTypeOK
<1>2. CASE Receives /\ nread < Len(typed)
  <2>1. Received.incoming_input = typed[nread + 1]
    BY <1>2 DEF Received, getc
  <2>2. nread' = nread + 1 /\ typed' = typed /\ nread + 1 > 0
    BY <1>2 DEF TtyStep, IInv, TypeOK, ConsoleTypeOK
  <2>3. tty'.incoming_input = Received.incoming_input
    BY <1>2 DEF TtyStep, TtyAfter, Received
  <2> QED BY <2>1, <2>2, <2>3 DEF OffersLatest
<1>3. CASE Receives /\ ~(nread < Len(typed))
  <2>1. eof /\ nread = Len(typed) /\ Received.incoming_input = EOF_BYTE
    BY <1>3 DEF Receives, stdinAvail, Received, getc, IInv, TypeOK, ConsoleTypeOK
  <2>2. tty'.incoming_input = Received.incoming_input
    BY <1>3 DEF TtyStep, TtyAfter, Received
  <2> QED BY <1>3, <2>1, <2>2 DEF OffersLatest, TtyStep
<1>4. CASE ~tty.input_available /\ ~Receives
  <2>1. ~Received.input_available
    BY <1>4 DEF Received, IInv, TypeOK, ConsoleTypeOK, TtyState
  <2>2. ~tty'.input_available
    BY <2>1 DEF TtyStep, TtyAfter, Received, TtyState, IInv, TypeOK, ConsoleTypeOK
  <2> QED BY <2>2 DEF OffersLatest
<1> QED BY <1>1, <1>2, <1>3, <1>4

\* Typing appends behind the bytes already taken, and needs an open input.
LEMMA TypedOffers ==
  ASSUME IInv, OffersLatest, UserActs
  PROVE  OffersLatest'
<1>1. CASE UserTypes
  <2>1. PICK b \in InputBytes : Type(b)
    BY <1>1 DEF UserTypes
  <2>2. \A i \in 1..Len(typed) : typed'[i] = typed[i]
    BY <2>1 DEF Type, IInv, TypeOK, ConsoleTypeOK
  <2>3. nread > 0 => nread \in 1..Len(typed)
    BY DEF IInv, TypeOK, ConsoleTypeOK
  <2>4. tty' = tty /\ nread' = nread /\ ~eof
    BY <2>1 DEF Type
  <2> QED BY <2>2, <2>3, <2>4 DEF OffersLatest
<1>2. CASE InputEnds
  BY <1>2 DEF InputEnds, CloseInput, OffersLatest
<1>3. CASE onInterrupt
  BY <1>3 DEF onInterrupt, OffersLatest
<1> QED BY <1>1, <1>2, <1>3 DEF UserActs

\* The console offers the bytes of stdin one by one in the order typed, then
\* the end-of-file byte, for every program (io_step_tty, getc).
THEOREM LatestOffered == Spec => []OffersLatest
<1>1. Init => OffersLatest
  BY DEF Init, TtyInit, OffersLatest
<1>2. ASSUME IInv, OffersLatest, [Next]_emuVars
      PROVE  OffersLatest'
  <2>1. CASE emu_step
    <3>1. CASE Unknown
      BY <1>2, <3>1 DEF Unknown, OffersLatest
    <3>2. ASSUME NEW regs, NEW m, Executed(regs) \/ Returned(regs),
                 IsMemory(m), Retire(regs, m)
          PROVE  OffersLatest'
      <4>1. regs \in Registers /\ KeepsRequest(regs)
        BY <3>2 DEF Executed, Returned
      <4>2. TtyStep(regs)
        BY <1>2, <3>2, <4>1, Retired
      <4> QED BY <1>2, <4>2, StepOffers
    <3> QED BY <1>2, <2>1, <3>1, <3>2, InstructionRetired
  <2>2. CASE UserActs
    BY <1>2, <2>2, TypedOffers
  <2>3. CASE UNCHANGED emuVars
    BY <1>2, <2>3 DEF emuVars, OffersLatest
  <2> QED BY <1>2, <2>1, <2>2, <2>3, NextSplit
<1>3. IInv /\ OffersLatest /\ [Next]_emuVars => OffersLatest'
  BY <1>2
<1> QED BY <1>1, <1>3, Invariance, PTL DEF Spec

-----------------------------------------------------------------------------
(* The debugger: the rows of printDebug.                                   *)

LEMMA LengthType == \A b : nbytes(b) \in {1, 2}
  BY DEF nbytes

\* One row up and one row down.
TwoBack(before, a) == Cached(a - 2, before) /\ nbytes(peek(ToAddr(a - 2))) = 2
Up(before, n, b) ==
  IF b.pos = 1 - n /\ (TwoBack(before, b.pc) \/ Cached(b.pc - 1, before))
  THEN [pc |-> ToAddr(b.pc - (IF TwoBack(before, b.pc) THEN 2 ELSE 1)), pos |-> -n] ELSE b
Below(a) == ToAddr(a + IF a \in cache THEN nbytes(peek(a)) ELSE 1)

Rows == [pc : Addr, pos : -4..0]
PcOf == [pc |-> cpu.pc, pos |-> 0]

LEMMA UpType ==
  ASSUME NEW before, NEW n \in 1..4, NEW b \in Rows
  PROVE  Up(before, n, b) \in Rows
<1>1. b.pc \in Addr /\ -n \in -4..0
  BY DEF Rows
<1>2. ToAddr(b.pc - 2) \in Addr /\ ToAddr(b.pc - 1) \in Addr
  BY <1>1, AddrRange DEF ToAddr
<1> QED BY <1>1, <1>2 DEF Up, Rows

LEMMA BelowType ==
  ASSUME NEW a \in Addr
  PROVE  Below(a) \in Addr
<1>1. nbytes(peek(a)) \in Int
  BY LengthType
<1> QED BY <1>1, Displaced DEF Below

\* The way up.
Climbs(f, before) == /\ f \in [0..4 -> Rows] /\ f[0] = PcOf
                     /\ \A n \in 1..4 : f[n] = Up(before, n, f[n - 1])

LEMMA BackIs ==
  ASSUME cpu.pc \in Addr, NEW before
  PROVE  \E f : Climbs(f, before) /\ Back(before) = f[4]
<1> DEFINE step == [p \in Nat \X Rows |-> IF p[1] \in 1..4 THEN Up(before, p[1], p[2]) ELSE p[2]]
           body(f) == [n \in 0..4 |-> IF n = 0 THEN PcOf ELSE Up(before, n, f[n - 1])]
           back == CHOOSE f : f = body(f)
<1>1. PcOf \in Rows
  BY DEF PcOf, Rows
<1>2. step \in [Nat \X Rows -> Rows]
  BY UpType
<1>3. PICK g \in [0..4 -> Rows] : Iteration(g, PcOf, step, 4)
  <2> HIDE DEF step
  <2> QED BY <1>1, <1>2, Iterated
<1>4. ASSUME NEW n \in 1..4 PROVE g[n] = Up(before, n, g[n - 1])
  <2>1. g[n - 1] \in Rows /\ n \in Nat
    OBVIOUS
  <2> QED BY <1>3, <2>1 DEF Iteration
<1>5. g = body(g)
  BY <1>3, <1>4 DEF Iteration
<1>6. back = body(back)
  <2> HIDE DEF body
  <2> QED BY <1>5, Zenon
<1>7. Back(before) = back[4]
  BY DEF Back, Up, TwoBack, PcOf
<1> HIDE DEF back
<1>8. back[0] = PcOf /\ \A n \in 1..4 : back[n] = Up(before, n, back[n - 1])
  BY <1>6
<1>9. /\ back[0] \in Rows /\ back[1] \in Rows /\ back[2] \in Rows /\ back[3] \in Rows
      /\ back[4] \in Rows
  <2>1. back[0] \in Rows
    BY <1>1, <1>8
  <2>2. back[1] \in Rows
    BY <1>8, <2>1, UpType
  <2>3. back[2] \in Rows
    BY <1>8, <2>2, UpType
  <2>4. back[3] \in Rows
    BY <1>8, <2>3, UpType
  <2>5. back[4] \in Rows
    BY <1>8, <2>4, UpType
  <2> QED BY <2>1, <2>2, <2>3, <2>4, <2>5
<1>10. back \in [0..4 -> Rows]
  <2>1. \A n \in 0..4 : back[n] \in Rows
    BY <1>9
  <2>2. back = [n \in 0..4 |-> back[n]]
    BY <1>6
  <2> QED BY <2>1, <2>2
<1> QED BY <1>7, <1>8, <1>10 DEF Climbs

\* The way down.
Falls(d, b) == /\ d[b.pos] = b.pc
               /\ \A n \in (b.pos + 1)..0 : d[n] = Below(d[n - 1])

LEMMA RowIs ==
  ASSUME NEW b \in Rows
  PROVE  \E d : Falls(d, b) /\ PcRow(b) = d[0] /\ d[0] \in Addr
<1> DEFINE step == [p \in Nat \X Addr |-> Below(p[2])]
           body(f) == [n \in b.pos..0 |-> IF n = b.pos THEN b.pc ELSE Below(f[n - 1])]
           down == CHOOSE f : f = body(f)
           N == 0 - b.pos
<1>1. b.pc \in Addr /\ b.pos \in -4..0 /\ N \in Nat
  BY DEF Rows
<1>2. step \in [Nat \X Addr -> Addr]
  BY BelowType
<1>3. PICK g \in [0..N -> Addr] : Iteration(g, b.pc, step, N)
  <2> HIDE DEF step, N
  <2> QED BY <1>1, <1>2, Iterated
<1> DEFINE h == [n \in b.pos..0 |-> g[n - b.pos]]
<1>4. h = body(h)
  <2>1. ASSUME NEW n \in b.pos..0, n # b.pos PROVE g[n - b.pos] = Below(g[(n - 1) - b.pos])
    <3> DEFINE k == n - b.pos
    <3>1. k \in 1..N /\ k - 1 = (n - 1) - b.pos /\ k \in Nat
      BY <1>1, <2>1
    <3> HIDE DEF k, N
    <3>2. g[k - 1] \in Addr
      BY <1>1, <3>1
    <3>3. g[k] = Below(g[k - 1])
      BY <1>3, <3>1, <3>2 DEF Iteration
    <3> QED BY <3>1, <3>3 DEF k
  <2>2. g[b.pos - b.pos] = b.pc
    BY <1>1, <1>3 DEF Iteration
  <2>3. \A n \in b.pos..0 : n # b.pos => n - 1 \in b.pos..0
    BY <1>1
  <2> QED BY <2>1, <2>2, <2>3
<1>5. down = body(down)
  <2> HIDE DEF body, h
  <2> QED BY <1>4, Zenon
<1>6. PcRow(b) = down[0]
  BY DEF PcRow, Below
<1> HIDE DEF down
<1>7. Falls(down, b)
  <2>1. b.pos \in b.pos..0 /\ \A n \in (b.pos + 1)..0 : n \in b.pos..0 /\ n # b.pos
    BY <1>1
  <2> QED BY <1>5, <2>1 DEF Falls
<1>8. down[0] \in Addr
  <2>1. /\ b.pos \in -4..0
        /\ \A n \in (b.pos + 1)..0 : down[n - 1] \in Addr => down[n] \in Addr
    BY <1>1, <1>7, BelowType DEF Falls
  <2>2. down[b.pos] \in Addr
    BY <1>1, <1>7 DEF Falls
  <2>3. b.pos = 0 \/ down[b.pos + 1] \in Addr
    <3>1. b.pos # 0 => b.pos + 1 \in (b.pos + 1)..0 /\ (b.pos + 1) - 1 = b.pos
      BY <2>1
    <3> QED BY <2>1, <2>2, <3>1
  <2>4. b.pos >= -1 \/ down[b.pos + 2] \in Addr
    <3>1. b.pos < -1 => b.pos + 2 \in (b.pos + 1)..0 /\ (b.pos + 2) - 1 = b.pos + 1 /\ b.pos # 0
      BY <2>1
    <3> QED BY <2>1, <2>3, <3>1
  <2>5. b.pos >= -2 \/ down[b.pos + 3] \in Addr
    <3>1. b.pos < -2 => b.pos + 3 \in (b.pos + 1)..0 /\ (b.pos + 3) - 1 = b.pos + 2 /\ ~(b.pos >= -1)
      BY <2>1
    <3> QED BY <2>1, <2>4, <3>1
  <2>6. b.pos >= -3 \/ down[b.pos + 4] \in Addr
    <3>1. b.pos < -3 => b.pos + 4 \in (b.pos + 1)..0 /\ (b.pos + 4) - 1 = b.pos + 3 /\ ~(b.pos >= -2)
      BY <2>1
    <3> QED BY <2>1, <2>5, <3>1
  <2>7. \/ b.pos = 0 \/ b.pos = -1 \/ b.pos = -2 \/ b.pos = -3 \/ b.pos = -4
    BY <2>1
  <2> QED BY <2>2, <2>3, <2>4, <2>5, <2>6, <2>7
<1> QED BY <1>6, <1>7, <1>8

-----------------------------------------------------------------------------
(* The debugger's lines and commands.                                      *)

LEMMA FirstType ==
  ASSUME NEW s \in Seq(Byte), NEW S
  PROVE  First(s, S) \in 0..Len(s)
<1> DEFINE I == {i \in 1..Len(s) : s[i] \in S}
<1>1. First(s, S) = IF I # {} THEN Min(I) ELSE 0
  BY DEF First, SelectInSeq
<1>2. CASE I # {}
  <2>1. I \in SUBSET Nat /\ I \subseteq 1..Len(s)
    OBVIOUS
  <2>2. \E n \in I : \A m \in I : n <= m
    BY <1>2, <2>1, NatMin
  <2> HIDE DEF I
  <2>3. Min(I) \in I
    BY <2>2 DEF Min
  <2>4. First(s, S) \in 1..Len(s)
    BY <1>1, <1>2, <2>1, <2>3
  <2> QED BY <2>4
<1>3. CASE I = {}
  BY <1>1, <1>3
<1> QED BY <1>2, <1>3

\* A line is taken from what is left of the input.
LEMMA LineTaken ==
  ASSUME ConsoleTypeOK
  PROVE  Len(NextLine) \in Nat /\ nread + Len(NextLine) \in 0..Len(typed)
<1>1. typed \in Seq(Byte) /\ nread \in 0..Len(typed) /\ Len(typed) \in Nat
  BY DEF ConsoleTypeOK
<1>2. Unread \in Seq(Byte) /\ Len(Unread) = Len(typed) - nread
  BY <1>1 DEF Unread
<1> DEFINE n == First(Unread, {NL})
<1>3. n \in 0..Len(Unread)
  BY <1>2, FirstType
<1> HIDE DEF n
<1>4. Len(SubSeq(Unread, 1, n)) = n
  BY <1>2, <1>3
<1>5. Len(NextLine) = n
  BY <1>4 DEF NextLine, n
<1> QED BY <1>1, <1>2, <1>3, <1>5

Places == {"top", "loop", "bottom", "done"}

\* Where the debugger is called from, and with which options.
Called == /\ flags \subseteq {"g", "G"} /\ at \in Places
          /\ row \in Addr \cup {None}
          /\ at = "bottom" => "g" \in flags
          /\ at = "top" => "G" \in flags

\* A second call of debug without an instruction between is the one at the top
\* after the one at the bottom; a prompt is that of the call it stands in.
CalledTwice ==
  /\ at \in {"top", "bottom"} /\ row = None /\ shown # "none"
       => flags = {"g", "G"} /\ shown = "bottom" /\ at = "top"
  /\ row # None => at \in {"top", "bottom"} /\ shown = at

\* While the machine runs, its debug flag is up only if the user asked.
StopAsked == asked \in BOOLEAN /\ (at = "loop" /\ cpu.idbg => asked)

\* What the debugger keeps of the machine: that no request waits in any mode,
\* where NoMissedInterrupt says so of a running machine only, since a command
\* sets a stopped machine running again.
Stoppable == TypeOK /\ IrqFollowsInput /\ ~Interruptible(cpu)

DInv == Stoppable /\ Called /\ CalledTwice /\ StopAsked

LEMMA DebugInitInv ==
  ASSUME DebugInit
  PROVE  DInv
<1>1. Init
  BY DEF DebugInit
<1>2. IInv
  BY <1>1, InitInv
<1>3. ~Interruptible(cpu)
  BY <1>1 DEF Init, INIT_STATE, Interruptible
<1>4. Called /\ CalledTwice
  BY OptionsAssumption DEF DebugInit, Called, CalledTwice, Places
<1>5. StopAsked
  <2>1. asked \in BOOLEAN
    BY DEF DebugInit
  <2>2. ~cpu.idbg
    BY <1>1 DEF Init, INIT_STATE
  <2> QED BY <2>1, <2>2 DEF StopAsked
<1> QED BY <1>2, <1>3, <1>4, <1>5 DEF DInv, Stoppable, IInv

\* One step of the emulator, whoever runs it.
LEMMA EmuStepped ==
  ASSUME Stoppable, emu_step
  PROVE  /\ Stoppable'
         /\ mode' \in {"run", "halted", "exited"}
         /\ mode' = "run" => ~cpu'.idbg
         /\ mode' # "run"
              => card'.exited \/ cpu.idbg \/ ilookup[ibyte] \in {"brk", Invalid}
<1>1. IInv
  BY DEF Stoppable, IInv, NoMissedInterrupt
<1>2. CASE Unknown
  <2>1. IInv' /\ mode' = "halted" /\ ilookup[ibyte] = Invalid /\ cpu' = Fetched
    BY <1>1, <1>2, UnknownInv DEF Unknown, Runs
  <2>2. ~Interruptible(cpu')
    BY <2>1, <1>1 DEF Stoppable, Fetched, Interruptible, TypeOK, Registers
  <2> QED BY <2>1, <2>2 DEF Stoppable, IInv
<1>3. ASSUME NEW regs, NEW m, Executed(regs) \/ Returned(regs), IsMemory(m), Retire(regs, m)
      PROVE  /\ Stoppable'
             /\ mode' \in {"run", "halted", "exited"}
             /\ mode' = "run" => ~cpu'.idbg
             /\ mode' # "run" => card'.exited \/ cpu.idbg \/ ilookup[ibyte] = "brk"
  <2>1. regs \in Registers /\ KeepsRequest(regs)
    BY <1>3 DEF Executed, Returned
  <2>2. /\ IInv' /\ ~Interruptible(cpu') /\ cpu'.idbg = regs.idbg
        /\ mode' = AfterStep(cpu', card'.exited)
    BY <1>1, <1>3, <2>1, Retired
  <2>3. card'.exited \in BOOLEAN /\ cpu'.idbg \in BOOLEAN /\ cpu.idbg \in BOOLEAN
    BY <1>1, <2>2 DEF IInv, TypeOK, Card, Registers
  <2> QED BY <2>1, <2>2, <2>3 DEF Stoppable, IInv, AfterStep, KeepsRequest, TypeOK
<1> QED BY <1>1, <1>2, <1>3, InstructionRetired

\* A command works on the registers c, which differ from cpu at most in the
\* debug flag, and changes pc, the debug flag and the memory.
Same(c) == c \in Registers /\ c.ints_in = cpu.ints_in /\ c.int_en = cpu.int_en
           /\ c.int_active = cpu.int_active

\* Where a command leaves the debugger: at its prompt, at the end, or back in
\* main, with the debug flag up only after a `step`.
LEMMA CommandObeyed ==
  ASSUME IsMemory(ram), NEW c, Same(c), asked \in BOOLEAN, NEW input, Obey(c, input)
  PROVE  /\ Same(cpu') /\ IsMemory(ram') /\ asked' \in BOOLEAN
         /\ \/ at' = "done" /\ row' = None /\ mode' = mode
            \/ at' = at /\ row' = row /\ mode' = mode
            \/ Leave /\ (cpu'.idbg => asked')
<1>1. CASE Quit(c, input)
  BY <1>1 DEF Quit
<1>2. CASE Step(c, input)
  BY <1>2 DEF Step, Same, Registers
<1>3. CASE Continue(c, input)
  BY <1>3 DEF Continue, Same, Registers
<1>4. CASE Goto(c, input)
  <2>1. PICK a : cpu' = IF a \in Addr THEN [c EXCEPT !.pc = a] ELSE c
    BY <1>4 DEF Goto
  <2>2. Same(cpu')
    BY <2>1 DEF Same, Registers
  <2> QED BY <1>4, <2>2 DEF Goto, Stay
<1>5. CASE Poke(c, input)
  <2>1. \E a, v : ram' = ram \/ (a \in Addr /\ v \in Byte /\ ram' = poke(a, v))
    BY <1>5 DEF Poke
  <2>2. IsMemory(ram')
    BY <2>1, PokeType
  <2> QED BY <1>5, <2>2 DEF Poke, Stay
<1>6. CASE Other(c, input)
  BY <1>6 DEF Other, Stay
<1> QED BY <1>1, <1>2, <1>3, <1>4, <1>5, <1>6 DEF Obey

-----------------------------------------------------------------------------
(* The debugger's steps.                                                   *)

LEMMA SameStoppable ==
  ASSUME Stoppable, Same(cpu'), IsMemory(ram'), UNCHANGED machine,
         nread' \in 0..Len(typed), mode' \in {mode, "run"}
  PROVE  Stoppable'
<1>1. /\ rom' = rom /\ tty' = tty /\ typed' = typed /\ eof' = eof /\ out' = out
      /\ disk' = disk /\ card' = card
  BY DEF machine
<1>2. TypeOK'
  BY <1>1 DEF Stoppable, TypeOK, ConsoleTypeOK, Same, IsMemory
<1>3. IrqFollowsInput' /\ ~Interruptible(cpu')
  BY <1>1 DEF Stoppable, IrqFollowsInput, Interruptible, Same
<1> QED BY <1>2, <1>3 DEF Stoppable

LEMMA ObeyedInv ==
  ASSUME DInv, AtPrompt, NEW c, Same(c), NEW input, Obeyed(c, input),
         nread' \in 0..Len(typed)
  PROVE  DInv'
<1>1. /\ Same(cpu') /\ IsMemory(ram') /\ asked' \in BOOLEAN
      /\ \/ at' = "done" /\ row' = None /\ mode' = mode
         \/ at' = at /\ row' = row /\ mode' = mode
         \/ Leave /\ (cpu'.idbg => asked')
  BY CommandObeyed DEF Obeyed, DInv, Stoppable, TypeOK, StopAsked
<1>2. UNCHANGED machine /\ flags' = flags /\ shown' = shown
  BY DEF Obeyed
<1>3. Stoppable'
  BY <1>1, <1>2, SameStoppable DEF DInv, Leave
<1>4. at \in {"top", "bottom"} /\ row # None
  BY DEF AtPrompt
<1>5. CASE at' = "done" /\ row' = None
  BY <1>1, <1>2, <1>3, <1>5 DEF DInv, Called, CalledTwice, StopAsked, Places
<1>6. CASE at' = at /\ row' = row
  BY <1>1, <1>2, <1>3, <1>4, <1>6 DEF DInv, Called, CalledTwice, StopAsked, Places
<1>7. CASE Leave /\ (cpu'.idbg => asked')
  <2>1. Called'
    BY <1>2, <1>7 DEF Leave, DInv, Called, Places
  <2>2. CalledTwice'
    BY <1>2, <1>4, <1>7 DEF Leave, DInv, Called, CalledTwice
  <2>3. StopAsked'
    BY <1>1, <1>7 DEF StopAsked
  <2> QED BY <1>3, <2>1, <2>2, <2>3 DEF DInv
<1> QED BY <1>1, <1>5, <1>6, <1>7

LEMMA UndefinedInv ==
  ASSUME DInv, AtPrompt, NEW c, Same(c), Undefined(c), nread' \in 0..Len(typed)
  PROVE  DInv'
  BY ObeyedInv DEF Undefined

LEMMA DebugInv ==
  ASSUME DInv, debug
  PROVE  DInv'
<1>0. Same(cpu) /\ nread \in 0..Len(typed)
  BY DEF DInv, Stoppable, TypeOK, ConsoleTypeOK, Same
<1>1. CASE Scan
  <2>1. UNCHANGED <<machine, cpu, ram, nread, mode, flags, at, row, asked, shown>>
    BY <1>1 DEF Scan
  <2>2. Stoppable'
    BY <2>1 DEF DInv, Stoppable, TypeOK, ConsoleTypeOK, IsMemory, machine, IrqFollowsInput,
                Interruptible
  <2> QED BY <2>1, <2>2 DEF DInv, Called, CalledTwice, StopAsked
<1>2. CASE Enter
  <2>1. UNCHANGED <<machine, cpu, ram, nread, mode, flags, at, asked>> /\ shown' = at
        /\ at \in {"top", "bottom"}
    BY <1>2 DEF Enter
  <2>2. Stoppable'
    BY <2>1 DEF DInv, Stoppable, TypeOK, ConsoleTypeOK, IsMemory, machine, IrqFollowsInput,
                Interruptible
  <2>3. row' \in Addr /\ None \notin Addr
    <3>1. PICK before : row' = PcRow(Back(before))
      BY <1>2 DEF Enter
    <3>2. cpu.pc \in Addr
      BY DEF DInv, Stoppable, TypeOK, Registers
    <3>3. Back(before) \in Rows
      BY <3>2, BackIs DEF Climbs
    <3>4. PcRow(Back(before)) \in Addr
      BY <3>3, RowIs
    <3> QED BY <3>1, <3>4, AddrRange DEF None
  <2>4. Called'
    BY <2>1, <2>3 DEF DInv, Called
  <2>5. CalledTwice'
    BY <2>1, <2>3 DEF CalledTwice
  <2>6. StopAsked'
    BY <2>1 DEF DInv, StopAsked
  <2> QED BY <2>2, <2>4, <2>5, <2>6 DEF DInv
<1>3. CASE ReadLine
  <2>1. nread' \in 0..Len(typed)
    BY <1>3, LineTaken DEF ReadLine, DInv, Stoppable, TypeOK
  <2>2. (\E input : Obeyed(cpu, input)) \/ Undefined(cpu)
    BY <1>3 DEF ReadLine
  <2> QED BY <1>0, <1>3, <2>1, <2>2, ObeyedInv, UndefinedInv DEF ReadLine
<1>4. CASE ReadNothing
  BY <1>0, <1>4, UndefinedInv DEF ReadNothing
<1>5. CASE ReadInterrupted
  <2>1. Same([cpu EXCEPT !.idbg = TRUE])
    BY <1>0 DEF Same, Registers
  <2> QED BY <1>0, <1>5, <2>1, UndefinedInv DEF ReadInterrupted
<1> QED BY <1>1, <1>2, <1>3, <1>4, <1>5 DEF debug

LEMMA LoopInv ==
  ASSUME DInv, Loop
  PROVE  DInv'
<1>1. at = "loop" /\ emu_step /\ shown' = "none" /\ UNCHANGED <<flags, row, asked>>
  BY DEF Loop
<1>2. /\ Stoppable' /\ mode' \in {"run", "halted", "exited"}
      /\ mode' = "run" => ~cpu'.idbg
  BY <1>1, EmuStepped DEF DInv
<1>3. CASE mode' = "run"
  <2>1. at' = "loop"
    BY <1>3 DEF Loop
  <2> QED BY <1>1, <1>2, <1>3, <2>1 DEF DInv, Called, CalledTwice, StopAsked
<1>4. CASE mode' = "exited"
  <2>1. at' = "done"
    BY <1>4 DEF Loop
  <2> QED BY <1>1, <1>2, <2>1 DEF DInv, Called, CalledTwice, StopAsked, Places
<1>5. CASE mode' = "halted"
  <2>1. at' = AfterLoop
    BY <1>5 DEF Loop
  <2>2. flags = {} \/ flags = {"G"} \/ "g" \in flags
    BY DEF DInv, Called
  <2>3. CASE "g" \in flags
    <3>1. at' = "bottom"
      BY <2>1, <2>3 DEF AfterLoop
    <3> QED BY <1>1, <1>2, <2>3, <3>1 DEF DInv, Called, CalledTwice, StopAsked, Places
  <2>4. CASE flags = {"G"}
    <3>1. at' = "top"
      BY <2>1, <2>4 DEF AfterLoop
    <3> QED BY <1>1, <1>2, <2>4, <3>1 DEF DInv, Called, CalledTwice, StopAsked, Places
  <2>5. CASE flags = {}
    <3>1. at' = "done"
      BY <2>1, <2>5 DEF AfterLoop
    <3> QED BY <1>1, <1>2, <2>5, <3>1 DEF DInv, Called, CalledTwice, StopAsked, Places
  <2> QED BY <2>2, <2>3, <2>4, <2>5
<1> QED BY <1>2, <1>3, <1>4, <1>5

LEMMA LinesInv ==
  ASSUME DInv, TypeLine \/ EndLines \/ Signal
  PROVE  DInv'
<1>1. CASE TypeLine
  <2>1. PICK line \in Lines : typed' = typed \o line
    BY <1>1 DEF TypeLine
  <2>2. UNCHANGED <<cpu, rom, ram, tty, nread, eof, out, disk, card, mode>>
        /\ UNCHANGED debugVars
    BY <1>1 DEF TypeLine
  <2>3. ConsoleTypeOK'
    <3>1. typed \in Seq(Byte) /\ line \in Seq(Byte) /\ nread \in 0..Len(typed)
      BY LinesAssumption DEF DInv, Stoppable, TypeOK, ConsoleTypeOK
    <3>2. typed \o line \in Seq(Byte) /\ Len(typed) <= Len(typed \o line)
      BY <3>1
    <3>3. nread \in 0..Len(typed \o line)
      BY <3>1, <3>2
    <3> QED BY <2>1, <2>2, <3>2, <3>3 DEF DInv, Stoppable, TypeOK, ConsoleTypeOK
  <2>4. Stoppable'
    BY <2>2, <2>3 DEF DInv, Stoppable, TypeOK, IsMemory, IrqFollowsInput, Interruptible
  <2> QED BY <2>2, <2>4 DEF DInv, Called, CalledTwice, StopAsked, debugVars
<1>2. CASE EndLines
  <2>1. UNCHANGED <<cpu, rom, ram, tty, typed, nread, out, disk, card, mode>>
        /\ eof' = TRUE /\ UNCHANGED debugVars
    BY <1>2 DEF EndLines, InputEnds, CloseInput
  <2>2. Stoppable'
    BY <2>1 DEF DInv, Stoppable, TypeOK, ConsoleTypeOK, IsMemory, IrqFollowsInput, Interruptible
  <2> QED BY <2>1, <2>2 DEF DInv, Called, CalledTwice, StopAsked, debugVars
<1>3. CASE Signal
  <2>1. /\ cpu' = [cpu EXCEPT !.idbg = TRUE] /\ asked' = TRUE
        /\ UNCHANGED <<rom, ram, tty, typed, nread, eof, out, disk, card, mode>>
        /\ UNCHANGED <<flags, at, row, shown>>
    BY <1>3 DEF Signal, onInterrupt
  <2>2. Same(cpu')
    BY <2>1 DEF DInv, Stoppable, TypeOK, Same, Registers
  <2>3. Stoppable'
    BY <2>1, <2>2, SameStoppable DEF DInv, Stoppable, TypeOK, ConsoleTypeOK, machine
  <2> QED BY <2>1, <2>3 DEF DInv, Called, CalledTwice, StopAsked
<1> QED BY <1>1, <1>2, <1>3

LEMMA DebugNextInv ==
  ASSUME DInv, [DebugNext]_allVars
  PROVE  DInv'
<1>1. CASE UNCHANGED allVars
  BY <1>1 DEF allVars, emuVars, debugVars, DInv, Stoppable, TypeOK, ConsoleTypeOK, IsMemory,
              IrqFollowsInput, Interruptible, Called, CalledTwice, StopAsked
<1> QED BY <1>1, LoopInv, DebugInv, LinesInv DEF DebugNext

LEMMA DebugInvariance == DebugSpec => []DInv
<1>1. DebugInit => DInv
  BY DebugInitInv
<1>2. DInv /\ [DebugNext]_allVars => DInv'
  BY DebugNextInv
<1> QED BY <1>1, <1>2, PTL DEF DebugSpec

\* A session of the debugger leaves the emulator's invariants alone: registers
\* and memory stay in their types, the interrupt register shows the console's
\* line, and no request waits when a command sets the machine running again
\* (debug's goto, poke, step and continue).
THEOREM SessionKeepsMachine == DebugSpec => [](TypeOK /\ IrqFollowsInput /\ NoMissedInterrupt)
<1>1. DInv => TypeOK /\ IrqFollowsInput /\ NoMissedInterrupt
  BY DEF DInv, Stoppable, NoMissedInterrupt
<1> QED BY <1>1, DebugInvariance, PTL

\* The machine leaves main's inner loop for a brk, an unknown byte, the card's
\* end, or because the user asked since the last `continue`.
THEOREM StopsExplained == DebugSpec => StopsForAReason
<1> DEFINE Reason == at = "loop" /\ at' # "loop"
                       => card'.exited \/ asked \/ ilookup[ibyte] \in {"brk", Invalid}
<1>1. ASSUME DInv, DebugNext, at = "loop", at' # "loop"
      PROVE  card'.exited \/ asked \/ ilookup[ibyte] \in {"brk", Invalid}
  <2>1. Loop
    BY <1>1 DEF DebugNext, debug, Scan, Enter, ReadLine, ReadNothing, ReadInterrupted, AtPrompt,
                TypeLine, EndLines, Signal, debugVars
  <2>2. mode' # "run"
    BY <1>1, <2>1 DEF Loop
  <2>3. emu_step /\ Stoppable /\ (cpu.idbg => asked)
    BY <1>1, <2>1 DEF Loop, DInv, StopAsked
  <2> QED BY <2>2, <2>3, EmuStepped
<1>2. DInv /\ [DebugNext]_allVars => [Reason]_allVars
  BY <1>1
<1> QED BY <1>2, DebugInvariance, PTL DEF DebugSpec, StopsForAReason

\* However the commands, failing reads and interruptions of a session fall, a
\* stop leads to one prompt, or with both options to one at the bottom and one at
\* the top of main's loop, and the machine moves before the next.
THEOREM PromptsExplained == DebugSpec => PromptsApart
<1> DEFINE Twice == flags = {"g", "G"} /\ shown = "bottom" /\ at = "top"
<1> DEFINE Reason == row = None /\ row' # None => shown = "none" \/ Twice
<1>1. ASSUME DInv, DebugNext, row = None, row' # None
      PROVE  shown = "none" \/ Twice
  <2>1. at \in {"top", "bottom"}
    BY <1>1 DEF DebugNext, debug, Scan, Enter, ReadLine, ReadNothing, ReadInterrupted, AtPrompt,
                Loop, TypeLine, EndLines, Signal, debugVars
  <2> QED BY <1>1, <2>1 DEF DInv, CalledTwice
<1>2. DInv /\ [DebugNext]_allVars => [Reason]_allVars
  BY <1>1
<1> QED BY <1>2, DebugInvariance, PTL DEF DebugSpec, PromptsApart
-----------------------------------------------------------------------------
(* The input the debugger shares with the console.                         *)

\* A step in which no instruction reads the console.
ConsoleUnread == ~(cpu'.io_rd /\ inbounds(TTY_BASE, cpu'.y))

\* CostsOneByte is not inductive: while nothing is on offer to the program,
\* every byte that was taken was a line's.
Shared == /\ nread \in Int /\ obeyed \in Int /\ CostsOneByte
          /\ ~tty.input_available => nread = obeyed

LEMMA ConsoleShares ==
  ASSUME ConsoleTypeOK, Shared, NEW c, TtyStep(c), ~TtyReads(c), obeyed' = obeyed
  PROVE  Shared'
<1>1. /\ tty \in TtyState /\ nread \in Int /\ obeyed \in Int
      /\ nread - obeyed \in {0, 1}
  BY DEF ConsoleTypeOK, Shared, CostsOneByte
<1>2. tty' = Received /\ nread' = IF Receives /\ nread < Len(typed) THEN nread + 1 ELSE nread
  BY DEF TtyStep, TtyAfter
<1>3. CASE Receives
  <2>1. nread = obeyed /\ tty'.input_available
    BY <1>2, <1>3 DEF Receives, Received, Shared
  <2>2. nread' = nread \/ nread' = nread + 1
    BY <1>2
  <2>3. nread = obeyed /\ obeyed' = obeyed
    BY <2>1
  <2>5. nread' \in Int /\ obeyed' \in Int /\ nread' - obeyed' \in {0, 1}
    BY <1>1, <2>2, <2>3
  <2>4. ~tty'.input_available => nread' = obeyed'
    BY <2>1, Zenon
  <2> QED BY <2>5, <2>4 DEF Shared, CostsOneByte
<1>4. CASE ~Receives
  <2>1. nread' = nread /\ tty'.input_available = tty.input_available
    BY <1>1, <1>2, <1>4 DEF Received, TtyState
  <2> QED BY <2>1 DEF Shared, CostsOneByte
<1> QED BY <1>3, <1>4

LEMMA SharedNext ==
  ASSUME DInv, Shared, [DebugNext]_allVars, [ConsoleUnread]_allVars
  PROVE  Shared'
<1>1. CASE UNCHANGED <<tty, nread, obeyed>>
  BY <1>1 DEF Shared, CostsOneByte
<1>2. CASE Loop /\ UNCHANGED allVars
  BY <1>1, <1>2 DEF allVars, emuVars, debugVars
<1>3. CASE Loop /\ ConsoleUnread
  <2>1. emu_step /\ obeyed' = obeyed
    BY <1>3 DEF Loop
  <2>2. CASE Unknown
    BY <1>1, <2>1, <2>2 DEF Unknown
  <2>3. ASSUME NEW regs, NEW m, Executed(regs) \/ Returned(regs), IsMemory(m), Retire(regs, m)
        PROVE  Shared'
    <3>1. regs \in Registers /\ KeepsRequest(regs)
      BY <2>3 DEF Executed, Returned
    <3>2. IInv /\ ConsoleTypeOK
      BY DEF DInv, Stoppable, IInv, NoMissedInterrupt, TypeOK
    <3>3. TtyStep(regs) /\ cpu'.io_rd = regs.io_rd /\ cpu'.y = regs.y
      BY <2>3, <3>1, <3>2, Retired
    <3>4. ~TtyReads(regs)
      BY <1>3, <3>3 DEF ConsoleUnread, TtyReads
    <3> QED BY <2>1, <3>2, <3>3, <3>4, ConsoleShares
  <2>4. IInv
    BY DEF DInv, Stoppable, IInv, NoMissedInterrupt
  <2> QED BY <2>1, <2>2, <2>3, <2>4, InstructionRetired
<1>4. CASE ReadLine
  <2>1. Len(NextLine) \in Nat
    BY LineTaken DEF DInv, Stoppable, TypeOK
  <2>2. nread' = nread + Len(NextLine) /\ obeyed' = obeyed + Len(NextLine) /\ tty' = tty
    BY <1>4 DEF ReadLine, Undefined, Obeyed, machine
  <2> HIDE DEF NextLine
  <2>3. PICK n \in Nat : nread' = nread + n /\ obeyed' = obeyed + n
    BY <2>1, <2>2
  <2>4. tty' = tty
    BY <2>2
  <2>5. nread' \in Int /\ obeyed' \in Int /\ nread' - obeyed' = nread - obeyed
    BY <2>3 DEF Shared
  <2>6. CostsOneByte'
    BY <2>5 DEF Shared, CostsOneByte
  <2>7. ~tty'.input_available => nread' = obeyed'
    BY <2>3, <2>4 DEF Shared
  <2> QED BY <2>5, <2>6, <2>7 DEF Shared
<1>5. CASE debug /\ ~ReadLine
  BY <1>1, <1>5 DEF debug, Scan, Enter, ReadNothing, ReadInterrupted, Undefined, Obeyed, machine
<1>6. CASE TypeLine \/ EndLines \/ Signal
  BY <1>1, <1>6 DEF TypeLine, EndLines, InputEnds, CloseInput, Signal, onInterrupt, debugVars
<1>7. CASE UNCHANGED allVars
  BY <1>1, <1>7 DEF allVars, emuVars, debugVars
<1> QED BY <1>2, <1>3, <1>4, <1>5, <1>6, <1>7 DEF DebugNext

\* As long as no instruction reads the console, it has taken at most one byte
\* of what is typed to the debugger, however long the machine ran between two
\* prompts: the one it holds on offer (io_step_tty, nandy-emu.c:118).
THEOREM OneByteLost == DebugSpec /\ [][ConsoleUnread]_allVars => []CostsOneByte
<1>1. DebugInit => Shared
  BY DEF DebugInit, Init, TtyInit, Shared, CostsOneByte
<1>2. DInv /\ Shared /\ [DebugNext]_allVars /\ [ConsoleUnread]_allVars => Shared'
  BY SharedNext
<1>3. Shared => CostsOneByte
  BY DEF Shared
<1> QED BY <1>1, <1>2, <1>3, DebugInvariance, PTL DEF DebugSpec
-----------------------------------------------------------------------------
(* The PC> row.                                                            *)

\* From a row one further up the way down is the same.
LEMMA OneMoreRow ==
  ASSUME NEW b \in Rows, NEW c \in Rows, c.pos = b.pos - 1, Below(c.pc) = b.pc
  PROVE  PcRow(c) = PcRow(b)
<1>1. PICK d : Falls(d, b) /\ PcRow(b) = d[0]
  BY RowIs
<1>2. PICK e : Falls(e, c) /\ PcRow(c) = e[0]
  BY RowIs
<1>3. b.pos \in -3..0 /\ c.pos \in -4..0
  BY DEF Rows
<1>4. e[b.pos] = d[b.pos]
  <2>1. b.pos \in (c.pos + 1)..0 /\ b.pos - 1 = c.pos
    BY <1>3
  <2>2. e[b.pos] = Below(e[b.pos - 1])
    BY <1>2, <2>1 DEF Falls
  <2> QED BY <1>1, <1>2, <2>1, <2>2 DEF Falls
<1> DEFINE I == {n \in Nat : b.pos + n <= 0 => e[b.pos + n] = d[b.pos + n]}
<1>5. 0 \in I
  <2>1. b.pos + 0 = b.pos
    BY <1>3
  <2> QED BY <1>4, <2>1
<1>6. ASSUME NEW n \in Nat, n \in I PROVE n + 1 \in I
  <2> SUFFICES ASSUME b.pos + (n + 1) <= 0 PROVE e[b.pos + (n + 1)] = d[b.pos + (n + 1)]
    OBVIOUS
  <2> DEFINE k == b.pos + (n + 1)
  <2>1. k \in (b.pos + 1)..0 /\ k \in (c.pos + 1)..0 /\ k - 1 = b.pos + n /\ b.pos + n <= 0
    BY <1>3
  <2>2. e[b.pos + n] = d[b.pos + n]
    BY <1>6, <2>1
  <2> HIDE DEF k
  <2>3. e[k] = Below(e[k - 1]) /\ d[k] = Below(d[k - 1])
    BY <1>1, <1>2, <2>1 DEF Falls
  <2>4. e[k] = d[k]
    BY <2>1, <2>2, <2>3
  <2> QED BY <2>4 DEF k
<1> HIDE DEF I
<1>7. Nat \subseteq I
  BY <1>5, <1>6, NatInduct
<1>8. e[0] = d[0]
  <2>1. 0 - b.pos \in Nat /\ b.pos + (0 - b.pos) = 0
    BY <1>3
  <2>2. 0 - b.pos \in I
    BY <1>7, <2>1
  <2> QED BY <2>1, <2>2 DEF I
<1> QED BY <1>1, <1>2, <1>8

\* What the rows above pc can stand for: pc itself, cached instructions, and
\* the last byte of the memory, reached from address zero.
Known(a) == a = cpu.pc \/ a \in cache \/ a = 65535
Plain == Apart(cache, cpu.pc) /\ \A a \in {65534, 65535} : nbytes(peek(a)) = 1

LEMMA UpThenBelow ==
  ASSUME Plain, NEW before, NEW p \in Addr, Known(p),
         TwoBack(before, p) \/ Cached(p - 1, before),
         NEW a, a = ToAddr(p - (IF TwoBack(before, p) THEN 2 ELSE 1))
  PROVE  Below(a) = p /\ Known(a)
<1>1. p \in Int /\ 0 <= p /\ p <= 65535
  BY AddrRange
<1>2. CASE TwoBack(before, p)
  <2>1. a = ToAddr(p - 2) /\ nbytes(peek(a)) = 2
    BY <1>2 DEF TwoBack
  <2>2. p - 2 >= 0
    <3>1. p - 2 < 0 => ToAddr(p - 2) \in {65534, 65535}
      BY <1>1 DEF ToAddr
    <3> QED BY <1>1, <2>1, <3>1 DEF Plain
  <2>3. a = p - 2 /\ a \in cache
    BY <1>1, <1>2, <2>1, <2>2 DEF ToAddr, TwoBack, Cached
  <2>4. ToAddr(a + 2) = p
    BY <1>1, <2>3 DEF ToAddr
  <2> QED BY <2>1, <2>3, <2>4 DEF Below, Known
<1>3. CASE ~TwoBack(before, p)
  <2>1. a = ToAddr(p - 1) /\ Cached(p - 1, before)
    BY <1>3
  <2>2. ToAddr(a + 1) = p
    BY <1>1, <2>1 DEF ToAddr
  <2>3. CASE p = 0
    <3>1. a = 65535
      BY <2>1, <2>3 DEF ToAddr
    <3>2. nbytes(peek(a)) = 1
      BY <3>1 DEF Plain
    <3> QED BY <2>2, <3>1, <3>2 DEF Below, Known
  <2>4. CASE p # 0
    <3>1. a = p - 1 /\ a \in cache
      BY <1>1, <2>1, <2>4 DEF ToAddr, Cached
    <3>2. nbytes(peek(a)) = 1
      <4>1. CASE p = 65535
        BY <3>1, <4>1 DEF Plain
      <4>2. CASE p # 65535
        <5>1. p \in cache \cup {cpu.pc}
          BY <4>2 DEF Known
        <5> QED BY <2>2, <3>1, <5>1, LengthType DEF Plain, Apart
      <4> QED BY <4>1, <4>2
    <3> QED BY <2>2, <3>1, <3>2 DEF Below, Known
  <2> QED BY <2>3, <2>4
<1> QED BY <1>2, <1>3

LEMMA MarkerKept ==
  ASSUME cpu.pc \in Addr, Plain, NEW before
  PROVE  PcRow(Back(before)) = cpu.pc
<1>1. PICK f : Climbs(f, before) /\ Back(before) = f[4]
  BY BackIs
<1> DEFINE Good(b) == b \in Rows /\ PcRow(b) = cpu.pc /\ Known(b.pc)
<1>2. Good(f[0])
  <2>1. f[0] = PcOf /\ PcOf \in Rows /\ PcOf.pos = 0 /\ PcOf.pc = cpu.pc
    BY <1>1 DEF Climbs, PcOf, Rows
  <2>2. PICK d : Falls(d, PcOf) /\ PcRow(PcOf) = d[0]
    BY <2>1, RowIs
  <2> QED BY <2>1, <2>2 DEF Falls, Known
<1>3. ASSUME NEW n \in 1..4, Good(f[n - 1]) PROVE Good(f[n])
  <2> DEFINE b == f[n - 1]
             c == f[n]
  <2>1. c = Up(before, n, b) /\ b \in Rows /\ c \in Rows
    BY <1>1, <1>3 DEF Climbs
  <2>2. b.pc \in Addr /\ b.pos \in -4..0 /\ Known(b.pc) /\ PcRow(b) = cpu.pc
    BY <1>3 DEF Rows
  <2> HIDE DEF b, c
  <2>3. CASE b.pos = 1 - n /\ (TwoBack(before, b.pc) \/ Cached(b.pc - 1, before))
    <3>1. c.pc = ToAddr(b.pc - (IF TwoBack(before, b.pc) THEN 2 ELSE 1)) /\ c.pos = -n
      BY <2>1, <2>3 DEF Up
    <3>2. Below(c.pc) = b.pc /\ Known(c.pc)
      BY <2>2, <2>3, <3>1, UpThenBelow
    <3>3. c.pos = b.pos - 1
      BY <2>2, <2>3, <3>1
    <3>4. PcRow(c) = PcRow(b)
      BY <2>1, <3>2, <3>3, OneMoreRow
    <3> QED BY <2>1, <2>2, <3>2, <3>4 DEF c
  <2>4. CASE ~(b.pos = 1 - n /\ (TwoBack(before, b.pc) \/ Cached(b.pc - 1, before)))
    <3>1. c = b
      BY <2>1, <2>4 DEF Up
    <3> QED BY <2>1, <2>2, <3>1 DEF c
  <2> QED BY <2>3, <2>4
<1> HIDE DEF Good
<1>4. Good(f[1])
  BY <1>2, <1>3
<1>5. Good(f[2])
  BY <1>3, <1>4
<1>6. Good(f[3])
  BY <1>3, <1>5
<1>7. Good(f[4])
  BY <1>3, <1>6
<1> QED BY <1>1, <1>7 DEF Good

\* The row printDebug marks shows the instruction at pc, whatever lies before
\* the cache in memory (nandy-emu.c:60-89).
THEOREM MarkerShowsPc == DebugSpec => MarkerAtPc
<1> DEFINE Marked == (row = None /\ row' # None /\ Apart(cache, cpu.pc)
                       /\ \A a \in {65534, 65535} : nbytes(peek(a)) = 1) => row' = cpu.pc
<1>1. ASSUME DInv, DebugNext, row = None, row' # None, Plain
      PROVE  row' = cpu.pc
  <2>1. Enter
    BY <1>1 DEF DebugNext, debug, Scan, ReadLine, ReadNothing, ReadInterrupted, AtPrompt,
                Loop, TypeLine, EndLines, Signal, debugVars
  <2>2. PICK before : row' = PcRow(Back(before))
    BY <2>1 DEF Enter
  <2>3. cpu.pc \in Addr
    BY <1>1 DEF DInv, Stoppable, TypeOK, Registers
  <2> QED BY <1>1, <2>2, <2>3, MarkerKept
<1>2. DInv /\ [DebugNext]_allVars => [Marked]_allVars
  BY <1>1 DEF Plain
<1> QED BY <1>2, DebugInvariance, PTL DEF DebugSpec, MarkerAtPc
=============================================================================
