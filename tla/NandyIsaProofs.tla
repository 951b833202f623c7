--------------------------- MODULE NandyIsaProofs ---------------------------
(***************************************************************************)
(* The claims of NandyIsa for every line the assembler accepts, at every   *)
(* address and from every state of the registers.                          *)
(***************************************************************************)
EXTENDS NandyIsa, NandyWordProofs, SequenceTheorems

-----------------------------------------------------------------------------
(* Opcodes.                                                                *)

LEMMA BytesOfMnemonics == \A m \in Mnemonics : Bytes(m) \subseteq Byte
  BY ByteRange DEF Mnemonics, JumpEntries, ImmEntries, OneByteEntries, Bytes

\* An opcode is the least of the bytes of its mnemonic, so there is one only.
LEMMA OpcodeLeast ==
  ASSUME NEW e \in Entries, NEW i \in Bytes(e.mnemonic)
  PROVE  e.opcode \in Bytes(e.mnemonic) /\ e.opcode <= i
<1>1. e.mnemonic \in Mnemonics /\ TakesBytes(e)
  BY EntriesNamed, EntriesTake
<1>2. i \in Byte
  BY <1>1, BytesOfMnemonics
<1>3. e.opcode = Without(i, e.mask)
  BY <1>1, <1>2 DEF TakesBytes
<1>4. e.opcode \in Byte
  BY <1>3, ByteOfType DEF Without
<1>5. Without(e.opcode, e.mask) = e.opcode
  <2>1. BitsOf(e.opcode) = BitsOf(i) \ BitsOf(e.mask)
    BY <1>3, BitsOfByteOf DEF Without, BitsOf
  <2>2. BitsOf(e.opcode) \ BitsOf(e.mask) = BitsOf(e.opcode)
    BY <2>1
  <2> QED BY <1>4, <2>2, SumOfBits DEF Without
<1>6. e.opcode \in Bytes(e.mnemonic)
  BY <1>1, <1>4, <1>5 DEF TakesBytes
<1>7. e.opcode <= i
  <2>1. e.opcode = i - BitAnd(i, e.mask)
    BY <1>2, <1>3, WithoutTakes
  <2>2. BitAnd(i, e.mask) \in Byte
    BY BitwiseType
  <2> QED BY <1>2, <2>1, <2>2, ByteRange
<1> QED BY <1>6, <1>7

LEMMA OpcodeOf ==
  ASSUME NEW m \in Mnemonics, NEW i \in Bytes(m)
  PROVE  opcode(m) \in Bytes(m) /\ opcode(m) <= i
<1> HIDE DEF NANDY_ILIST
<1> DEFINE named == {k \in DOMAIN NANDY_ILIST : NANDY_ILIST[k].mnemonic = m}
           first == CHOOSE k \in named : \A l \in named : k <= l
<1>1. DOMAIN NANDY_ILIST = 1..Len(NANDY_ILIST) /\ Len(NANDY_ILIST) \in Nat
  BY EntriesListed
<1>2. PICK e \in Entries : e.mnemonic = m
  BY EntriesNamed
<1>3. PICK k \in DOMAIN NANDY_ILIST : NANDY_ILIST[k] = e
  BY <1>1, EntriesListed DEF Listed
<1>4. \E a \in named : \A l \in named : a <= l
  <2>1. named \in SUBSET Nat /\ named # {}
    BY <1>1, <1>2, <1>3
  <2> QED BY <2>1, NatMin
<1>5. first \in named
  BY <1>4, Zenon
<1>6. NANDY_ILIST[first] \in Entries /\ NANDY_ILIST[first].mnemonic = m
  BY <1>1, <1>5, EntriesListed
<1>7. m \in {NANDY_ILIST[j].mnemonic : j \in DOMAIN NANDY_ILIST}
  BY <1>2, <1>3
<1>8. opcode(m) = NANDY_ILIST[first].opcode
  BY <1>7, Zenon DEF opcode, opcodes
<1> QED BY <1>6, <1>8, OpcodeLeast

\* The opcodes that take an operand.
LEMMA Opcodes ==
  /\ opcode("rd") = 16 /\ opcode("wr") = 8 /\ opcode("sw") = 24
  /\ opcode("ld") = 144 /\ opcode("st") = 128
  /\ opcode("j") = 64 /\ opcode("jr") = 65 /\ opcode("jc") = 80
<1>1. /\ Bytes("rd") = 16..23 /\ Bytes("wr") = 8..15 /\ Bytes("sw") = 24..31
      /\ Bytes("ld") = {i \in 128..255 : (i \div 16) % 2 = 1}
      /\ Bytes("st") = {i \in 128..255 : (i \div 16) % 2 = 0}
      /\ Bytes("j") = {i \in 64..79 : i % 2 = 0}
      /\ Bytes("jr") = {i \in 64..79 : i % 2 = 1}
      /\ Bytes("jc") = 80..95
  BY DEF Bytes
<1>2. /\ "rd" \in Mnemonics /\ "wr" \in Mnemonics /\ "sw" \in Mnemonics
      /\ "ld" \in Mnemonics /\ "st" \in Mnemonics
      /\ "j" \in Mnemonics /\ "jr" \in Mnemonics /\ "jc" \in Mnemonics
  BY DEF Mnemonics, JumpEntries, OneByteEntries
<1>3. /\ 16 \in Bytes("rd") /\ 8 \in Bytes("wr") /\ 24 \in Bytes("sw")
      /\ 144 \in Bytes("ld") /\ 128 \in Bytes("st") /\ 64 \in Bytes("j")
      /\ 65 \in Bytes("jr") /\ 80 \in Bytes("jc")
  BY <1>1
<1>4. /\ opcode("rd") \in Bytes("rd") /\ opcode("rd") <= 16
      /\ opcode("wr") \in Bytes("wr") /\ opcode("wr") <= 8
      /\ opcode("sw") \in Bytes("sw") /\ opcode("sw") <= 24
      /\ opcode("ld") \in Bytes("ld") /\ opcode("ld") <= 144
      /\ opcode("st") \in Bytes("st") /\ opcode("st") <= 128
      /\ opcode("j") \in Bytes("j") /\ opcode("j") <= 64
      /\ opcode("jr") \in Bytes("jr") /\ opcode("jr") <= 65
      /\ opcode("jc") \in Bytes("jc") /\ opcode("jc") <= 80
  BY <1>2, <1>3, OpcodeOf
<1> QED BY <1>1, <1>4
-----------------------------------------------------------------------------
(* The bytes of an instruction.                                            *)

LEMMA ApartAdds ==
  ASSUME NEW a \in Byte, NEW b \in Byte,
         \A w \in Weights : ~ (HasBit(a, w) /\ HasBit(b, w))
  PROVE  Or8(a, b) = a + b
<1>1. BitsOf(a) \cap BitsOf(b) = {}
  BY DEF BitsOf
<1>2. ByteOf({}) = 0
  BY DEF ByteOf, Part
<1>3. BitOr(a, b) = a + b
  BY <1>1, <1>2, BitOrAdds, Zenon DEF BitAnd
<1>4. a % 256 = a /\ b % 256 = b
  BY ByteRange
<1> QED BY <1>3, <1>4 DEF Or8

\* An even number below sixteen, or a register number, and the opcodes it
\* is written into.
LEMMA LowBits ==
  /\ \A r \in 0..7 : Or8(16, r) = 16 + r /\ Or8(8, r) = 8 + r /\ Or8(24, r) = 24 + r
  /\ \A e \in 0..15 : e % 2 = 0 => /\ Or8(64, e) = 64 + e
                                   /\ Or8(65, e) = 65 + e
                                   /\ Or8(80, e) = 80 + e
<1>1. \A r \in 0..7, w \in Weights \ {1, 2, 4} : ~ HasBit(r, w)
  BY DEF Weights, HasBit
<1>2. \A a \in {16, 8, 24}, w \in {1, 2, 4} : ~ HasBit(a, w)
  BY DEF HasBit
<1>3. \A r \in 0..7 : r \in Byte
  BY ByteRange
<1>4. 16 \in Byte /\ 8 \in Byte /\ 24 \in Byte
  BY ByteRange
<1>5. \A r \in 0..7 : Or8(16, r) = 16 + r /\ Or8(8, r) = 8 + r /\ Or8(24, r) = 24 + r
  <2> TAKE r \in 0..7
  <2>1. \A a \in {16, 8, 24}, w \in Weights : ~ (HasBit(a, w) /\ HasBit(r, w))
    BY <1>1, <1>2
  <2>2. /\ \A w \in Weights : ~ (HasBit(16, w) /\ HasBit(r, w))
        /\ \A w \in Weights : ~ (HasBit(8, w) /\ HasBit(r, w))
        /\ \A w \in Weights : ~ (HasBit(24, w) /\ HasBit(r, w))
    BY <2>1
  <2> QED BY <1>3, <1>4, <2>2, ApartAdds
<1>6. ASSUME NEW e \in 0..15, e % 2 = 0
      PROVE  Or8(64, e) = 64 + e /\ Or8(65, e) = 65 + e /\ Or8(80, e) = 80 + e
  <2>1. \A w \in Weights \ {2, 4, 8} : ~ HasBit(e, w)
    BY <1>6 DEF Weights, HasBit
  <2>2. \A a \in {64, 65, 80}, w \in {2, 4, 8} : ~ HasBit(a, w)
    BY DEF HasBit
  <2>3. /\ \A w \in Weights : ~ (HasBit(64, w) /\ HasBit(e, w))
        /\ \A w \in Weights : ~ (HasBit(65, w) /\ HasBit(e, w))
        /\ \A w \in Weights : ~ (HasBit(80, w) /\ HasBit(e, w))
    BY <2>1, <2>2
  <2>4. e \in Byte /\ 64 \in Byte /\ 65 \in Byte /\ 80 \in Byte
    BY ByteRange
  <2> QED BY <2>3, <2>4, ApartAdds
<1> QED BY <1>5, <1>6

LEMMA MoveBytes ==
  \A r \in 0..7 : /\ asm_register("rd", r) = <<16 + r>>
                  /\ asm_register("wr", r) = <<8 + r>>
                  /\ asm_register("sw", r) = <<24 + r>>
  BY Opcodes, LowBits DEF asm_register

LEMMA RegAluBytes ==
  ASSUME NEW m \in RegAlu \ Shadowed, NEW r
  PROVE  \E b \in Bytes(m) : asm_alu_reg(m, r) = <<b>>
<1>1. m \in {"or", "and", "xor", "add", "sub"} /\ m \in Mnemonics
  BY DEF RegAlu, Shadowed, Mnemonics, OneByteEntries
<1>2. \E i \in {33, 34, 35, 44, 45} : Bytes(m) = {i, i + 16}
  <2>1. /\ Bytes("or") = {33, 33 + 16} /\ Bytes("and") = {34, 34 + 16}
        /\ Bytes("xor") = {35, 35 + 16} /\ Bytes("add") = {44, 44 + 16}
        /\ Bytes("sub") = {45, 45 + 16}
    BY DEF Bytes
  <2> QED BY <1>1, <2>1
<1>3. PICK i \in {33, 34, 35, 44, 45} : Bytes(m) = {i, i + 16}
  BY <1>2
<1>4. opcode(m) = i
  <2>1. i \in Bytes(m)
    BY <1>3
  <2>2. opcode(m) \in Bytes(m) /\ opcode(m) <= i
    BY <1>1, <2>1, OpcodeOf
  <2> QED BY <1>3, <2>2
<1>5. Or8(i, XY_MASK) = i + 16
  <2>1. \A w \in Weights \ {16} : ~ HasBit(16, w)
    BY DEF Weights, HasBit
  <2>2. ~ HasBit(i, 16)
    BY DEF HasBit
  <2>3. i \in Byte /\ 16 \in Byte
    BY ByteRange
  <2> QED BY <2>1, <2>2, <2>3, ApartAdds DEF XY_MASK
<1> QED BY <1>3, <1>4, <1>5 DEF asm_alu_reg

LEMMA MemBytes ==
  ASSUME NEW m \in {"ld", "st"}, NEW mode \in {MM_SP, MM_Q, MM_P, MM_PPRE}, NEW v \in Int
  PROVE  \E b \in Bytes(m) : asm_mem(m, mode, v) = <<b>>
<1> DEFINE o == opcode(m)
           n == v % 16
<1>1. o = IF m = "ld" THEN 144 ELSE 128
  BY Opcodes
<1>2. mode \in {0, 32, 64, 96}
  BY DEF MM_SP, MM_Q, MM_P, MM_PPRE
<1>3. o \in Byte /\ mode \in Byte /\ n \in Byte /\ n \in 0..15
  BY <1>1, <1>2, ByteRange
<1> HIDE DEF o, n
<1>4. Or8(o, mode) = o + mode
  <2>1. \A w \in Weights \ {32, 64} : ~ HasBit(mode, w)
    BY <1>2 DEF Weights, HasBit
  <2>2. ~ HasBit(o, 32) /\ ~ HasBit(o, 64)
    BY <1>1 DEF HasBit
  <2>3. \A w \in Weights : ~ (HasBit(o, w) /\ HasBit(mode, w))
    BY <2>1, <2>2
  <2> QED BY <1>3, <2>3, ApartAdds
<1>5. o + mode \in Byte
  BY <1>1, <1>2, ByteRange
<1>6. Or8(o + mode, n) = o + mode + n
  <2>1. \A w \in Weights \ {1, 2, 4, 8} : ~ HasBit(n, w)
    BY <1>3 DEF Weights, HasBit
  <2>2. \A w \in {1, 2, 4, 8} : ~ HasBit(o + mode, w)
    BY <1>1, <1>2 DEF HasBit
  <2>3. \A w \in Weights : ~ (HasBit(o + mode, w) /\ HasBit(n, w))
    BY <2>1, <2>2
  <2> QED BY <1>3, <1>5, <2>3, ApartAdds
<1>7. asm_mem(m, mode, v) = <<o + mode + n>>
  BY <1>4, <1>6 DEF asm_mem, o, n
<1>8. o + mode + n \in Bytes(m)
  BY <1>1, <1>2, <1>3 DEF Bytes
<1> QED BY <1>7, <1>8

\* The three bits of a relative jump that are kept in its first byte.
HighBits(offset) == BitAnd(ToByte(offset \div 128), IMMJ_MASK)

LEMMA HighBitsValue ==
  ASSUME NEW offset \in Int
  PROVE  /\ HighBits(offset) \in 0..15 /\ HighBits(offset) % 2 = 0
         /\ 128 * HighBits(offset) + ToByte(offset) = offset % 2048
<1> DEFINE h == ToByte(offset \div 128)
<1>1. h \in Byte /\ h \in Int /\ h = (offset \div 128) % 256
  BY Truncated, ByteRange DEF ToByte
<1>2. HighBits(offset) = (h % 16) - (h % 2)
  BY <1>1, Masked DEF HighBits
<1> HIDE DEF h
<1>3. HighBits(offset) \in 0..15 /\ HighBits(offset) % 2 = 0
  BY <1>1, <1>2
<1>4. h % 16 = (offset \div 128) % 16 /\ h % 2 = (offset \div 128) % 2
  BY <1>1
<1>5. 128 * ((offset \div 128) % 16) = (offset % 2048) - (offset % 128)
  OBVIOUS
<1>6. 128 * ((offset \div 128) % 2) = (offset % 256) - (offset % 128)
  OBVIOUS
<1> QED BY <1>2, <1>3, <1>4, <1>5, <1>6 DEF ToByte

LEMMA JumpBytes ==
  ASSUME NEW m \in {"j", "jr", "jc"}, NEW pos \in Int, NEW value \in Int
  PROVE  LET offset == JumpOffset(pos, value)
         IN  /\ asm_reljump(m, pos, value)
                  = << opcode(m) + HighBits(offset), ToByte(offset) >>
             /\ opcode(m) + HighBits(offset) \in Bytes(m)
             /\ BitAnd(opcode(m) + HighBits(offset), IMMJ_MASK) = HighBits(offset)
<1> DEFINE e == HighBits(JumpOffset(pos, value))
<1>1. e \in 0..15 /\ e % 2 = 0
  BY HighBitsValue DEF JumpOffset
<1>2. opcode(m) = CASE m = "j" -> 64 [] m = "jr" -> 65 [] m = "jc" -> 80
  BY Opcodes
<1>3. asm_reljump(m, pos, value) = << Or8(opcode(m), e), ToByte(JumpOffset(pos, value)) >>
  BY DEF asm_reljump, HighBits
<1> HIDE DEF e
<1>4. Or8(opcode(m), e) = opcode(m) + e
  BY <1>1, <1>2, LowBits
<1>5. opcode(m) + e \in Byte
  BY <1>1, <1>2, ByteRange
<1>6. opcode(m) + e \in Bytes(m)
  BY <1>1, <1>2 DEF Bytes
<1>7. BitAnd(opcode(m) + e, IMMJ_MASK) = e
  <2>1. BitAnd(opcode(m) + e, IMMJ_MASK) = ((opcode(m) + e) % 16) - ((opcode(m) + e) % 2)
    BY <1>5, Masked
  <2> QED BY <1>1, <1>2, <2>1
<1> QED BY <1>3, <1>4, <1>6, <1>7 DEF e
-----------------------------------------------------------------------------
(* The instructions of a line.                                             *)

TwoByte == ImmAlu \cup RelJumps

LEMMA Singles ==
  /\ \A m \in NoOperand : m \in Mnemonics \ Shadowed /\ m \notin TwoByte
  /\ \A m \in RegAlu \ Shadowed : m \in Mnemonics \ Shadowed /\ m \notin TwoByte
  /\ \A m \in {"rd", "wr", "sw", "ld", "st"} : m \in Mnemonics \ Shadowed /\ m \notin TwoByte
  /\ \A m \in ImmAlu : m \in Mnemonics \ Shadowed /\ m \in TwoByte
  /\ \A m \in RelJumps \ Shadowed : m \in {"j", "jr", "jc"} /\ m \in Mnemonics \ Shadowed
  /\ TwoByte = ImmEntries \cup {"j", "jr", "jc", "jcr"}
  BY DEF NoOperand, RegAlu, ImmAlu, RelJumps, TwoByte, Mnemonics, OneByteEntries,
         ImmEntries, JumpEntries, Shadowed

LEMMA OpcodeNamed ==
  ASSUME NEW m \in Single \ (Shadowed \cup {"rd", "wr", "sw", "ld", "st", "j", "jr", "jc"})
  PROVE  opcode(m) \in Bytes(m)
<1>1. m \in Mnemonics
  BY Singles DEF Single
<1>2. /\ 4 \in Bytes("jp") /\ 5 \in Bytes("jpr") /\ 32 \in Bytes("ipoll")
      /\ 40 \in Bytes("cclr") /\ 41 \in Bytes("nop") /\ 42 \in Bytes("nzero")
      /\ 43 \in Bytes("sgn") /\ 56 \in Bytes("cset") /\ 57 \in Bytes("ctog")
      /\ 58 \in Bytes("zero") /\ 59 \in Bytes("nsgn") /\ 38 \in Bytes("sl")
      /\ 46 \in Bytes("slc") /\ 39 \in Bytes("sr") /\ 47 \in Bytes("src")
      /\ 33 \in Bytes("or") /\ 34 \in Bytes("and") /\ 35 \in Bytes("xor")
      /\ 44 \in Bytes("add") /\ 45 \in Bytes("sub") /\ 96 \in Bytes("rdi")
      /\ 97 \in Bytes("ori") /\ 98 \in Bytes("andi") /\ 99 \in Bytes("xori")
      /\ 100 \in Bytes("addi") /\ 108 \in Bytes("adci") /\ 101 \in Bytes("subi")
      /\ 109 \in Bytes("sbci")
  BY DEF Bytes
<1>3. m \in {"jp", "jpr", "cclr", "nop", "nzero", "sgn", "cset", "ctog",
            "zero", "nsgn", "sl", "slc", "sr", "src", "ipoll", "or", "and",
            "xor", "add", "sub", "rdi", "ori", "andi", "xori", "addi",
            "adci", "subi", "sbci"}
  BY DEF Single, NoOperand, RegAlu, ImmAlu, RelJumps, Shadowed
<1>4. \E i : i \in Bytes(m)
  BY <1>2, <1>3
<1> QED BY <1>1, <1>4, OpcodeOf

\* How far the offset of a jump goes.
LEMMA Reached == \A v \in Int : Reaches(0, v) => -1024 <= v - 1 /\ v - 1 <= 1023
<1> SUFFICES ASSUME NEW v \in Int, v - 0 - 1 \in -1024..1023
             PROVE  -1024 <= v - 1 /\ v - 1 <= 1023
  BY DEF Reaches, JumpOffset
<1>1. v - 0 - 1 = v - 1
  OBVIOUS
<1> QED BY <1>1

\* A line that is one instruction: its first byte is one of its mnemonic's,
\* and the operand of a two-byte one follows.
LEMMA SingleBytes ==
  ASSUME NEW l, Accepted(l), l[1] \in Single \ Shadowed, NEW at \in Int
  PROVE  /\ l[1] \in Mnemonics \ Shadowed
         /\ \E b \in Bytes(l[1]) : \/ l[1] \notin TwoByte /\ Code(l, at) = <<b>>
                                   \/ /\ l[1] \in TwoByte
                                      /\ \E w \in Byte : Code(l, at) = <<b, w>>
         /\ l[1] \in ImmAlu =>
              /\ l[2] \in Int
              /\ Code(l, at) = <<opcode(l[1]), ToByte(l[2])>>
         /\ l[1] \in RelJumps => 
              /\ l[2] \in Int /\ -1024 <= l[2] - 1 /\ l[2] - 1 <= 1023
              /\ Code(l, at) = << opcode(l[1]) + HighBits(l[2] - 1), ToByte(l[2] - 1) >>
              /\ BitAnd(opcode(l[1]) + HighBits(l[2] - 1), IMMJ_MASK) = HighBits(l[2] - 1)
<1> DEFINE m == l[1]
<1>1. m \in Mnemonics \ Shadowed
  BY Singles DEF Single
<1>2. CASE m \in NoOperand
  <2>1. Code(l, at) = <<opcode(m)>>
    BY <1>2 DEF Code, asm_basic, NoOperand, RegAlu, ImmAlu, RelJumps
  <2>2. opcode(m) \in Bytes(m)
    BY <1>2, OpcodeNamed DEF NoOperand
  <2>3. m \notin TwoByte
    BY <1>2, Singles
  <2> QED BY <1>1, <2>1, <2>2, <2>3 DEF TwoByte
<1>3. CASE m \in {"rd", "wr", "sw"}
  <2>1. l[2] \in 0..7
    BY <1>3 DEF Accepted, NoOperand, RegAlu, ImmAlu, RelJumps
  <2>2. Code(l, at) = asm_register(m, l[2])
    BY <1>3 DEF Code, NoOperand, RegAlu, ImmAlu, RelJumps
  <2>3. PICK b \in Int : Code(l, at) = <<b>> /\ b = (CASE m = "rd" -> 16 + l[2]
                                                     [] m = "wr" -> 8 + l[2]
                                                     [] m = "sw" -> 24 + l[2])
    BY <1>3, <2>1, <2>2, MoveBytes
  <2>4. b \in Bytes(m)
    BY <1>3, <2>1, <2>3 DEF Bytes
  <2>5. m \notin TwoByte
    BY <1>3, Singles
  <2> QED BY <1>1, <2>3, <2>4, <2>5 DEF TwoByte
<1>4. CASE m \in RegAlu
  <2>1. Code(l, at) = asm_alu_reg(m, l[2])
    BY <1>4 DEF Code, NoOperand, RegAlu, ImmAlu, RelJumps
  <2>2. \E b \in Bytes(m) : Code(l, at) = <<b>>
    BY <1>4, <2>1, RegAluBytes
  <2>3. m \notin TwoByte
    BY <1>4, Singles
  <2> QED BY <1>1, <2>2, <2>3 DEF TwoByte
<1>5. CASE m \in {"ld", "st"}
  <2>1. l[2] \in {MM_SP, MM_Q, MM_P, MM_PPRE} /\ l[3] \in Int
    BY <1>5 DEF Accepted, NoOperand, RegAlu, ImmAlu, RelJumps
  <2>2. Code(l, at) = asm_mem(m, l[2], l[3])
    BY <1>5 DEF Code, NoOperand, RegAlu, ImmAlu, RelJumps
  <2>3. \E b \in Bytes(m) : Code(l, at) = <<b>>
    BY <1>5, <2>1, <2>2, MemBytes
  <2>4. m \notin TwoByte
    BY <1>5, Singles
  <2> QED BY <1>1, <2>3, <2>4 DEF TwoByte
<1>6. CASE m \in ImmAlu
  <2>1. l[2] \in Int
    BY <1>6 DEF Accepted, NoOperand, RegAlu, ImmAlu, RelJumps
  <2>2. Code(l, at) = <<opcode(m), ToByte(l[2])>>
    BY <1>6 DEF Code, NoOperand, RegAlu, ImmAlu, RelJumps, asm_alu_imm
  <2>3. opcode(m) \in Bytes(m)
    BY <1>6, OpcodeNamed DEF ImmAlu, Single
  <2>4. ToByte(l[2]) \in Byte
    BY <2>1, Truncated
  <2>5. m \in TwoByte /\ m \notin RelJumps
    BY <1>6 DEF TwoByte, RelJumps, ImmAlu
  <2> QED BY <1>1, <2>1, <2>2, <2>3, <2>4, <2>5
<1>7. CASE m \in RelJumps
  <2>1. l[2] \in Int /\ Reaches(0, l[2])
    BY <1>7 DEF Accepted, NoOperand, RegAlu, ImmAlu, RelJumps
  <2>2. Code(l, at) = asm_reljump(m, at, at + l[2])
    BY <1>7 DEF Code, NoOperand, RegAlu, ImmAlu, RelJumps
  <2>3. JumpOffset(at, at + l[2]) = l[2] - 1
    BY <2>1 DEF JumpOffset
  <2>4. m \in {"j", "jr", "jc"} /\ at + l[2] \in Int
    BY <1>7, <2>1, Singles
  <2>5. /\ Code(l, at) = << opcode(m) + HighBits(l[2] - 1), ToByte(l[2] - 1) >>
        /\ opcode(m) + HighBits(l[2] - 1) \in Bytes(m)
        /\ BitAnd(opcode(m) + HighBits(l[2] - 1), IMMJ_MASK) = HighBits(l[2] - 1)
    BY <2>2, <2>3, <2>4, JumpBytes
  <2>6. ToByte(l[2] - 1) \in Byte
    BY <2>1, Truncated
  <2>7. m \in TwoByte /\ m \notin ImmAlu
    BY <1>7 DEF TwoByte, RelJumps, ImmAlu
  <2>8. -1024 <= l[2] - 1 /\ l[2] - 1 <= 1023
    BY <2>1, Reached
  <2> QED BY <1>1, <2>1, <2>5, <2>6, <2>7, <2>8
<1> QED BY <1>2, <1>3, <1>4, <1>5, <1>6, <1>7 DEF Single
-----------------------------------------------------------------------------
(* Where the bytes of the line are, and what is fetched from them.         *)

Laid == /\ line \in Lines /\ origin \in Origins /\ start \in Starts
        /\ code = Code(line, origin)
        /\ rom = Placed(<<origin, code>>)

LEMMA InitLaid == Init => Laid
  BY DEF Init, Laid

LEMMA StaysLaid ==
  ASSUME Laid, Execute \/ UNCHANGED isaVars
  PROVE  Laid'
  BY DEF Laid, Execute, isaVars

LEMMA Assumed ==
  ASSUME Laid
  PROVE  /\ origin \in Nat /\ origin + Len(code) <= 32768
         /\ Accepted(line) /\ line[1] \notin Shadowed
         /\ start \in Registers
<1>1. origin \in Cell /\ origin + Len(code) <= ROM_SIZE
  BY OriginsAssumption DEF Laid
<1>2. Accepted(line) /\ line[1] \notin Shadowed /\ start \in Registers
  BY LinesAssumption, StartsAssumption DEF Laid
<1>3. origin \in Nat
  BY <1>1 DEF Cell
<1> QED BY <1>1, <1>2, <1>3 DEF ROM_SIZE

LEMMA Fetching ==
  ASSUME Laid, Len(code) \in Nat, NEW k \in Nat, k < Len(code)
  PROVE  peek(ToAddr(origin + k)) = code[k + 1]
<1>1. origin \in Nat /\ origin + Len(code) <= 32768
  BY Assumed
<1> DEFINE a == origin + k
<1>2. a \in origin..(origin + Len(code) - 1) /\ a \in Int /\ 0 <= a /\ a <= 32767
  BY <1>1
<1>3. ToAddr(a) = a
  <2> HIDE DEF a
  <2> QED BY <1>2 DEF ToAddr
<1>4. peek(a) = ReadCell(rom, a)
  <2> HIDE DEF a
  <2>1. a \div 32768 = 0 /\ a % 32768 = a
    BY <1>2
  <2> QED BY <2>1 DEF peek, ROM_SIZE
<1>5. rom = [c \in origin..(origin + Len(code) - 1) |-> code[c - origin + 1]]
  <2>1. /\ <<origin, code>>[1] = origin /\ <<origin, code>>[2] = code
        /\ rom = Placed(<<origin, code>>)
    BY DEF Laid
  <2> QED BY <2>1 DEF Placed
<1>6. ReadCell(rom, a) = code[a - origin + 1]
  <2> HIDE DEF a
  <2> QED BY <1>2, <1>5 DEF ReadCell
<1>7. a - origin + 1 = k + 1
  BY <1>1
<1> QED BY <1>3, <1>4, <1>6, <1>7

\* The bytes of the instruction k bytes into the line.
LEMMA Reading ==
  ASSUME Laid, Len(code) \in Nat, NEW k \in Nat, k < Len(code),
         cpu.pc = ToAddr(origin + k)
  PROVE  ibyte = code[k + 1] /\ (k + 1 < Len(code) => imm = code[k + 2])
<1>1. ibyte = code[k + 1]
  BY Fetching DEF ibyte
<1>2. ASSUME k + 1 < Len(code) PROVE imm = code[k + 2]
  <2>1. origin \in Nat
    BY Assumed
  <2>2. ToAddr(cpu.pc + 1) = ToAddr(origin + (k + 1))
    BY <2>1 DEF ToAddr
  <2>3. peek(ToAddr(origin + (k + 1))) = code[(k + 1) + 1]
    BY <1>2, Fetching
  <2>4. (k + 1) + 1 = k + 2
    OBVIOUS
  <2> QED BY <2>2, <2>3, <2>4 DEF imm
<1> QED BY <1>1, <1>2
-----------------------------------------------------------------------------
(* Lines that are one instruction.                                         *)

\* Nothing of the line has been executed.
Fresh == left = Len(code) /\ cpu = [start EXCEPT !.pc = origin]

LEMMA SingleLength ==
  ASSUME Laid, line[1] \in Single
  PROVE  \E b \in Bytes(line[1]) :
           /\ code[1] = b /\ Len(code) = IF line[1] \in TwoByte THEN 2 ELSE 1
           /\ line[1] \in TwoByte => code[2] \in Byte
<1>1. Accepted(line) /\ line[1] \notin Shadowed /\ origin \in Int
  BY Assumed
<1>2. PICK b \in Bytes(line[1]) : \/ line[1] \notin TwoByte /\ code = <<b>>
                                  \/ /\ line[1] \in TwoByte
                                     /\ \E w \in Byte : code = <<b, w>>
  BY <1>1, SingleBytes DEF Laid
<1> QED BY <1>2

LEMMA SingleFetched ==
  ASSUME Laid, Fresh, line[1] \in Single
  PROVE  /\ ibyte \in Byte /\ ilookup[ibyte] = line[1]
         /\ nbytes(ibyte) = Len(code)
         /\ Len(code) = IF line[1] \in TwoByte THEN 2 ELSE 1
         /\ ibyte = code[1] /\ (line[1] \in TwoByte => imm = code[2] /\ imm \in Byte)
         /\ cpu.pc = origin /\ origin \in Nat /\ start \in Registers
<1>1. Accepted(line) /\ line[1] \notin Shadowed /\ origin \in Int
  BY Assumed
<1>2. PICK b \in Bytes(line[1]) :
        /\ code[1] = b /\ Len(code) = IF line[1] \in TwoByte THEN 2 ELSE 1
        /\ line[1] \in TwoByte => code[2] \in Byte
  BY SingleLength
<1>3. line[1] \in Mnemonics \ Shadowed
  BY <1>1, SingleBytes
<1>4. /\ Len(code) = IF line[1] \in TwoByte THEN 2 ELSE 1
      /\ code[1] = b /\ (line[1] \in TwoByte => code[2] \in Byte)
  BY <1>2
<1>5. b \in Byte
  BY <1>3, BytesOfMnemonics
<1>6. origin \in Nat /\ origin + Len(code) <= 32768 /\ start \in Registers
  BY <1>4, Assumed
<1>7. cpu.pc = origin /\ origin = ToAddr(origin + 0)
  <2>1. cpu.pc = origin
    BY <1>6 DEF Fresh, Registers
  <2> QED BY <1>4, <1>6, <2>1 DEF ToAddr
<1>8. ibyte = b /\ (line[1] \in TwoByte => imm = code[2])
  BY <1>4, <1>7, Reading
<1>9. ilookup[b] = line[1]
  BY <1>3, <1>5, OpcodeMap
<1>10. nbytes(b) = IF line[1] \in TwoByte THEN 2 ELSE 1
  BY <1>3, <1>5, LengthOf, Singles
<1> QED BY <1>4, <1>5, <1>6, <1>7, <1>8, <1>9, <1>10

LEMMA FreshRegisters ==
  ASSUME Fresh, start \in Registers, origin \in Nat
  PROVE  /\ cpu.acc = start.acc /\ cpu.carry = start.carry
         /\ cpu.x = start.x /\ cpu.y = start.y /\ cpu.pc = origin
         /\ cpu.acc \in Byte /\ cpu.carry \in BOOLEAN
         /\ DOMAIN cpu = DOMAIN start
         /\ DOMAIN start = {"pc", "ia", "acc", "sp", "x", "y", "p", "q", "carry",
                            "int_en", "int_active", "io_rd", "io_wr", "idbg", "ints_in"}
  BY DEF Fresh, Registers

LEMMA SingleRuns ==
  ASSUME Laid, Fresh, line[1] \in Single, Execute
  PROVE  left' = 0 /\ cpu' = execute(line[1])
<1>1. Len(code) \in Nat
  BY SingleFetched
<1> QED BY <1>1, SingleFetched DEF Execute, Fresh

\* The nine bits of a sum, a difference and the two rotations.
LEMMA NineBits ==
  ASSUME NEW a \in Byte, NEW b \in Byte, NEW c \in BOOLEAN
  PROVE  /\ alu_add(a, b, c).word + 256 * CarryIn(alu_add(a, b, c).cout)
              = a + b + CarryIn(c)
         /\ alu_sub(a, b, c).word - 256 * (1 - CarryIn(alu_sub(a, b, c).cout))
              = a - b - (1 - CarryIn(c))
         /\ 256 * CarryIn(alu_sl(a, c).cout) + alu_sl(a, c).word = 2 * a + CarryIn(c)
         /\ 2 * alu_sr(a, c).word + CarryIn(alu_sr(a, c).cout) = 256 * CarryIn(c) + a
<1>1. /\ a \in Int /\ 0 <= a /\ a <= 255 /\ b \in Int /\ 0 <= b /\ b <= 255
      /\ CarryIn(c) \in {0, 1}
  BY ByteRange DEF CarryIn
<1> DEFINE s == SumOf(a, b, c)
           d == DifferenceOf(a, b, c)
<1>2. s = a + b + CarryIn(c) /\ d = a + 255 + CarryIn(c) - b
  BY DEF SumOf, DifferenceOf
<1>3. /\ alu_add(a, b, c).word = s % 256 /\ alu_sub(a, b, c).word = d % 256
      /\ alu_sl(a, c).word = (2 * a + CarryIn(c)) % 256
      /\ alu_sr(a, c).word = (a \div 2) + 128 * CarryIn(c)
  BY Zenon DEF alu_add, alu_sub, alu_sl, alu_sr, ToByte
<1>4. /\ alu_add(a, b, c).cout = HasBit(s, 256) /\ alu_sub(a, b, c).cout = HasBit(d, 256)
      /\ alu_sl(a, c).cout = HasBit(a, 128) /\ alu_sr(a, c).cout = HasBit(a, 1)
  BY Zenon DEF alu_add, alu_sub, alu_sl, alu_sr
<1> HIDE DEF s, d
<1>5. /\ s \in Int /\ 0 <= s /\ s <= 511 /\ CarryIn(HasBit(s, 256)) = s \div 256
      /\ d \in Int /\ 0 <= d /\ d <= 511 /\ CarryIn(HasBit(d, 256)) = d \div 256
  <2>1. s \in Int /\ 0 <= s /\ s <= 511 /\ d \in Int /\ 0 <= d /\ d <= 511
    BY <1>1, <1>2
  <2> QED BY <2>1 DEF CarryIn, HasBit
<1>6. CarryIn(HasBit(a, 128)) = a \div 128 /\ CarryIn(HasBit(a, 1)) = a % 2
  BY <1>1 DEF CarryIn, HasBit
<1>7. /\ CarryIn(alu_add(a, b, c).cout) = s \div 256
      /\ CarryIn(alu_sub(a, b, c).cout) = d \div 256
      /\ CarryIn(alu_sl(a, c).cout) = a \div 128
      /\ CarryIn(alu_sr(a, c).cout) = a % 2
  <2>1. CarryIn(alu_add(a, b, c).cout) = s \div 256
    BY <1>4, <1>5, Zenon
  <2>2. CarryIn(alu_sub(a, b, c).cout) = d \div 256
    BY <1>4, <1>5, Zenon
  <2>3. CarryIn(alu_sl(a, c).cout) = a \div 128
    BY <1>4, <1>6, Zenon
  <2>4. CarryIn(alu_sr(a, c).cout) = a % 2
    BY <1>4, <1>6, Zenon
  <2> QED BY <2>1, <2>2, <2>3, <2>4
<1>8. (s % 256) + 256 * (s \div 256) = s /\ (d % 256) + 256 * (d \div 256) = d
  BY <1>5
<1>9. alu_add(a, b, c).word + 256 * CarryIn(alu_add(a, b, c).cout) = s
  BY <1>3, <1>7, <1>8, Zenon
<1>10. alu_sub(a, b, c).word + 256 * CarryIn(alu_sub(a, b, c).cout) = d
  BY <1>3, <1>7, <1>8, Zenon
<1>11. alu_sub(a, b, c).word - 256 * (1 - CarryIn(alu_sub(a, b, c).cout))
         = a - b - (1 - CarryIn(c))
  <2>1. alu_sub(a, b, c).word \in Int /\ CarryIn(alu_sub(a, b, c).cout) \in Int
    BY <1>3, <1>5, <1>7
  <2> QED BY <1>1, <1>2, <1>10, <2>1
<1>12. 256 * CarryIn(alu_sl(a, c).cout) + alu_sl(a, c).word = 2 * a + CarryIn(c)
  <2>1. 256 * (a \div 128) + ((2 * a + CarryIn(c)) % 256) = 2 * a + CarryIn(c)
    <3>1. ASSUME NEW n \in {0, 1}
          PROVE  256 * (a \div 128) + ((2 * a + n) % 256) = 2 * a + n
      <4>1. CASE a < 128
        <5>1. a \div 128 = 0 /\ (2 * a + n) % 256 = 2 * a + n
          BY <1>1, <4>1
        <5> QED BY <1>1, <5>1
      <4>2. CASE a >= 128
        <5>1. a \div 128 = 1 /\ (2 * a + n) % 256 = 2 * a + n - 256
          BY <1>1, <4>2
        <5> QED BY <1>1, <5>1
      <4> QED BY <1>1, <4>1, <4>2
    <3> QED BY <1>1, <3>1
  <2> QED BY <1>3, <1>7, <2>1, Zenon
<1>13. 2 * alu_sr(a, c).word + CarryIn(alu_sr(a, c).cout) = 256 * CarryIn(c) + a
  <2>1. 2 * ((a \div 2) + 128 * CarryIn(c)) + (a % 2) = 256 * CarryIn(c) + a
    BY <1>1
  <2> QED BY <1>3, <1>7, <2>1, Zenon
<1> QED BY <1>2, <1>9, <1>11, <1>12, <1>13

\* The instructions that take the carry in.
LEMMA ChainsRun ==
  ASSUME Laid, Fresh, line[1] \in Single, Execute
  PROVE  CarryChains'
<1>1. /\ left' = 0 /\ cpu' = execute(line[1]) /\ line' = line /\ start' = start
  BY SingleRuns DEF Execute
<1>2. /\ cpu.acc = start.acc /\ cpu.carry = start.carry
      /\ cpu.acc \in Int /\ 0 <= cpu.acc /\ cpu.acc <= 255
      /\ cpu.carry \in BOOLEAN
      /\ DOMAIN cpu = {"pc", "ia", "acc", "sp", "x", "y", "p", "q", "carry",
                       "int_en", "int_active", "io_rd", "io_wr", "idbg", "ints_in"}
  BY SingleFetched, FreshRegisters, ByteRange
<1>3. \A n : /\ DOMAIN Past(n) = DOMAIN cpu
  BY DEF Past, Fetched
<1>4. \A r : /\ WithResult(1, r).acc = r.word /\ WithResult(1, r).carry = r.cout
             /\ WithResult(2, r).acc = r.word /\ WithResult(2, r).carry = r.cout
  BY <1>2, <1>3 DEF WithResult
<1>5. cpu.acc \in Byte
  BY <1>2, ByteRange
<1>6. ASSUME line[1] \in {"adci", "sbci"}
      PROVE  imm \in Byte /\ Operand = imm
  <2>1. line[1] \in ImmAlu /\ line[1] \in TwoByte
    BY <1>6 DEF ImmAlu, TwoByte
  <2>2. code = <<opcode(line[1]), ToByte(line[2])>>
    <3>1. Accepted(line) /\ line[1] \in Single \ Shadowed /\ origin \in Int
      BY SingleFetched, LinesAssumption DEF Laid
    <3> QED BY <2>1, <3>1, SingleBytes DEF Laid
  <2>3. imm = ToByte(line[2]) /\ imm \in Byte
    BY <2>1, <2>2, SingleFetched
  <2>4. Operand = ToByte(line[2])
    BY <2>1 DEF Operand, RegAlu, ImmAlu
  <2> QED BY <2>3, <2>4, ByteRange
<1>7. ASSUME line[1] = "adci"
      PROVE  cpu'.acc + 256 * CarryIn(cpu'.carry)
               = start.acc + Operand + CarryIn(start.carry)
  <2>1. cpu' = WithResult(2, alu_add(cpu.acc, imm, cpu.carry))
    BY <1>1, <1>7 DEF execute, exe_adci
  <2>2. cpu'.acc = alu_add(cpu.acc, imm, cpu.carry).word /\ cpu'.carry = alu_add(cpu.acc, imm, cpu.carry).cout
    BY <1>4, <2>1, Zenon
  <2> QED BY <1>2, <1>5, <1>6, <1>7, <2>2, NineBits
<1>8. ASSUME line[1] = "sbci"
      PROVE  cpu'.acc - 256 * Borrow(cpu'.carry)
               = start.acc - Operand - Borrow(start.carry)
  <2>1. cpu' = WithResult(2, alu_sub(cpu.acc, imm, cpu.carry))
    BY <1>1, <1>8 DEF execute, exe_sbci
  <2>2. cpu'.acc = alu_sub(cpu.acc, imm, cpu.carry).word /\ cpu'.carry = alu_sub(cpu.acc, imm, cpu.carry).cout
    BY <1>4, <2>1, Zenon
  <2> QED BY <1>2, <1>5, <1>6, <1>8, <2>2, NineBits DEF Borrow
<1>9. ASSUME line[1] = "slc"
      PROVE  256 * CarryIn(cpu'.carry) + cpu'.acc
               = 2 * start.acc + CarryIn(start.carry)
  <2>1. cpu' = WithResult(1, alu_sl(cpu.acc, cpu.carry))
    BY <1>1, <1>9 DEF execute, exe_slc
  <2>2. cpu'.acc = alu_sl(cpu.acc, cpu.carry).word /\ cpu'.carry = alu_sl(cpu.acc, cpu.carry).cout
    BY <1>4, <2>1, Zenon
  <2> QED BY <1>2, <1>5, <2>2, NineBits
<1>10. ASSUME line[1] = "src"
      PROVE  2 * cpu'.acc + CarryIn(cpu'.carry)
               = 256 * CarryIn(start.carry) + start.acc
  <2>1. cpu' = WithResult(1, alu_sr(cpu.acc, cpu.carry))
    BY <1>1, <1>10 DEF execute, exe_src
  <2>2. cpu'.acc = alu_sr(cpu.acc, cpu.carry).word /\ cpu'.carry = alu_sr(cpu.acc, cpu.carry).cout
    BY <1>4, <2>1, Zenon
  <2> QED BY <1>2, <1>5, <2>2, NineBits
<1>11. Operand' = Operand
  BY <1>1 DEF Operand
<1> QED BY <1>1, <1>7, <1>8, <1>9, <1>10, <1>11 DEF CarryChains, After, Borrow

\* The relative jumps: the offset comes back as it was written.
LEMMA OffsetRead ==
  ASSUME Laid, Fresh, line[1] \in RelJumps
  PROVE  offset_from_instr = line[2] - 1 /\ line[2] \in Int
<1>1. line[1] \in Single /\ line[1] \in TwoByte
  BY DEF Single, TwoByte
<1>2. Accepted(line) /\ line[1] \notin Shadowed
  BY LinesAssumption DEF Laid
<1> DEFINE offset == line[2] - 1
<1>3. /\ line[2] \in Int /\ -1024 <= line[2] - 1 /\ line[2] - 1 <= 1023
      /\ code = << opcode(line[1]) + HighBits(offset), ToByte(offset) >>
      /\ BitAnd(opcode(line[1]) + HighBits(offset), IMMJ_MASK) = HighBits(offset)
  <2>1. origin \in Int
    BY <1>1, SingleFetched
  <2> QED BY <1>1, <1>2, <2>1, SingleBytes DEF Laid
<1>4. offset \in Int /\ -1024 <= offset /\ offset <= 1023
  BY <1>3
<1> HIDE DEF offset
<1>5. BitAnd(ibyte, IMMJ_MASK) = HighBits(offset) /\ imm = ToByte(offset)
  <2>1. ibyte = code[1] /\ imm = code[2]
    BY <1>1, SingleFetched
  <2>2. code[1] = opcode(line[1]) + HighBits(offset) /\ code[2] = ToByte(offset)
    BY <1>3
  <2> QED BY <1>3, <2>1, <2>2
<1>6. JumpField = offset % 2048
  BY <1>4, <1>5, HighBitsValue DEF JumpField
<1>7. signExtend(offset % 2048, 1024) = offset
  <2>1. CASE offset >= 0
    BY <1>4, <2>1 DEF signExtend
  <2>2. CASE offset < 0
    <3>1. offset % 2048 = offset + 2048
      BY <1>4, <2>2
    <3>2. ((offset + 2048) \div 1024) % 2 = 1 /\ (offset + 2048) % 1024 = offset + 1024
      BY <1>4, <2>2
    <3> QED BY <1>4, <3>1, <3>2 DEF signExtend
  <2> QED BY <1>4, <2>1, <2>2
<1> QED BY <1>3, <1>6, <1>7 DEF offset_from_instr, offset

LEMMA JumpsRun ==
  ASSUME Laid, Fresh, line[1] \in Single, Execute
  PROVE  JumpArrives'
<1>1. /\ left' = 0 /\ cpu' = execute(line[1]) /\ line' = line /\ start' = start
      /\ origin' = origin /\ code' = code
  BY SingleRuns DEF Execute
<1>2. /\ cpu.pc = origin /\ origin \in Nat /\ cpu.carry = start.carry
      /\ DOMAIN cpu = {"pc", "ia", "acc", "sp", "x", "y", "p", "q", "carry",
                       "int_en", "int_active", "io_rd", "io_wr", "idbg", "ints_in"}
  BY SingleFetched, FreshRegisters
<1>3. /\ DOMAIN Fetched = DOMAIN cpu
      /\ DOMAIN exe_j = DOMAIN cpu
  BY DEF Fetched, exe_j
<1>4. CASE line[1] \in {"j", "jr", "jc"}
  <2>1. line[1] \in RelJumps /\ line[1] \in TwoByte
    BY <1>4 DEF RelJumps, TwoByte
  <2>2. Len(code) = 2
    BY <2>1, SingleFetched
  <2>3. exe_j.pc = ToAddr(origin + line[2])
    <3>1. exe_j.pc = ToAddr(cpu.pc + offset_from_instr + 1)
      BY <1>2, <1>3 DEF exe_j
    <3>2. cpu.pc + offset_from_instr + 1 = origin + line[2]
      BY <1>2, <2>1, OffsetRead
    <3> QED BY <3>1, <3>2
  <2>4. exe_jr.pc = exe_j.pc /\ Past(2).pc = ToAddr(origin + 2)
    BY <1>2, <1>3 DEF exe_jr, Past
  <2>5. Target = ToAddr(origin + line[2]) /\ ReturnAddress = ToAddr(origin + 2)
    BY <2>1, <2>2 DEF Target, ReturnAddress
  <2>6. Taken <=> line[1] \in {"j", "jr"} \/ start.carry
    BY <1>4 DEF Taken
  <2>7. cpu'.pc = IF Taken THEN Target ELSE ReturnAddress
    <3>1. CASE line[1] = "j"
      <4>1. cpu' = exe_j
        BY <1>1, <3>1 DEF execute
      <4> QED BY <2>3, <2>5, <2>6, <3>1, <4>1
    <3>2. CASE line[1] = "jr"
      <4>1. cpu' = exe_jr
        BY <1>1, <3>2 DEF execute
      <4> QED BY <2>3, <2>4, <2>5, <2>6, <3>2, <4>1
    <3>3. CASE line[1] = "jc"
      <4>1. cpu' = IF cpu.carry THEN exe_j ELSE Past(2)
        BY <1>1, <3>3 DEF execute, exe_jc
      <4> QED BY <1>2, <2>3, <2>4, <2>5, <2>6, <3>3, <4>1
    <3> QED BY <1>4, <3>1, <3>2, <3>3
  <2>8. Taken' = Taken /\ Target' = Target /\ ReturnAddress' = ReturnAddress
    BY <1>1 DEF Taken, Target, ReturnAddress
  <2> QED BY <2>7, <2>8 DEF JumpArrives
<1>5. CASE line[1] \notin {"j", "jr", "jc"}
  BY <1>1, <1>5 DEF JumpArrives, After, Single, NoOperand, RegAlu, ImmAlu, RelJumps
<1> QED BY <1>4, <1>5

LEMMA CallsRun ==
  ASSUME Laid, Fresh, line[1] \in Single, Execute
  PROVE  CallReturns'
<1>1. /\ left' = 0 /\ cpu' = execute(line[1]) /\ line' = line
      /\ origin' = origin /\ code' = code
  BY SingleRuns DEF Execute
<1>2. /\ cpu.pc = origin /\ origin \in Nat
      /\ DOMAIN cpu = {"pc", "ia", "acc", "sp", "x", "y", "p", "q", "carry",
                       "int_en", "int_active", "io_rd", "io_wr", "idbg", "ints_in"}
  BY SingleFetched, FreshRegisters
<1>3. DOMAIN Fetched = DOMAIN cpu /\ DOMAIN exe_j = DOMAIN cpu
  BY DEF Fetched, exe_j
<1>4. /\ DOMAIN exe_jr = DOMAIN cpu /\ exe_jr.p = ToAddr(origin + 1)
      /\ DOMAIN exe_jpr = DOMAIN cpu /\ exe_jpr.p = origin
  BY <1>2, <1>3 DEF exe_jr, exe_jpr
<1>5. ASSUME line[1] \in {"jr", "jpr"}
      PROVE  ToAddr(cpu'.p + 1) = ToAddr(origin + Len(code)) /\ DOMAIN cpu' = DOMAIN cpu
  <2>1. CASE line[1] = "jr"
    <3>1. cpu' = exe_jr /\ Len(code) = 2
      BY <1>1, <2>1, SingleFetched DEF execute, TwoByte, RelJumps
    <3>2. ToAddr(ToAddr(origin + 1) + 1) = ToAddr(origin + 2)
      BY <1>2 DEF ToAddr
    <3> QED BY <1>4, <3>1, <3>2
  <2>2. CASE line[1] = "jpr"
    <3>1. cpu' = exe_jpr /\ Len(code) = 1
      BY <1>1, <2>2, SingleFetched DEF execute, TwoByte, RelJumps, ImmAlu
    <3> QED BY <1>4, <3>1
  <2> QED BY <1>5, <2>1, <2>2
<1>6. ASSUME line[1] \in {"jr", "jpr"}
      PROVE  exe_jp'.pc = ReturnAddress'
  <2>1. exe_jp' = [Fetched' EXCEPT !.pc = ToAddr(cpu'.p + 1)]
    BY DEF exe_jp
  <2>2. "pc" \in DOMAIN Fetched'
    BY <1>2, <1>5, <1>6 DEF Fetched
  <2> QED BY <1>1, <1>5, <1>6, <2>1, <2>2 DEF ReturnAddress
<1> QED BY <1>1, <1>6 DEF CallReturns, After, Single, NoOperand, RegAlu, ImmAlu, RelJumps

\* A line that is one instruction has not run yet, or keeps what is claimed.
SingleInv == line[1] \in Single =>
  Fresh \/ (left = 0 /\ CarryChains /\ JumpArrives /\ CallReturns)

LEMMA SingleStep ==
  ASSUME Laid, SingleInv, Execute
  PROVE  SingleInv'
<1> SUFFICES ASSUME line[1] \in Single
             PROVE  left' = 0 /\ CarryChains' /\ JumpArrives' /\ CallReturns'
  BY DEF SingleInv, Execute
<1>1. left > 0
  BY DEF Execute
<1>2. Fresh
  BY <1>1 DEF SingleInv
<1> QED BY <1>2, SingleRuns, ChainsRun, JumpsRun, CallsRun

LEMMA SingleClaims ==
  ASSUME Laid, SingleInv, line[1] \in Single
  PROVE  DecodesAsWritten /\ CarryChains /\ JumpArrives /\ CallReturns /\ MacrosKeepRest
<1>1. ASSUME Fresh PROVE left > 0
  <2>1. Len(code) \in {1, 2}
    BY <1>1, SingleFetched
  <2> QED BY <1>1, <2>1 DEF Fresh
<1>2. CarryChains /\ JumpArrives /\ CallReturns
  <2>1. CASE Fresh
    BY <1>1, <2>1 DEF CarryChains, JumpArrives, CallReturns, After
  <2> QED BY <2>1 DEF SingleInv
<1>3. DecodesAsWritten
  <2> SUFFICES ASSUME left = Len(code)
               PROVE  ilookup[ibyte] = line[1] /\ nbytes(ibyte) = Len(code)
    BY DEF DecodesAsWritten
  <2>1. CASE Fresh
    BY <2>1, SingleFetched
  <2>2. CASE ~ Fresh
    <3>1. Len(code) = 0
      BY <2>2 DEF SingleInv
    <3> QED BY <3>1, SingleLength
  <2> QED BY <2>1, <2>2
<1>4. MacrosKeepRest
  BY DEF MacrosKeepRest, After, Single, NoOperand, RegAlu, ImmAlu, RelJumps
<1> QED BY <1>2, <1>3, <1>4
-----------------------------------------------------------------------------
(* Macros: what each of their instructions does to the registers.          *)

\* k bytes of the line have been executed, nothing but the registers of f has
\* changed that a macro is to keep.
At(k, f) == /\ left = Len(code) - k
            /\ cpu \in Registers
            /\ cpu.pc = ToAddr(origin + k)
            /\ cpu.carry = start.carry
            /\ \A r \in Holders : Get(cpu, r) = f[r]

\* The registers after rd, wr or sw, and with the accumulator loaded.
Copied(f, r)  == [q \in Holders |-> IF q = ACC THEN f[r] ELSE f[q]]
Written(f, r) == [q \in Holders |-> IF q = r THEN f[ACC] ELSE f[q]]
Swapped(f, r) == [q \in Holders |-> IF q = ACC THEN f[r]
                                    ELSE IF q = r THEN f[ACC] ELSE f[q]]
Loaded(f, w)  == [q \in Holders |-> IF q = ACC THEN w ELSE f[q]]

LEMMA Numbers == /\ SP = 0 /\ X = 2 /\ Y = 3 /\ PL = 4 /\ PH = 5 /\ QL = 6
                 /\ QH = 7 /\ ACC = 8 /\ Holders = {0, 2, 3, 4, 5, 6, 7, 8}
  BY DEF SP, X, Y, PL, PH, QL, QH, ACC, Holders

LEMMA Gets ==
  /\ \A c : /\ Get(c, 8) = c.acc /\ Get(c, 0) = c.sp /\ Get(c, 2) = c.x
            /\ Get(c, 3) = c.y /\ Get(c, 4) = Lo(c.p) /\ Get(c, 5) = Hi(c.p)
            /\ Get(c, 6) = Lo(c.q) /\ Get(c, 7) = Hi(c.q)
  BY DEF Get, SP, X, Y, PL, PH, QL, QH, ACC

LEMMA Halves ==
  /\ \A h, l \in Byte : /\ Pair(h, l) \in Addr
                        /\ Hi(Pair(h, l)) = h /\ Lo(Pair(h, l)) = l
  /\ \A r \in Addr : Hi(r) \in Byte /\ Lo(r) \in Byte /\ Pair(Hi(r), Lo(r)) = r
<1>1. ASSUME NEW h \in Byte, NEW l \in Byte
      PROVE  Pair(h, l) \in Addr /\ Hi(Pair(h, l)) = h /\ Lo(Pair(h, l)) = l
  <2>1. h \in Int /\ 0 <= h /\ h <= 255 /\ l \in Int /\ 0 <= l /\ l <= 255
    BY ByteRange
  <2> QED BY <2>1, AddrRange DEF Pair, Hi, Lo
<1>2. ASSUME NEW r \in Addr
      PROVE  Hi(r) \in Byte /\ Lo(r) \in Byte /\ Pair(Hi(r), Lo(r)) = r
  BY AddrRange, ByteRange DEF Pair, Hi, Lo
<1> QED BY <1>1, <1>2

\* Registers with the accumulator or pc replaced.
LEMMA AccReplaced ==
  ASSUME cpu \in Registers, NEW n \in Int, NEW w \in Byte
  PROVE  /\ WithAcc(n, w) \in Registers
         /\ WithAcc(n, w).pc = ToAddr(cpu.pc + n)
         /\ WithAcc(n, w).carry = cpu.carry
         /\ \A r \in Holders : Get(WithAcc(n, w), r) = IF r = ACC THEN w ELSE Get(cpu, r)
<1>1. ToAddr(cpu.pc + n) \in Addr
  <2>1. cpu.pc \in Addr
    BY DEF Registers
  <2> QED BY <2>1, Displaced
<1> DEFINE d == WithAcc(n, w)
<1>2. /\ d \in Registers /\ d.pc = ToAddr(cpu.pc + n) /\ d.carry = cpu.carry
      /\ d.acc = w /\ d.sp = cpu.sp /\ d.x = cpu.x /\ d.y = cpu.y
      /\ d.p = cpu.p /\ d.q = cpu.q
  BY <1>1 DEF WithAcc, Past, Fetched, Registers
<1> HIDE DEF d
<1>3. \A r \in Holders : Get(d, r) = IF r = ACC THEN w ELSE Get(cpu, r)
  <2> TAKE r \in Holders
  <2>1. r \in {0, 2, 3, 4, 5, 6, 7, 8} /\ ACC = 8
    BY Numbers
  <2>2. /\ r = 8 => Get(d, r) = w
        /\ r = 0 => Get(d, r) = cpu.sp /\ Get(cpu, r) = cpu.sp
        /\ r = 2 => Get(d, r) = cpu.x /\ Get(cpu, r) = cpu.x
        /\ r = 3 => Get(d, r) = cpu.y /\ Get(cpu, r) = cpu.y
        /\ r = 4 => Get(d, r) = Lo(cpu.p) /\ Get(cpu, r) = Lo(cpu.p)
        /\ r = 5 => Get(d, r) = Hi(cpu.p) /\ Get(cpu, r) = Hi(cpu.p)
        /\ r = 6 => Get(d, r) = Lo(cpu.q) /\ Get(cpu, r) = Lo(cpu.q)
        /\ r = 7 => Get(d, r) = Hi(cpu.q) /\ Get(cpu, r) = Hi(cpu.q)
    BY <1>2, Gets
  <2> QED BY <2>1, <2>2
<1> QED BY <1>2, <1>3 DEF d

\* A transfer between the accumulator and a register that is not the port.
LEMMA MoveGets ==
  ASSUME cpu \in Registers, NEW r \in Holders \ {ACC}, RegId = r
  PROVE  /\ exe_rmove \in Registers
         /\ exe_rmove.pc = ToAddr(cpu.pc + 1)
         /\ exe_rmove.carry = cpu.carry
         /\ \A q \in Holders :
              Get(exe_rmove, q) =
                IF q = ACC THEN IF IsRead THEN Get(cpu, r) ELSE cpu.acc
                ELSE IF q = r /\ IsWrite THEN cpu.acc ELSE Get(cpu, q)
<1> DEFINE d == exe_rmove
           moved == IF IsRead THEN RegFile[r + 1] ELSE cpu.acc
<1>1. /\ cpu.acc \in Byte /\ cpu.sp \in Byte /\ cpu.x \in Byte
      /\ cpu.y \in Byte /\ cpu.p \in Addr /\ cpu.q \in Addr /\ cpu.pc \in Addr
  BY DEF Registers
<1>2. r \in {0, 2, 3, 4, 5, 6, 7} /\ ACC = 8
  BY Numbers
<1>3. RegFile[r + 1] = Get(cpu, r) /\ Get(cpu, r) \in Byte
  BY <1>1, <1>2, Gets, Halves DEF RegFile
<1>4. \A s \in 0..7, old \in Byte : Moved(s, old) \in Byte
  BY <1>1 DEF Moved
<1>5. /\ Lo(cpu.p) \in Byte /\ Hi(cpu.p) \in Byte
      /\ Lo(cpu.q) \in Byte /\ Hi(cpu.q) \in Byte
  BY <1>1, Halves
<1> DEFINE np == Pair(Moved(5, Hi(cpu.p)), Moved(4, Lo(cpu.p)))
           nq == Pair(Moved(7, Hi(cpu.q)), Moved(6, Lo(cpu.q)))
<1>6. /\ np \in Addr /\ Hi(np) = Moved(5, Hi(cpu.p)) /\ Lo(np) = Moved(4, Lo(cpu.p))
      /\ nq \in Addr /\ Hi(nq) = Moved(7, Hi(cpu.q)) /\ Lo(nq) = Moved(6, Lo(cpu.q))
  BY <1>4, <1>5, Halves
<1>7. /\ moved \in Byte /\ ToAddr(cpu.pc + 1) \in Addr
      /\ Moved(0, cpu.sp) \in Byte /\ Moved(2, cpu.x) \in Byte /\ Moved(3, cpu.y) \in Byte
      /\ (IsRead /\ RegId = REG_IO) \in BOOLEAN /\ (IsWrite /\ RegId = REG_IO) \in BOOLEAN
  BY <1>1, <1>3, <1>4, Displaced
<1>8. /\ Past(1) \in Registers /\ Past(1).pc = ToAddr(cpu.pc + 1)
      /\ Past(1).carry = cpu.carry /\ Past(1).acc = cpu.acc
      /\ Past(1).sp = cpu.sp /\ Past(1).x = cpu.x /\ Past(1).y = cpu.y
      /\ Past(1).p = cpu.p /\ Past(1).q = cpu.q
  BY <1>7 DEF Past, Fetched, Registers
<1> DEFINE b == Past(1)
           rd == IsRead /\ RegId = REG_IO
           wr == IsWrite /\ RegId = REG_IO
           nsp == Moved(0, cpu.sp)
           nx == Moved(2, cpu.x)
           ny == Moved(3, cpu.y)
<1>9. d = [b EXCEPT !.acc = moved, !.io_rd = rd, !.io_wr = wr, !.sp = nsp, !.x = nx,
                    !.y = ny, !.p = np, !.q = nq]
  BY <1>8 DEF exe_rmove
<1>10. /\ d \in Registers /\ d.pc = ToAddr(cpu.pc + 1) /\ d.carry = cpu.carry
       /\ d.acc = moved /\ d.sp = nsp /\ d.x = nx /\ d.y = ny /\ d.p = np /\ d.q = nq
  <2>1. /\ b \in Registers /\ b.pc = ToAddr(cpu.pc + 1) /\ b.carry = cpu.carry
        /\ moved \in Byte /\ nsp \in Byte /\ nx \in Byte /\ ny \in Byte
        /\ np \in Addr /\ nq \in Addr /\ rd \in BOOLEAN /\ wr \in BOOLEAN
    BY <1>6, <1>7, <1>8
  <2> HIDE DEF b, d, moved, rd, wr, nsp, nx, ny, np, nq
  <2>2. d.pc = b.pc /\ d.carry = b.carry /\ d.acc = moved /\ d.sp = nsp
    BY <1>9, <2>1 DEF Registers
  <2>3. d.x = nx /\ d.y = ny /\ d.p = np /\ d.q = nq
    BY <1>9, <2>1 DEF Registers
  <2> DEFINE e == [b EXCEPT !.acc = moved, !.io_rd = rd, !.io_wr = wr, !.sp = nsp]
  <2>4. e \in Registers
    BY <2>1 DEF Registers
  <2>5. d = [e EXCEPT !.x = nx, !.y = ny, !.p = np, !.q = nq]
    BY <1>9, <2>1 DEF Registers
  <2>6. d \in Registers
    <3> HIDE DEF e
    <3> QED BY <2>1, <2>4, <2>5 DEF Registers
  <2> QED BY <2>1, <2>2, <2>3, <2>6
<1> HIDE DEF d, moved, np, nq
<1>11. ASSUME NEW q \in Holders
       PROVE  Get(d, q) = IF q = ACC THEN moved ELSE Moved(q, Get(cpu, q))
  <2>1. q \in {0, 2, 3, 4, 5, 6, 7, 8}
    BY Numbers
  <2>2. /\ q = 8 => Get(d, q) = moved
        /\ q = 0 => Get(d, q) = Moved(0, cpu.sp) /\ Get(cpu, q) = cpu.sp
        /\ q = 2 => Get(d, q) = Moved(2, cpu.x) /\ Get(cpu, q) = cpu.x
        /\ q = 3 => Get(d, q) = Moved(3, cpu.y) /\ Get(cpu, q) = cpu.y
        /\ q = 4 => Get(d, q) = Moved(4, Lo(cpu.p)) /\ Get(cpu, q) = Lo(cpu.p)
        /\ q = 5 => Get(d, q) = Moved(5, Hi(cpu.p)) /\ Get(cpu, q) = Hi(cpu.p)
        /\ q = 6 => Get(d, q) = Moved(6, Lo(cpu.q)) /\ Get(cpu, q) = Lo(cpu.q)
        /\ q = 7 => Get(d, q) = Moved(7, Hi(cpu.q)) /\ Get(cpu, q) = Hi(cpu.q)
    BY <1>6, <1>10, Gets
  <2> QED BY <1>2, <2>1, <2>2
<1>12. \A q \in Holders : Moved(q, Get(cpu, q)) = IF q = r /\ IsWrite THEN cpu.acc ELSE Get(cpu, q)
  BY DEF Moved
<1>13. moved = IF IsRead THEN Get(cpu, r) ELSE cpu.acc
  BY <1>3 DEF moved
<1> QED BY <1>10, <1>11, <1>12, <1>13 DEF d

\* The instruction k bytes into the line.
LEMMA Running ==
  ASSUME Laid, Execute, Len(code) \in Nat, NEW k \in Nat, k < Len(code), NEW f, At(k, f),
         NEW m \in Mnemonics \ Shadowed, code[k + 1] \in Bytes(m)
  PROVE  /\ ibyte = code[k + 1] /\ ibyte \in Byte
         /\ cpu' = execute(m)
         /\ left' = Len(code) - (k + IF m \in TwoByte THEN 2 ELSE 1)
         /\ k + 1 < Len(code) => imm = code[k + 2]
         /\ origin' = origin /\ code' = code /\ start' = start /\ line' = line
         /\ origin \in Nat
<1>1. ibyte = code[k + 1] /\ (k + 1 < Len(code) => imm = code[k + 2])
  BY Reading DEF At
<1>2. ibyte \in Byte
  BY <1>1, BytesOfMnemonics
<1>3. ilookup[ibyte] = m
  BY <1>1, <1>2, OpcodeMap
<1>4. nbytes(ibyte) = IF m \in TwoByte THEN 2 ELSE 1
  BY <1>1, <1>2, LengthOf, Singles
<1>5. left' = left - nbytes(ibyte) /\ left = Len(code) - k
  BY DEF Execute, At
<1>6. left' = Len(code) - (k + IF m \in TwoByte THEN 2 ELSE 1)
  BY <1>4, <1>5
<1>7. cpu' = execute(m)
  BY <1>3 DEF Execute
<1>8. origin' = origin /\ code' = code /\ start' = start /\ line' = line /\ origin \in Nat
  BY Assumed DEF Execute
<1> QED BY <1>1, <1>2, <1>6, <1>7, <1>8

LEMMA Onwards ==
  \A o, k \in Nat : /\ ToAddr(ToAddr(o + k) + 1) = ToAddr(o + (k + 1))
                    /\ ToAddr(ToAddr(o + k) + 2) = ToAddr(o + (k + 2))
<1> SUFFICES ASSUME NEW o \in Nat, NEW k \in Nat
             PROVE  /\ ToAddr(ToAddr(o + k) + 1) = ToAddr(o + (k + 1))
                    /\ ToAddr(ToAddr(o + k) + 2) = ToAddr(o + (k + 2))
  OBVIOUS
<1> DEFINE n == o + k
<1>1. n \in Nat /\ o + (k + 1) = n + 1 /\ o + (k + 2) = n + 2
  OBVIOUS
<1> HIDE DEF n
<1>2. ToAddr(ToAddr(n) + 1) = ToAddr(n + 1) /\ ToAddr(ToAddr(n) + 2) = ToAddr(n + 2)
  BY <1>1 DEF ToAddr
<1> QED BY <1>1, <1>2 DEF n

LEMMA MovesRun ==
  ASSUME Laid, Execute, Len(code) \in Nat, NEW k \in Nat, k < Len(code), NEW f, At(k, f),
         NEW r \in Holders \ {ACC}
  PROVE  /\ code[k + 1] = 16 + r => At(k + 1, Copied(f, r))'
         /\ code[k + 1] = 8 + r  => At(k + 1, Written(f, r))'
         /\ code[k + 1] = 24 + r => At(k + 1, Swapped(f, r))'
<1>1. r \in {0, 2, 3, 4, 5, 6, 7} /\ ACC = 8 /\ ACC \in Holders
  BY Numbers
<1>2. ASSUME NEW m \in {"rd", "wr", "sw"}, code[k + 1] \in Bytes(m),
             NEW g, code[k + 1] % 8 = r,
             \A q \in Holders :
               g[q] = IF q = ACC THEN IF HasBit(code[k + 1], 16) THEN f[r] ELSE f[ACC]
                      ELSE IF q = r /\ HasBit(code[k + 1], 8) THEN f[ACC] ELSE f[q]
      PROVE  At(k + 1, g)'
  <2>1. m \in Mnemonics \ Shadowed /\ m \notin TwoByte
    BY Singles
  <2>2. /\ ibyte = code[k + 1] /\ cpu' = execute(m) /\ left' = Len(code) - (k + 1)
        /\ origin' = origin /\ code' = code /\ start' = start /\ origin \in Nat
    BY <1>2, <2>1, Running
  <2>3. cpu' = exe_rmove
    BY <2>2 DEF execute
  <2>4. RegId = r /\ (IsRead <=> HasBit(code[k + 1], 16)) /\ (IsWrite <=> HasBit(code[k + 1], 8))
    BY <1>2, <2>2 DEF RegId, IsRead, IsWrite
  <2>5. /\ cpu \in Registers /\ cpu.pc = ToAddr(origin + k) /\ cpu.carry = start.carry
        /\ \A q \in Holders : Get(cpu, q) = f[q]
    BY DEF At
  <2>6. cpu.acc = f[ACC]
    BY <1>1, <2>5, Gets
  <2>7. /\ cpu' \in Registers /\ cpu'.pc = ToAddr(cpu.pc + 1) /\ cpu'.carry = cpu.carry
        /\ \A q \in Holders :
             Get(cpu', q) = IF q = ACC THEN IF IsRead THEN Get(cpu, r) ELSE cpu.acc
                            ELSE IF q = r /\ IsWrite THEN cpu.acc ELSE Get(cpu, q)
    BY <2>3, <2>4, <2>5, MoveGets
  <2>8. \A q \in Holders : Get(cpu', q) = g[q]
    BY <1>2, <2>4, <2>5, <2>6, <2>7
  <2>9. cpu'.pc = ToAddr(origin + (k + 1))
    BY <2>2, <2>5, <2>7, Onwards
  <2> QED BY <2>2, <2>5, <2>7, <2>8, <2>9 DEF At
<1>3. ASSUME code[k + 1] = 16 + r PROVE At(k + 1, Copied(f, r))'
  <2>1. /\ code[k + 1] \in Bytes("rd") /\ code[k + 1] % 8 = r
        /\ HasBit(code[k + 1], 16) /\ ~ HasBit(code[k + 1], 8)
    BY <1>1, <1>3 DEF Bytes, HasBit
  <2>2. \A q \in Holders :
          Copied(f, r)[q] = IF q = ACC THEN IF HasBit(code[k + 1], 16) THEN f[r] ELSE f[ACC]
                            ELSE IF q = r /\ HasBit(code[k + 1], 8) THEN f[ACC] ELSE f[q]
    BY <2>1 DEF Copied
  <2> QED BY <1>2, <2>1, <2>2
<1>4. ASSUME code[k + 1] = 8 + r PROVE At(k + 1, Written(f, r))'
  <2>1. /\ code[k + 1] \in Bytes("wr") /\ code[k + 1] % 8 = r
        /\ ~ HasBit(code[k + 1], 16) /\ HasBit(code[k + 1], 8)
    BY <1>1, <1>4 DEF Bytes, HasBit
  <2>2. \A q \in Holders :
          Written(f, r)[q] = IF q = ACC THEN IF HasBit(code[k + 1], 16) THEN f[r] ELSE f[ACC]
                             ELSE IF q = r /\ HasBit(code[k + 1], 8) THEN f[ACC] ELSE f[q]
    BY <1>1, <2>1 DEF Written
  <2> QED BY <1>2, <2>1, <2>2
<1>5. ASSUME code[k + 1] = 24 + r PROVE At(k + 1, Swapped(f, r))'
  <2>1. /\ code[k + 1] \in Bytes("sw") /\ code[k + 1] % 8 = r
        /\ HasBit(code[k + 1], 16) /\ HasBit(code[k + 1], 8)
    BY <1>1, <1>5 DEF Bytes, HasBit
  <2>2. \A q \in Holders :
          Swapped(f, r)[q] = IF q = ACC THEN IF HasBit(code[k + 1], 16) THEN f[r] ELSE f[ACC]
                             ELSE IF q = r /\ HasBit(code[k + 1], 8) THEN f[ACC] ELSE f[q]
    BY <2>1 DEF Swapped
  <2> QED BY <1>2, <2>1, <2>2
<1> QED BY <1>3, <1>4, <1>5

LEMMA LoadsRun ==
  ASSUME Laid, Execute, Len(code) \in Nat, NEW k \in Nat, k + 1 < Len(code), NEW f, At(k, f),
         NEW w \in Byte, code[k + 2] = w
  PROVE  /\ code[k + 1] \in Bytes("rdi")  => At(k + 2, Loaded(f, w))'
         /\ code[k + 1] \in Bytes("addi") => At(k + 2, Loaded(f, ToByte(f[ACC] + w)))'
<1>1. k < Len(code) /\ ACC \in Holders /\ ACC = 8
  BY Numbers
<1>2. /\ cpu \in Registers /\ cpu.pc = ToAddr(origin + k) /\ cpu.carry = start.carry
      /\ \A q \in Holders : Get(cpu, q) = f[q]
  BY DEF At
<1>3. cpu.acc = f[ACC] /\ cpu.acc \in Byte
  BY <1>1, <1>2, Gets DEF Registers
<1>4. ASSUME NEW m \in {"rdi", "addi"}, code[k + 1] \in Bytes(m), NEW v \in Byte,
             execute(m) = WithAcc(2, v)
      PROVE  At(k + 2, Loaded(f, v))'
  <2>1. m \in Mnemonics \ Shadowed /\ m \in TwoByte
    BY Singles DEF ImmAlu
  <2>2. /\ cpu' = execute(m) /\ left' = Len(code) - (k + 2)
        /\ origin' = origin /\ code' = code /\ start' = start /\ origin \in Nat
    BY <1>1, <1>4, <2>1, Running
  <2>3. /\ cpu' \in Registers /\ cpu'.pc = ToAddr(cpu.pc + 2) /\ cpu'.carry = cpu.carry
        /\ \A q \in Holders : Get(cpu', q) = IF q = ACC THEN v ELSE Get(cpu, q)
    <3>1. cpu' = WithAcc(2, v)
      BY <1>4, <2>2
    <3> QED BY <1>2, <3>1, AccReplaced
  <2>4. \A q \in Holders : Get(cpu', q) = Loaded(f, v)[q]
    BY <1>2, <2>3 DEF Loaded
  <2>5. cpu'.pc = ToAddr(origin + (k + 2))
    BY <1>2, <2>2, <2>3, Onwards
  <2> QED BY <1>2, <2>2, <2>3, <2>4, <2>5 DEF At
<1>5. ASSUME NEW m \in {"rdi", "addi"}, code[k + 1] \in Bytes(m)
      PROVE  imm = w
  <2>1. m \in Mnemonics \ Shadowed
    BY Singles DEF ImmAlu
  <2> QED BY <1>1, <1>5, <2>1, Running
<1>6. ASSUME code[k + 1] \in Bytes("rdi") PROVE At(k + 2, Loaded(f, w))'
  <2>1. execute("rdi") = WithAcc(2, imm) /\ imm = w
    BY <1>5, <1>6 DEF execute, exe_rdi
  <2> QED BY <1>4, <1>6, <2>1
<1>7. ASSUME code[k + 1] \in Bytes("addi")
      PROVE  At(k + 2, Loaded(f, ToByte(f[ACC] + w)))'
  <2>1. execute("addi") = WithAcc(2, alu_add(cpu.acc, imm, FALSE).word) /\ imm = w
    BY <1>5, <1>7 DEF execute, exe_addi
  <2>2. alu_add(cpu.acc, imm, FALSE).word = ToByte(SumOf(cpu.acc, imm, FALSE))
    BY Zenon DEF alu_add
  <2>3. /\ SumOf(cpu.acc, imm, FALSE) = f[ACC] + w
        /\ f[ACC] + w \in Int
    BY <1>3, <2>1, ByteRange DEF SumOf, CarryIn
  <2>4. ToByte(f[ACC] + w) \in Byte
    BY <2>3, Truncated
  <2> QED BY <1>4, <1>7, <2>1, <2>2, <2>3, <2>4
<1> QED BY <1>6, <1>7
-----------------------------------------------------------------------------
(* Macros: their bytes.                                                    *)

LEMMA ConcatIs ==
  ASSUME NEW S, NEW s \in Seq(S), NEW t \in Seq(S), NEW u \in Seq(S),
         Len(u) = Len(s) + Len(t),
         \A i \in 1..Len(s) : u[i] = s[i],
         \A i \in 1..Len(t) : u[Len(s) + i] = t[i]
  PROVE  s \o t = u
<1>1. /\ s \o t \in Seq(S) /\ Len(s \o t) = Len(s) + Len(t)
      /\ \A i \in 1..Len(s) + Len(t) : (s \o t)[i] = IF i <= Len(s) THEN s[i] ELSE t[i - Len(s)]
      /\ Len(s) \in Nat /\ Len(t) \in Nat
  BY ConcatProperties
<1>2. ASSUME NEW i \in 1..Len(s) + Len(t) PROVE (s \o t)[i] = u[i]
  <2>1. CASE i <= Len(s)
    <3>1. i \in 1..Len(s)
      BY <1>1, <2>1
    <3> QED BY <1>1, <2>1, <3>1
  <2>2. CASE i > Len(s)
    <3>1. i - Len(s) \in 1..Len(t) /\ Len(s) + (i - Len(s)) = i
      BY <1>1, <2>2
    <3>2. u[Len(s) + (i - Len(s))] = t[i - Len(s)]
      BY <3>1
    <3> QED BY <1>1, <2>2, <3>1, <3>2
  <2> QED BY <1>1, <2>1, <2>2
<1> QED BY <1>1, <1>2, SeqEqual

LEMMA JoinedThree == \A a, b, c : <<a>> \o <<b>> \o <<c>> = <<a, b, c>>
<1> TAKE a, b, c
<1> DEFINE S == {a, b, c}
<1>1. <<a>> \o <<b>> = <<a, b>>
  <2> DEFINE s == <<a>>
             t == <<b>>
             u == <<a, b>>
  <2>1. s \in Seq(S) /\ t \in Seq(S) /\ u \in Seq(S)
    OBVIOUS
  <2>2. /\ Len(s) = 1 /\ Len(t) = 1 /\ Len(u) = 2
        /\ s[1] = a
        /\ t[1] = b
        /\ u[1] = a /\ u[2] = b
    OBVIOUS
  <2> HIDE DEF S, s, t, u
  <2>3. /\ Len(u) = Len(s) + Len(t)
        /\ \A i \in 1..Len(s) : u[i] = s[i]
        /\ \A i \in 1..Len(t) : u[Len(s) + i] = t[i]
    BY <2>2
  <2>4. s \o t = u
    BY <2>1, <2>3, ConcatIs, Zenon
  <2> QED BY <2>4 DEF s, t, u
<1>2. <<a, b>> \o <<c>> = <<a, b, c>>
  <2> DEFINE s == <<a, b>>
             t == <<c>>
             u == <<a, b, c>>
  <2>1. s \in Seq(S) /\ t \in Seq(S) /\ u \in Seq(S)
    OBVIOUS
  <2>2. /\ Len(s) = 2 /\ Len(t) = 1 /\ Len(u) = 3
        /\ s[1] = a /\ s[2] = b
        /\ t[1] = c
        /\ u[1] = a /\ u[2] = b /\ u[3] = c
    OBVIOUS
  <2> HIDE DEF S, s, t, u
  <2>3. /\ Len(u) = Len(s) + Len(t)
        /\ \A i \in 1..Len(s) : u[i] = s[i]
        /\ \A i \in 1..Len(t) : u[Len(s) + i] = t[i]
    BY <2>2
  <2>4. s \o t = u
    BY <2>1, <2>3, ConcatIs, Zenon
  <2> QED BY <2>4 DEF s, t, u
<1> QED BY <1>1, <1>2, Zenon

LEMMA JoinedFour == \A a, b, c, d : <<a>> \o <<b, c>> \o <<d>> = <<a, b, c, d>>
<1> TAKE a, b, c, d
<1> DEFINE S == {a, b, c, d}
<1>1. <<a>> \o <<b, c>> = <<a, b, c>>
  <2> DEFINE s == <<a>>
             t == <<b, c>>
             u == <<a, b, c>>
  <2>1. s \in Seq(S) /\ t \in Seq(S) /\ u \in Seq(S)
    OBVIOUS
  <2>2. /\ Len(s) = 1 /\ Len(t) = 2 /\ Len(u) = 3
        /\ s[1] = a
        /\ t[1] = b /\ t[2] = c
        /\ u[1] = a /\ u[2] = b /\ u[3] = c
    OBVIOUS
  <2> HIDE DEF S, s, t, u
  <2>3. /\ Len(u) = Len(s) + Len(t)
        /\ \A i \in 1..Len(s) : u[i] = s[i]
        /\ \A i \in 1..Len(t) : u[Len(s) + i] = t[i]
    BY <2>2
  <2>4. s \o t = u
    BY <2>1, <2>3, ConcatIs, Zenon
  <2> QED BY <2>4 DEF s, t, u
<1>2. <<a, b, c>> \o <<d>> = <<a, b, c, d>>
  <2> DEFINE s == <<a, b, c>>
             t == <<d>>
             u == <<a, b, c, d>>
  <2>1. s \in Seq(S) /\ t \in Seq(S) /\ u \in Seq(S)
    OBVIOUS
  <2>2. /\ Len(s) = 3 /\ Len(t) = 1 /\ Len(u) = 4
        /\ s[1] = a /\ s[2] = b /\ s[3] = c
        /\ t[1] = d
        /\ u[1] = a /\ u[2] = b /\ u[3] = c /\ u[4] = d
    OBVIOUS
  <2> HIDE DEF S, s, t, u
  <2>3. /\ Len(u) = Len(s) + Len(t)
        /\ \A i \in 1..Len(s) : u[i] = s[i]
        /\ \A i \in 1..Len(t) : u[Len(s) + i] = t[i]
    BY <2>2
  <2>4. s \o t = u
    BY <2>1, <2>3, ConcatIs, Zenon
  <2> QED BY <2>4 DEF s, t, u
<1> QED BY <1>1, <1>2, Zenon

LEMMA MacroBytes ==
  /\ opcode("rdi") = 96 /\ opcode("addi") \in Bytes("addi")
  /\ opcode("jp") = 4 /\ opcode("jpr") = 5
  /\ 96 \in Bytes("rdi")
<1>1. opcode("rdi") \in Bytes("rdi") /\ opcode("addi") \in Bytes("addi")
  BY OpcodeNamed DEF Single, ImmAlu, Shadowed
<1>2. opcode("jp") \in Bytes("jp") /\ opcode("jpr") \in Bytes("jpr")
  BY OpcodeNamed DEF Single, NoOperand, Shadowed
<1>3. Bytes("rdi") = {96} /\ Bytes("jp") = {4} /\ Bytes("jpr") = {5}
  BY DEF Bytes
<1> QED BY <1>1, <1>2, <1>3

LEMMA MoveCode ==
  ASSUME NEW a \in Holders, NEW b \in Holders
  PROVE  /\ a = b => asm_move(a, b) = <<>> /\ asm_swap(a, b) = <<>>
         /\ a # b /\ b = ACC => asm_move(a, b) = <<16 + a>> /\ asm_swap(a, b) = <<24 + a>>
         /\ a # b /\ a = ACC => asm_move(a, b) = <<8 + b>> /\ asm_swap(a, b) = <<24 + b>>
         /\ a # b /\ a # ACC /\ b # ACC
              => /\ asm_move(a, b) = <<24 + a, 8 + b, 24 + a>>
                 /\ asm_swap(a, b) = <<24 + a, 24 + b, 24 + a>>
<1>1. a # IO /\ (a # ACC => a \in 0..7) /\ (b # ACC => b \in 0..7)
  BY Numbers DEF IO
<1>2. CASE a = b
  BY <1>1, <1>2 DEF asm_move, asm_swap
<1>3. CASE a # b /\ b = ACC
  <2>1. asm_move(a, b) = asm_register("rd", a) /\ asm_swap(a, b) = asm_register("sw", a)
    BY <1>1, <1>3 DEF asm_move, asm_swap
  <2> QED BY <1>1, <1>3, <2>1, MoveBytes
<1>4. CASE a # b /\ a = ACC
  <2>1. asm_move(a, b) = asm_register("wr", b) /\ asm_swap(a, b) = asm_register("sw", b)
    BY <1>1, <1>4 DEF asm_move, asm_swap
  <2> QED BY <1>1, <1>4, <2>1, MoveBytes
<1>5. CASE a # b /\ a # ACC /\ b # ACC
  <2>1. /\ asm_move(a, b) = asm_register("sw", a) \o asm_register("wr", b) \o asm_register("sw", a)
        /\ asm_swap(a, b) = asm_register("sw", a) \o asm_register("sw", b) \o asm_register("sw", a)
    BY <1>1, <1>5 DEF asm_move, asm_swap
  <2>2. /\ asm_register("sw", a) = <<24 + a>> /\ asm_register("wr", b) = <<8 + b>>
        /\ asm_register("sw", b) = <<24 + b>>
    BY <1>1, <1>5, MoveBytes
  <2> DEFINE p == 24 + a
             q == 8 + b
             r == 24 + b
  <2> HIDE DEF p, q, r
  <2>3. /\ <<p>> \o <<q>> \o <<p>> = <<p, q, p>>
        /\ <<p>> \o <<r>> \o <<p>> = <<p, r, p>>
    BY JoinedThree, Zenon
  <2>4. /\ <<24 + a>> \o <<8 + b>> \o <<24 + a>> = <<24 + a, 8 + b, 24 + a>>
        /\ <<24 + a>> \o <<24 + b>> \o <<24 + a>> = <<24 + a, 24 + b, 24 + a>>
    BY <2>3, Zenon DEF p, q, r
  <2> QED BY <1>5, <2>1, <2>2, <2>4, Zenon
<1> QED BY <1>2, <1>3, <1>4, <1>5

\* What loads the bytes w1 and w0 into the pair hi, lo.
PairBytes(hi, lo, w0, w1) == <<8 + hi, 96, w0, 8 + lo, 96, w1, 24 + hi>>

LEMMA PairCode ==
  ASSUME NEW hi \in 0..7, NEW lo \in 0..7, NEW v \in Int
  PROVE  LoadPair(hi, lo, v) = PairBytes(hi, lo, ToByte(v), ToByte(v \div 256))
<1>1. /\ asm_register("wr", hi) = <<8 + hi>> /\ asm_register("wr", lo) = <<8 + lo>>
      /\ asm_register("sw", hi) = <<24 + hi>>
  BY MoveBytes
<1>2. /\ asm_alu_imm("rdi", v) = <<96, ToByte(v)>>
      /\ asm_alu_imm("rdi", v \div 256) = <<96, ToByte(v \div 256)>>
  BY MacroBytes DEF asm_alu_imm
<1>3. LoadPair(hi, lo, v) = <<8 + hi>> \o <<96, ToByte(v)>> \o <<8 + lo>>
                            \o <<96, ToByte(v \div 256)>> \o <<24 + hi>>
  BY <1>1, <1>2 DEF LoadPair
<1> DEFINE p == 8 + hi
           q == ToByte(v)
           r == 8 + lo
           m == ToByte(v \div 256)
           x == 24 + hi
           n == 96
           S == {p, q, r, m, x, n}
<1>4. LoadPair(hi, lo, v) = <<p>> \o <<n, q>> \o <<r>> \o <<n, m>> \o <<x>>
  BY <1>3, Zenon
<1>5. PairBytes(hi, lo, q, m) = <<p, n, q, r, n, m, x>>
  BY Zenon DEF PairBytes
<1> HIDE DEF p, q, r, m, x, n
<1>6. <<p>> \o <<n, q>> \o <<r>> = <<p, n, q, r>>
  BY JoinedFour, Zenon
<1>7. <<p, n, q, r>> \o <<n, m>> = <<p, n, q, r, n, m>>
  <2> DEFINE s == <<p, n, q, r>>
             t == <<n, m>>
             u == <<p, n, q, r, n, m>>
  <2>1. s \in Seq(S) /\ t \in Seq(S) /\ u \in Seq(S)
    OBVIOUS
  <2>2. /\ Len(s) = 4 /\ Len(t) = 2 /\ Len(u) = 6
        /\ s[1] = p /\ s[2] = n /\ s[3] = q /\ s[4] = r
        /\ t[1] = n /\ t[2] = m
        /\ u[1] = p /\ u[2] = n /\ u[3] = q /\ u[4] = r /\ u[5] = n /\ u[6] = m
    OBVIOUS
  <2> HIDE DEF S, s, t, u
  <2>3. /\ Len(u) = Len(s) + Len(t)
        /\ \A i \in 1..Len(s) : u[i] = s[i]
        /\ \A i \in 1..Len(t) : u[Len(s) + i] = t[i]
    BY <2>2
  <2>4. s \o t = u
    BY <2>1, <2>3, ConcatIs, Zenon
  <2> QED BY <2>4 DEF s, t, u
<1>8. <<p, n, q, r, n, m>> \o <<x>> = <<p, n, q, r, n, m, x>>
  <2> DEFINE s == <<p, n, q, r, n, m>>
             t == <<x>>
             u == <<p, n, q, r, n, m, x>>
  <2>1. s \in Seq(S) /\ t \in Seq(S) /\ u \in Seq(S)
    OBVIOUS
  <2>2. /\ Len(s) = 6 /\ Len(t) = 1 /\ Len(u) = 7
        /\ s[1] = p /\ s[2] = n /\ s[3] = q /\ s[4] = r /\ s[5] = n /\ s[6] = m
        /\ t[1] = x
        /\ u[1] = p /\ u[2] = n /\ u[3] = q /\ u[4] = r /\ u[5] = n /\ u[6] = m /\ u[7] = x
    OBVIOUS
  <2> HIDE DEF S, s, t, u
  <2>3. /\ Len(u) = Len(s) + Len(t)
        /\ \A i \in 1..Len(s) : u[i] = s[i]
        /\ \A i \in 1..Len(t) : u[Len(s) + i] = t[i]
    BY <2>2
  <2>4. s \o t = u
    BY <2>1, <2>3, ConcatIs, Zenon
  <2> QED BY <2>4 DEF s, t, u
<1>9. LoadPair(hi, lo, v) = PairBytes(hi, lo, q, m)
  BY <1>4, <1>5, <1>6, <1>7, <1>8, Zenon
<1> QED BY <1>9, Zenon DEF q, m

LEMMA StackCode ==
  ASSUME NEW v \in Int
  PROVE  asm_isp(v) = <<24, opcode("addi"), ToByte(v), 24>>
<1>1. asm_register("sw", SP) = <<24>>
  BY MoveBytes, Numbers
<1>2. asm_isp(v) = <<24>> \o <<opcode("addi"), ToByte(v)>> \o <<24>>
  BY <1>1 DEF asm_isp, asm_alu_imm
<1> DEFINE p == 24
           q == opcode("addi")
           r == ToByte(v)
<1>3. asm_isp(v) = <<p>> \o <<q, r>> \o <<p>>
  BY <1>2, Zenon
<1> HIDE DEF p, q, r
<1>4. <<p>> \o <<q, r>> \o <<p>> = <<p, q, r, p>>
  BY JoinedFour, Zenon
<1>5. asm_isp(v) = <<p, q, r, p>>
  BY <1>3, <1>4, Zenon
<1> QED BY <1>5, Zenon DEF p, q, r

\* The bytes of the lines that are macros.
LEMMA MacroCode ==
  ASSUME NEW l, Accepted(l), NEW at
  PROVE  /\ l[1] \in {"move", "swap"} => l[2] \in Holders /\ l[3] \in Holders
         /\ l[1] = "move" => Code(l, at) = asm_move(l[2], l[3])
         /\ l[1] = "swap" => Code(l, at) = asm_swap(l[2], l[3])
         /\ l[1] \in {"rdp", "rdq", "call", "goto"} => l[2] \in Addr
         /\ l[1] = "rdp" => Code(l, at) = asm_rdp(l[2])
         /\ l[1] = "rdq" => Code(l, at) = asm_rdq(l[2])
         /\ l[1] = "call" => Code(l, at) = asm_call(l[2])
         /\ l[1] = "goto" => Code(l, at) = asm_goto(l[2])
         /\ l[1] = "isp" => l[2] \in Int /\ Code(l, at) = asm_isp(l[2])
<1>1. /\ l[1] \in {"move", "swap"} => l[2] \in Holders /\ l[3] \in Holders
      /\ l[1] \in {"rdp", "rdq", "call", "goto"} => l[2] \in Addr
      /\ l[1] = "isp" => l[2] \in Int
  BY DEF Accepted, NoOperand, RegAlu, ImmAlu, RelJumps
<1>2. /\ l[1] = "move" => Code(l, at) = asm_move(l[2], l[3])
      /\ l[1] = "swap" => Code(l, at) = asm_swap(l[2], l[3])
      /\ l[1] = "rdp" => Code(l, at) = asm_rdp(l[2])
      /\ l[1] = "rdq" => Code(l, at) = asm_rdq(l[2])
  BY DEF Code, NoOperand, RegAlu, ImmAlu, RelJumps
<1>3. /\ l[1] = "call" => Code(l, at) = asm_call(l[2])
      /\ l[1] = "goto" => Code(l, at) = asm_goto(l[2])
      /\ l[1] = "isp" => Code(l, at) = asm_isp(l[2])
  BY DEF Code, NoOperand, RegAlu, ImmAlu, RelJumps
<1> QED BY <1>1, <1>2, <1>3
-----------------------------------------------------------------------------
(* Macros: move and swap.                                                  *)

\* The registers but for the port at the beginning.
StartFile == [r \in Holders |-> Get(start, r)]

\* What move and swap are to leave.
CopyOf(s, a, b)   == [q \in Holders |-> IF q = b THEN s[a] ELSE s[q]]
Exchanged(s, a, b) == [q \in Holders |-> IF q = b THEN s[a]
                                         ELSE IF q = a THEN s[b] ELSE s[q]]

MoveAt(s, a, b) ==
  \/ At(0, s)
  \/ /\ a # b /\ a # ACC /\ b # ACC
     /\ At(1, Swapped(s, a)) \/ At(2, Written(Swapped(s, a), b))
  \/ At(Len(code), CopyOf(s, a, b))

SwapAt(s, a, b) ==
  \/ At(0, s)
  \/ /\ a # b /\ a # ACC /\ b # ACC
     /\ At(1, Swapped(s, a)) \/ At(2, Swapped(Swapped(s, a), b))
  \/ At(Len(code), Exchanged(s, a, b))

LEMMA AtSame ==
  ASSUME NEW k, NEW f, NEW g, \A q \in Holders : f[q] = g[q]
  PROVE  (At(k, f) => At(k, g)) /\ (At(k, f)' => At(k, g)')
BY DEF At

LEMMA InitAt ==
  ASSUME Init, Len(code) \in Nat
  PROVE  At(0, StartFile)
<1>1. /\ origin \in Nat /\ origin + Len(code) <= 32768 /\ start \in Registers
      /\ Laid /\ left = Len(code) /\ cpu = [start EXCEPT !.pc = origin]
  BY InitLaid, Assumed DEF Init
<1>2. \A at \in Origins : at \in Cell
  BY OriginsAssumption
<1>3. origin \in Int /\ 0 <= origin /\ origin <= 65535
  BY <1>1, <1>2 DEF Laid, Cell
<1>4. origin \in Addr /\ ToAddr(origin + 0) = origin
  BY <1>3, AddrRange DEF ToAddr
<1>5. /\ cpu \in Registers /\ cpu.pc = origin /\ cpu.carry = start.carry
      /\ cpu.acc = start.acc /\ cpu.sp = start.sp /\ cpu.x = start.x /\ cpu.y = start.y
      /\ cpu.p = start.p /\ cpu.q = start.q
  BY <1>1, <1>4 DEF Registers
<1>6. ASSUME NEW r \in Holders PROVE Get(cpu, r) = StartFile[r]
  <2>1. r \in {0, 2, 3, 4, 5, 6, 7, 8}
    BY Numbers
  <2>2. StartFile[r] = Get(start, r)
    BY DEF StartFile
  <2> QED BY <1>5, <2>1, <2>2, Gets
<1>7. left = Len(code) - 0
  BY <1>1
<1> QED BY <1>4, <1>5, <1>6, <1>7 DEF At

\* What the instructions of move and swap come to: with the accumulator as one
\* of the registers, and through it.
LEMMA Transfer ==
  ASSUME NEW s, NEW r \in Holders \ {ACC}, NEW q \in Holders
  PROVE  /\ Copied(s, r)[q] = CopyOf(s, r, ACC)[q]
         /\ Written(s, r)[q] = CopyOf(s, ACC, r)[q]
         /\ Swapped(s, r)[q] = Exchanged(s, r, ACC)[q]
         /\ Swapped(s, r)[q] = Exchanged(s, ACC, r)[q]
<1>1. Copied(s, r)[q] = CopyOf(s, r, ACC)[q]
  BY DEF Copied, CopyOf
<1>2. Written(s, r)[q] = CopyOf(s, ACC, r)[q]
  BY DEF Written, CopyOf
<1>3. Swapped(s, r)[q] = Exchanged(s, r, ACC)[q] /\ Swapped(s, r)[q] = Exchanged(s, ACC, r)[q]
  BY DEF Swapped, Exchanged
<1> QED BY <1>1, <1>2, <1>3

LEMMA Transfers ==
  ASSUME NEW s, NEW a \in Holders \ {ACC}, NEW b \in Holders \ {ACC}, a # b, NEW q \in Holders
  PROVE  /\ Swapped(Written(Swapped(s, a), b), a)[q] = CopyOf(s, a, b)[q]
         /\ Swapped(Swapped(Swapped(s, a), b), a)[q] = Exchanged(s, a, b)[q]
<1>1. ACC \in Holders
  BY Numbers
<1>2. \A f, r : \A p \in Holders :
        /\ Written(f, r)[p] = IF p = r THEN f[ACC] ELSE f[p]
        /\ Swapped(f, r)[p] = IF p = ACC THEN f[r] ELSE IF p = r THEN f[ACC] ELSE f[p]
  BY Zenon DEF Written, Swapped
<1>3. /\ CopyOf(s, a, b)[q] = IF q = b THEN s[a] ELSE s[q]
      /\ Exchanged(s, a, b)[q] = IF q = b THEN s[a] ELSE IF q = a THEN s[b] ELSE s[q]
  BY Zenon DEF CopyOf, Exchanged
<1> DEFINE f == Swapped(s, a)
           g == Written(f, b)
           h == Swapped(f, b)
<1>4. \A p \in Holders : f[p] = IF p = ACC THEN s[a] ELSE IF p = a THEN s[ACC] ELSE s[p]
  BY <1>2
<1>5. \A p \in Holders : /\ g[p] = IF p = b THEN f[ACC] ELSE f[p]
                         /\ h[p] = IF p = ACC THEN f[b] ELSE IF p = b THEN f[ACC] ELSE f[p]
  BY <1>2
<1>6. /\ Swapped(g, a)[q] = IF q = ACC THEN g[a] ELSE IF q = a THEN g[ACC] ELSE g[q]
      /\ Swapped(h, a)[q] = IF q = ACC THEN h[a] ELSE IF q = a THEN h[ACC] ELSE h[q]
  BY <1>2
<1> HIDE DEF f, g, h
<1>7. Swapped(g, a)[q] = CopyOf(s, a, b)[q] /\ Swapped(h, a)[q] = Exchanged(s, a, b)[q]
  BY <1>1, <1>3, <1>4, <1>5, <1>6
<1> QED BY <1>7 DEF f, g, h

\* An instruction of a move, at the byte it is written as.
LEMMA MoveStep ==
  ASSUME Laid, Execute, NEW a \in Holders, NEW b \in Holders, NEW s,
         code = asm_move(a, b), MoveAt(s, a, b)
  PROVE  MoveAt(s, a, b)'
<1>1. left > 0 /\ code' = code
  BY DEF Execute
<1>2. CASE a = b
  <2>1. Len(code) = 0
    BY <1>2, MoveCode
  <2>2. left = 0
    BY <1>2, <2>1 DEF MoveAt, At
  <2> QED BY <1>1, <2>2
<1>3. ASSUME NEW r \in Holders \ {ACC}, NEW n \in {8, 16}, code = <<n + r>>,
             a = ACC \/ b = ACC, At(1, CopyOf(s, a, b))' \/ ~ At(0, s)
      PROVE  MoveAt(s, a, b)'
  <2>1. Len(code) = 1 /\ Len(code') = 1
    BY <1>1, <1>3
  <2>2. ~ At(1, CopyOf(s, a, b))
    BY <1>1, <2>1 DEF At
  <2>3. At(0, s)
    BY <1>3, <2>1, <2>2 DEF MoveAt
  <2> QED BY <1>3, <2>1, <2>3 DEF MoveAt
<1>4. CASE a # b /\ b = ACC
  <2>1. code = <<16 + a>> /\ a \in Holders \ {ACC}
    BY <1>4, MoveCode
  <2>2. Len(code) = 1 /\ code[0 + 1] = 16 + a /\ 0 + 1 = 1
    BY <2>1
  <2>3. ASSUME At(0, s) PROVE At(1, CopyOf(s, a, b))'
    <3>1. At(0 + 1, Copied(s, a))'
      BY <2>1, <2>2, <2>3, MovesRun
    <3>2. \A q \in Holders : Copied(s, a)[q] = CopyOf(s, a, b)[q]
      BY <1>4, <2>1, Transfer
    <3> QED BY <2>2, <3>1, <3>2, AtSame
  <2> QED BY <1>3, <1>4, <2>1, <2>3
<1>5. CASE a # b /\ a = ACC
  <2>1. code = <<8 + b>> /\ b \in Holders \ {ACC}
    BY <1>5, MoveCode
  <2>2. Len(code) = 1 /\ code[0 + 1] = 8 + b /\ 0 + 1 = 1
    BY <2>1
  <2>3. ASSUME At(0, s) PROVE At(1, CopyOf(s, a, b))'
    <3>1. At(0 + 1, Written(s, b))'
      BY <2>1, <2>2, <2>3, MovesRun
    <3>2. \A q \in Holders : Written(s, b)[q] = CopyOf(s, a, b)[q]
      BY <1>5, <2>1, Transfer
    <3> QED BY <2>2, <3>1, <3>2, AtSame
  <2> QED BY <1>3, <1>5, <2>1, <2>3
<1>6. CASE a # b /\ a # ACC /\ b # ACC
  <2>1. code = <<24 + a, 8 + b, 24 + a>> /\ a \in Holders \ {ACC} /\ b \in Holders \ {ACC}
    BY <1>6, MoveCode
  <2>2. /\ Len(code) = 3 /\ Len(code') = 3 /\ code[0 + 1] = 24 + a /\ code[1 + 1] = 8 + b
        /\ code[2 + 1] = 24 + a /\ 0 + 1 = 1 /\ 1 + 1 = 2 /\ 2 + 1 = 3
    BY <1>1, <2>1
  <2>3. ASSUME At(0, s) PROVE At(1, Swapped(s, a))'
    BY <2>1, <2>2, <2>3, MovesRun
  <2>4. ASSUME At(1, Swapped(s, a)) PROVE At(2, Written(Swapped(s, a), b))'
    BY <2>1, <2>2, <2>4, MovesRun
  <2>5. ASSUME At(2, Written(Swapped(s, a), b)) PROVE At(3, CopyOf(s, a, b))'
    <3>1. At(3, Swapped(Written(Swapped(s, a), b), a))'
      BY <2>1, <2>2, <2>5, MovesRun
    <3>2. \A q \in Holders :
            Swapped(Written(Swapped(s, a), b), a)[q] = CopyOf(s, a, b)[q]
      BY <1>6, <2>1, Transfers
    <3> QED BY <3>1, <3>2, AtSame
  <2>6. ~ At(3, CopyOf(s, a, b))
    BY <1>1, <2>2 DEF At
  <2> QED BY <1>6, <2>2, <2>3, <2>4, <2>5, <2>6 DEF MoveAt
<1> QED BY <1>2, <1>4, <1>5, <1>6

LEMMA SwapStep ==
  ASSUME Laid, Execute, NEW a \in Holders, NEW b \in Holders, NEW s,
         code = asm_swap(a, b), SwapAt(s, a, b)
  PROVE  SwapAt(s, a, b)'
<1>1. left > 0 /\ code' = code
  BY DEF Execute
<1>2. CASE a = b
  <2>1. Len(code) = 0
    BY <1>2, MoveCode
  <2>2. left = 0
    BY <1>2, <2>1 DEF SwapAt, At
  <2> QED BY <1>1, <2>2
<1>3. ASSUME NEW r \in Holders \ {ACC}, code = <<24 + r>>, a = ACC \/ b = ACC,
             \A q \in Holders : Swapped(s, r)[q] = Exchanged(s, a, b)[q]
      PROVE  SwapAt(s, a, b)'
  <2>1. Len(code) = 1 /\ Len(code') = 1 /\ code[0 + 1] = 24 + r /\ 0 + 1 = 1
    BY <1>1, <1>3
  <2>2. ~ At(1, Exchanged(s, a, b))
    BY <1>1, <2>1 DEF At
  <2>3. At(0, s)
    BY <1>3, <2>1, <2>2 DEF SwapAt
  <2>4. At(1, Swapped(s, r))'
    BY <2>1, <2>3, MovesRun
  <2>5. At(1, Exchanged(s, a, b))'
    BY <1>3, <2>4, AtSame
  <2> QED BY <2>1, <2>5 DEF SwapAt
<1>4. CASE a # b /\ b = ACC
  <2>1. code = <<24 + a>> /\ a \in Holders \ {ACC}
    BY <1>4, MoveCode
  <2>2. \A q \in Holders : Swapped(s, a)[q] = Exchanged(s, a, b)[q]
    BY <1>4, <2>1, Transfer
  <2> QED BY <1>3, <1>4, <2>1, <2>2
<1>5. CASE a # b /\ a = ACC
  <2>1. code = <<24 + b>> /\ b \in Holders \ {ACC}
    BY <1>5, MoveCode
  <2>2. \A q \in Holders : Swapped(s, b)[q] = Exchanged(s, a, b)[q]
    BY <1>5, <2>1, Transfer
  <2> QED BY <1>3, <1>5, <2>1, <2>2
<1>6. CASE a # b /\ a # ACC /\ b # ACC
  <2>1. code = <<24 + a, 24 + b, 24 + a>> /\ a \in Holders \ {ACC} /\ b \in Holders \ {ACC}
    BY <1>6, MoveCode
  <2>2. /\ Len(code) = 3 /\ Len(code') = 3 /\ code[0 + 1] = 24 + a /\ code[1 + 1] = 24 + b
        /\ code[2 + 1] = 24 + a /\ 0 + 1 = 1 /\ 1 + 1 = 2 /\ 2 + 1 = 3
    BY <1>1, <2>1
  <2>3. ASSUME At(0, s) PROVE At(1, Swapped(s, a))'
    BY <2>1, <2>2, <2>3, MovesRun
  <2>4. ASSUME At(1, Swapped(s, a)) PROVE At(2, Swapped(Swapped(s, a), b))'
    BY <2>1, <2>2, <2>4, MovesRun
  <2>5. ASSUME At(2, Swapped(Swapped(s, a), b)) PROVE At(3, Exchanged(s, a, b))'
    <3>1. At(3, Swapped(Swapped(Swapped(s, a), b), a))'
      BY <2>1, <2>2, <2>5, MovesRun
    <3>2. \A q \in Holders :
            Swapped(Swapped(Swapped(s, a), b), a)[q] = Exchanged(s, a, b)[q]
      BY <1>6, <2>1, Transfers
    <3> QED BY <3>1, <3>2, AtSame
  <2>6. ~ At(3, Exchanged(s, a, b))
    BY <1>1, <2>2 DEF At
  <2> QED BY <1>6, <2>2, <2>3, <2>4, <2>5, <2>6 DEF SwapAt
<1> QED BY <1>2, <1>4, <1>5, <1>6
-----------------------------------------------------------------------------
(* Macros: the loading of a pair, and the stack pointer.                   *)

\* The registers with the bytes w1 and w0 in hi and lo, and before w1 is.
Filled(s, hi, lo, w0, w1) ==
  [q \in Holders |-> IF q = hi THEN w1 ELSE IF q = lo THEN w0 ELSE s[q]]
HalfFilled(s, hi, lo, w0) == Written(Loaded(Written(s, hi), w0), lo)

PairAt(s, hi, lo, w0, w1) ==
  \/ At(0, s)
  \/ At(1, Written(s, hi))
  \/ At(3, Loaded(Written(s, hi), w0))
  \/ At(4, HalfFilled(s, hi, lo, w0))
  \/ At(6, Loaded(HalfFilled(s, hi, lo, w0), w1))
  \/ At(7, Filled(s, hi, lo, w0, w1))

LEMMA Fills ==
  ASSUME NEW s, NEW hi \in Holders \ {ACC}, NEW lo \in Holders \ {ACC}, hi # lo,
         NEW w0, NEW w1, NEW q \in Holders
  PROVE  Swapped(Loaded(HalfFilled(s, hi, lo, w0), w1), hi)[q] = Filled(s, hi, lo, w0, w1)[q]
<1>1. ACC \in Holders
  BY Numbers
<1> DEFINE f1 == Written(s, hi)
           f3 == Loaded(f1, w0)
           f4 == Written(f3, lo)
           f6 == Loaded(f4, w1)
<1>2. /\ \A p \in Holders : f1[p] = IF p = hi THEN s[ACC] ELSE s[p]
      /\ \A p \in Holders : f3[p] = IF p = ACC THEN w0 ELSE f1[p]
      /\ \A p \in Holders : f4[p] = IF p = lo THEN f3[ACC] ELSE f3[p]
      /\ \A p \in Holders : f6[p] = IF p = ACC THEN w1 ELSE f4[p]
  BY Zenon DEF Written, Loaded
<1>3. Swapped(f6, hi)[q] = IF q = ACC THEN f6[hi] ELSE IF q = hi THEN f6[ACC] ELSE f6[q]
  BY Zenon DEF Swapped
<1>4. Filled(s, hi, lo, w0, w1)[q] = IF q = hi THEN w1 ELSE IF q = lo THEN w0 ELSE s[q]
  BY Zenon DEF Filled
<1>5. f4 = HalfFilled(s, hi, lo, w0)
  BY Zenon DEF HalfFilled
<1> HIDE DEF f1, f3, f4
<1>6. f6[hi] = s[ACC] /\ f6[ACC] = w1 /\ f6[q] = IF q = ACC THEN w1 ELSE IF q = lo THEN w0
                                                 ELSE f1[q]
  <2> HIDE DEF f6
  <2> QED BY <1>1, <1>2
<1>7. Swapped(f6, hi)[q] = Filled(s, hi, lo, w0, w1)[q]
  <2> HIDE DEF f6
  <2> QED BY <1>1, <1>2, <1>3, <1>4, <1>6
<1> QED BY <1>5, <1>7

\* An instruction of the loading of a pair.
LEMMA PairStep ==
  ASSUME Laid, Execute, NEW hi \in Holders \ {ACC}, NEW lo \in Holders \ {ACC}, hi # lo,
         NEW s, NEW w0 \in Byte, NEW w1 \in Byte, Len(code) \in {7, 8},
         code[1] = 8 + hi, code[2] = 96, code[3] = w0, code[4] = 8 + lo,
         code[5] = 96, code[6] = w1, code[7] = 24 + hi,
         PairAt(s, hi, lo, w0, w1), ~ At(7, Filled(s, hi, lo, w0, w1))
  PROVE  PairAt(s, hi, lo, w0, w1)'
<1> DEFINE f1 == Written(s, hi)
           f3 == Loaded(f1, w0)
           f4 == HalfFilled(s, hi, lo, w0)
           f6 == Loaded(f4, w1)
<1>1. /\ Len(code) \in Nat /\ 0 < Len(code) /\ 1 < Len(code) /\ 1 + 1 < Len(code)
      /\ 3 < Len(code) /\ 4 < Len(code) /\ 4 + 1 < Len(code) /\ 6 < Len(code)
      /\ code[0 + 1] = 8 + hi /\ code[1 + 1] \in Bytes("rdi") /\ code[1 + 2] = w0
      /\ code[3 + 1] = 8 + lo /\ code[4 + 1] \in Bytes("rdi") /\ code[4 + 2] = w1
      /\ code[6 + 1] = 24 + hi
      /\ 0 + 1 = 1 /\ 1 + 2 = 3 /\ 3 + 1 = 4 /\ 4 + 2 = 6 /\ 6 + 1 = 7
  BY MacroBytes
<1>2. ASSUME At(0, s) PROVE At(1, f1)'
  BY <1>1, <1>2, MovesRun
<1>3. ASSUME At(1, f1) PROVE At(3, f3)'
  BY <1>1, <1>3, LoadsRun
<1>4. ASSUME At(3, f3) PROVE At(4, f4)'
  <2>1. At(4, Written(f3, lo))'
    BY <1>1, <1>4, MovesRun
  <2> QED BY <2>1 DEF HalfFilled
<1>5. ASSUME At(4, f4) PROVE At(6, f6)'
  BY <1>1, <1>5, LoadsRun
<1>6. ASSUME At(6, f6) PROVE At(7, Filled(s, hi, lo, w0, w1))'
  <2>1. At(7, Swapped(f6, hi))'
    BY <1>1, <1>6, MovesRun
  <2>2. \A q \in Holders : Swapped(f6, hi)[q] = Filled(s, hi, lo, w0, w1)[q]
    BY Fills
  <2> QED BY <2>1, <2>2, AtSame
<1> QED BY <1>2, <1>3, <1>4, <1>5, <1>6 DEF PairAt

\* The registers with w added to the stack pointer.
Stacked(s, w) == [q \in Holders |-> IF q = SP THEN ToByte(s[SP] + w) ELSE s[q]]

StackAt(s, w) ==
  \/ At(0, s)
  \/ At(1, Swapped(s, SP))
  \/ At(3, Loaded(Swapped(s, SP), ToByte(Swapped(s, SP)[ACC] + w)))
  \/ At(4, Stacked(s, w))

LEMMA StackStep ==
  ASSUME Laid, Execute, NEW s, NEW w \in Byte, Len(code) = 4,
         code[1] = 24, code[2] \in Bytes("addi"), code[3] = w, code[4] = 24,
         StackAt(s, w)
  PROVE  StackAt(s, w)'
<1> DEFINE f1 == Swapped(s, SP)
           f3 == Loaded(f1, ToByte(f1[ACC] + w))
<1>1. /\ Len(code) \in Nat /\ 0 < Len(code) /\ 1 < Len(code) /\ 1 + 1 < Len(code)
      /\ 3 < Len(code) /\ code[0 + 1] = 24 + SP /\ code[1 + 1] \in Bytes("addi")
      /\ code[1 + 2] = w /\ code[3 + 1] = 24 + SP
      /\ 0 + 1 = 1 /\ 1 + 2 = 3 /\ 3 + 1 = 4
  BY Numbers
<1>2. SP \in Holders \ {ACC} /\ ACC \in Holders
  BY Numbers
<1>3. ASSUME At(0, s) PROVE At(1, f1)'
  BY <1>1, <1>2, <1>3, MovesRun
<1>4. ASSUME At(1, f1) PROVE At(3, f3)'
  BY <1>1, <1>4, LoadsRun
<1>5. ASSUME At(3, f3) PROVE At(4, Stacked(s, w))'
  <2>1. At(4, Swapped(f3, SP))'
    BY <1>1, <1>2, <1>5, MovesRun
  <2>2. ASSUME NEW q \in Holders PROVE Swapped(f3, SP)[q] = Stacked(s, w)[q]
    <3>1. /\ \A p \in Holders : f1[p] = IF p = ACC THEN s[SP] ELSE IF p = SP THEN s[ACC]
                                        ELSE s[p]
          /\ \A p \in Holders : f3[p] = IF p = ACC THEN ToByte(f1[ACC] + w) ELSE f1[p]
          /\ Swapped(f3, SP)[q] = IF q = ACC THEN f3[SP] ELSE IF q = SP THEN f3[ACC] ELSE f3[q]
          /\ Stacked(s, w)[q] = IF q = SP THEN ToByte(s[SP] + w) ELSE s[q]
      BY Zenon DEF Swapped, Loaded, Stacked
    <3> HIDE DEF f1, f3
    <3> QED BY <1>2, <3>1
  <2> QED BY <2>1, <2>2, AtSame
<1>6. ~ At(4, Stacked(s, w))
  BY DEF At, Execute
<1> QED BY <1>3, <1>4, <1>5, <1>6 DEF StackAt
-----------------------------------------------------------------------------
(* The inductive invariant.                                                *)

MoveInv == line[1] = "move" => MoveAt(StartFile, line[2], line[3])
SwapInv == line[1] = "swap" => SwapAt(StartFile, line[2], line[3])

\* What loads a pair: which one, and the word it loads.
Loaders == {"rdp", "rdq", "call", "goto"}
Jumpers == {"call", "goto"}
HiOf    == IF line[1] = "rdq" THEN QH ELSE PH
LoOf    == IF line[1] = "rdq" THEN QL ELSE PL
WordOf  == IF line[1] \in Jumpers THEN line[2] - 1 ELSE line[2]

PairInv == line[1] \in Loaders =>
  \/ PairAt(StartFile, HiOf, LoOf, ToByte(WordOf), ToByte(WordOf \div 256))
  \/ line[1] \in Jumpers /\ left = 0 /\ JumpArrives /\ CallReturns
StackInv == line[1] = "isp" => StackAt(StartFile, ToByte(line[2]))

IInv == Laid /\ SingleInv /\ MoveInv /\ SwapInv /\ PairInv /\ StackInv

LEMMA StartKept ==
  ASSUME Execute
  PROVE  /\ StartFile' = StartFile /\ line' = line /\ code' = code
         /\ HiOf' = HiOf /\ LoOf' = LoOf /\ WordOf' = WordOf
BY DEF Execute, StartFile, Get, HiOf, LoOf, WordOf

LEMMA MoveKept ==
  ASSUME Laid, MoveInv, Execute
  PROVE  MoveInv'
<1> SUFFICES ASSUME line[1] = "move"
             PROVE  MoveAt(StartFile, line[2], line[3])'
  BY StartKept DEF MoveInv
<1>1. PICK s, a, b : s = StartFile /\ a = line[2] /\ b = line[3]
  OBVIOUS
<1>2. a \in Holders /\ b \in Holders /\ code = asm_move(a, b)
  <2>1. Accepted(line) /\ code = Code(line, origin)
    BY Assumed DEF Laid
  <2> QED BY <1>1, <2>1, MacroCode
<1>3. MoveAt(s, a, b)
  BY <1>1 DEF MoveInv
<1>4. MoveAt(s, a, b)'
  BY <1>2, <1>3, MoveStep
<1>5. StartFile' = s /\ line'[2] = a /\ line'[3] = b
  BY <1>1, StartKept
<1> QED BY <1>4, <1>5 DEF MoveAt, At

LEMMA SwapKept ==
  ASSUME Laid, SwapInv, Execute
  PROVE  SwapInv'
<1> SUFFICES ASSUME line[1] = "swap"
             PROVE  SwapAt(StartFile, line[2], line[3])'
  BY StartKept DEF SwapInv
<1>1. PICK s, a, b : s = StartFile /\ a = line[2] /\ b = line[3]
  OBVIOUS
<1>2. a \in Holders /\ b \in Holders /\ code = asm_swap(a, b)
  <2>1. Accepted(line) /\ code = Code(line, origin)
    BY Assumed DEF Laid
  <2> QED BY <1>1, <2>1, MacroCode
<1>3. SwapAt(s, a, b)
  BY <1>1 DEF SwapInv
<1>4. SwapAt(s, a, b)'
  BY <1>2, <1>3, SwapStep
<1>5. StartFile' = s /\ line'[2] = a /\ line'[3] = b
  BY <1>1, StartKept
<1> QED BY <1>4, <1>5 DEF SwapAt, At

LEMMA StackKept ==
  ASSUME Laid, StackInv, Execute
  PROVE  StackInv'
<1> SUFFICES ASSUME line[1] = "isp"
             PROVE  StackAt(StartFile, ToByte(line[2]))'
  BY StartKept DEF StackInv
<1>1. PICK s, w : s = StartFile /\ w = ToByte(line[2])
  OBVIOUS
<1>2. line[2] \in Int /\ code = asm_isp(line[2])
  <2>1. Accepted(line) /\ code = Code(line, origin)
    BY Assumed DEF Laid
  <2> QED BY <2>1, MacroCode
<1>3. code = <<24, opcode("addi"), ToByte(line[2]), 24>> /\ w \in Byte
  BY <1>1, <1>2, StackCode, Truncated
<1>4. /\ Len(code) = 4 /\ code[1] = 24 /\ code[2] \in Bytes("addi") /\ code[3] = w
      /\ code[4] = 24
  BY <1>1, <1>3, MacroBytes
<1>5. StackAt(s, w)
  BY <1>1 DEF StackInv
<1>6. StackAt(s, w)'
  BY <1>3, <1>4, <1>5, StackStep
<1>7. StartFile' = s /\ ToByte(line'[2]) = w
  BY <1>1, StartKept
<1> QED BY <1>6, <1>7 DEF StackAt, At

\* The bytes of a line that loads a pair.
LEMMA PairLaid ==
  ASSUME Laid, line[1] \in Loaders
  PROVE  /\ HiOf \in Holders \ {ACC} /\ LoOf \in Holders \ {ACC} /\ HiOf # LoOf
         /\ WordOf \in Int /\ line[2] \in Addr
         /\ ToByte(WordOf) \in Byte /\ ToByte(WordOf \div 256) \in Byte
         /\ Len(code) = IF line[1] \in Jumpers THEN 8 ELSE 7
         /\ code[1] = 8 + HiOf /\ code[2] = 96 /\ code[3] = ToByte(WordOf)
         /\ code[4] = 8 + LoOf /\ code[5] = 96 /\ code[6] = ToByte(WordOf \div 256)
         /\ code[7] = 24 + HiOf
         /\ line[1] = "call" => code[8] = 5
         /\ line[1] = "goto" => code[8] = 4
<1>1. Accepted(line) /\ code = Code(line, origin)
  BY Assumed DEF Laid
<1>2. line[2] \in Addr
  BY <1>1, MacroCode DEF Loaders
<1>3. WordOf \in Int /\ WordOf \div 256 \in Int
  <2>1. line[2] \in Int
    BY <1>2, AddrRange
  <2>2. WordOf \in Int
    BY <2>1 DEF WordOf
  <2> HIDE DEF WordOf
  <2> QED BY <2>2
<1>4. ToByte(WordOf) \in Byte /\ ToByte(WordOf \div 256) \in Byte
  BY <1>3, Truncated
<1>5. /\ HiOf \in Holders \ {ACC} /\ LoOf \in Holders \ {ACC} /\ HiOf # LoOf
      /\ HiOf \in 0..7 /\ LoOf \in 0..7
  BY Numbers DEF HiOf, LoOf
<1> DEFINE p == 8 + HiOf
           n == 96
           q == ToByte(WordOf)
           r == 8 + LoOf
           m == ToByte(WordOf \div 256)
           x == 24 + HiOf
           pair == <<p, n, q, r, n, m, x>>
<1>6. LoadPair(HiOf, LoOf, WordOf) = pair
  BY <1>3, <1>5, PairCode DEF PairBytes
<1>7. /\ line[1] \notin Jumpers => code = LoadPair(HiOf, LoOf, WordOf)
      /\ line[1] = "call" => code = LoadPair(HiOf, LoOf, WordOf) \o <<5>>
      /\ line[1] = "goto" => code = LoadPair(HiOf, LoOf, WordOf) \o <<4>>
  <2>1. CASE line[1] \in {"rdp", "rdq"}
    BY <1>1, <2>1, MacroCode DEF asm_rdp, asm_rdq, HiOf, LoOf, WordOf, Jumpers
  <2>2. CASE line[1] = "call"
    BY <1>1, <2>2, MacroCode, MacroBytes
       DEF asm_call, asm_rdja, asm_basic, HiOf, LoOf, WordOf, Jumpers
  <2>3. CASE line[1] = "goto"
    BY <1>1, <2>3, MacroCode, MacroBytes
       DEF asm_goto, asm_rdja, asm_basic, HiOf, LoOf, WordOf, Jumpers
  <2> QED BY <2>1, <2>2, <2>3 DEF Loaders
<1> HIDE DEF p, q, r, m, x, n
<1>8. ASSUME NEW z PROVE pair \o <<z>> = <<p, n, q, r, n, m, x, z>>
  <2> DEFINE S == {p, n, q, r, m, x, z}
             s == pair
             t == <<z>>
             u == <<p, n, q, r, n, m, x, z>>
  <2>1. s \in Seq(S) /\ t \in Seq(S) /\ u \in Seq(S)
    OBVIOUS
  <2>2. /\ Len(s) = 7 /\ Len(t) = 1 /\ Len(u) = 8
        /\ s[1] = p /\ s[2] = n /\ s[3] = q /\ s[4] = r /\ s[5] = n /\ s[6] = m /\ s[7] = x
        /\ t[1] = z
        /\ u[1] = p /\ u[2] = n /\ u[3] = q /\ u[4] = r /\ u[5] = n /\ u[6] = m /\ u[7] = x
        /\ u[8] = z
    OBVIOUS
  <2> HIDE DEF S, s, t, u
  <2>3. /\ Len(u) = Len(s) + Len(t)
        /\ \A i \in 1..Len(s) : u[i] = s[i]
        /\ \A i \in 1..Len(t) : u[Len(s) + i] = t[i]
    BY <2>2
  <2>4. s \o t = u
    BY <2>1, <2>3, ConcatIs, Zenon
  <2> QED BY <2>4 DEF s, t, u
<1>9. /\ Len(code) = IF line[1] \in Jumpers THEN 8 ELSE 7
      /\ code[1] = p /\ code[2] = n /\ code[3] = q /\ code[4] = r
      /\ code[5] = n /\ code[6] = m /\ code[7] = x
      /\ line[1] = "call" => code[8] = 5
      /\ line[1] = "goto" => code[8] = 4
  <2>1. CASE line[1] \notin Jumpers
    <3>1. code = pair /\ line[1] # "call" /\ line[1] # "goto"
      BY <1>6, <1>7, <2>1 DEF Jumpers
    <3> QED BY <2>1, <3>1
  <2>2. ASSUME NEW z, code = pair \o <<z>>, line[1] \in Jumpers,
               z = 5 \/ line[1] # "call", z = 4 \/ line[1] # "goto"
        PROVE  /\ Len(code) = 8
               /\ code[1] = p /\ code[2] = n /\ code[3] = q /\ code[4] = r
               /\ code[5] = n /\ code[6] = m /\ code[7] = x
               /\ line[1] = "call" => code[8] = 5
               /\ line[1] = "goto" => code[8] = 4
    <3>1. code = <<p, n, q, r, n, m, x, z>>
      BY <1>8, <2>2, Zenon
    <3> QED BY <2>2, <3>1
  <2>3. CASE line[1] = "call"
    <3>1. code = pair \o <<5>> /\ line[1] \in Jumpers /\ line[1] # "goto"
      BY <1>6, <1>7, <2>3, Zenon DEF Jumpers
    <3> QED BY <2>2, <3>1
  <2>4. CASE line[1] = "goto"
    <3>1. code = pair \o <<4>> /\ line[1] \in Jumpers /\ line[1] # "call"
      BY <1>6, <1>7, <2>4, Zenon DEF Jumpers
    <3> QED BY <2>2, <3>1
  <2> QED BY <2>1, <2>3, <2>4 DEF Jumpers
<1> QED BY <1>2, <1>3, <1>4, <1>5, <1>9 DEF p, q, r, m, x, n

\* A pair that holds the bytes of a word is the word.
LEMMA PairIs ==
  ASSUME NEW a \in Addr, NEW v \in Int, Lo(a) = ToByte(v), Hi(a) = ToByte(v \div 256)
  PROVE  a = ToAddr(v)
<1>1. a = 256 * Hi(a) + Lo(a)
  BY AddrRange DEF Hi, Lo
<1>2. ToAddr(v) = 256 * ToByte(v \div 256) + ToByte(v)
  BY DEF ToAddr, ToByte
<1> QED BY <1>1, <1>2

LEMMA PairLoaded ==
  ASSUME NEW c \in Registers, NEW f, NEW hi, NEW lo, NEW v \in Int,
         (hi = PH /\ lo = PL) \/ (hi = QH /\ lo = QL),
         \A r \in Holders : Get(c, r) = f[r],
         f[hi] = ToByte(v \div 256), f[lo] = ToByte(v)
  PROVE  (IF hi = PH THEN c.p ELSE c.q) = ToAddr(v)
<1>1. c.p \in Addr /\ c.q \in Addr
  BY DEF Registers
<1>2. CASE hi = PH /\ lo = PL
  <2>1. Hi(c.p) = ToByte(v \div 256) /\ Lo(c.p) = ToByte(v)
    BY <1>2, Gets, Numbers
  <2> QED BY <1>1, <1>2, <2>1, PairIs
<1>3. CASE hi = QH /\ lo = QL
  <2>1. Hi(c.q) = ToByte(v \div 256) /\ Lo(c.q) = ToByte(v) /\ hi # PH
    BY <1>3, Gets, Numbers
  <2> QED BY <1>1, <2>1, PairIs
<1> QED BY <1>2, <1>3

\* The jump at the end of call and goto, with p loaded.
LEMMA PairJumps ==
  ASSUME Laid, Execute, line[1] \in Jumpers, NEW s, NEW hi, NEW lo, NEW w \in Int,
         hi = HiOf, lo = LoOf, w = WordOf,
         At(7, Filled(s, hi, lo, ToByte(w), ToByte(w \div 256)))
  PROVE  left' = 0 /\ JumpArrives' /\ CallReturns'
<1> DEFINE f == Filled(s, hi, lo, ToByte(w), ToByte(w \div 256))
<1>1. /\ line[1] \in Loaders /\ hi = PH /\ lo = PL /\ w = line[2] - 1
  BY DEF Jumpers, Loaders, HiOf, LoOf, WordOf
<1>2. /\ line[2] \in Addr /\ Len(code) = 8
      /\ line[1] = "call" => code[8] = 5
      /\ line[1] = "goto" => code[8] = 4
  BY <1>1, PairLaid
<1>3. /\ cpu \in Registers /\ cpu.pc = ToAddr(origin + 7)
      /\ \A r \in Holders : Get(cpu, r) = f[r]
      /\ origin \in Nat /\ left = 1
  BY <1>2, Assumed DEF At
<1>4. cpu.p = ToAddr(w)
  <2>1. f[hi] = ToByte(w \div 256) /\ f[lo] = ToByte(w)
    BY <1>1, Numbers DEF Filled
  <2>2. \A r \in Holders : Get(cpu, r) = f[r]
    BY <1>3
  <2> HIDE DEF f
  <2>3. (IF hi = PH THEN cpu.p ELSE cpu.q) = ToAddr(w)
    <3>1. /\ cpu \in Registers
          /\ (hi = PH /\ lo = PL) \/ (hi = QH /\ lo = QL)
      BY <1>1, <1>3
    <3> QED BY <2>1, <2>2, <3>1, PairLoaded
  <2> QED BY <1>1, <2>3
<1>5. ToAddr(cpu.p + 1) = line[2]
  <2>1. line[2] \in Int /\ 0 <= line[2] /\ line[2] <= 65535
    BY <1>2, AddrRange
  <2> QED BY <1>1, <1>4, <2>1 DEF ToAddr
<1>6. DOMAIN cpu = {"pc", "ia", "acc", "sp", "x", "y", "p", "q", "carry",
                    "int_en", "int_active", "io_rd", "io_wr", "idbg", "ints_in"}
  BY <1>3 DEF Registers
<1>7. ASSUME NEW m \in {"jp", "jpr"}, code[8] \in Bytes(m)
      PROVE  /\ cpu' = execute(m) /\ left' = 0
             /\ origin' = origin /\ code' = code /\ line' = line
  <2>1. m \in Mnemonics \ Shadowed /\ m \notin TwoByte
    BY Singles DEF NoOperand
  <2>2. Len(code) \in Nat /\ 7 < Len(code) /\ 7 + 1 = 8
    BY <1>2
  <2>3. /\ cpu' = execute(m) /\ left' = Len(code) - (7 + 1)
        /\ origin' = origin /\ code' = code /\ line' = line
    BY <1>7, <2>1, <2>2, Running
  <2> QED BY <1>2, <2>3
<1>8. CASE line[1] = "call"
  <2>1. code[8] \in Bytes("jpr")
    BY <1>2, <1>8 DEF Bytes
  <2>2. cpu' = exe_jpr /\ left' = 0 /\ origin' = origin /\ code' = code /\ line' = line
    BY <1>7, <2>1 DEF execute
  <2>3. /\ cpu'.pc = line[2] /\ cpu'.p = ToAddr(origin + 7)
        /\ "pc" \in DOMAIN cpu' /\ DOMAIN Fetched' = DOMAIN cpu'
    BY <1>3, <1>5, <1>6, <2>2 DEF exe_jpr, Fetched
  <2>4. ToAddr(cpu'.p + 1) = ToAddr(origin + 8)
    BY <1>3, <2>3 DEF ToAddr
  <2>5. ReturnAddress' = ToAddr(origin + 8)
    BY <1>2, <2>2 DEF ReturnAddress
  <2>6. exe_jp'.pc = ReturnAddress'
    BY <2>3, <2>4, <2>5 DEF exe_jp
  <2>7. Taken' /\ Target' = line[2]
    BY <1>8, <2>2 DEF Taken, Target, RelJumps
  <2> QED BY <2>2, <2>3, <2>6, <2>7 DEF JumpArrives, CallReturns
<1>9. CASE line[1] = "goto"
  <2>1. code[8] \in Bytes("jp")
    BY <1>2, <1>9 DEF Bytes
  <2>2. cpu' = exe_jp /\ left' = 0 /\ origin' = origin /\ code' = code /\ line' = line
    BY <1>7, <2>1 DEF execute
  <2>3. cpu'.pc = line[2]
    BY <1>5, <1>6, <2>2 DEF exe_jp, Fetched
  <2>4. Taken' /\ Target' = line[2]
    BY <1>9, <2>2 DEF Taken, Target, RelJumps
  <2> QED BY <1>9, <2>2, <2>3, <2>4 DEF JumpArrives, CallReturns, After
<1> QED BY <1>8, <1>9 DEF Jumpers

LEMMA PairKept ==
  ASSUME Laid, PairInv, Execute
  PROVE  PairInv'
<1> SUFFICES ASSUME line[1] \in Loaders
             PROVE  \/ PairAt(StartFile, HiOf, LoOf, ToByte(WordOf), ToByte(WordOf \div 256))'
                    \/ line'[1] \in Jumpers /\ left' = 0 /\ JumpArrives' /\ CallReturns'
  BY StartKept DEF PairInv
<1>1. PICK s, hi, lo, w : s = StartFile /\ hi = HiOf /\ lo = LoOf /\ w = WordOf
  OBVIOUS
<1>2. /\ hi \in Holders \ {ACC} /\ lo \in Holders \ {ACC} /\ hi # lo /\ w \in Int
      /\ ToByte(w) \in Byte /\ ToByte(w \div 256) \in Byte
      /\ Len(code) = IF line[1] \in Jumpers THEN 8 ELSE 7
      /\ code[1] = 8 + hi /\ code[2] = 96 /\ code[3] = ToByte(w)
      /\ code[4] = 8 + lo /\ code[5] = 96 /\ code[6] = ToByte(w \div 256)
      /\ code[7] = 24 + hi
  BY <1>1, PairLaid
<1>3. left > 0 /\ line' = line
  BY DEF Execute
<1>4. PairAt(s, hi, lo, ToByte(w), ToByte(w \div 256))
  BY <1>1, <1>3 DEF PairInv
<1>5. CASE ~ At(7, Filled(s, hi, lo, ToByte(w), ToByte(w \div 256)))
  <2>1. Len(code) \in {7, 8}
    BY <1>2
  <2>2. PairAt(s, hi, lo, ToByte(w), ToByte(w \div 256))'
    BY <1>2, <1>4, <1>5, <2>1, PairStep
  <2>3. StartFile' = s /\ HiOf' = hi /\ LoOf' = lo /\ WordOf' = w
    BY <1>1, StartKept
  <2> QED BY <2>2, <2>3 DEF PairAt, At
<1>6. CASE At(7, Filled(s, hi, lo, ToByte(w), ToByte(w \div 256)))
  <2>1. line[1] \in Jumpers
    BY <1>2, <1>3, <1>6 DEF At
  <2> QED BY <1>1, <1>2, <1>3, <1>6, <2>1, PairJumps
<1> QED BY <1>5, <1>6

\* The invariant holds of the beginning and is kept.
LEMMA InitIInv == Init => IInv
<1> SUFFICES ASSUME Init PROVE IInv
  OBVIOUS
<1>1. Laid /\ Accepted(line) /\ code = Code(line, origin)
  BY InitLaid, Assumed DEF Laid
<1>2. SingleInv
  BY DEF Init, SingleInv, Fresh
<1>3. MoveInv
  <2> SUFFICES ASSUME line[1] = "move" PROVE At(0, StartFile)
    BY DEF MoveInv, MoveAt
  <2>1. Len(code) \in Nat
    <3>1. line[2] \in Holders /\ line[3] \in Holders /\ code = asm_move(line[2], line[3])
      BY <1>1, MacroCode
    <3>2. \/ code = <<>> \/ code = <<16 + line[2]>> \/ code = <<8 + line[3]>>
          \/ code = <<24 + line[2], 8 + line[3], 24 + line[2]>>
      BY <3>1, MoveCode
    <3> QED BY <3>2
  <2> QED BY <2>1, InitAt
<1>4. SwapInv
  <2> SUFFICES ASSUME line[1] = "swap" PROVE At(0, StartFile)
    BY DEF SwapInv, SwapAt
  <2>1. Len(code) \in Nat
    <3>1. line[2] \in Holders /\ line[3] \in Holders /\ code = asm_swap(line[2], line[3])
      BY <1>1, MacroCode
    <3>2. \/ code = <<>> \/ code = <<24 + line[2]>> \/ code = <<24 + line[3]>>
          \/ code = <<24 + line[2], 24 + line[3], 24 + line[2]>>
      BY <3>1, MoveCode
    <3> QED BY <3>2
  <2> QED BY <2>1, InitAt
<1>5. PairInv
  <2> SUFFICES ASSUME line[1] \in Loaders PROVE At(0, StartFile)
    BY DEF PairInv, PairAt
  <2>1. Len(code) \in {7, 8}
    BY <1>1, PairLaid
  <2> QED BY <2>1, InitAt
<1>6. StackInv
  <2> SUFFICES ASSUME line[1] = "isp" PROVE At(0, StartFile)
    BY DEF StackInv, StackAt
  <2>1. line[2] \in Int /\ code = asm_isp(line[2])
    BY <1>1, MacroCode
  <2>2. Len(code) = 4
    BY <2>1, StackCode
  <2> QED BY <2>2, InitAt
<1> QED BY <1>1, <1>2, <1>3, <1>4, <1>5, <1>6 DEF IInv

LEMMA NextIInv == IInv /\ [Next]_isaVars => IInv'
<1> SUFFICES ASSUME IInv, [Next]_isaVars PROVE IInv'
  OBVIOUS
<1>1. CASE Execute
  <2>1. Laid'
    BY <1>1, StaysLaid DEF IInv
  <2>2. SingleInv'
    BY <1>1, SingleStep DEF IInv
  <2>3. MoveInv' /\ SwapInv'
    BY <1>1, MoveKept, SwapKept DEF IInv
  <2>4. PairInv' /\ StackInv'
    BY <1>1, PairKept, StackKept DEF IInv
  <2> QED BY <2>1, <2>2, <2>3, <2>4 DEF IInv
<1>2. CASE UNCHANGED isaVars
  <2> USE <1>2 DEF isaVars
  <2>1. Laid'
    BY StaysLaid DEF IInv
  <2>2. SingleInv'
    <3>1. CarryChains' = CarryChains
      BY DEF CarryChains, After, Operand, Borrow, CarryIn
    <3>2. JumpArrives' = JumpArrives /\ CallReturns' = CallReturns
      BY DEF JumpArrives, CallReturns, After, Target, Taken, ReturnAddress, exe_jp, Fetched
    <3>3. Fresh' = Fresh
      BY DEF Fresh
    <3> QED BY <3>1, <3>2, <3>3 DEF IInv, SingleInv
  <2>3. MoveInv' /\ SwapInv'
    BY DEF IInv, MoveInv, SwapInv, MoveAt, SwapAt, At, StartFile
  <2>4. PairInv'
    BY DEF IInv, PairInv, PairAt, At, StartFile, HiOf, LoOf, WordOf, JumpArrives,
           CallReturns, After, Target, Taken, ReturnAddress, exe_jp, Fetched
  <2>5. StackInv'
    BY DEF IInv, StackInv, StackAt, At, StartFile
  <2> QED BY <2>1, <2>2, <2>3, <2>4, <2>5 DEF IInv
<1> QED BY <1>1, <1>2 DEF Next

THEOREM IInvAlways == Spec => []IInv
BY InitIInv, NextIInv, PTL DEF Spec
-----------------------------------------------------------------------------
(* What the invariant says of the lines that are macros.                   *)

\* A line that has been executed, by the file it is to leave.
LEMMA Ended ==
  ASSUME NEW f, At(Len(code), f)
  PROVE  /\ cpu.pc = ReturnAddress /\ cpu.carry = start.carry
         /\ \A q \in Holders : Get(cpu, q) = f[q] /\ StartFile[q] = Get(start, q)
BY DEF At, ReturnAddress, StartFile

LEMMA MoveClaim ==
  ASSUME Laid, MoveInv, line[1] = "move", left = 0
  PROVE  Get(cpu, line[3]) = Get(start, line[2]) /\ SameBut({line[3]})
<1> DEFINE a == line[2]
           b == line[3]
           s == StartFile
<1>1. a \in Holders /\ b \in Holders /\ code = asm_move(a, b)
  BY Assumed, MacroCode DEF Laid
<1>2. At(Len(code), CopyOf(s, a, b))
  <2>1. CASE a = b
    <3>1. Len(code) = 0
      BY <1>1, <2>1, MoveCode
    <3>2. \A q \in Holders : s[q] = CopyOf(s, a, b)[q]
      BY <2>1 DEF CopyOf
    <3>3. At(0, s) => At(0, CopyOf(s, a, b))
      BY <3>2 DEF At
    <3> QED BY <2>1, <3>1, <3>3 DEF MoveInv, MoveAt
  <2>2. CASE a # b /\ (a = ACC \/ b = ACC)
    <3>1. Len(code) = 1
      <4>1. code = <<16 + a>> \/ code = <<8 + b>>
        BY <1>1, <2>2, MoveCode
      <4> QED BY <4>1
    <3>2. ~ At(0, s)
      BY <3>1 DEF At
    <3> QED BY <2>2, <3>2 DEF MoveInv, MoveAt
  <2>3. CASE a # b /\ a # ACC /\ b # ACC
    <3>1. Len(code) = 3
      <4>1. code = <<24 + a, 8 + b, 24 + a>>
        BY <1>1, <2>3, MoveCode
      <4> QED BY <4>1
    <3>2. ~ At(0, s) /\ ~ At(1, Swapped(s, a)) /\ ~ At(2, Written(Swapped(s, a), b))
      BY <3>1 DEF At
    <3> QED BY <3>2 DEF MoveInv, MoveAt
  <2> QED BY <2>1, <2>2, <2>3
<1>3. /\ cpu.pc = ReturnAddress /\ cpu.carry = start.carry
      /\ \A q \in Holders : Get(cpu, q) = CopyOf(s, a, b)[q] /\ s[q] = Get(start, q)
  BY <1>2, Ended
<1>4. \A q \in Holders : CopyOf(s, a, b)[q] = IF q = b THEN s[a] ELSE s[q]
  BY DEF CopyOf
<1> HIDE DEF s
<1> QED BY <1>1, <1>3, <1>4 DEF SameBut

LEMMA SwapClaim ==
  ASSUME Laid, SwapInv, line[1] = "swap", left = 0
  PROVE  /\ Get(cpu, line[3]) = Get(start, line[2])
         /\ Get(cpu, line[2]) = Get(start, line[3])
         /\ SameBut({line[2], line[3]})
<1> DEFINE a == line[2]
           b == line[3]
           s == StartFile
<1>1. a \in Holders /\ b \in Holders /\ code = asm_swap(a, b)
  BY Assumed, MacroCode DEF Laid
<1>2. At(Len(code), Exchanged(s, a, b))
  <2>1. CASE a = b
    <3>1. Len(code) = 0
      BY <1>1, <2>1, MoveCode
    <3>2. \A q \in Holders : s[q] = Exchanged(s, a, b)[q]
      BY <2>1 DEF Exchanged
    <3>3. At(0, s) => At(0, Exchanged(s, a, b))
      BY <3>2 DEF At
    <3> QED BY <2>1, <3>1, <3>3 DEF SwapInv, SwapAt
  <2>2. CASE a # b /\ (a = ACC \/ b = ACC)
    <3>1. Len(code) = 1
      <4>1. code = <<24 + a>> \/ code = <<24 + b>>
        BY <1>1, <2>2, MoveCode
      <4> QED BY <4>1
    <3>2. ~ At(0, s)
      BY <3>1 DEF At
    <3> QED BY <2>2, <3>2 DEF SwapInv, SwapAt
  <2>3. CASE a # b /\ a # ACC /\ b # ACC
    <3>1. Len(code) = 3
      <4>1. code = <<24 + a, 24 + b, 24 + a>>
        BY <1>1, <2>3, MoveCode
      <4> QED BY <4>1
    <3>2. ~ At(0, s) /\ ~ At(1, Swapped(s, a)) /\ ~ At(2, Swapped(Swapped(s, a), b))
      BY <3>1 DEF At
    <3> QED BY <3>2 DEF SwapInv, SwapAt
  <2> QED BY <2>1, <2>2, <2>3
<1>3. /\ cpu.pc = ReturnAddress /\ cpu.carry = start.carry
      /\ \A q \in Holders : Get(cpu, q) = Exchanged(s, a, b)[q] /\ s[q] = Get(start, q)
  BY <1>2, Ended
<1>4. \A q \in Holders :
        Exchanged(s, a, b)[q] = IF q = b THEN s[a] ELSE IF q = a THEN s[b] ELSE s[q]
  BY DEF Exchanged
<1> HIDE DEF s
<1> QED BY <1>1, <1>3, <1>4 DEF SameBut

LEMMA PairClaim ==
  ASSUME Laid, PairInv, line[1] \in {"rdp", "rdq"}, left = 0
  PROVE  /\ line[1] = "rdp" => cpu.p = line[2] /\ SameBut({PL, PH})
         /\ line[1] = "rdq" => cpu.q = line[2] /\ SameBut({QL, QH})
<1>1. PICK s, hi, lo, w : s = StartFile /\ hi = HiOf /\ lo = LoOf /\ w = WordOf
  OBVIOUS
<1>2. line[1] \in Loaders /\ line[1] \notin Jumpers
  BY DEF Loaders, Jumpers
<1>3. /\ hi \in Holders \ {ACC} /\ lo \in Holders \ {ACC} /\ hi # lo /\ w \in Int
      /\ line[2] \in Addr /\ Len(code) = 7
  BY <1>1, <1>2, PairLaid
<1>4. PairAt(s, hi, lo, ToByte(w), ToByte(w \div 256))
  BY <1>1, <1>2 DEF PairInv
<1> DEFINE f == Filled(s, hi, lo, ToByte(w), ToByte(w \div 256))
<1>5. At(Len(code), f)
  BY <1>3, <1>4 DEF PairAt, At
<1>6. /\ \A q \in Holders : f[q] = IF q = hi THEN ToByte(w \div 256)
                                   ELSE IF q = lo THEN ToByte(w) ELSE s[q]
  BY DEF Filled
<1> HIDE DEF f
<1>7. /\ cpu \in Registers /\ cpu.pc = ReturnAddress /\ cpu.carry = start.carry
      /\ \A q \in Holders : Get(cpu, q) = f[q]
      /\ \A q \in Holders : s[q] = Get(start, q)
  BY <1>1, <1>5, Ended DEF At
<1>8. w = line[2] /\ ToAddr(w) = line[2]
  <2>1. w = line[2]
    BY <1>1, <1>2 DEF WordOf
  <2> QED BY <1>3, <2>1, AddrRange DEF ToAddr
<1>9. (hi = PH /\ lo = PL) \/ (hi = QH /\ lo = QL)
  BY <1>1 DEF HiOf, LoOf
<1>10. f[hi] = ToByte(w \div 256) /\ f[lo] = ToByte(w)
  BY <1>3, <1>6
<1>11. (IF hi = PH THEN cpu.p ELSE cpu.q) = ToAddr(w)
  BY <1>3, <1>7, <1>9, <1>10, PairLoaded
<1>12. SameBut({hi, lo})
  BY <1>6, <1>7 DEF SameBut
<1>13. {lo, hi} = {hi, lo}
  OBVIOUS
<1>14. CASE line[1] = "rdp"
  <2>1. hi = PH /\ lo = PL
    BY <1>1, <1>14 DEF HiOf, LoOf
  <2> QED BY <1>8, <1>11, <1>12, <1>13, <1>14, <2>1
<1>15. CASE line[1] = "rdq"
  <2>1. hi = QH /\ lo = QL /\ hi # PH
    BY <1>1, <1>15, Numbers DEF HiOf, LoOf
  <2> QED BY <1>8, <1>11, <1>12, <1>13, <1>15, <2>1
<1> QED BY <1>14, <1>15

LEMMA StackClaim ==
  ASSUME Laid, StackInv, line[1] = "isp", left = 0
  PROVE  cpu.sp = ToByte(start.sp + line[2]) /\ SameBut({SP})
<1> DEFINE s == StartFile
           w == ToByte(line[2])
<1>1. line[2] \in Int /\ code = asm_isp(line[2]) /\ start \in Registers
  BY Assumed, MacroCode DEF Laid
<1>2. Len(code) = 4
  BY <1>1, StackCode
<1>3. At(Len(code), Stacked(s, w))
  BY <1>2 DEF StackInv, StackAt, At
<1>4. /\ cpu.pc = ReturnAddress /\ cpu.carry = start.carry
      /\ \A q \in Holders : Get(cpu, q) = Stacked(s, w)[q] /\ s[q] = Get(start, q)
  BY <1>3, Ended
<1>5. \A q \in Holders : Stacked(s, w)[q] = IF q = SP THEN ToByte(s[SP] + w) ELSE s[q]
  BY DEF Stacked
<1>6. SP \in Holders /\ Get(cpu, SP) = cpu.sp /\ s[SP] = start.sp
  <2> HIDE DEF s
  <2> QED BY <1>4, Gets, Numbers
<1>7. ToByte(start.sp + w) = ToByte(start.sp + line[2])
  <2>1. start.sp \in Int
    BY <1>1, ByteRange DEF Registers
  <2> QED BY <1>1, <2>1 DEF ToByte
<1> HIDE DEF s, w
<1> QED BY <1>4, <1>5, <1>6, <1>7 DEF SameBut

LEMMA MacrosClaim ==
  ASSUME IInv
  PROVE  MacrosKeepRest
<1>1. CASE line[1] \in Single
  BY <1>1, SingleClaims DEF IInv
<1>2. CASE line[1] \notin Single
  <2>1. /\ After({"move"}) => Get(cpu, line[3]) = Get(start, line[2])
                              /\ SameBut({line[3]})
        /\ After({"swap"}) => /\ Get(cpu, line[3]) = Get(start, line[2])
                              /\ Get(cpu, line[2]) = Get(start, line[3])
                              /\ SameBut({line[2], line[3]})
    BY MoveClaim, SwapClaim DEF IInv, After
  <2>2. /\ After({"rdp"}) => cpu.p = line[2] /\ SameBut({PL, PH})
        /\ After({"rdq"}) => cpu.q = line[2] /\ SameBut({QL, QH})
    BY PairClaim DEF IInv, After
  <2>3. After({"isp"}) => cpu.sp = ToByte(start.sp + line[2]) /\ SameBut({SP})
    BY StackClaim DEF IInv, After
  <2> QED BY <2>1, <2>2, <2>3 DEF MacrosKeepRest
<1> QED BY <1>1, <1>2

LEMMA JumpsClaim ==
  ASSUME IInv
  PROVE  JumpArrives /\ CallReturns
<1>1. CASE line[1] \in Single
  BY <1>1, SingleClaims DEF IInv
<1>2. CASE line[1] \in Jumpers /\ left = 0
  <2>1. Laid /\ line[1] \in Loaders /\ line[1] \in Jumpers
    BY <1>2 DEF IInv, Loaders, Jumpers
  <2>2. Len(code) = 8
    BY <2>1, PairLaid
  <2>3. ~ PairAt(StartFile, HiOf, LoOf, ToByte(WordOf), ToByte(WordOf \div 256))
    BY <1>2, <2>2 DEF PairAt, At
  <2> QED BY <2>1, <2>3 DEF IInv, PairInv
<1>3. CASE line[1] \notin Single /\ ~ (line[1] \in Jumpers /\ left = 0)
  BY <1>3 DEF JumpArrives, CallReturns, After, Jumpers, Single, RelJumps, NoOperand
<1> QED BY <1>1, <1>2, <1>3
-----------------------------------------------------------------------------
(* The claims, for every line the assembler accepts, every operand and     *)
(* every origin the line fits at, from every value of the registers.       *)

\* An instruction is decoded as what it was written as, and is as long.
THEOREM Decoding == Spec => []DecodesAsWritten
<1>1. IInv => DecodesAsWritten
  BY SingleClaims DEF IInv, DecodesAsWritten
<1> QED BY <1>1, IInvAlways, PTL

\* adci, sbci, slc and src complete a nine-bit result with the carry out.
THEOREM Chaining == Spec => []CarryChains
<1>1. IInv => CarryChains
  <2>1. ASSUME IInv, line[1] \in Single PROVE CarryChains
    BY <2>1, SingleClaims DEF IInv
  <2>2. ASSUME line[1] \notin Single PROVE CarryChains
    BY <2>2 DEF CarryChains, After, Single, NoOperand, ImmAlu
  <2> QED BY <2>1, <2>2
<1> QED BY <1>1, IInvAlways, PTL

\* A jump, a call and a goto arrive where they were assembled for.
THEOREM Arriving == Spec => []JumpArrives
<1>1. IInv => JumpArrives
  BY JumpsClaim
<1> QED BY <1>1, IInvAlways, PTL

\* The address a call leaves in p leads back to behind it.
THEOREM Returning == Spec => []CallReturns
<1>1. IInv => CallReturns
  BY JumpsClaim
<1> QED BY <1>1, IInvAlways, PTL

\* A macro does what it is for and leaves every other register alone.
THEOREM Keeping == Spec => []MacrosKeepRest
<1>1. IInv => MacrosKeepRest
  BY MacrosClaim
<1> QED BY <1>1, IInvAlways, PTL
=============================================================================
