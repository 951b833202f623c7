--------------------------- MODULE AssemblerProofs ---------------------------
(***************************************************************************)
(* The layout the assembler makes: types, and the separation of what is    *)
(* emitted and reserved, for every source.                                 *)
(***************************************************************************)
EXTENDS Assembler, NandyWordProofs, SequenceTheorems

-----------------------------------------------------------------------------
(* Sizes: a statement takes the same number of bytes whatever its operand  *)
(* is and wherever it stands, so what resolution writes has the room that  *)
(* the layout phase left for it.                                           *)

\* s is a sequence of n elements of any kind.
IsCode(s, n) == Len(s) = n /\ \E S : s \in Seq(S)

LEMMA Joined ==
  ASSUME NEW s, NEW t, NEW m \in Nat, NEW n \in Nat, IsCode(s, m), IsCode(t, n)
  PROVE  IsCode(s \o t, m + n)
<1>1. PICK S : s \in Seq(S)
  BY DEF IsCode
<1>2. PICK T : t \in Seq(T)
  BY DEF IsCode
<1>3. s \in Seq(S \cup T) /\ t \in Seq(S \cup T)
  BY <1>1, <1>2
<1>4. s \o t \in Seq(S \cup T) /\ Len(s \o t) = m + n
  BY <1>3, ConcatProperties DEF IsCode
<1> QED BY <1>4 DEF IsCode

LEMMA Tuples == \A a, b : IsCode(<<a>>, 1) /\ IsCode(<<a, b>>, 2)
<1> SUFFICES ASSUME NEW a, NEW b PROVE IsCode(<<a>>, 1) /\ IsCode(<<a, b>>, 2)
  OBVIOUS
<1>1. <<a>> \in Seq({a, b}) /\ <<a, b>> \in Seq({a, b})
  OBVIOUS
<1> QED BY <1>1 DEF IsCode

LEMMA Instructions ==
  /\ \A m : IsCode(asm_basic(m), 1)
  /\ \A m, r : IsCode(asm_register(m, r), 1)
  /\ \A m, v : IsCode(asm_alu_imm(m, v), 2)
  /\ \A m, mode, v : IsCode(asm_mem(m, mode, v), 1)
  /\ \A m, pos, v : IsCode(asm_reljump(m, pos, v), 2)
  BY Tuples DEF asm_basic, asm_register, asm_alu_imm, asm_mem, asm_reljump

LEMMA Macros ==
  /\ \A v : IsCode(asm_rdp(v), 7) /\ IsCode(asm_rdq(v), 7)
  /\ \A v : IsCode(asm_call(v), 8) /\ IsCode(asm_goto(v), 8)
  /\ \A v : IsCode(asm_isc(v), 4) /\ IsCode(asm_isp(v), 4)
  /\ \A v : IsCode(asm_pusha(v), 10)
<1>1. ASSUME NEW hi, NEW lo, NEW v PROVE IsCode(LoadPair(hi, lo, v), 7)
  <2> DEFINE a == asm_register("wr", hi) \o asm_alu_imm("rdi", v)
             b == a \o asm_register("wr", lo)
             c == b \o asm_alu_imm("rdi", v \div 256)
  <2>1. IsCode(a, 3)
    BY Instructions, Joined, 1 + 2 = 3
  <2> HIDE DEF a
  <2>2. IsCode(b, 4)
    BY <2>1, Instructions, Joined, 3 + 1 = 4
  <2> HIDE DEF b
  <2>3. IsCode(c, 6)
    BY <2>2, Instructions, Joined, 4 + 2 = 6
  <2> HIDE DEF c
  <2>4. IsCode(c \o asm_register("sw", hi), 7)
    BY <2>3, Instructions, Joined, 6 + 1 = 7
  <2> QED BY <2>4 DEF LoadPair, a, b, c
<1>2. \A v : IsCode(asm_rdja(v), 7)
  BY <1>1 DEF asm_rdja
<1>3. \A v : IsCode(asm_call(v), 8) /\ IsCode(asm_goto(v), 8)
  BY <1>2, Instructions, Joined, 7 + 1 = 8 DEF asm_call, asm_goto
<1>4. \A v : IsCode(asm_isc(v), 4) /\ IsCode(asm_isp(v), 4)
  <2>1. ASSUME NEW m, NEW v
        PROVE  IsCode(asm_register("sw", SP) \o asm_alu_imm(m, v)
                        \o asm_register("sw", SP), 4)
    <3>1. IsCode(asm_register("sw", SP) \o asm_alu_imm(m, v), 3)
      BY Instructions, Joined, 1 + 2 = 3
    <3> QED BY <3>1, Instructions, Joined, 3 + 1 = 4
  <2> QED BY <2>1 DEF asm_isc, asm_isp
<1>5. ASSUME NEW v PROVE IsCode(asm_pusha(v), 10)
  <2> DEFINE a == asm_isc(-2) \o asm_alu_imm("rdi", v)
             b == a \o asm_mem("st", MM_SP, 0)
             c == b \o asm_alu_imm("rdi", v \div 256)
  <2>1. IsCode(a, 6)
    BY <1>4, Instructions, Joined, 4 + 2 = 6
  <2> HIDE DEF a
  <2>2. IsCode(b, 7)
    BY <2>1, Instructions, Joined, 6 + 1 = 7
  <2> HIDE DEF b
  <2>3. IsCode(c, 9)
    BY <2>2, Instructions, Joined, 7 + 2 = 9
  <2> HIDE DEF c
  <2>4. IsCode(c \o asm_mem("st", MM_SP, 1), 10)
    BY <2>3, Instructions, Joined, 9 + 1 = 10
  <2> QED BY <2>4 DEF asm_pusha, a, b, c
<1> QED BY <1>1, <1>3, <1>4, <1>5 DEF asm_rdp, asm_rdq
Size(op) == CASE op \in Basics \cup Moves \cup Accesses -> 1
              [] op \in Immediate \cup RelJumps         -> 2
              [] op \in {"rdp", "rdq"}                  -> 7
              [] op = "pusha"                           -> 10
              [] op \in Jumps                           -> 8
              [] op \in {"isp", "isc"}                  -> 4

LEMMA CodeSize ==
  ASSUME NEW s, NEW loc, NEW v, s.op \in CodeOps
  PROVE  Size(s.op) \in 1..10 /\ Len(Code(s, loc, v)) = Size(s.op)
<1> USE DEF Basics, Moves, Accesses, Immediate, RelJumps, Addresses, Jumps
<1>1. CASE s.op \in Basics
  <2>1. Code(s, loc, v) = asm_basic(s.op) /\ Size(s.op) = 1
    BY <1>1 DEF Code, Size
  <2> QED BY <2>1, Instructions DEF IsCode
<1>2. CASE s.op \in Moves
  <2>1. Code(s, loc, v) = asm_register(s.op, s.reg) /\ Size(s.op) = 1
    BY <1>2 DEF Code, Size
  <2> QED BY <2>1, Instructions DEF IsCode
<1>3. CASE s.op \in Immediate
  <2>1. Code(s, loc, v) = asm_alu_imm(s.op, v) /\ Size(s.op) = 2
    BY <1>3 DEF Code, Size
  <2> QED BY <2>1, Instructions DEF IsCode
<1>4. CASE s.op \in Accesses
  <2>1. Code(s, loc, v) = asm_mem(s.op, s.mode, v) /\ Size(s.op) = 1
    BY <1>4 DEF Code, Size
  <2> QED BY <2>1, Instructions DEF IsCode
<1>5. CASE s.op \in RelJumps
  <2>1. Code(s, loc, v) = asm_reljump(s.op, loc, v) /\ Size(s.op) = 2
    BY <1>5 DEF Code, Size
  <2> QED BY <2>1, Instructions DEF IsCode
<1>6. CASE s.op \in Addresses
  <2>1. CASE s.op = "pusha"
    <3>1. Code(s, loc, v) = asm_pusha(v) /\ Size(s.op) = 10
      BY <2>1 DEF Code, Size
    <3> QED BY <3>1, Macros DEF IsCode
  <2>2. CASE s.op \in {"rdp", "rdq"}
    <3>1. Code(s, loc, v) \in {asm_rdp(v), asm_rdq(v)} /\ Size(s.op) = 7
      BY <2>2 DEF Code, Size
    <3> QED BY <3>1, Macros DEF IsCode
  <2> QED BY <1>6, <2>1, <2>2
<1>7. CASE s.op \in Jumps
  <2>1. Code(s, loc, v) \in {asm_call(v), asm_goto(v)} /\ Size(s.op) = 8
    BY <1>7 DEF Code, Size
  <2> QED BY <2>1, Macros DEF IsCode
<1>8. CASE s.op \in {"isp", "isc"}
  <2>1. Code(s, loc, v) \in {asm_isp(v), asm_isc(v)} /\ Size(s.op) = 4
    BY <1>8 DEF Code, Size
  <2> QED BY <2>1, Macros DEF IsCode
<1> HIDE DEF Basics, Moves, Accesses, Immediate, RelJumps, Addresses, Jumps
<1> QED BY <1>1, <1>2, <1>3, <1>4, <1>5, <1>6, <1>7, <1>8 DEF CodeOps, Operands
-----------------------------------------------------------------------------
(* The image.                                                              *)

Rom == 0..(ROM_SIZE - 1)

\* Bytes that fit are written within the image.
LEMMA WrittenInRom ==
  ASSUME NEW loc \in Nat, NEW bytes, NEW image, Len(bytes) \in Nat,
         loc + Len(bytes) <= ROM_SIZE, DOMAIN image \subseteq Rom
  PROVE  DOMAIN Written(image, loc, bytes) \subseteq Rom
<1>1. ROM_SIZE \in Nat
  BY DEF ROM_SIZE
<1>2. ASSUME NEW a \in loc..(loc + Len(bytes) - 1) PROVE a \in Rom
  BY <1>1 DEF Rom
<1>3. DOMAIN Written(image, loc, bytes)
        = DOMAIN image \cup (loc..(loc + Len(bytes) - 1))
  BY DEF Written
<1> QED BY <1>2, <1>3

Fitting(op, loc) == op \in Operands => loc + Size(op) <= ROM_SIZE

\* Whatever an expression evaluates to, resolving it writes within the image.
LEMMA ResolvedInRom ==
  ASSUME NEW s, NEW loc \in Nat, NEW image, NEW table, NEW e,
         DOMAIN image \subseteq Rom, Fitting(s.op, loc)
  PROVE  DOMAIN Resolved(s, loc, image, table, e).rom \subseteq Rom
<1>1. ASSUME s.op \in Operands, NEW v
      PROVE  DOMAIN Written(image, loc, Code(s, loc, v)) \subseteq Rom
  <2>1. Len(Code(s, loc, v)) = Size(s.op) /\ Size(s.op) \in Nat
    BY <1>1, CodeSize DEF CodeOps
  <2>2. loc + Len(Code(s, loc, v)) <= ROM_SIZE
    BY <1>1, <2>1 DEF Fitting
  <2> QED BY <2>1, <2>2, WrittenInRom
<1>2. Resolved(s, loc, image, table, e).rom
        \in {image, Written(image, loc, Code(s, loc, e.value))}
  BY DEF Resolved, Outcome
<1>3. s.op \notin Operands => Resolved(s, loc, image, table, e).rom = image
  BY DEF Resolved, Outcome
<1> QED BY <1>1, <1>2, <1>3
-----------------------------------------------------------------------------
(* Blocks in a row: none begins before the one before it has ended, and    *)
(* the last ends at the limit or before.                                   *)

Row(seq, limit) ==
  /\ \A i, j \in DOMAIN seq : i < j => seq[i].from + seq[i].size <= seq[j].from
  /\ \A i \in DOMAIN seq : seq[i].from + seq[i].size <= limit

LEMMA RowGrows ==
  ASSUME NEW S, \A b \in S : b.from \in Nat /\ b.size \in Nat,
         NEW seq \in Seq(S), NEW b \in S, NEW limit \in Nat, NEW new \in Nat,
         Row(seq, limit), limit <= b.from, b.from + b.size <= new
  PROVE  Append(seq, b) \in Seq(S) /\ Row(Append(seq, b), new)
<1> DEFINE longer == Append(seq, b)
<1>1. longer \in Seq(S) /\ DOMAIN longer = 1..(Len(seq) + 1) /\ Len(seq) \in Nat
  OBVIOUS
<1>2. /\ DOMAIN seq = 1..Len(seq)
      /\ \A i \in 1..Len(seq) : longer[i] = seq[i] /\ seq[i] \in S
      /\ longer[Len(seq) + 1] = b
  OBVIOUS
<1> HIDE DEF longer
<1>3. \A i \in 1..Len(seq) : seq[i].from + seq[i].size <= b.from
  <2>1. SUFFICES ASSUME NEW i \in 1..Len(seq)
                 PROVE  seq[i].from + seq[i].size <= b.from
    OBVIOUS
  <2>2. seq[i].from \in Nat /\ seq[i].size \in Nat /\ b.from \in Nat
    BY <1>2
  <2>3. seq[i].from + seq[i].size <= limit
    BY <1>2 DEF Row
  <2> QED BY <2>2, <2>3
<1>4. ASSUME NEW i \in DOMAIN longer, NEW j \in DOMAIN longer, i < j
      PROVE  longer[i].from + longer[i].size <= longer[j].from
  <2>1. i \in 1..Len(seq)
    BY <1>1, <1>4
  <2>2. CASE j = Len(seq) + 1
    BY <1>2, <1>3, <2>1, <2>2
  <2>3. CASE j \in 1..Len(seq)
    BY <1>2, <1>4, <2>1, <2>3 DEF Row
  <2> QED BY <1>1, <2>2, <2>3
<1>5. ASSUME NEW i \in DOMAIN longer
      PROVE  longer[i].from + longer[i].size <= new
  <2>1. CASE i = Len(seq) + 1
    BY <1>2, <2>1
  <2>2. CASE i \in 1..Len(seq)
    <3>1. /\ seq[i].from \in Nat /\ seq[i].size \in Nat
          /\ b.from \in Nat /\ b.size \in Nat
      BY <1>2, <2>2
    <3> QED BY <1>2, <1>3, <2>2, <3>1
  <2> QED BY <1>1, <2>1, <2>2
<1> QED BY <1>1, <1>4, <1>5 DEF Row, longer

LEMMA RowExtends ==
  ASSUME NEW S, \A b \in S : b.from \in Nat /\ b.size \in Nat,
         NEW seq \in Seq(S), NEW limit \in Nat, NEW new \in Nat,
         Row(seq, limit), limit <= new
  PROVE  Row(seq, new)
<1>1. ASSUME NEW i \in DOMAIN seq PROVE seq[i].from + seq[i].size <= new
  <2>1. seq[i].from \in Nat /\ seq[i].size \in Nat
    OBVIOUS
  <2>2. seq[i].from + seq[i].size <= limit
    BY DEF Row
  <2> QED BY <2>1, <2>2
<1> QED BY <1>1 DEF Row
-----------------------------------------------------------------------------
(* The invariant.  LayoutDisjoint alone is not inductive: the next block   *)
(* must be known to begin where the last has ended at the earliest, and    *)
(* what is deferred to have room where it was laid out.                    *)

Statements == UNION {{s[k] : k \in 1..Len(s)} : s \in Sources}
Emissions == [by : Nat, from : Nat, size : Nat]
Blocks == [from : Nat, size : Nat]
Deferrals == {u \in [stmt : Statements, location : Nat] :
                Fitting(u.stmt.op, u.location)}

\* Where the assembler is in the source.
Reading == /\ source \in Sources
           /\ next \in 1..(Len(source) + 1)
           /\ phase \in {"layout", "resolution", "done"}
           /\ status \in Codes \cup {"none"}
           /\ status = "none" <=> phase # "done"

Image_OK == /\ rom_loc \in Addr
            /\ DOMAIN rom \subseteq Rom
            /\ emitted \in Seq(Emissions)
            /\ Row(emitted, rom_loc)

Memory_OK == /\ ram_loc \in ROM_SIZE..65535
             /\ reserved \in Seq(Blocks)
             /\ Row(reserved, ram_loc)
             /\ \A i \in DOMAIN reserved :
                  /\ ROM_SIZE <= reserved[i].from
                  /\ reserved[i].from + reserved[i].size <= STACK

Inv == Reading /\ Image_OK /\ Memory_OK /\ unresolved \in Seq(Deferrals)

LEMMA Locations ==
  /\ ROM_SIZE \in Nat /\ STACK \in Nat /\ STACK <= 65535 /\ ROM_SIZE <= 65535
  /\ Image_OK => rom_loc \in Nat
  /\ Memory_OK => ram_loc \in Nat /\ ROM_SIZE <= ram_loc /\ ram_loc <= 65535
<1>1. ROM_SIZE \in Nat /\ STACK \in Nat /\ STACK <= 65535 /\ ROM_SIZE <= 65535
  BY DEF ROM_SIZE, STACK
<1>2. Image_OK => rom_loc \in Nat
  BY AddrRange DEF Image_OK
<1>3. Memory_OK => ram_loc \in Nat /\ ROM_SIZE <= ram_loc /\ ram_loc <= 65535
  <2>1. \A n \in ROM_SIZE..65535 : n \in Nat /\ ROM_SIZE <= n /\ n <= 65535
    BY <1>1
  <2> QED BY <2>1 DEF Memory_OK
<1> QED BY <1>1, <1>2, <1>3

LEMMA InvInit == Init => Inv
<1> SUFFICES ASSUME Init PROVE Inv
  OBVIOUS
<1>1. Reading
  <2>1. Len(source) \in Nat
    BY SourcesAssumption DEF Init
  <2> QED BY <2>1 DEF Init, Reading
<1>2. Image_OK
  BY AddrRange DEF Init, Image_OK, Row
<1>3. Memory_OK
  BY Locations DEF Init, Memory_OK, Row
<1>4. unresolved \in Seq(Deferrals)
  BY DEF Init
<1> QED BY <1>1, <1>2, <1>3, <1>4 DEF Inv

\* Nothing moves when the assembler stops.
LEMMA StoppedKeeps ==
  ASSUME Inv, NEW code \in Codes, Stopped(code)
  PROVE  Inv'
<1>1. Reading'
  BY DEF Inv, Reading, Stopped, Codes
<1>2. Image_OK'
  BY DEF Inv, Image_OK, Stopped, Row
<1>3. Memory_OK' /\ unresolved' \in Seq(Deferrals)
  BY DEF Inv, Memory_OK, Stopped, Row
<1> QED BY <1>1, <1>2, <1>3 DEF Inv

\* A statement is read.
LEMMA Reads ==
  ASSUME Inv, NEW ops, Parsing(ops)
  PROVE  /\ statement \in Statements /\ "op" \in DOMAIN statement
         /\ statement.op \in ops
         /\ statement.op = "@string" => statement.chars \in Seq(Nat)
<1>1. source \in Sources /\ next \in 1..Len(source)
  BY SourcesAssumption DEF Inv, Reading, Parsing
<1> QED BY <1>1, SourcesAssumption DEF Statements, Parsing, statement

LEMMA ConsumedKeeps ==
  ASSUME Inv, NEW ops, Parsing(ops), Consumed
  PROVE  Reading'
<1>1. Len(source) \in Nat /\ next \in 1..Len(source)
  BY SourcesAssumption DEF Inv, Reading, Parsing
<1>2. next + 1 \in 1..(Len(source) + 1)
  BY <1>1
<1> QED BY <1>2 DEF Inv, Reading, Consumed

\* A block of bytes is emitted.
LEMMA EmittedKeeps ==
  ASSUME Inv, NEW size \in Nat, rom_loc + size <= ROM_SIZE,
         emitted' = Emitted(size), rom_loc' = rom_loc + size,
         DOMAIN rom' \subseteq Rom
  PROVE  Image_OK'
<1> DEFINE block == [by |-> next, from |-> rom_loc, size |-> size]
<1>1. next \in Nat
  BY SourcesAssumption DEF Inv, Reading
<1>2. rom_loc \in Nat /\ rom_loc + size \in Nat /\ rom_loc + size \in Addr
  <2>1. rom_loc \in Nat /\ ROM_SIZE \in Nat /\ ROM_SIZE <= 65535
    BY Locations DEF Inv
  <2> QED BY <2>1, AddrRange
<1>3. /\ block \in Emissions /\ block.from = rom_loc
      /\ block.from + block.size = rom_loc + size
  BY <1>1, <1>2 DEF Emissions
<1>4. \A b \in Emissions : b.from \in Nat /\ b.size \in Nat
  BY DEF Emissions
<1>5. emitted' = Append(emitted, block)
  BY DEF Emitted
<1> HIDE DEF block
<1>6. rom_loc <= block.from /\ block.from + block.size <= rom_loc + size
  BY <1>2, <1>3
<1>7. emitted \in Seq(Emissions) /\ Row(emitted, rom_loc)
  BY DEF Inv, Image_OK
<1>8. /\ Append(emitted, block) \in Seq(Emissions)
      /\ Row(Append(emitted, block), rom_loc + size)
  BY <1>2, <1>3, <1>4, <1>6, <1>7, RowGrows
<1> QED BY <1>2, <1>5, <1>8 DEF Image_OK, Row
\* The memory, the names and what is deferred are left as they are.
LEMMA MemoryKept ==
  ASSUME Inv, UNCHANGED <<ram_loc, reserved>>
  PROVE  Memory_OK'
  BY DEF Inv, Memory_OK, Row

LEMMA ImageKept ==
  ASSUME Inv, UNCHANGED <<rom_loc, emitted>>, DOMAIN rom' \subseteq Rom
  PROVE  Image_OK'
  BY DEF Inv, Image_OK, Row
-----------------------------------------------------------------------------
(* One lemma for each kind of statement.                                   *)

LEMMA LabelKeeps == Inv /\ (Label \/ Comment) => Inv'
<1> SUFFICES ASSUME Inv, Label \/ Comment PROVE Inv'
  OBVIOUS
<1>1. Reading'
  BY ConsumedKeeps DEF Label, Comment
<1>2. UNCHANGED <<rom, rom_loc, ram_loc, unresolved, emitted, reserved>>
  BY DEF Label, Comment
<1>3. Image_OK' /\ Memory_OK'
  BY <1>2, ImageKept, MemoryKept DEF Inv, Image_OK
<1> QED BY <1>1, <1>2, <1>3 DEF Inv

LEMMA UnparsedKeeps == Inv /\ Unparsed => Inv'
  BY StoppedKeeps DEF Unparsed, Codes

LEMMA PlainKeeps == Inv /\ Plain => Inv'
<1> SUFFICES ASSUME Inv, Plain PROVE Inv'
  OBVIOUS
<1> DEFINE bytes == Code(statement, rom_loc, 0)
<1>1. Parsing(CodeOps \ Operands) /\ Emit(bytes)
  BY DEF Plain
<1>2. Len(bytes) \in Nat
  BY <1>1, Reads, CodeSize
<1> HIDE DEF bytes
<1>3. CASE Stopped("overrun")
  BY <1>3, StoppedKeeps DEF Codes
<1>4. CASE ~Stopped("overrun")
  <2>1. /\ rom_loc + Len(bytes) <= ROM_SIZE /\ Consumed
        /\ rom' = Written(rom, rom_loc, bytes)
        /\ rom_loc' = rom_loc + Len(bytes) /\ emitted' = Emitted(Len(bytes))
        /\ UNCHANGED <<ram_loc, resolved, unresolved, reserved>>
    BY <1>1, <1>4 DEF Emit
  <2>2. DOMAIN rom' \subseteq Rom
    BY <1>2, <2>1, WrittenInRom, Locations DEF Inv, Image_OK
  <2>3. Image_OK'
    BY <1>2, <2>1, <2>2, EmittedKeeps
  <2>4. Reading' /\ Memory_OK'
    BY <1>1, <2>1, ConsumedKeeps, MemoryKept
  <2> QED BY <2>1, <2>3, <2>4 DEF Inv
<1> QED BY <1>3, <1>4

\* addUnresolved, for a statement whose bytes have been placed.
LEMMA NotedKeeps ==
  ASSUME Inv, NEW ops, Parsing(ops), NEW size \in Nat, NEW r,
         size = 0 \/ rom_loc + size <= ROM_SIZE,
         Fitting(statement.op, rom_loc), DOMAIN r.rom \subseteq Rom,
         Noted(size, r)
  PROVE  Inv'
<1>1. CASE Stopped("crashed")
  BY <1>1, StoppedKeeps DEF Codes
<1>2. CASE ~Stopped("crashed")
  <2>1. /\ Consumed /\ rom' = r.rom /\ rom_loc' = rom_loc + size
        /\ emitted' = IF size = 0 THEN emitted ELSE Emitted(size)
        /\ UNCHANGED <<ram_loc, reserved>>
    BY <1>2 DEF Noted
  <2>2. unresolved' \in Seq(Deferrals)
    <3> DEFINE u == [stmt |-> statement, location |-> rom_loc]
    <3>1. u \in Deferrals
      BY Reads, Locations DEF Inv, Deferrals
    <3>2. unresolved' = unresolved \/ unresolved' = Append(unresolved, u)
      BY <1>2 DEF Noted
    <3> HIDE DEF u
    <3> QED BY <3>1, <3>2 DEF Inv
  <2>3. Image_OK'
    <3>1. CASE size = 0
      <4>1. rom_loc' = rom_loc /\ emitted' = emitted
        BY <2>1, <3>1, Locations DEF Inv
      <4> QED BY <2>1, <4>1, ImageKept
    <3>2. CASE size # 0
      BY <2>1, <3>2, EmittedKeeps
    <3> QED BY <3>1, <3>2
  <2>4. Reading' /\ Memory_OK'
    BY <2>1, ConsumedKeeps, MemoryKept
  <2> QED BY <2>2, <2>3, <2>4 DEF Inv
<1> QED BY <1>1, <1>2

\* Evaluating the operand to the end of the file changes no other field.
LEMMA EndKeepsOp == "op" \in DOMAIN statement => ToTheEnd.op = statement.op
  BY DEF ToTheEnd

LEMMA OperandKeeps == Inv /\ Operand => Inv'
<1> SUFFICES ASSUME Inv, Operand PROVE Inv'
  OBVIOUS
<1> DEFINE bytes == Code(statement, rom_loc, Blank(statement, rom_loc))
           image == Written(rom, rom_loc, bytes)
           e == parseExp(resolved, ToTheEnd.expr)
           r == Resolved(ToTheEnd, rom_loc, image, resolved, e)
<1>1. Parsing(Operands) /\ EmitDeferred(bytes)
  BY DEF Operand
<1>2. Len(bytes) = Size(statement.op) /\ Len(bytes) \in Nat
  BY <1>1, Reads, CodeSize DEF CodeOps
<1> HIDE DEF bytes
<1>3. CASE Stopped("overrun")
  BY <1>3, StoppedKeeps DEF Codes
<1>4. CASE ~Stopped("overrun")
  <2>1. rom_loc + Len(bytes) <= ROM_SIZE /\ addUnresolved(image, Len(bytes))
    BY <1>1, <1>4 DEF EmitDeferred
  <2>2. DOMAIN image \subseteq Rom
    BY <1>2, <2>1, WrittenInRom, Locations DEF Inv, Image_OK
  <2>3. Fitting(statement.op, rom_loc)
    BY <1>2, <2>1 DEF Fitting
  <2> HIDE DEF image, e
  <2>4. DOMAIN r.rom \subseteq Rom
    BY <1>1, <2>2, <2>3, Reads, EndKeepsOp, ResolvedInRom, Locations DEF Inv
  <2>5. Noted(Len(bytes), r)
    BY <2>1 DEF addUnresolved, Resolution, e
  <2> HIDE DEF r
  <2> QED BY <1>1, <1>2, <2>1, <2>3, <2>4, <2>5, NotedKeeps
<1> QED BY <1>3, <1>4

LEMMA ToolingKeeps == Inv /\ Tooling => Inv'
<1> SUFFICES ASSUME Inv, Tooling PROVE Inv'
  OBVIOUS
<1> DEFINE e == parseExp(resolved, ToTheEnd.expr)
           r == Resolved(ToTheEnd, rom_loc, rom, resolved, e)
<1>1. Parsing(Deferrable) /\ addUnresolved(rom, 0)
  BY DEF Tooling
<1>2. Fitting(statement.op, rom_loc)
  BY <1>1, Reads DEF Fitting, Deferrable, Operands, Immediate, Accesses, RelJumps,
                     Addresses, Jumps
<1> HIDE DEF e
<1>3. DOMAIN r.rom \subseteq Rom
  BY <1>1, <1>2, Reads, EndKeepsOp, ResolvedInRom, Locations DEF Inv, Image_OK
<1>4. Noted(0, r)
  BY <1>1 DEF addUnresolved, Resolution, e
<1> HIDE DEF r
<1> QED BY <1>1, <1>2, <1>3, <1>4, NotedKeeps
\* The locations move on; what is emitted and reserved ends before them.
LEMMA LocKeeps == \A e : Inv /\ Loc(e) => Inv'
<1> SUFFICES ASSUME NEW e, Inv, Loc(e) PROVE Inv'
  OBVIOUS
<1>1. Parsing({"@loc"})
  BY DEF Loc
<1>2. CASE Stopped("-5")
  BY <1>2, StoppedKeeps DEF Codes
<1>3. CASE ~Stopped("-5")
  <2>1. /\ e.value \in Addr /\ e.value > rom_loc /\ rom_loc' = e.value /\ Consumed
        /\ UNCHANGED <<rom, ram_loc, resolved, unresolved, emitted, reserved>>
    BY <1>3 DEF Loc
  <2>2. e.value \in Nat /\ rom_loc \in Nat /\ rom_loc <= e.value
    BY <2>1, AddrRange, Locations DEF Inv
  <2>3. Row(emitted, e.value)
    <3>1. emitted \in Seq(Emissions) /\ Row(emitted, rom_loc)
      BY DEF Inv, Image_OK
    <3>2. \A b \in Emissions : b.from \in Nat /\ b.size \in Nat
      BY DEF Emissions
    <3> QED BY <2>2, <3>1, <3>2, RowExtends
  <2>4. Image_OK'
    BY <2>1, <2>3 DEF Inv, Image_OK, Row
  <2>5. Reading' /\ Memory_OK'
    BY <1>1, <2>1, ConsumedKeeps, MemoryKept
  <2> QED BY <2>1, <2>4, <2>5 DEF Inv
<1> QED BY <1>2, <1>3

LEMMA MemlocKeeps == \A e : Inv /\ Memloc(e) => Inv'
<1> SUFFICES ASSUME NEW e, Inv, Memloc(e) PROVE Inv'
  OBVIOUS
<1>1. Parsing({"@memloc"})
  BY DEF Memloc
<1>2. CASE Stopped("-5")
  BY <1>2, StoppedKeeps DEF Codes
<1>3. CASE ~Stopped("-5")
  <2>1. /\ e.value \in Addr /\ e.value > ram_loc /\ ram_loc' = e.value /\ Consumed
        /\ UNCHANGED <<rom, rom_loc, resolved, unresolved, emitted, reserved>>
    BY <1>3 DEF Memloc
  <2>2. /\ e.value \in Nat /\ e.value <= 65535 /\ ram_loc \in Nat
        /\ ROM_SIZE \in Nat /\ ROM_SIZE <= ram_loc /\ ram_loc <= e.value
    BY <2>1, AddrRange, Locations DEF Inv
  <2>3. e.value \in ROM_SIZE..65535
    BY <2>2
  <2>4. Row(reserved, e.value)
    <3>1. reserved \in Seq(Blocks) /\ Row(reserved, ram_loc)
      BY DEF Inv, Memory_OK
    <3>2. \A b \in Blocks : b.from \in Nat /\ b.size \in Nat
      BY DEF Blocks
    <3> QED BY <2>2, <3>1, <3>2, RowExtends
  <2>5. Memory_OK'
    BY <2>1, <2>3, <2>4 DEF Inv, Memory_OK, Row
  <2>6. Reading' /\ Image_OK'
    BY <1>1, <2>1, ConsumedKeeps, ImageKept DEF Inv, Image_OK
  <2> QED BY <2>1, <2>5, <2>6 DEF Inv
<1> QED BY <1>2, <1>3

LEMMA StaticKeeps == \A e : Inv /\ Static(e) => Inv'
<1> SUFFICES ASSUME NEW e, Inv, Static(e) PROVE Inv'
  OBVIOUS
<1>1. Parsing({"@static"})
  BY DEF Static
<1>2. CASE Stopped("-5")
  BY <1>2, StoppedKeeps DEF Codes
<1>3. CASE ~Stopped("-5")
  <2> DEFINE block == [from |-> ram_loc, size |-> e.value]
  <2>1. /\ e.value \in Nat /\ ram_loc + e.value <= STACK /\ Consumed
        /\ ram_loc' = ram_loc + e.value /\ reserved' = Append(reserved, block)
        /\ UNCHANGED <<rom, rom_loc, unresolved, emitted>>
    BY <1>3 DEF Static
  <2>2. /\ ram_loc \in Nat /\ ROM_SIZE <= ram_loc /\ ROM_SIZE \in Nat
        /\ STACK \in Nat /\ STACK <= 65535
    BY Locations DEF Inv
  <2>3. ram_loc + e.value \in ROM_SIZE..65535 /\ ram_loc + e.value \in Nat
    BY <2>1, <2>2
  <2>4. /\ block \in Blocks /\ block.from = ram_loc
        /\ block.from + block.size = ram_loc + e.value
    BY <2>1, <2>2 DEF Blocks
  <2> HIDE DEF block
  <2>5. \A b \in Blocks : b.from \in Nat /\ b.size \in Nat
    BY DEF Blocks
  <2>6. reserved \in Seq(Blocks) /\ Row(reserved, ram_loc)
    BY DEF Inv, Memory_OK
  <2>7. ram_loc <= block.from /\ block.from + block.size <= ram_loc + e.value
    BY <2>2, <2>3, <2>4
  <2>8. /\ Append(reserved, block) \in Seq(Blocks)
        /\ Row(Append(reserved, block), ram_loc + e.value)
    BY <2>2, <2>3, <2>4, <2>5, <2>6, <2>7, RowGrows
  <2>9. \A i \in DOMAIN reserved' :
          ROM_SIZE <= reserved'[i].from /\ reserved'[i].from + reserved'[i].size <= STACK
    <3>1. SUFFICES ASSUME NEW i \in DOMAIN reserved'
          PROVE  /\ ROM_SIZE <= reserved'[i].from
                 /\ reserved'[i].from + reserved'[i].size <= STACK
      OBVIOUS
    <3>2. (i \in DOMAIN reserved /\ reserved'[i] = reserved[i]) \/ reserved'[i] = block
      BY <2>1, <2>6, <3>1
    <3>3. i \in DOMAIN reserved =>
            ROM_SIZE <= reserved[i].from /\ reserved[i].from + reserved[i].size <= STACK
      BY DEF Inv, Memory_OK
    <3>4. ROM_SIZE <= block.from /\ block.from + block.size <= STACK
      BY <2>1, <2>2, <2>4
    <3> QED BY <3>2, <3>3, <3>4
  <2>10. Memory_OK'
    BY <2>1, <2>3, <2>8, <2>9 DEF Memory_OK, Row
  <2>11. Reading' /\ Image_OK'
    BY <1>1, <2>1, ConsumedKeeps, ImageKept DEF Inv, Image_OK
  <2> QED BY <2>1, <2>10, <2>11 DEF Inv
<1> QED BY <1>2, <1>3

LEMMA LayoutMacroKeeps == Inv /\ LayoutMacro => Inv'
<1>1. ASSUME NEW e, Inv, Crash(e) PROVE Inv'
  BY <1>1, StoppedKeeps DEF Crash, Codes
<1> QED BY <1>1, LocKeeps, MemlocKeeps, StaticKeeps DEF LayoutMacro, Evaluated

\* The characters, the gap and the terminator count as one block.
LEMMA StringKeeps == Inv /\ String => Inv'
<1> SUFFICES ASSUME Inv, String PROVE Inv'
  OBVIOUS
<1> DEFINE n == Len(statement.chars)
           written == Written(rom, rom_loc, statement.chars)
<1>1. Parsing({"@string"})
  BY DEF String
<1>2. n \in Nat
  BY <1>1, Reads
<1>3. CASE Stopped("overrun") \/ Stopped("-5")
  BY <1>3, StoppedKeeps DEF Codes
<1>4. CASE ~(Stopped("overrun") \/ Stopped("-5"))
  <2>1. /\ rom_loc + n < ROM_SIZE - 1 /\ Consumed
        /\ rom' = Written(written, rom_loc + n + 1, <<0>>)
        /\ rom_loc' = rom_loc + n + 2 /\ emitted' = Emitted(n + 2)
        /\ UNCHANGED <<ram_loc, resolved, unresolved, reserved>>
    BY <1>4 DEF String
  <2>2. rom_loc \in Nat /\ ROM_SIZE \in Nat
    BY Locations DEF Inv
  <2>3. DOMAIN written \subseteq Rom
    <3>1. rom_loc + n <= ROM_SIZE /\ DOMAIN rom \subseteq Rom
      BY <1>2, <2>1, <2>2 DEF Inv, Image_OK
    <3> QED BY <1>2, <2>2, <3>1, WrittenInRom
  <2> HIDE DEF written, n
  <2>4. DOMAIN rom' \subseteq Rom
    <3>1. /\ rom_loc + n + 1 \in Nat /\ Len(<<0>>) = 1 /\ Len(<<0>>) \in Nat
          /\ rom_loc + n + 1 + Len(<<0>>) <= ROM_SIZE
      BY <1>2, <2>1, <2>2
    <3> QED BY <2>1, <2>3, <3>1, WrittenInRom
  <2>5. n + 2 \in Nat /\ rom_loc + (n + 2) <= ROM_SIZE /\ rom_loc' = rom_loc + (n + 2)
    BY <1>2, <2>1, <2>2
  <2>6. Image_OK'
    BY <2>1, <2>4, <2>5, EmittedKeeps
  <2>7. Reading' /\ Memory_OK'
    BY <1>1, <2>1, ConsumedKeeps, MemoryKept
  <2> QED BY <2>1, <2>6, <2>7 DEF Inv
<1> QED BY <1>3, <1>4
-----------------------------------------------------------------------------
(* The resolution phase.                                                   *)

LEMMA EndLayoutKeeps == Inv /\ EndLayout => Inv'
<1> SUFFICES ASSUME Inv, EndLayout PROVE Inv'
  OBVIOUS
<1>1. Reading'
  BY DEF Inv, Reading, EndLayout
<1>2. Image_OK' /\ Memory_OK'
  BY ImageKept, MemoryKept DEF Inv, Image_OK, EndLayout
<1> QED BY <1>1, <1>2 DEF Inv, EndLayout

LEMMA ResolveKeeps == Inv /\ Resolve => Inv'
<1> SUFFICES ASSUME Inv, Resolve PROVE Inv'
  OBVIOUS
<1> DEFINE u == Head(unresolved)
           e == parseExp(resolved, u.stmt.expr)
           r == Resolved(u.stmt, u.location, rom, resolved, e)
<1>1. phase = "resolution" /\ unresolved # <<>> /\ Taken(r)
  BY DEF Resolve, Resolution
<1>2. unresolved \in Seq(Deferrals) /\ u \in Deferrals
  BY <1>1 DEF Inv
<1> HIDE DEF e
<1>3. DOMAIN r.rom \subseteq Rom
  <2>1. u.location \in Nat /\ Fitting(u.stmt.op, u.location)
    BY <1>2 DEF Deferrals
  <2> QED BY <2>1, ResolvedInRom DEF Inv, Image_OK
<1> HIDE DEF r
<1>4. CASE Stopped("crashed") \/ Stopped("-7")
  BY <1>4, StoppedKeeps DEF Codes
<1>5. CASE ~(Stopped("crashed") \/ Stopped("-7"))
  <2>1. /\ rom' = r.rom /\ unresolved' = Tail(unresolved)
        /\ UNCHANGED <<source, next, rom_loc, ram_loc, phase, status, emitted, reserved>>
    BY <1>1, <1>5 DEF Taken
  <2>2. Reading'
    BY <2>1 DEF Inv, Reading
  <2>3. Image_OK' /\ Memory_OK'
    BY <1>3, <2>1, ImageKept, MemoryKept
  <2>4. unresolved' \in Seq(Deferrals)
    BY <1>1, <1>2, <2>1
  <2> QED BY <2>2, <2>3, <2>4 DEF Inv
<1> QED BY <1>4, <1>5

LEMMA InvNext == Inv /\ [Next]_asmVars => Inv'
<1> SUFFICES ASSUME Inv, [Next]_asmVars PROVE Inv'
  OBVIOUS
<1>1. CASE UNCHANGED asmVars
  <2>1. Reading'
    BY <1>1 DEF asmVars, Inv, Reading
  <2>2. Image_OK' /\ Memory_OK'
    BY <1>1, ImageKept, MemoryKept DEF asmVars, Inv, Image_OK
  <2> QED BY <1>1, <2>1, <2>2 DEF asmVars, Inv
<1>2. CASE Done
  BY <1>2, StoppedKeeps DEF Done, Codes
<1>3. CASE Next /\ ~Done /\ ~Ended
  BY <1>3, LabelKeeps, UnparsedKeeps, PlainKeeps, OperandKeeps, ToolingKeeps,
     LayoutMacroKeeps, StringKeeps, EndLayoutKeeps, ResolveKeeps DEF Next
<1> QED BY <1>1, <1>2, <1>3 DEF Ended

\* The assembler's locations are addresses and nothing it writes, at layout or
\* at resolution, lies outside the image.
THEOREM TypeCorrect == Spec => []TypeOK
<1>1. Inv => TypeOK
  BY DEF Inv, Reading, Image_OK, Memory_OK, TypeOK, Rom
<1> QED BY InvInit, InvNext, <1>1, PTL DEF Spec

\* Statements never share a byte of the image, nor @static blocks a byte of
\* the memory, for every source (asm_macro_loc, asm_macro_static,
\* instr_assemble).
THEOREM LayoutDisjointTheorem == Spec => []LayoutDisjoint
<1>1. Inv => LayoutDisjoint
  BY DEF Inv, Image_OK, Memory_OK, Row, LayoutDisjoint
<1> QED BY InvInit, InvNext, <1>1, PTL DEF Spec
=============================================================================
