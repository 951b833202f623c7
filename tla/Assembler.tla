------------------------------ MODULE Assembler ------------------------------
(***************************************************************************)
(* The two phases of nandy-asm: assemble and assemble_helper of            *)
(* nandy_asm_tools.c, the tooling macros of instrs_macros.c, and           *)
(* addUnresolved, which resolves an operand at once or defers it.          *)
(*                                                                         *)
(* A source is a sequence of statements, records with at least a field op; *)
(* how a line is recognised is left out.  addUnresolved evaluates the text *)
(* from the operand to the end of the file, not to the end of its line, so *)
(* an operand that anything follows - a comment too - is always deferred:  *)
(* the next line's first word is no operator, and parseExp refuses it.     *)
(***************************************************************************)
EXTENDS NandyAsm, ShuntingYard

CONSTANT Sources

\* Every statement has a field op, and a @string its characters.
ASSUME SourcesAssumption ==
  \A s \in Sources : /\ Len(s) \in Nat
                     /\ \A k \in 1..Len(s) :
                          /\ "op" \in DOMAIN s[k]
                          /\ s[k].op = "@string" => s[k].chars \in Seq(Nat)

VARIABLES source, next,          \* the statements, and which one is parsed
          rom, rom_loc, ram_loc, \* asm_state_t
          resolved, unresolved,
          phase, status,         \* "layout", "resolution", "done"; the result
          emitted, reserved      \* history: the bytes each statement emitted,
                                 \* the block each @static reserved

asmVars == <<source, next, rom, rom_loc, ram_loc, resolved, unresolved, phase,
             status, emitted, reserved>>

ROM_SIZE  == 32768
STACK     == 65280      \* 0xFF00, where asm_macro_static stops
ISR_ADDR  == 32512
-----------------------------------------------------------------------------
(* Statements.                                                             *)

Basics    == {"nop", "brk", "jxi", "zero"}
Moves     == {"rd", "wr", "sw"}
Immediate == {"rdi", "ori", "andi", "xori", "addi", "adci", "subi", "sbci"}
Accesses  == {"ld", "st"}
RelJumps  == {"j", "jr", "jc", "jcr"}
Addresses == {"rdp", "rdq", "pusha"}
Jumps     == {"call", "goto"}

\* Statements that emit code; those of them with an operand to resolve;
\* statements that are resolved but emit nothing.
Operands   == Immediate \cup Accesses \cup RelJumps \cup Addresses \cup Jumps
              \cup {"isp", "isc"}
CodeOps    == Basics \cup Moves \cup Operands
Deferrable == {"@define", "@echo", "@assert"}

\* The bytes of statement s at an address, once its operand is the value v.
Code(s, loc, v) ==
  CASE s.op \in Basics    -> asm_basic(s.op)
    [] s.op \in Moves     -> asm_register(s.op, s.reg)
    [] s.op \in Immediate -> asm_alu_imm(s.op, v)
    [] s.op \in Accesses  -> asm_mem(s.op, s.mode, v)
    [] s.op \in RelJumps  -> asm_reljump(s.op, loc, v)
    [] s.op = "rdp"       -> asm_rdp(v)
    [] s.op = "rdq"       -> asm_rdq(v)
    [] s.op = "pusha"     -> asm_pusha(v)
    [] s.op = "call"      -> asm_call(v)
    [] s.op = "goto"      -> asm_goto(v)
    [] s.op = "isp"       -> asm_isp(v)
    [] s.op = "isc"       -> asm_isc(v)

\* The value whose operand bits are all zero: what the layout phase leaves.
Blank(s, loc) == CASE s.op \in RelJumps -> loc + 1
                   [] s.op \in Jumps    -> 1
                   [] OTHER             -> 0

\* Whether resolveReljump, resolveRdp and resolveRdja accept the value; the
\* other operands are truncated with a warning.
Fits(s, loc, v) == /\ s.op \in RelJumps  => Reaches(loc, v)
                   /\ s.op \in Addresses => v \in Addr
                   /\ s.op \in Jumps     => v - 1 \in Addr
\* Bytes copied into the image.
Written(image, loc, bytes) ==
  LET block == loc..(loc + Len(bytes) - 1)
  IN [a \in DOMAIN image \cup block |->
        IF a \in block THEN bytes[a - loc + 1] ELSE image[a]]
-----------------------------------------------------------------------------
(* Resolution of statement s at loc, in the image and the table given.     *)

\* symtab_put: a name that is there already gets the new value.
Put(table, name, v) == (name :> v) @@ table

Outcome(code, image, table) == [status |-> code, rom |-> image, resolved |-> table]

\* e is what parseExp makes of the operand of s.
Resolved(s, loc, image, table, e) ==
  LET good == CASE s.op \in Operands -> Fits(s, loc, e.value)
                [] s.op = "@assert"  -> e.value # 0
                [] OTHER             -> TRUE
  IN CASE e.status = "SIGFPE" -> Outcome("crashed", image, table)
       [] e.status \notin {"SHUNT_DONE", "SIGFPE"} -> Outcome("failed", image, table)
       [] e.status = "SHUNT_DONE" /\ ~good -> Outcome("failed", image, table)
       [] e.status = "SHUNT_DONE" /\ good ->
          Outcome("ok",
            IF s.op \in Operands THEN Written(image, loc, Code(s, loc, e.value))
                                 ELSE image,
            IF s.op = "@define" THEN Put(table, s.name, e.value) ELSE table)

Resolution(s, loc, image, table) ==
  Resolved(s, loc, image, table, parseExp(table, s.expr))
-----------------------------------------------------------------------------
Init == /\ source \in Sources
        /\ next = 1
        /\ rom = <<>> /\ rom_loc = 0 /\ ram_loc = ROM_SIZE
        /\ resolved = ("ISR" :> ISR_ADDR) /\ unresolved = <<>>
        /\ phase = "layout" /\ status = "none"
        /\ emitted = <<>> /\ reserved = <<>>

statement == source[next]
Parsing(ops) == phase = "layout" /\ next <= Len(source) /\ statement.op \in ops
Consumed == next' = next + 1 /\ UNCHANGED <<source, phase, status>>

\* The assembler ends: with an error code, "crashed" by a signal, or "overrun".
\* Nothing stops it from writing past the image; what follows rom in
\* asm_state_t is rom_loc, and what it does from then on is undefined.
Stopped(code) == /\ phase' = "done" /\ status' = code
                 /\ UNCHANGED <<source, next, rom, rom_loc, ram_loc, resolved,
                                unresolved, emitted, reserved>>

Emitted(size) == Append(emitted, [by |-> next, from |-> rom_loc, size |-> size])

\* The text from the operand on, to the end of the file.
Following == Sym("a word of the next line")
ToTheEnd == [statement EXCEPT !.expr = IF next = Len(source) THEN @
                                       ELSE Append(@, Following)]
-----------------------------------------------------------------------------
(* The layout phase: one action per kind of statement.                     *)

Label == /\ Parsing({"label"})
         /\ Consumed
         /\ resolved' = Put(resolved, statement.name, rom_loc)
         /\ UNCHANGED <<rom, rom_loc, ram_loc, unresolved, emitted, reserved>>

Comment == /\ Parsing({"comment"})
           /\ Consumed
           /\ UNCHANGED <<rom, rom_loc, ram_loc, resolved, unresolved, emitted,
                          reserved>>

\* Neither a label nor an instruction.
Unparsed == Parsing({"text"}) /\ Stopped("-2")

\* Code without an operand.
Emit(bytes) ==
  \/ rom_loc + Len(bytes) > ROM_SIZE /\ Stopped("overrun")
  \/ /\ rom_loc + Len(bytes) <= ROM_SIZE
     /\ Consumed
     /\ rom' = Written(rom, rom_loc, bytes)
     /\ rom_loc' = rom_loc + Len(bytes)
     /\ emitted' = Emitted(Len(bytes))
     /\ UNCHANGED <<ram_loc, resolved, unresolved, reserved>>

Plain == Parsing(CodeOps \ Operands) /\ Emit(Code(statement, rom_loc, 0))

\* Mutant: what is deferred is noted at the address of the next statement.
NotedNext(size, r) ==
  \/ r.status = "crashed" /\ Stopped("crashed")
  \/ /\ r.status # "crashed"
     /\ Consumed
     /\ rom' = r.rom /\ resolved' = r.resolved
     /\ unresolved' = IF r.status = "ok" THEN unresolved
                      ELSE Append(unresolved, [stmt |-> statement,
                                               location |-> rom_loc + size])
     /\ rom_loc' = rom_loc + size
     /\ emitted' = IF size = 0 THEN emitted ELSE Emitted(size)
     /\ UNCHANGED <<ram_loc, reserved>>

\* addUnresolved, for a statement of `size` bytes; r is what resolving it at
\* once gives: done if it can be, and noted for later if not.
Noted(size, r) ==
  \/ r.status = "crashed" /\ Stopped("crashed")
  \/ /\ r.status # "crashed"
     /\ Consumed
     /\ rom' = r.rom /\ resolved' = r.resolved
     /\ unresolved' = IF r.status = "ok" THEN unresolved
                      ELSE Append(unresolved, [stmt |-> statement,
                                               location |-> rom_loc])
     /\ rom_loc' = rom_loc + size
     /\ emitted' = IF size = 0 THEN emitted ELSE Emitted(size)
     /\ UNCHANGED <<ram_loc, reserved>>

addUnresolved(image, size) ==
  Noted(size, Resolution(ToTheEnd, rom_loc, image, resolved))

\* Code with an operand, which `bytes` has not yet.
EmitDeferred(bytes) ==
  \/ rom_loc + Len(bytes) > ROM_SIZE /\ Stopped("overrun")
  \/ /\ rom_loc + Len(bytes) <= ROM_SIZE
     /\ addUnresolved(Written(rom, rom_loc, bytes), Len(bytes))

Operand == /\ Parsing(Operands)
           /\ EmitDeferred(Code(statement, rom_loc, Blank(statement, rom_loc)))

\* @define, @echo, @assert.
Tooling == Parsing(Deferrable) /\ addUnresolved(rom, 0)

\* The layout macros; e is their operand, cut at the end of its line and
\* evaluated now.
Crash(e) == e.status = "SIGFPE" /\ Stopped("crashed")

\* Mutant: a location before the current one is accepted.
LocBack(e) ==
  /\ Parsing({"@loc"}) /\ e.status # "SIGFPE"
  /\ LET good == e.status = "SHUNT_DONE" /\ e.value \in Addr
     IN \/ ~good /\ Stopped("-5")
        \/ /\ good
           /\ Consumed
           /\ rom_loc' = e.value
           /\ UNCHANGED <<rom, ram_loc, resolved, unresolved, emitted, reserved>>

\* asm_macro_loc, asm_macro_memloc: forwards only.
Loc(e) ==
  /\ Parsing({"@loc"}) /\ e.status # "SIGFPE"
  /\ LET good == e.status = "SHUNT_DONE" /\ e.value \in Addr /\ e.value > rom_loc
     IN \/ ~good /\ Stopped("-5")
        \/ /\ good
           /\ Consumed
           /\ rom_loc' = e.value
           /\ UNCHANGED <<rom, ram_loc, resolved, unresolved, emitted, reserved>>

Memloc(e) ==
  /\ Parsing({"@memloc"}) /\ e.status # "SIGFPE"
  /\ LET good == e.status = "SHUNT_DONE" /\ e.value \in Addr /\ e.value > ram_loc
     IN \/ ~good /\ Stopped("-5")
        \/ /\ good
           /\ Consumed
           /\ ram_loc' = e.value
           /\ UNCHANGED <<rom, rom_loc, resolved, unresolved, emitted, reserved>>

\* A block of memory, below the stack, under a name.
Static(e) ==
  /\ Parsing({"@static"}) /\ e.status # "SIGFPE"
  /\ LET good == e.status = "SHUNT_DONE" /\ e.value \in Nat /\ ram_loc + e.value <= STACK
     IN \/ ~good /\ Stopped("-5")
        \/ /\ good
           /\ Consumed
           /\ resolved' = Put(resolved, statement.name, ram_loc)
           /\ ram_loc' = ram_loc + e.value
           /\ reserved' = Append(reserved, [from |-> ram_loc, size |-> e.value])
           /\ UNCHANGED <<rom, rom_loc, unresolved, emitted>>

Evaluated(e) == Crash(e) \/ Loc(e) \/ Memloc(e) \/ Static(e)

LayoutMacro == /\ Parsing({"@loc", "@memloc", "@static"})
               /\ Evaluated(parseExp(resolved, statement.expr))

\* Characters, a byte that is skipped, and a terminator.  The string fails as
\* soon as the byte after a character is the last of the image.
String ==
  /\ Parsing({"@string"})
  /\ LET n == Len(statement.chars)
     IN \/ rom_loc + (IF n = 0 THEN 1 ELSE 0) >= ROM_SIZE /\ Stopped("overrun")
        \/ n > 0 /\ rom_loc < ROM_SIZE /\ rom_loc + n >= ROM_SIZE - 1 /\ Stopped("-5")
        \/ /\ rom_loc + n < ROM_SIZE - 1
           /\ Consumed
           /\ rom' = Written(Written(rom, rom_loc, statement.chars),
                             rom_loc + n + 1, <<0>>)
           /\ rom_loc' = rom_loc + n + 2
           /\ emitted' = Emitted(n + 2)
           /\ UNCHANGED <<ram_loc, resolved, unresolved, reserved>>

\* Mutant: FREE_MEM is not set.
EndLayoutBare ==
  /\ phase = "layout" /\ next > Len(source)
  /\ phase' = "resolution"
  /\ UNCHANGED <<source, next, rom, rom_loc, ram_loc, resolved, unresolved,
                 status, emitted, reserved>>

EndLayout ==
  /\ phase = "layout" /\ next > Len(source)
  /\ phase' = "resolution"
  /\ resolved' = Put(resolved, "FREE_MEM", ram_loc)
  /\ UNCHANGED <<source, next, rom, rom_loc, ram_loc, unresolved, status,
                 emitted, reserved>>
-----------------------------------------------------------------------------
(* The resolution phase: in the order of the source, once each.            *)

Taken(r) ==
  \/ r.status = "crashed" /\ Stopped("crashed")
  \/ r.status = "failed" /\ Stopped("-7")
  \/ /\ r.status = "ok"
     /\ rom' = r.rom /\ resolved' = r.resolved
     /\ unresolved' = Tail(unresolved)
     /\ UNCHANGED <<source, next, rom_loc, ram_loc, phase, status, emitted,
                    reserved>>

Resolve ==
  /\ phase = "resolution" /\ unresolved # <<>>
  /\ LET u == Head(unresolved)
     IN Taken(Resolution(u.stmt, u.location, rom, resolved))

Done == phase = "resolution" /\ unresolved = <<>> /\ Stopped("ok")

\* The process is gone.
Ended == phase = "done" /\ UNCHANGED asmVars

Next == \/ Label \/ Comment \/ Unparsed \/ Plain \/ Operand \/ Tooling
        \/ LayoutMacro \/ String \/ EndLayout
        \/ Resolve \/ Done \/ Ended

Spec == Init /\ [][Next]_asmVars
-----------------------------------------------------------------------------
Codes == {"ok", "-2", "-5", "-7", "crashed", "overrun"}

\* The phases are passed in order, and the locations are addresses.
TypeOK == /\ phase \in {"layout", "resolution", "done"}
          /\ status \in Codes \cup {"none"}
          /\ status = "none" <=> phase # "done"
          /\ rom_loc \in Addr /\ ram_loc \in ROM_SIZE..65535
          /\ DOMAIN rom \subseteq 0..(ROM_SIZE - 1)
          /\ next \in 1..(Len(source) + 1)

\* The bytes of the statements that emit code lie in the image one after the
\* other, and the blocks of @static lie in the memory one after the other,
\* below FREE_MEM and below the stack, whatever the order of the source and
\* wherever @loc and @memloc move the locations.
LayoutDisjoint ==
  /\ \A i, j \in DOMAIN emitted :
        i < j => emitted[i].from + emitted[i].size <= emitted[j].from
  /\ \A i \in DOMAIN emitted : emitted[i].from + emitted[i].size <= rom_loc
  /\ \A i, j \in DOMAIN reserved :
        i < j => reserved[i].from + reserved[i].size <= reserved[j].from
  /\ \A i \in DOMAIN reserved :
        /\ ROM_SIZE <= reserved[i].from
        /\ reserved[i].from + reserved[i].size <= STACK
        /\ reserved[i].from + reserved[i].size <= ram_loc
=============================================================================
