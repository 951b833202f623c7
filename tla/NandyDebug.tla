----------------------------- MODULE NandyDebug -----------------------------
(***************************************************************************)
(* nandy-emu with -g or -G: main's loops around emu_step, debug with its   *)
(* commands, the disassembly cache, and Ctrl-C (nandy-emu.c).              *)
(*                                                                         *)
(* The debugger reads its lines from the standard input the console of the *)
(* emulated machine takes bytes from.  A terminal hands over whole lines.  *)
(***************************************************************************)
EXTENDS NandyEmu, SequencesExt

CONSTANTS Options,    \* the sets of options -g and -G that may be given
          Lines,      \* what the user may type, each ending in a newline
          MaxLines    \* how many lines at most

ASSUME OptionsAssumption == Options \subseteq SUBSET {"g", "G"}
ASSUME LinesAssumption == Lines \subseteq Seq(Byte)

VARIABLES flags,
          at,         \* in main: "top" and "bottom" are its calls of debug
          row,        \* the address on the PC> row, None before it is printed
          cache,      \* disasm_cache: the addresses of the entries that are not NULL
          last,       \* lastInput
          obeyed,     \* history: how many bytes of stdin debug has taken
          asked,      \* history: a stop was asked for since the last continue
          shown       \* history: the call of debug that prompted last since an
                      \* instruction ran, or "none"

None == -1
debugVars == <<flags, at, row, cache, last, obeyed, asked, shown>>
machine == <<rom, tty, typed, eof, out, disk, card>>
-----------------------------------------------------------------------------
(* Disassembly.                                                            *)

Stops == {"jp", "jpr", "jxi", "j"}

\* From `start` on until a byte that is known, unknown, or followed by code
\* elsewhere.  For a two-byte instruction at the last address the code clears
\* the word behind the cache.
scanDisasm(c, start) ==
  LET scan[known \in SUBSET Addr, a \in Addr] ==
        LET instr == ilookup[peek(a)]
            len == nbytes(peek(a))
            marked == (known \ (a + 1)..(a + len - 1)) \cup {a}
        IN CASE a \in known \/ instr = Invalid  -> known
             [] a \notin known /\ instr \in Stops -> marked
             [] OTHER -> scan[marked, ToAddr(a + len)]
  IN scan[c, start]

\* disasm_cache[i] for an int i; below zero it is whatever lies before it.
Cached(i, before) == IF i < 0 THEN before ELSE i \in cache

\* printDebug goes back over at most four instructions and then down again;
\* pos is how many rows above PC> it starts.
\* Mutant: two bytes back, whatever the length of the instruction there.
BackWide(before) ==
  LET back[n \in 0..4] ==
        IF n = 0 THEN [pc |-> cpu.pc, pos |-> 0]
        ELSE LET b == back[n - 1]
                 size == IF Cached(b.pc - 2, before) THEN 2 ELSE 1
             IN IF b.pos = 1 - n /\ Cached(b.pc - size, before)
                THEN [pc |-> ToAddr(b.pc - size), pos |-> -n] ELSE b
  IN back[4]

Back(before) ==
  LET twoBack(a) == Cached(a - 2, before) /\ nbytes(peek(ToAddr(a - 2))) = 2
      back[n \in 0..4] ==
        IF n = 0 THEN [pc |-> cpu.pc, pos |-> 0]
        ELSE LET b == back[n - 1]
                 size == IF twoBack(b.pc) THEN 2 ELSE 1
             IN IF b.pos = 1 - n /\ (twoBack(b.pc) \/ Cached(b.pc - 1, before))
                THEN [pc |-> ToAddr(b.pc - size), pos |-> -n] ELSE b
  IN back[4]

PcRow(b) ==
  LET down[n \in b.pos..0] ==
        IF n = b.pos THEN b.pc
        ELSE LET a == down[n - 1]
             IN ToAddr(a + IF a \in cache THEN nbytes(peek(a)) ELSE 1)
  IN down[0]
-----------------------------------------------------------------------------
(* Lines.                                                                  *)

NL == 10
Blanks == {32, NL}
First(s, S) == SelectInSeq(s, LAMBDA ch : ch \in S)

\* A string without its leading blanks; up to its first blank; after it.
Trim(s) == LET n == First(s, Range(s) \ Blanks)
           IN IF n = 0 THEN <<>> ELSE SubSeq(s, n, Len(s))
Upto(s, S) == LET n == First(s, S) IN IF n = 0 THEN s ELSE SubSeq(s, 1, n - 1)
Word(s) == Upto(Trim(s), Blanks)
Operand(s) == SubSeq(Trim(s), Len(Word(s)) + 1, Len(Trim(s)))

\* parseExp on a decimal number; None for anything else.
Digit == 48..57
Number(s) ==
  LET d == Word(s)
      value[n \in 0..Len(d)] == IF n = 0 THEN 0 ELSE 10 * value[n - 1] + d[n] - 48
  IN IF d # <<>> /\ Range(d) \subseteq Digit /\ Word(Operand(s)) = <<>>
     THEN value[Len(d)] ELSE None

\* The letters of the commands; the long names are left out.
QUIT == <<113>>
STEP == <<115>>
CONTINUE == <<99>>
PEEK == <<101>>
GOTO == <<103>>
POKE == <<111>>
COMMA == 44
Garbage == <<63, NL>>

Unread == SubSeq(typed, nread + 1, Len(typed))
NextLine == SubSeq(Unread, 1, First(Unread, {NL}))
-----------------------------------------------------------------------------
(* main.                                                                   *)

DebugInit ==
  /\ Init
  /\ flags \in Options
  /\ at = IF "G" \in flags THEN "top" ELSE "loop"
  /\ row = None /\ cache = {} /\ last = <<>>
  /\ obeyed = 0
  /\ asked = FALSE /\ shown = "none"

AfterLoop == CASE "g" \in flags -> "bottom"
               [] flags = {"G"} -> "top"
               [] flags = {}    -> "done"

\* One round of the inner loop: scanDisasm and emu_step.
Loop == /\ at = "loop"
        /\ cache' = scanDisasm(cache, cpu.pc)
        /\ emu_step
        /\ at' = CASE mode' = "run"    -> "loop"
                   [] mode' = "halted" -> AfterLoop
                   [] mode' = "exited" -> "done"
        /\ shown' = "none"
        /\ UNCHANGED <<flags, row, last, obeyed, asked>>

\* debug is called: it extends the disassembly and prints the machine.
Enter ==
  /\ at \in {"top", "bottom"} /\ row = None
  /\ cpu.pc \in cache \/ ilookup[ibyte] = Invalid
  /\ \E before \in IF cpu.pc < 8 THEN BOOLEAN ELSE {FALSE} : row' = PcRow(Back(before))
  /\ shown' = at
  /\ UNCHANGED <<machine, cpu, ram, nread, mode>>
  /\ UNCHANGED <<flags, at, cache, last, obeyed, asked>>

\* The scan comes first.
Scan ==
  /\ at \in {"top", "bottom"} /\ row = None
  /\ cpu.pc \notin cache /\ ilookup[ibyte] # Invalid
  /\ cache' = scanDisasm(cache, cpu.pc)
  /\ UNCHANGED <<machine, cpu, ram, nread, mode>>
  /\ UNCHANGED <<flags, at, row, last, obeyed, asked, shown>>

AtPrompt == at \in {"top", "bottom"} /\ row # None

\* Mutant: every stop is reported twice.
LeaveTwice == /\ at' = IF at = "bottom" THEN "top" ELSE "loop"
              /\ row' = None
              /\ mode' = "run"

\* debug returns true; main's loop tests its options again.
Leave == /\ at' = IF at = "bottom" /\ "G" \in flags THEN "top" ELSE "loop"
         /\ row' = None
         /\ mode' = "run"
Stay == UNCHANGED <<at, row, mode>>
-----------------------------------------------------------------------------
(* The commands, on the line `input` when the registers are c.             *)

Quit(c, input) == /\ Word(input) = QUIT
                  /\ at' = "done" /\ row' = None
                  /\ last' = input
                  /\ cpu' = c
                  /\ UNCHANGED <<ram, mode, cache, asked>>

Step(c, input) == /\ Word(input) = STEP
                  /\ Leave
                  /\ last' = input
                  /\ cpu' = [c EXCEPT !.idbg = TRUE]
                  /\ asked' = TRUE
                  /\ UNCHANGED <<ram, cache>>

\* Mutant: the machine keeps stopping.
ContinueStopped(c, input) == /\ Word(input) = CONTINUE
                             /\ Leave
                             /\ last' = input
                             /\ cpu' = c
                             /\ asked' = FALSE
                             /\ UNCHANGED <<ram, cache>>

Continue(c, input) == /\ Word(input) = CONTINUE
                      /\ Leave
                      /\ last' = input
                      /\ cpu' = [c EXCEPT !.idbg = FALSE]
                      /\ asked' = FALSE
                      /\ UNCHANGED <<ram, cache>>

\* An address that cannot be parsed leaves everything as it is.
Goto(c, input) ==
  /\ Word(input) = GOTO
  /\ Stay
  /\ last' = input
  /\ LET a == Number(Operand(input))
     IN /\ cpu' = IF a \in Addr THEN [c EXCEPT !.pc = a] ELSE c
        /\ cache' = IF a \in Addr THEN scanDisasm(cache, a) ELSE cache
  /\ UNCHANGED <<ram, asked>>

\* isBounded(val, 8, BOUND_EITHER), for the numbers read here.
Poke(c, input) ==
  /\ Word(input) = POKE
  /\ Stay
  /\ last' = input
  /\ LET args == Operand(input)
         comma == First(args, {COMMA})
         a == Number(SubSeq(args, 1, comma - 1))
         v == Number(SubSeq(args, comma + 1, Len(args)))
     IN ram' = IF comma > 0 /\ a \in Addr /\ v \in Byte THEN poke(a, v) ELSE ram
  /\ cpu' = c
  /\ UNCHANGED <<cache, asked>>

\* peek changes nothing; a line without a known command forgets the last one.
Other(c, input) ==
  /\ Word(input) \notin {<<>>, QUIT, STEP, CONTINUE, GOTO, POKE}
  /\ Stay
  /\ last' = IF Word(input) = PEEK THEN input ELSE <<>>
  /\ cpu' = c
  /\ UNCHANGED <<ram, cache, asked>>

Obey(c, input) == \/ Quit(c, input) \/ Step(c, input) \/ Continue(c, input)
                  \/ Goto(c, input) \/ Poke(c, input) \/ Other(c, input)

Obeyed(c, input) == /\ Obey(c, input)
                    /\ UNCHANGED <<machine, flags, shown>>

\* A line that was not read, or has no word in it, leaves input and cmd as the
\* stack has them: as the last command left them, or garbage.
Undefined(c) == \E input \in {last, Garbage} \ {<<>>} : Obeyed(c, input)

\* An empty line repeats the last one.
ReadLine ==
  /\ AtPrompt /\ Unread # <<>>
  /\ nread' = nread + Len(NextLine)
  /\ obeyed' = obeyed + Len(NextLine)
  /\ \E input \in {IF NextLine = <<NL>> /\ last # <<>> THEN last ELSE NextLine} :
       \/ Word(input) # <<>> /\ Obeyed(cpu, input)
       \/ Word(input) = <<>> /\ Undefined(cpu)

\* fgets fails at the end of the input, and when Ctrl-C interrupts its wait:
\* `input` keeps whatever it holds.
ReadNothing ==
  /\ AtPrompt /\ Unread = <<>> /\ eof
  /\ Undefined(cpu)
  /\ UNCHANGED <<nread, obeyed>>

ReadInterrupted ==
  /\ MayInterrupt
  /\ AtPrompt /\ Unread = <<>> /\ ~eof
  /\ Undefined([cpu EXCEPT !.idbg = TRUE])
  /\ UNCHANGED <<nread, obeyed>>

debug == Scan \/ Enter \/ ReadLine \/ ReadNothing \/ ReadInterrupted
-----------------------------------------------------------------------------
(* The user.                                                               *)

TypeLine ==
  /\ ~eof /\ Len(SelectSeq(typed, LAMBDA ch : ch = NL)) < MaxLines
  /\ \E line \in Lines : typed' = typed \o line
  /\ UNCHANGED <<cpu, rom, ram, tty, nread, eof, out, disk, card, mode>>
  /\ UNCHANGED debugVars

EndLines == at # "done" /\ InputEnds /\ UNCHANGED debugVars

\* SIGINT while the machine runs.
Signal == /\ at = "loop" /\ onInterrupt
          /\ asked' = TRUE
          /\ UNCHANGED <<flags, at, row, cache, last, obeyed, shown>>

DebugNext == Loop \/ debug \/ TypeLine \/ EndLines \/ Signal
allVars == <<emuVars, debugVars>>

DebugSpec == DebugInit /\ [][DebugNext]_allVars
-----------------------------------------------------------------------------
\* The machine stops running only at a brk or an unknown byte, or because the
\* user asked: with Ctrl-C or `step` after the last `continue`.  A stop that
\* was asked for once does not come back.
StopsForAReason ==
  [][ at = "loop" /\ at' # "loop" =>
        card'.exited \/ asked \/ ilookup[ibyte] \in {"brk", Invalid} ]_allVars

\* A stop is reported once by each call of debug that main's options select: at
\* the bottom of its loop, and then, with both options, once more at its top.
\* Whatever is typed, interrupted or not read at the first prompt, there is no
\* third prompt until an instruction has run, and with one option no second.
PromptsApart ==
  [][ row = None /\ row' # None =>
        \/ shown = "none"
        \/ flags = {"g", "G"} /\ shown = "bottom" /\ at = "top" ]_allVars

\* The PC> row of printDebug shows the instruction at pc when no cached
\* instruction overlaps another or has pc for its operand, and the two bytes at
\* the end of the memory, which it looks at when pc is near zero, are no
\* two-byte instructions.
Apart(c, pc) == \A a \in c : nbytes(peek(a)) = 2 => ToAddr(a + 1) \notin c \cup {pc}
MarkerAtPc ==
  [][ (row = None /\ row' # None /\ Apart(cache, cpu.pc)
         /\ \A a \in {65534, 65535} : nbytes(peek(a)) = 1) => row' = cpu.pc ]_allVars

\* A program that does not read the console costs the debugger at most one
\* byte of what is typed, however long it runs between two prompts.
CostsOneByte == nread - obeyed \in {0, 1}
=============================================================================
