# Models and proofs for NANDy

NANDy is an 8-bit processor together with its toolchain: an assembler
(`nandy-asm`), an emulator (`nandy-emu`) with a serial console and a
CompactFlash card, Verilog descriptions of the hardware, and documents in
`Design/` that define the instruction set and its programming conventions.

This directory specifies the part of it in which things happen at the same
time - an emulated processor, two devices, interrupts, a debugger and a user at
the keyboard, a card at the far end of a serial line -, the instruction set as
assembler and emulator implement it, the two phases of the assembler with its
expression evaluator, and the reference allocator.  TLC checks the
specifications on small instances.  For every value of the constants TLAPS proves
the invariants of the emulator and of its debugger, of the card, the serial
line, the assembler's layout and the allocator, and two refinements: the card
implements an abstract stream of sectors, and the card at the far end of the
serial line implements the card at hand.

Contents

1. The system and its parts
2. The modules
3. How state and actions correspond to the code
4. What the runs check
5. Bounds, fairness, environment
6. What is proved
7. Where the code and its documents disagree
8. What is not modelled
9. Plan


## 1. The system and its parts

Paths are relative to the repository.  `TS` stands for `Toolchain/src`.

| Component | Code | State | Operations | Talks to |
|---|---|---|---|---|
| Words, ALU | `TS/nandy_alufuncs.c`, `TS/nandy_parse_tools.c` | - | add, subtract, shift with carry; and, or, xor; sign extension | used by everything |
| Decoding | `TS/nandy_instructions.c`, `ilookup` in `TS/nandy_emu_tools.c` | the table, cached per byte | `ilookup`, `nbytes`, `nclocks` | emulator, debugger, assembler share the table |
| Processor | `TS/instrs_*.c`, `cpu_state_t` | registers and flags, ROM, RAM | one `exe_*` per instruction | strobes `io_rd`, `io_wr`, register `y` select a device |
| Emulator step | `emu_step` in `TS/nandy_emu_tools.c` | interrupt lines, `ia`, `int_active` | one step | runs instruction, then devices, then the interrupt test |
| Console | `TS/ios_tty.c`, `TS/stdin_avail.c` | offered byte, cooldown | once per step | stdin, stdout, interrupt line 0 |
| CompactFlash on an image | `TS/ios_compactflash.c` | task file, error register, transfer pointer and rest | register reads and writes, commands | the disk image; may end the process |
| CompactFlash on a serial line | same file, `Toolchain/arduino-serial-cf` | the two ends of a UART | open and reset handshake, forwarded reads and writes | an Arduino with a real card |
| Main loop | `main` in `TS/nandy-emu.c` | `idbg` | loop, Ctrl-C | emulator step, debugger |
| Debugger | `debug` and `scanDisasm` in `TS/nandy-emu.c` | last command, disassembly cache | step, continue, goto, peek, poke, quit | shares stdin with the console, `idbg` with `brk` and Ctrl-C |
| Code emission | `asm_*` in `TS/nandy_parse_tools.c`, `TS/instrs_jump.c`, `TS/instrs_temp_macros.c` | - | bytes for one line | the table |
| Two-phase assembly | `TS/nandy_asm_tools.c`, `TS/nandy_tools.c`, `TS/symtab.c`, `TS/instrs_macros.c` | symbol scopes, addresses, deferred expressions | layout, resolution, emission | evaluator, code emission |
| Expression evaluator | `TS/shuntingyard*.c`, `TS/charparse.c` | two stacks | evaluate or defer | symbol table |
| Reference allocator | `ReferenceImplementations/src/n_malloc.c` | a heap of linked blocks in an array of bytes | allocate, free | - |
| Hardware core | `Simulation/src/*.v` | pipeline cycle, registers | a clock edge | memory, devices |
| FPGA UART | `Simulation/fpga/*.v` | shift register, counters | a clock edge | a serial line |
| Arguments, text, files | `TS/argparse.c`, `TS/iotools.c`, ... | - | - | - |

### Which behaviours are hard

* **Interrupts.**  One may be taken after any instruction.  `ia`, `int_active`,
  the two stack regions and the conventions of the handler together have to
  make it invisible to the program it interrupts; `jxi` and a new interrupt may
  fall into the same step; lines are level triggered, so a handler that does not
  take its byte never ends.
* **The order inside a step.**  Instruction, then console, then card, then
  lines, then the interrupt test.  The line has to drop in the very step that
  reads the byte.
* **One port, two devices.**  Both device functions see every step; `y`,
  compared as a signed byte, selects which one answers.
* **Input.**  The user types while a byte is on offer, while the handler runs
  and while the cooldown counts.  At the end of a file the console has a byte on
  offer for ever.
* **Ctrl-C** sets `idbg` between any two steps, in a handler as well.
* **The card's protocol.**  A program may set registers or give a command half
  way through a transfer, read too much, ask beyond the disk.  Sizes are
  unsigned and count down.
* **A decoder that takes the first match.**  What a byte means depends on the
  order of the table and on every mask.
* **One standard input, two readers.**  The debugger takes lines from the input
  the console takes bytes from; Ctrl-C, `brk`, `step` and `continue` all work
  through one flag; a failing `fgets` leaves an old command to be obeyed.
* **The serial line.**  Opening it resets the Arduino, whose boot loader swallows
  bytes; bytes of an earlier session, a `tcflush` that may discard the
  acknowledgement, blocking reads that Ctrl-C interrupts, no framing.
* **Now or later.**  The assembler evaluates an expression when it sees it or
  after the whole layout is known; the bytes must not depend on which.
* **A heap in its own bytes.**  The allocator's links stand between blocks that
  programs write to.
* **Edges of bytes.**  Sign extension of `sp`, of jump offsets and of ALU
  operands; addresses that wrap.

What makes each component correct:

* decoding: the emulator takes every byte the assembler emits for what was
  written;
* ALU: chained carries lose no bit;
* processor and macros: jumps arrive, calls return, macros change what they
  name and nothing else;
* emulator step: handlers are invisible, no request waits, the return address
  is never lost;
* console: no byte lost, repeated, reordered or overrun;
* card: exactly the requested sectors, once, in order, inside the buffer;
* main loop: Ctrl-C and `brk` stop the machine at once;
* debugger: it stops the machine only for a reason, once; a program that reads no
  input costs it at most one typed byte; its marker is at the instruction to be
  executed;
* serial card: to a program the remote card is the card; nobody waits for ever;
* assembler: every operand in the image has the value the source says, code and
  reserved memory never overlap, what the manual allows is accepted, nonsense is
  refused;
* allocator: blocks do not overlap, the chain leads through all of them, a
  request is met at the first place with room.


## 2. The modules

```
NandyWord            bytes, addresses, ALU
 +- NandyDecode      the instruction table, ilookup
 |   +- NandyCpu     registers, memories, every exe_* function
 |   +- NandyAsm     what the assembler emits
 |       +- NandyIsa (with NandyCpu) one line assembled, then executed
 +- NandyTty         the console, stdin, stdout
 +- CompactFlash     the card on an image
     +- CfHost       the card under an arbitrary program
         : implements SectorStream, the abstract card
 +- CfSerial         emulator, byte line and Arduino
     : implements CardPort, direct accesses to a card
NandyEmu = NandyCpu + NandyTty + CompactFlash
 |                   emu_step, main's loop, the user
 +- NandyDebug       main's loops with -g and -G, the debugger
ShuntingYard         the expression evaluator
 +- Assembler        (with NandyAsm) the two phases of nandy-asm
NMalloc              the reference allocator
```

| Module | Models |
|---|---|
| `NandyWord` | `word_t`, `addr_t`, `nandy_alufuncs.c`, `signExtend` |
| `NandyDecode` | `NANDY_ILIST`, every `opcode` and `opcode_mask`, `ilookup`, `nbytes`, `nclocks` |
| `NandyCpu` | `cpu_state_t`, `peek`, `poke`, and the `execute` function of all table entries |
| `NandyTty` | `io_step_tty`, `stdinAvail`; stdin and stdout as external |
| `CompactFlash` | `io_step_compactflash` with an image or with none |
| `NandyEmu` | `emu_step`, one action per instruction; `main` without a debugger; `onInterrupt`; the user |
| `NandyAsm` | the `asm_*` functions and the code macros |
| `NandyIsa` | a source line from assembly to effect |
| `CfHost`, `SectorStream` | the card alone, and the abstract stream of sectors it implements |
| `CfSerial`, `CardPort` | `-S`: `io_step_compactflash`'s serial branches, the line, `arduino-serial-cf.ino`; and the register accesses they implement |
| `NandyDebug` | `main` with `-g` and `-G`, `debug`, `printDebug`'s walk, `scanDisasm` |
| `ShuntingYard` | `parseExp` over tokens, the operator table and functions |
| `Assembler` | `assemble`, `assemble_helper`, `addUnresolved`, the symbol table, the tooling macros |
| `NMalloc` | `n_malloc_init`, `n_malloc`, `n_free` |
| `MC*` | instances: programs, disks, inputs, sources; properties of particular programs |
| `NandyWordProofs` | lemmas on words and induction on numbers; theorems about what every byte decodes to |
| `CompactFlashProofs` | lemmas: the card's types |
| `NandyEmuProofs` | what the execute functions leave; the theorems of `NandyEmu` and of `NandyDebug` |
| `NandyIsaProofs`, `CfHostProofs`, `CfSerialProofs`, `AssemblerProofs`, `NMallocProofs` | the theorems of the module each is named after |

`NandyDecode` is deliberately the table and the search through it, not a list of
byte ranges: the three entries that can never be found are a consequence of it.

The programs that TLC runs are written with `NandyAsm`'s operators - the code
the assembler would emit for `tests/echo.na`, `tests/memcpy.na`,
`tests/cf_register_test.na` and some of our own - so that assembler and emulator
are checked together.


## 3. How state and actions correspond to the code

*Processor.*  `cpu` is one record with the fields of `cpu_state_t`.  Values are
unsigned (0 to 255, 0 to 65535); `Signed` gives the `int8_t` reading wherever
the code uses one.  A memory is a function on the cells that were written,
everything else is zero.  `elapsed` is left out of the state: nothing but the
speed of the emulation depends on it.

*A step.*  Each action of `NandyEmu` is a whole `emu_step`: `Fetched` lowers the
strobes, `exe_*` computes the registers the instruction leaves, and `Retire`
does the rest in the order of the code - console (`TtyCpu`, `TtyStep`), card
(`CfCpu`, `CfAfter`), lines (`WithLines`), interrupt test (`WithInterrupt`),
result (`AfterStep`).  A byte no entry claims returns before the devices
(`Unknown`).  `adc`, `sbc` and `jcr` have `exe_*` operators but no action: no
byte selects them.

*Console.*  `typed` is everything the user has typed, `nread` how much of it
`getc` has taken, `out` what `putc` has written.  stdin is unbuffered
(`setbuf(stdin, NULL)`), so `poll` and `getc` agree.  At the end of a regular
file `poll` goes on reporting input and `getc` returns -1, which a `word_t`
keeps as 255: that is `eof`.  (A closed pipe reports no input; for the model it
is a user who types no more.)

*Card.*  `registers`, `error_register`, `feat_8bit`, and the transfer: which
buffer `seek_ptr` points into, the index `pos`, `region_size`.  `exit(-1)` is
the flag `exited`, on which the process stops at the end of the step.  Reading
past a buffer yields any byte of `WildBytes`.  The identification sector is
told apart by position only.

*Serial card.*  `host` is the place in `io_step_compactflash`, `down` and `up`
the bytes between the two machines with all buffers on the way, `sketch` the
place in the Arduino's program.  A write sends two bytes and goes on, a read
sends one and blocks.  A read of the acknowledgement that fails - no line, or
Ctrl-C, since `SIGINT` is installed without `SA_RESTART` - leaves `ack`
uninitialised: any byte of `AckGarbage`.  `ack` remembers how the emulator got
past it.

*Debugger.*  `at` is the place in `main`: its inner loop, or one of its two calls
of `debug`; `row` is set while `debug` waits for a line.  `shown` remembers
which of the calls has prompted since an instruction ran.  `typed`, `nread` are
the console's; a terminal delivers whole lines.  `obeyed` counts the bytes that
`debug` took.  `Undefined` is what happens when `fgets` reads nothing or the
line has no word in it: `input` and `cmd` are whatever the stack holds, the last
command or garbage.  `cache` is the set of the addresses whose entries in
`disasm_cache` are not NULL; `scanDisasm`, which recurses in the code, is a
recursive function of a cache and an address.

*Assembler.*  A source is a sequence of statements (an operation, its name,
register or characters, an expression as tokens).  `next` is the statement that
is parsed, `rom`, `rom_loc`, `ram_loc`, `resolved`, `unresolved` are the fields
of `asm_state_t`; a statement that fails ends with the code `nandy-asm` returns.
`addUnresolved` evaluates from the operand to the *end of the file*
(`TS/nandy_tools.c:79`), so everything but the last statement of a source is
deferred (`ToTheEnd`).  A division by zero is `"crashed"`; writing behind the
image, which nothing prevents and C leaves undefined, is `"overrun"`.  The final
states of 2959 of the 2960 sources of `MCAsm` were compared with what the
compiled assembler does to the same sources, and agree.

*Allocator.*  `mem` holds the bytes that are known; those of a block that was
handed out are forgotten, since the program may write anything there.  `signed`
says whether a `char` is.  Each round of `n_malloc`'s two loops is an action:
`at` says which loop it is in, `walk` holds its pointers.  A walk whose next
block lies before the heap, which a negative link leads to, is `lost`.

*Main.*  `mode` is `"run"` in the inner loop, `"halted"` once `emu_step` has
returned true and there is no debugger to continue, `"exited"` after `exit`.
`onInterrupt` sets `idbg` between two steps; within one it could only be
observed at the return of `emu_step`, which is the same.


## 4. What the runs check

### Passing runs

**echo** (`MCEcho`).  `tests/echo.na`, which echoes from the interrupt handler,
and a version that polls with `ipoll`.  Three bytes are typed at any moments,
Ctrl-C may come at any moment.
 * `IrqFollowsInput`: the interrupt register mirrors the console at every
   moment between steps.
 * `NoMissedInterrupt`: no enabled request waits.
 * `FallsThrough`: outside a handler an instruction that does not jump is
   followed by the next one, interrupted or not.
 * `SignalStops`: Ctrl-C stops the machine within one step.
 * `EchoInOrder`, `EchoesAll`: stdout is a prefix of stdin, and in the end all
   of it.

**guests** (`MCGuests`).  Two programs interrupted at any point by handlers that
use the stack.  The first executes every instruction that a byte decodes to;
the second is `tests/memcpy.na`, whose argument and return address live on the
stack.  `ComputesAlone` and `CopiesData` say that the results are those of the
program run alone, `HandlerInvisible` that while a handler is active no step
moves the place where the interrupted program continues, `FrameKept` that
handlers never reach the interrupted frame,
`Finishes` that input cannot keep a program from its end.  The handler of the
second program is long enough for the next byte to arrive before its `jxi`, so
the return and the next interrupt also fall into one step.

**card** (`MCCard`).  Programs that read a sector and print it through the same
port the card is on, and `tests/cf_register_test.na`, with a disk of three
sectors and without; and programs that drop their input in an interrupt handler,
with an input that may end.  `PrintsSector`: exactly the requested sector, or
nothing when the request is off the disk, in CHS mode, or there is no card.
`TellsCard`: the register test tells a card from a floating bus.  `NoOverrun`:
the byte on offer stays until it is read, whatever the card is asked.
`OffersLatest`: bytes are offered in the order typed, then the end-of-file byte.
`ForegroundRuns`: an end of file that is always on offer does not starve the
interrupted program - only the cooldown prevents it.

**cfhost** (`MCCfHost`).  The card under every order of register accesses.
`StaysInBuffer`: the rest of a transfer lies in its buffer.  `DrqMeansData`: DRQ
is up exactly while a byte is to be had.  `AnswersProbe`: the bits that the
tests' `cf_init` and `cf_wait` look at are never disturbed by errors or
transfers.  `DeliversSectors` is refinement: with
`pending <- Remaining`, the bytes of the buffer still to come, the card
implements `SectorStream!Spec`.

**isa** (`MCIsa`).  Every instruction and macro, assembled at the last byte of a
page and executed from 40 register states at the edges.  `DecodesAsWritten`,
`CarryChains`, `JumpArrives`, `CallReturns`, `MacrosKeepRest` state what
`Design/InstructionReference.md` and `Design/AssemblerManual.md` say, in terms
of integers and registers rather than of the code's operators.  `left` counts the
bytes still to be executed, so that each instruction of the line runs once, even
a jump to itself.

**asm** (`MCAsm`).  All sources of up to three statements of a pool of twelve,
sources at the limits of every directive, and one definition for each of 1041
well-formed and 12 malformed expressions.
 * `OperandsFinal`: when the assembler succeeds, every operand, definition and
   string in the image has the value C's grammar gives its expression under the
   final names, resolved at once or later.  The reference `CValue` cuts at the
   loosest operator; it knows nothing of stacks.
 * `AcceptsOrdered`: a source that keeps the manual's rules on what may depend
   on what is assembled.
 * `RefusesMalformed`: an expression without a value never yields one.
 * `LayoutDisjoint`: neither emitted code nor reserved memory overlaps.

**debug** (`MCDebug`).  Sessions over three programs, in one of which a `goto` can
lead to the operand of an instruction, with every combination of `-g` and `-G`;
lines, repeated lines, the end of the input, Ctrl-C at any moment
and in the wait for a line.
 * `StopsForAReason`: the machine stops at a `brk`, at an unknown byte, or
   because the user asked since the last `continue`.
 * `PromptsApart`: however commands, Ctrl-C and failing reads fall, a stop leads
   to one prompt, or with both options to one at the bottom and one at the top of
   `main`'s loop, in that order, before an instruction runs.
 * `MarkerAtPc`: the PC> row shows the instruction at `pc`, provided that no
   cached instruction overlaps another or has `pc` for its operand.
 * `CostsOneByte`: a program that does not use the console takes at most one
   byte away from the debugger.

**cflink** (`MCCfSerial`).  `ListensFirst`: no byte of an access is swallowed by
the boot loader.  `AccessesInOrder` is refinement: with the writes on the way
counted as made (`PostedCard`) and the answer on the way as received, each step
is an access of `CardPort` or none.  `CardPort` knows which register was asked for
(`reg_sel`) and that the program computes nothing while it waits (`place`), so
that the read of any register must give what the writes before it left there.
`Proceeds`: an acknowledgement that `tcflush` has left on the line, or that is sent
after it, is read, and so is every answer; an emulator that waits for one goes on.
The Arduino may reset as fast as it likes: what may be lost for ever is an
acknowledgement sent before the flush.

**malloc** (`MCMalloc`).  Any five calls with requests at the edges.
`NoneOverlap`: what is handed out lies in the heap and does not overlap.
`LinksLead`: the chain leads from the first byte to the last, through exactly
the blocks handed out and the free ones; only where `char` is signed can it be
lost.  `FirstFit`: a request is met at the lowest run of free blocks with room,
however it came to be cut.

Every property has a mutant in `PROJECT.json`, a plausible mistake in one
definition (marked `Mutant:` in the modules) under which TLC finds it violated.

### Runs that show a disagreement

**memcpy_top**, **define_late**, **malloc_signed**: one property each that a
document, comment or test of the repository states and the code does not keep; see
section 7.


## 5. Bounds, fairness, environment

| Bound | Where | Why it is enough |
|---|---|---|
| `SERIAL_COOLDOWN = 10` | all emulator runs | the value in the code |
| `MaxTyped` 2 or 3 | emulator runs | one byte on offer, one waiting behind it, one more typed; with two values the order is visible |
| `InputBytes` of one or two | emulator runs | the echo must tell bytes apart, the guests discard them |
| `SECTOR` 2 or 3, three sectors | card runs | first, middle and last sector, a transfer of one and of two sectors, one that passes the end |
| `SIZE_T = 1024` | card runs | above every transfer, so that counting down past zero shows |
| `MaxData = 5` | `MCCfHost` | reads after the end of the longest transfer |
| `MayReadNone = FALSE` | `MCCfHost` | the host never asks for zero sectors; section 7 says what happens if it does |
| `StackTop = 64` | `MCGuests` | a stack below half a page; run *memcpy_top* lifts it |
| `Edges`, `Jumped` | `MCIsa` | 0, 1, 127, 128, 255 for bytes; the last distance the assembler accepts and the first it refuses on either side, and page crossings |
| `MayEnd = FALSE` | `MCGuests` | with an end of file always on offer, a handler of ten instructions or more starves the program it interrupts: the cooldown is ten steps |
| statements of a source <= 3 | `MCAsm` | a definition, its use and what comes between; longer sources are listed one by one |
| values below 2^15 | `MCAsm` | an `int64_t` does not overflow; the widths of operands are much smaller |
| `MaxLines = 2`, one byte per program | `MCDebug` | a command and one after it, or its repetition |
| `SERIAL_COOLDOWN = 1` | `MCDebug` | the program does not read, so one byte is all it can hold |
| `MaxAccesses = 3` | `MCCfSerial` | a write and a read that overtake or do not; up to six bytes under way, below the Arduino's 64-byte buffer, which is not modelled |
| `Values` 0, 135, 240 | `MCCfSerial` | data that looks like a read, like a write and like an acknowledgement |
| `MaxCalls = 5` | `MCMalloc` | three blocks, one freed, the next request split or coalesced |

Programs are finite, so the emulator's runs are complete: every interleaving of
the user with every instruction of the programs is explored, no depth is cut.

*Fairness.*  `FairSpec` adds `WF_emuVars(emu_step)`: `main` calls `emu_step` in
a loop without waiting for anything, so a machine in mode `"run"` takes another
step.  `MCCfSerial` adds `WF(Await)` and `WF(Sketch)`: a byte that has arrived is
read by a `read` that waits for it, and the Arduino's `loop` never stops.  The
user is under no obligation to type, and nothing is assumed of
Ctrl-C.  `CHECK_DEADLOCK FALSE` is set because the machine really stops: after
`brk`, Ctrl-C, an unknown byte or the end of the process, and because the
clients of the card and the allocator make a bounded number of calls.

*Environment.*  The models' inputs are states the program can be in: registers
start as `INIT_STATE`, memory as zero around a ROM image, the card as its static
initialisers.  `MCIsa` starts from registers that instructions can produce.  Nothing is
assumed of the time the Arduino takes to reset: the comment at
`TS/ios_compactflash.c:194` calls it "a shockingly long time", but the code does
not depend on it for the order of accesses.  It does for progress: an
acknowledgement sent before `tcflush` may be discarded, and then the emulator
waits for ever, since the code has no timeout.  `Proceeds` leaves that wait out,
and no other.


## 6. What is proved

### The emulator: `NandyEmuProofs`

From the assumptions on the constants only (programs are memories, disks are
sequences of bytes, the cooldown is a natural number, the size of a sector fits
a `size_t`), for every program, disk and input:

| Theorem | Statement |
|---|---|
| `TypeCorrect` | `Spec => []TypeOK` |
| `LineMirrored` | `Spec => []IrqFollowsInput` |
| `NothingMissed` | `Spec => []NoMissedInterrupt` |
| `HandlersInvisible` | `Spec => HandlerInvisible` |
| `SignalsStop` | `Spec => SignalStops` |
| `NothingOverrun` | `Spec => NoOverrun` |
| `LatestOffered` | `Spec => []OffersLatest` |
| `RunsStraight` | `Spec => FallsThrough` |

and, of the table alone, `ShadowedNeverRun` (`NandyWordProofs`): no byte executes
as `adc`, `sbc` or `jcr`, so that the forty instruction actions and the unknown
byte are all that a step can be.

The inductive invariant is

    IInv == TypeOK /\ IrqFollowsInput /\ NoMissedInterrupt

Neither of the last two is inductive alone.  `WithLines` only replaces the two bits
of the devices; that the register then *equals* the level needs
`IrqFollowsInput` of the state before (no stray bit was there) and that no
instruction writes `ints_in`.  The interrupt test is about the registers after
it, so it needs the types of everything that flows into it.

 1. Every execute function leaves a register file of the
    right type that keeps `ints_in`, never lowers `idbg`, and keeps `ia` and
    `int_active` (`Executed`) - except `jxi`, for which `ReturnExecuted` says
    what it leaves.
 2. `CompactFlashProofs`.  Commands, reads and writes of any register keep the
    card's type, `region_size` within a `size_t` included.
 3. `ConsoleServed`, `CardServed`, `LinesServed`, `InterruptTaken`: the device
    turns change nothing of the registers but `acc`; the lines get exactly the
    new level; the interrupt test leaves nothing to be taken and keeps the
    point where the interrupted program continues.
 4. `Retired` puts these together for *any* registers an instruction may leave,
    and `InstructionRetired` shows that each of the 40 instruction actions is
    such a retirement or the unknown byte.
 5. `InitInv`, `NextInv` and `Invariance` give `Spec => []IInv`; the action
    properties use the invariant and `Retired`.  `OffersLatest` is inductive
    relative to `IInv` (`StepOffers`, `TypedOffers`).
 6. `RunsStraight` relates two tables, the decoder's and the execute functions:
    for an instruction that is no jump, how far its function moves `pc`
    (`OneByteMoves`, `TwoByteMoves`) is what `nbytes` says of its byte
    (`LengthOf`).

`HandlersInvisible` is worth a word: with `ForegroundPc` as the place where the
interrupted program goes on, a `jxi` that is followed in its own step by another
interrupt is covered by the same lemma as everything else, since both the return
and the new interrupt keep `ForegroundPc`.

### Decoding: `NandyWordProofs`

`OpcodeMap` says what each of the 256 bytes executes as: a byte is taken for a
mnemonic that is not shadowed exactly if it is one of those that `Bytes` lists
for it.  `ShadowedNeverRun` says that no byte is taken for the other three.
Neither is shown byte by byte.  `EntriesTake`: the bytes with the bits that an
entry fixes are the listed ones, from the bits each mask leaves open
(`RowSelects`), group by group as the source files have them.  `BytesApart`: the
lists do not meet.  `TableHidden`: each of the three shadowed entries stands
right behind one that covers it.  With `LookedUp` (`ilookup` returns the first
entry whose fixed bits the byte has) both theorems follow, and with them the
length of every instruction (`LengthOf`).

### One line: `NandyIsaProofs`

For every instruction and macro the assembler accepts, every operand, register,
addressing mode and jump distance, at every origin where the line fits into ROM,
and from every contents of the registers:

| Theorem | Statement |
|---|---|
| `Decoding` | `Spec => []DecodesAsWritten` |
| `Chaining` | `Spec => []CarryChains` |
| `Arriving` | `Spec => []JumpArrives` |
| `Returning` | `Spec => []CallReturns` |
| `Keeping` | `Spec => []MacrosKeepRest` |

The assumptions are `LinesAssumption` (`Accepted` has the operands that the
assembler takes; a line that starts with a shadowed mnemonic is assembled, but to
another instruction's byte), `OriginsAssumption` and `StartsAssumption`.

 1. *Bytes.*  The assembler makes a byte by or-ing fields into an opcode.  Where
    the fields do not meet, that is a sum (`ApartAdds`), so the byte has a number
    (`MoveBytes`, `MemBytes`, `JumpBytes`, `RegAluBytes`), and `OpcodeMap` says
    what it is taken for: `SingleBytes`.
 2. *Places.*  `Laid` ties the memory to the line: the ROM has its bytes from the
    origin on.  `Fetching` and `Reading` say what `ibyte` and its operand are
    after `k` bytes.
 3. *Single instructions* (`SingleInv`): `NineBits` is the arithmetic of the
    adders and rotations, over integers; `OffsetRead` puts the eleven bits of a
    jump together again and restores its sign.
 4. *Macros.*  All of them are made of `rd`, `wr`, `sw`, `rdi`, `addi` and a jump,
    so what a line has done after `k` bytes is a file of registers, `At(k, f)`:
    the start's, with one register copied, exchanged or loaded at each
    instruction.  `MovesRun` and `LoadsRun` say what one instruction does to the
    file, `Transfers` and `Fills` what a sequence of them does.

The claims are about the end of a line, so none is inductive.  The invariant is

    IInv == Laid /\ SingleInv /\ MoveInv /\ SwapInv /\ PairInv /\ StackInv

whose last four parts list, for each macro, the files in between.  It was first
checked by TLC on the instance of `MCIsa`.  For `goto` and `call` the word loaded
is the target less one, to which `jp` and `jpr` add it again; that is why the
address 0 has to be left out (section 7).

### The card: `CfHostProofs`

For every sector size, disk, set of bytes the program may write and every order
of its accesses, provided that it never asks for zero sectors (`~MayReadNone`;
section 7 says why the code needs that):

| Theorem | Statement |
|---|---|
| `TypeCorrect` | `~MayReadNone => (Spec => []TypeOK)` |
| `StaysInBufferTheorem` | `... []StaysInBuffer` |
| `DrqMeansDataTheorem` | `... []DrqMeansData` |
| `AnswersProbeTheorem` | `... []AnswersProbe` |
| `DeliversSectorsTheorem` | `~MayReadNone => (Spec => DeliversSectors)`, that is `Stream!Spec` |

The invariant `HostInv` is about the pair of a disk and a card (`Sound`): data is
requested exactly while there is a transfer; the card is ready and not busy; the
rest of a transfer is not empty and ends within its buffer; the error register
is 0 or 5; and a card without a disk is as it started.  None of the run's
invariants is inductive alone: a transfer never counts below zero because it is
not empty, which it is not because the last byte clears the request, which the
status register says.  The lemmas on bits (`BitOfByte`, `BitsChanged`) make the
status register a set of flags.  Each function of the card gets a lemma on what
it leaves (`AbortSound`, `SeekSound`, `ReadSound`, `CommandSound`,
`AdvancedSound`), each action one on its step.

For the refinement, `SameRemaining` says that accesses which leave the transfer
leave the bytes still to come (a stutter), `FetchedIsRequestable` that a command
makes exactly a requestable run of sectors pending (`Command`), and
`TakenIsHead` that a read hands over the first of the bytes still to come and
leaves the others (`Take`); `StepRefines` has one case per action.

### The assembler's layout: `AssemblerProofs`

`TypeCorrect` and `LayoutDisjointTheorem`, for every source.  What is proved
about sizes (`CodeSize`) is the reason why deferring is safe: a statement takes
the same number of bytes whatever its operand is and wherever it stands, so what
resolution writes fits the room the layout phase left, and `ResolvedInRom`
holds whatever the expression evaluates to.  The invariant adds to the types
that every deferred operand lies within the image and that the last block ends
at or before the current location.

### The allocator: `NMallocProofs`

For every set of request sizes, every sequence of calls (of any bounded number),
and whether a `char` is signed or not:

| Theorem | Statement |
|---|---|
| `Disjoint` | `Spec => []NoneOverlap` |
| `ChainWhole` | `Spec => []LinksLead` |
| `LowestRun` | `Spec => FirstFit` |
| `WholeOnceUnsigned` | with unsigned bytes, all of the memory can be had again once everything is free |

None of these is about one block, so the invariant is about the whole chain: there
*is* a set of blocks that are linked one to the next from the first byte of the
heap to its end (`WellLinked`); those marked used are exactly the ones handed
out (`Accounted`); and there are at most as many as calls were made, and one
(`Few`, by which the properties, that follow a chain `MaxCalls + 1` links far, see
all of it).  A walk is many steps and writes links as it coalesces: `Ahead`,
`Behind` and `Taken` tie its place to the memory at the call - in front nothing
has changed, behind there was no room, and from `index` to `next` all is free - so
that when it ends, what it found is the first place with room.  Each loop's round
and each way out of it has a lemma on what becomes of the set of blocks.  Where
a link is read as negative the walk may leave the memory, and the invariant says
that only then it does (`Astray`).

The prover has no induction over data built in, and the theorems of its library
that offer it cannot be used (they take an operator as a parameter).
`NandyWordProofs` therefore derives the induction principle for sets of numbers
(`NatMin`, `NatInduct`), and that a function on `0..n` may be defined by
iterating a step (`Iterated`), from facts about finite sets.  What a chain of
links reaches is shown with it.

### The serial line: `CfSerialProofs`

`ListensFirstTheorem` and `TypeCorrect`, for every stale content of the line,
however soon the Arduino resets, failing `open` and Ctrl-C.  `ListensFirst` is not
inductive: the invariant `Listening` adds that a byte which waits on the way up
while the emulator awaits the acknowledgement comes from an Arduino that has
left its reset (the flush discarded everything older), and that the line is
opened once.

`RemoteCardIsCard` is the refinement, `Spec => AccessesInOrder`.  It rests on
the invariant `InStep`, which says what the two sides know of each other while
the emulator runs and has really read the acknowledgement:
before the acknowledgement nothing of an access is on the line; afterwards what is
on its way down is a run of whole writes, of which the Arduino may have read the
first byte, and behind them at most one request to read, for which the emulator
waits; an answer is on its way up only when the line down is empty.  Bytes on the
line have no frame, so that is what makes the second byte of a write never be
taken for a command.  The card of the mapping is the real card with the writes
on the way already made (`Posted`, a fold over the bytes), its accumulator has the
answer as soon as that is on the line (`Received`), and its `place` says whether the
program computes, waits for an answer, or has one on the way.  Only a program that
does not wait computes, so a read of any of the eight registers has to give what
`CardPort` says that register holds.  `InStep` therefore also ties what is asked to
the register of the access: the last byte sent, or the command being executed, is
`reg_sel`.  The lemmas
`PostedWrite`, `PostedRequest`, `PostedFirst` and `PostedShort` say what sending,
asking, and the Arduino's taking a byte do to the card, `PlaceStays` that the
Arduino moves the place only by answering: sending a write is the abstract access,
its execution at the far end a stutter, while a request, its execution and the
return of its answer are three steps.

### The debugger: `NandyEmuProofs`

| Theorem | Statement |
|---|---|
| `SessionKeepsMachine` | `DebugSpec => [](TypeOK /\ IrqFollowsInput /\ NoMissedInterrupt)` |
| `StopsExplained` | `DebugSpec => StopsForAReason` |
| `PromptsExplained` | `DebugSpec => PromptsApart` |
| `MarkerShowsPc` | `DebugSpec => MarkerAtPc` |
| `OneByteLost` | `DebugSpec /\ [][ConsoleUnread]_allVars => []CostsOneByte` |

`DInv` adds to the machine's invariant why the debugger was called, and which of
its calls prompted since an instruction ran (`CalledTwice`): a second call is the
one at the top of the loop, behind the one at the bottom.  The machine's
own invariant had to be strengthened: `NoMissedInterrupt` speaks of a machine in
its loop, but a command sets a stopped machine running again, so no request may
wait in any mode (`Stoppable`).  `CostsOneByte` is about programs that do not
read the console, and the theorem says so: its hypothesis is that no step of the
machine reads the console's port (`ConsoleUnread`).  `MarkerAtPc` was first
stated without the condition that `pc` is not an operand; the proof did not go
through, and TLC found the session, a `goto` to an operand that is no
instruction, in which the row marked is the one in front of it.  The condition
and the third program of the run come from there.

**Only model-checked.**  Liveness (`EchoesAll`, `Finishes`, `ForegroundRuns`,
`Proceeds`) is beyond the prover.  What `parseExp` computes, and with it
`OperandsFinal`, `AcceptsOrdered` and `RefusesMalformed`, follows recursive code
with `RECURSIVE` operators, which a module with theorems cannot reach.  The results of particular programs (`EchoInOrder`,
`ComputesAlone`, `CopiesData`, `FrameKept`, `PrintsSector`, `TellsCard`) are
finite checks by nature.

## 7. Where the code and its documents disagree

Shown by a run:

* **memcpy_top.**  `sp` is signed.  From 0x80 on its sign extension sets bit 8 of
  the page (`TS/nandy_parse_tools.c:202`), so the handler works on the page of
  the program it interrupts.  `tests/memcpy.na` starts with `sp = 0` and pushes
  downwards: a handler that uses its stack overwrites memcpy's frame.
* **define_late.**  An operand is evaluated to the end of the file instead of the
  end of its line (`TS/nandy_tools.c:79` passes `arg`, not the copy `str`), so a
  `@define` followed by anything is always deferred, and a `@static` below it
  that uses the name is refused, although the manual says that an expression is
  evaluated as soon as its prerequisites are.
* **malloc_signed.**  Where `char` is signed, a link with a low byte of 128 or more
  reads as a negative number: the search never comes back to the heap, and
  what `test_allocator.c` does at its end - free everything, ask for all of it -
  fails.

Met while modelling, modelled as the code has them, without a run of their own:

* `adc`, `sbc` have the opcodes of `add`, `sub` (`TS/instrs_regadd.c:27`), and
  `jc`'s mask covers the bit that marks `jcr` (`TS/instrs_jump.c:122`).  The
  first entry wins, so none of the three is ever executed.  (`DecodesAsWritten`
  is about the mnemonics that can be selected.)
* The main program's stack page is 0xFF and a handler's 0xFE; the documents say
  the opposite, and say that offsets wrap within the page, which they do not.
* The console's cooldown is `1e6 / 9600 / 10` = 10 steps (`TS/ios_tty.c:8`); a
  byte at 9600 baud takes 1041 clocks.
* `add`, `addi`, `sub`, `subi` and `sl`, `sr` leave the carry bit alone;
  `Design/InstructionReference.md:62-63` and `:99-100` say they set it.  (The
  manual's description of `isp` relies on the code.)
* `move y io` swaps `acc` and `y` first (`TS/instrs_temp_macros.c:124`), so the
  write goes to the device that `acc` selected.
* `pusha` moves `sp` with `isc`, which adds the carry bit
  (`TS/instrs_temp_macros.c:189`): with carry set it moves by one, and overwrites the
  top of the stack.
* A read of zero sectors leaves a transfer of size zero; the next read of the data
  register counts it down to `SIZE_MAX` (`TS/ios_compactflash.c:153`, `:247`), and
  the card hands over what lies behind the disk.  `StaysInBuffer` and its theorem
  are about programs that do not ask for one.
* `<=` computes `>=` (`TS/shuntingyard_funcs.c:21`); a unary operator evaluates the
  one before it too early (`TS/shuntingyard.c:200`), so that `1 + - - 2` has the value
  -3 and `- -1` is refused.  The expressions of run *asm* hold neither.
* An empty `@string` at the last byte of the image is laid out behind it
  (`TS/instrs_macros.c:182`).
* With `-g` and `-G` together the debugger is entered twice for every stop, at the
  bottom and at the top of `main`'s loop (`TS/nandy-emu.c:217`, `:231`), although
  `-G` is said to imply `-g` (`TS/emu_settings.c:6`).
* `sw io` raises both strobes; the console then prints the byte just read.
* The assembler manual places the handler at 0xFF00, the code at 0x7F00.
* Nothing clears the error bit of the card's status register.
* `goto` and `call` to address 0 are refused.
* `@string` leaves a byte between the characters and the terminator.
* Nothing stops the assembler at the end of the image; instructions are emitted
  behind it as well.
* `n_malloc` never uses a free run that fits exactly.
* A line without a word, the end of the input and Ctrl-C at the prompt make the
  debugger obey its last command again, or garbage; an empty line before any
  command does too.
* The disassembly cache is not invalidated by `st` or `poke`, indexes before its
  beginning near address 0 (`TS/nandy-emu.c:62`) and behind its end at 65535.
* Ctrl-C while an answer from the serial line is awaited ends the emulator; while
  the acknowledgement is awaited it leaves `ack` uninitialised.


## 8. What is not modelled

* How text becomes statements, words and tokens in the assembler, in expressions
  (prefixes, escapes, longest operator first) and the long names of the
  debugger's commands: conversions without state.
* What the debugger prints, apart from the row it marks.
* The 64-byte receive buffer of the Arduino, and the signals on the card's pins.
* The hardware core (`Simulation/src`): unfinished in the source - `jxi` is
  disabled - and without a settled interface to compare with.  The UART of the
  FPGA: nothing of the system talks to it yet.
* `ios_16550.c` is a stub that is in no table.
* Argument parsing, text and file helpers, timing (`micros.c`, `-t`): no state
  that a property here could be about.
* `Simulation/src-old`, the Logisim circuits, the KiCad boards: superseded or
  drawings.


## 9. Plan

Done in this order: words, decoding and processor; the console, the card and the
emulator over them; the assembler's code emission and the comparison of both
ends of the instruction set; the card on its own against `SectorStream`; the
proofs about the emulator; the two phases of the assembler and the evaluator;
the debugger; the serial card; the allocator; the proofs about the card with its
refinement, the handshake and the layout; the proofs about the allocator, the
remote card's refinement, the debugger, and the decoder's agreement with the
execute functions; the proofs about what every byte decodes to and what every
assembled line does.

Next, by importance:

1. `OperandsFinal` for the sizes and places of what resolution writes.
2. `HdlCore`, when the control unit is finished: its two cycles against
   `NandyCpu`.
3. `UartTx` against a byte channel, when something sends through it.
