------------------------------- MODULE MCEcho -------------------------------
(***************************************************************************)
(* The emulator on tests/echo.na: the main program enables interrupts and  *)
(* jumps to itself, the service routine reads a byte and writes it back.   *)
(* A second image does the same by polling, with interrupts disabled.      *)
(***************************************************************************)
EXTENDS NandyEmu, NandyAsm

EchoRom ==
  Image(<< <<0, asm_basic("eint") \o asm_reljump("j", 1, 1)>>,
           <<ISR_ADDR, asm_register("rd", IO) \o asm_register("wr", IO)
                       \o asm_basic("jxi")>> >>)

PollRom ==
  Image(<< <<0, asm_basic("ipoll") \o asm_alu_imm("andi", TTY_LINE)
                \o asm_basic("zero") \o asm_reljump("jc", 4, 0)
                \o asm_register("rd", IO) \o asm_register("wr", IO)
                \o asm_reljump("j", 8, 0)>> >>)

MCPrograms == {EchoRom, PollRom}
MCDisks == {NoDisk}

\* tests/echo.na copies its input to its output: nothing is lost, repeated
\* or reordered on the way from stdin through the interrupt to stdout.
EchoInOrder == IsPrefix(out, typed)

\* Every byte typed is echoed, unless the user stops the emulator first.
EchoesAll == \A n \in 1..MaxTyped :
               (Len(typed) = n) ~> (Len(out) >= n \/ mode # "run")
=============================================================================
