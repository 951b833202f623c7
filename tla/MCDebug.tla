------------------------------ MODULE MCDebug ------------------------------
(***************************************************************************)
(* Debugger sessions over programs that do not read the console: two stop  *)
(* at a brk, one runs for ever.                                            *)
(***************************************************************************)
EXTENDS NandyDebug, NandyAsm

\* The operand of rdi is a nop to those who jump there, or no instruction.
BrkRom(operand) == Image(<< <<0, asm_basic("nop") \o asm_alu_imm("rdi", operand)
                                 \o asm_basic("brk") \o asm_reljump("j", 4, 0)>> >>)
SpinRom == Image(<< <<0, asm_basic("nop") \o asm_basic("ctog") \o asm_reljump("j", 2, 1)>> >>)

MCPrograms == {BrkRom(41), BrkRom(7), SpinRom}
MCDisks == {NoDisk}
MCOptions == SUBSET {"g", "G"}

Spaced(a, b) == a \o <<32>> \o b
MCLines == { STEP \o <<NL>>, CONTINUE \o <<NL>>, QUIT \o <<NL>>, <<NL>>, GOTO \o <<NL>>,
             Spaced(GOTO, <<50, NL>>), Spaced(POKE, <<49, COMMA, 55, NL>>) }
=============================================================================
