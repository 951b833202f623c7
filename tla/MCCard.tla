------------------------------- MODULE MCCard -------------------------------
(***************************************************************************)
(* The emulator on programs that use the CompactFlash card and the console *)
(* together: y selects one device or the other, both see every step.  And  *)
(* on programs that take input by interrupt and drop it, with a user who   *)
(* may close standard input: from then on the console has a byte on offer  *)
(* whenever it may take one.                                               *)
(***************************************************************************)
EXTENDS NandyEmu, NandyAsm, SequencesExt

WriteReg(r, b) == asm_alu_imm("rdi", CF_BASE + r) \o asm_register("wr", Y)
                  \o asm_alu_imm("rdi", b) \o asm_register("wr", IO)

\* Read one sector by address, a byte for every time the card requests data,
\* and print it; stop when there is no more or the bus reads as busy (the loop
\* starts at 24, its body at 37).
PrintSector(mode_reg, lba) ==
  WriteReg(CF_LBA_27_24_MODE, mode_reg) \o WriteReg(CF_LBA_7_0, lba)
  \o WriteReg(CF_SECTOR_COUNT, 1) \o WriteReg(CF_STATUS_CMD, 32)
  \o asm_alu_imm("rdi", CF_BASE + CF_STATUS_CMD) \o asm_register("wr", Y)
  \o asm_register("rd", IO) \o asm_basic("sgn") \o asm_reljump("jc", 29, 36)
  \o asm_alu_imm("andi", CF_DRQ) \o asm_basic("nzero")
  \o asm_reljump("jc", 34, 37) \o asm_basic("brk")
  \o asm_alu_imm("rdi", CF_BASE + CF_DATA) \o asm_register("wr", Y)
  \o asm_register("rd", IO) \o asm_register("wr", X)
  \o asm_alu_imm("rdi", 0) \o asm_register("wr", Y)
  \o asm_register("rd", X) \o asm_register("wr", IO)
  \o asm_reljump("j", 47, 24)

\* tests/cf_register_test.na, printing 1 where the card keeps what was
\* written to it and 0 where it does not.
RegisterTest ==
  WriteReg(CF_LBA_15_8, 123) \o WriteReg(CF_LBA_23_16, 234)
  \o asm_alu_imm("rdi", CF_BASE + CF_LBA_15_8) \o asm_register("wr", Y)
  \o asm_register("rd", IO) \o asm_alu_imm("xori", 123)
  \o asm_basic("nzero") \o asm_reljump("jc", 19, 35)
  \o asm_alu_imm("rdi", CF_BASE + CF_LBA_23_16) \o asm_register("wr", Y)
  \o asm_register("rd", IO) \o asm_alu_imm("xori", 234)
  \o asm_basic("nzero") \o asm_reljump("jc", 28, 35)
  \o asm_alu_imm("rdi", 1) \o asm_reljump("j", 32, 37)
  \o asm_basic("brk")
  \o asm_alu_imm("rdi", 0)
  \o asm_register("wr", X) \o asm_alu_imm("rdi", 0) \o asm_register("wr", Y)
  \o asm_register("rd", X) \o asm_register("wr", IO) \o asm_basic("brk")

\* A program that only enables interrupts and loops; its handler takes the
\* byte last, or first and then clears its register.
Dropper(handler) == Image(<< <<0, asm_basic("eint") \o asm_reljump("j", 1, 1)>>,
                             <<ISR_ADDR, handler>> >>)
Droppers == {Dropper(asm_register("rd", IO) \o asm_basic("jxi")),
             Dropper(asm_register("rd", IO) \o asm_alu_imm("rdi", 0) \o asm_basic("jxi"))}

Rom(code) == Image(<< <<0, code>> >>)
SectorAsks == {<<224, 0>>, <<224, 2>>, <<224, 3>>, <<160, 0>>}
Printers == {Rom(PrintSector(r[1], r[2])) : r \in SectorAsks}
MCPrograms == Printers \cup {Rom(RegisterTest)} \cup Droppers
MCDisks == {NoDisk, <<11, 12, 13, 21, 22, 23, 31, 32, 33>>}

IsTest == rom = Rom(RegisterTest)
ModeAsked == ReadCell(rom, 4)
LbaAsked == ReadCell(rom, 10)
SectorAsked == [i \in 1..SECTOR |-> disk[SECTOR * LbaAsked + i]]

\* A program that asks for a sector that exists prints exactly that sector;
\* one that asks in CHS mode, off the end of the disk or of no disk prints
\* nothing.
PrintsSector ==
  rom \in Printers =>
    IF disk # NoDisk /\ ModeAsked = 224 /\ (LbaAsked + 1) * SECTOR <= Len(disk)
    THEN IsPrefix(out, SectorAsked) /\ (mode # "run" => out = SectorAsked)
    ELSE out = <<>>

\* tests/cf_register_test.na tells a card from a floating bus.
TellsCard == (IsTest /\ mode = "halted") => out = IF disk = NoDisk THEN <<0>>
                                                                  ELSE <<1>>

\* Input, even an end of input that never ceases to be on offer, does not
\* starve the interrupted program as long as the handler is shorter than the
\* console's cooldown: it keeps executing instructions.
ForegroundRuns == []<>(mode = "run" => ~cpu.int_active)
=============================================================================
