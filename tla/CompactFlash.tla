---------------------------- MODULE CompactFlash ----------------------------
(***************************************************************************)
(* The emulated CompactFlash card, ios_compactflash.c, with a disk image   *)
(* (-d) or with no disk.  The card behind a serial line (-S) is another    *)
(* component.                                                              *)
(*                                                                         *)
(* disk is the image as a sequence of bytes.  A card is a record: its task *)
(* file, the error register, the 8-bit feature, and the transfer in        *)
(* progress - the buffer seek_ptr points into, the index of the next byte  *)
(* and region_size.  Sectors are SECTOR bytes long (512 in the code) and a *)
(* size_t counts modulo SIZE_T.                                            *)
(***************************************************************************)
EXTENDS NandyWord, Sequences

CONSTANTS SECTOR, SIZE_T,
          Disks           \* the images the emulator may be started with

\* A size_t counts past the largest transfer and the largest block address.
ASSUME SectorAssumption == /\ SECTOR \in Nat \ {0}
                           /\ SIZE_T \in Nat \ {0}
                           /\ 255 * SECTOR < SIZE_T
ASSUME DiskAssumption == Disks \subseteq Seq(Byte)

CF_DATA           == 0
CF_ERROR_FEATURE  == 1
CF_SECTOR_COUNT   == 2
CF_LBA_7_0        == 3
CF_LBA_15_8       == 4
CF_LBA_23_16      == 5
CF_LBA_27_24_MODE == 6
CF_STATUS_CMD     == 7

CF_BUSY == 128
CF_RDY  == 64
CF_DRQ  == 8
CF_ERR  == 1

NoTransfer == "null"
Buffers == {"disk", "ident"}

\* The image, or NoDisk when no image was given or it could not be opened.
NoDisk == <<>>

Card == [registers : [0..7 -> Byte], error_register : Byte,
         feat_8bit : BOOLEAN, seek_ptr : Buffers \cup {NoTransfer},
         pos : Nat, region_size : 0..SIZE_T-1, exited : BOOLEAN]

INIT_CARD == [registers |-> [r \in 0..7 |-> CASE r = CF_LBA_27_24_MODE -> 160
                                              [] r = CF_STATUS_CMD -> CF_RDY
                                              [] OTHER -> 0],
              error_register |-> 0, feat_8bit |-> FALSE,
              seek_ptr |-> NoTransfer, pos |-> 0, region_size |-> 0,
              exited |-> FALSE]

status(cf) == cf.registers[CF_STATUS_CMD]

SetBits(a, S)   == ByteOf(BitsOf(a) \cup S)

ClearBits(a, S) == ByteOf(BitsOf(a) \ S)
WithStatus(cf, s) == [cf EXCEPT !.registers[CF_STATUS_CMD] = s]
-----------------------------------------------------------------------------
(* Commands.  A read in CHS mode or past the end of the image ends the     *)
(* emulator (exit(-1)).                                                    *)

\* Mutant: an error bit that the CompactFlash standard keeps zero.
cf_abortMarks(cf) == [WithStatus(cf, SetBits(status(cf), {CF_ERR}))
                        EXCEPT !.error_register = SetBits(@, {1, 2, 4})]

cf_abort(cf) == [WithStatus(cf, SetBits(status(cf), {CF_ERR}))
                   EXCEPT !.error_register = SetBits(@, {1, 4})]

\* Ready for data only if there is any.
seek_to(cf, buf, at, size) ==
  LET ready == ClearBits(SetBits(status(cf), {CF_DRQ, CF_RDY}), {CF_BUSY})
  IN [WithStatus(cf, IF size > 0 THEN ready ELSE status(cf))
        EXCEPT !.seek_ptr = buf, !.pos = at, !.region_size = size]

Reg(cf, r) == cf.registers[r]
LbaMode(cf) == Reg(cf, CF_LBA_27_24_MODE) \div 16 = 14
SectorAddr(cf) == ((Reg(cf, CF_LBA_27_24_MODE) % 16) * 16777216)
                  + 65536 * Reg(cf, CF_LBA_23_16)
                  + 256 * Reg(cf, CF_LBA_15_8) + Reg(cf, CF_LBA_7_0)
ByteAddr(cf) == SectorAddr(cf) * SECTOR
ByteSize(cf) == SECTOR * Reg(cf, CF_SECTOR_COUNT)

\* Mutant: only the first byte is checked against the end of the disk.
ReadSectorsUnsized(cf, disk) ==
  IF LbaMode(cf) /\ ByteAddr(cf) <= Len(disk)
  THEN seek_to(cf, "disk", ByteAddr(cf), ByteSize(cf))
  ELSE [cf EXCEPT !.exited = TRUE]

ReadSectors(cf, disk) ==
  IF LbaMode(cf) /\ ByteAddr(cf) + ByteSize(cf) <= Len(disk)
  THEN seek_to(cf, "disk", ByteAddr(cf), ByteSize(cf))
  ELSE [cf EXCEPT !.exited = TRUE]

SetFeature(cf) ==
  CASE Reg(cf, CF_ERROR_FEATURE) = 1   -> [cf EXCEPT !.feat_8bit = TRUE]
    [] Reg(cf, CF_ERROR_FEATURE) = 129 -> [cf EXCEPT !.feat_8bit = FALSE]
    [] OTHER                           -> cf_abort(cf)

cf_command(old, disk, cmd) ==
  LET cf == [old EXCEPT !.error_register = 0]
  IN CASE cmd \in {32, 33} -> ReadSectors(cf, disk)
       [] cmd = 236        -> seek_to(cf, "ident", 0, SECTOR)
       [] cmd = 239        -> SetFeature(cf)
       [] OTHER            -> cf_abort(cf)
-----------------------------------------------------------------------------
(* The data register.  The byte under seek_ptr is handed over and the      *)
(* pointer moves on; the last one of the region ends the transfer.  Beyond *)
(* the buffer the pointer reads whatever memory holds: `wild`.             *)

ident_buffer(i) == (7 * i) % 256         \* only told apart by position here

ByteAt(cf, disk, wild) ==
  CASE cf.seek_ptr = "ident" /\ cf.pos < SECTOR   -> ident_buffer(cf.pos)
    [] cf.seek_ptr = "disk" /\ cf.pos < Len(disk) -> disk[cf.pos + 1]
    [] OTHER                                      -> wild

\* Mutants: the end of a transfer leaves data requested; every other byte is
\* skipped.
AdvancedKeepsDrq(cf) ==
  LET left == (cf.region_size - 1) % SIZE_T
  IN IF left > 0 THEN [cf EXCEPT !.pos = @ + 1, !.region_size = left]
     ELSE [cf EXCEPT !.seek_ptr = NoTransfer, !.pos = 0, !.region_size = 0]
AdvancedSkips(cf) ==
  LET left == (cf.region_size - 1) % SIZE_T
  IN IF left > 0 THEN [cf EXCEPT !.pos = @ + 2, !.region_size = left]
     ELSE [WithStatus(cf, ClearBits(status(cf), {CF_DRQ}))
             EXCEPT !.seek_ptr = NoTransfer, !.pos = 0, !.region_size = 0]

Advanced(cf) ==
  LET left == (cf.region_size - 1) % SIZE_T
      moved == [cf EXCEPT !.pos = @ + 1, !.region_size = left]
  IN IF left > 0 THEN moved
     ELSE [WithStatus(moved, ClearBits(status(cf), {CF_DRQ}))
             EXCEPT !.seek_ptr = NoTransfer, !.pos = 0]

Transferring(cf) == cf.seek_ptr # NoTransfer

\* What acc holds after `rd io` of register r, and the card after it.
ReadValue(cf, disk, r, acc, wild) ==
  CASE disk = NoDisk                      -> 255
    [] disk # NoDisk /\ r = CF_ERROR_FEATURE -> cf.error_register
    [] disk # NoDisk /\ r = CF_DATA       -> IF Transferring(cf)
                                             THEN ByteAt(cf, disk, wild)
                                             ELSE acc
    [] OTHER                              -> Reg(cf, r)
AfterRead(cf, disk, r) ==
  IF disk # NoDisk /\ r = CF_DATA /\ Transferring(cf) THEN Advanced(cf) ELSE cf

\* The card after `wr io` of the byte b to register r.
AfterWrite(cf, disk, r, b) ==
  CASE disk = NoDisk                        -> cf
    [] disk # NoDisk /\ r = CF_STATUS_CMD   -> cf_command(cf, disk, b)
    [] OTHER                                -> [cf EXCEPT !.registers[r] = b]
=============================================================================
