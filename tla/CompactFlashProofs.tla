------------------------- MODULE CompactFlashProofs -------------------------
(***************************************************************************)
(* Lemmas about the CompactFlash card: every access leaves a card of its   *)
(* C types and hands a byte to the accumulator, whatever was accessed      *)
(* before and whatever size the sectors and the disk have.                 *)
(***************************************************************************)
EXTENDS CompactFlash, NandyWordProofs

LEMMA RegisterNumbers ==
  /\ CF_DATA \in 0..7 /\ CF_ERROR_FEATURE \in 0..7 /\ CF_SECTOR_COUNT \in 0..7
  /\ CF_LBA_7_0 \in 0..7 /\ CF_LBA_15_8 \in 0..7 /\ CF_LBA_23_16 \in 0..7
  /\ CF_LBA_27_24_MODE \in 0..7 /\ CF_STATUS_CMD \in 0..7
  BY DEF CF_DATA, CF_ERROR_FEATURE, CF_SECTOR_COUNT, CF_LBA_7_0, CF_LBA_15_8,
         CF_LBA_23_16, CF_LBA_27_24_MODE, CF_STATUS_CMD

LEMMA RegType ==
  ASSUME NEW cf \in Card, NEW r \in 0..7
  PROVE  Reg(cf, r) \in Byte
  BY DEF Card, Reg

LEMMA WrittenType ==
  ASSUME NEW cf \in Card, NEW r \in 0..7, NEW b \in Byte
  PROVE  [cf EXCEPT !.registers[r] = b] \in Card
  BY DEF Card

LEMMA WithStatusType ==
  ASSUME NEW cf \in Card, NEW s \in Byte
  PROVE  WithStatus(cf, s) \in Card
  BY WrittenType, RegisterNumbers DEF WithStatus

LEMMA BitsType == \A a, S : SetBits(a, S) \in Byte /\ ClearBits(a, S) \in Byte
  BY ByteOfType DEF SetBits, ClearBits

LEMMA InitType == INIT_CARD \in Card
<1>1. 0 \in Byte /\ 160 \in Byte /\ CF_RDY \in Byte
  BY ByteRange DEF CF_RDY
<1>2. 0 \in 0..SIZE_T-1
  BY SectorAssumption
<1>3. INIT_CARD.registers \in [0..7 -> Byte]
  BY <1>1 DEF INIT_CARD
<1> QED BY <1>1, <1>2, <1>3 DEF INIT_CARD, Card, NoTransfer, Buffers

LEMMA AbortType ==
  ASSUME NEW cf \in Card
  PROVE  cf_abort(cf) \in Card
<1>1. WithStatus(cf, SetBits(status(cf), {CF_ERR})) \in Card
  BY WithStatusType, BitsType
<1> QED BY <1>1, BitsType DEF cf_abort, Card

LEMMA SeekType ==
  ASSUME NEW cf \in Card, NEW buf \in Buffers, NEW at \in Nat,
         NEW size \in 0..SIZE_T-1
  PROVE  seek_to(cf, buf, at, size) \in Card
<1> DEFINE ready == ClearBits(SetBits(status(cf), {CF_DRQ, CF_RDY}), {CF_BUSY})
<1>1. ready \in Byte /\ status(cf) \in Byte
  BY BitsType, RegType, RegisterNumbers DEF status, Reg
<1>2. WithStatus(cf, IF size > 0 THEN ready ELSE status(cf)) \in Card
  BY <1>1, WithStatusType
<1> QED BY <1>2 DEF seek_to, Card

\* A transfer is at most 255 sectors long, and a size_t can count it.
LEMMA SizesType ==
  ASSUME NEW cf \in Card
  PROVE  /\ ByteSize(cf) \in 0..SIZE_T-1 /\ ByteAddr(cf) \in Nat
         /\ SectorAddr(cf) \in Nat /\ Reg(cf, CF_SECTOR_COUNT) \in Nat
<1>1. SECTOR \in Nat /\ SIZE_T \in Nat /\ 255 * SECTOR < SIZE_T
  BY SectorAssumption
<1>2. PICK n \in Byte : n = Reg(cf, CF_SECTOR_COUNT)
  BY RegType, RegisterNumbers
<1>3. n \in Nat /\ n <= 255
  BY ByteRange
<1>4. SECTOR * n \in Nat /\ SECTOR * n <= 255 * SECTOR
  BY <1>1, <1>3, SMT
<1>5. ByteSize(cf) \in 0..SIZE_T-1
  BY <1>1, <1>2, <1>4 DEF ByteSize
<1>6. SectorAddr(cf) \in Nat
  <2>1. /\ Reg(cf, CF_LBA_27_24_MODE) \in Nat /\ Reg(cf, CF_LBA_23_16) \in Nat
        /\ Reg(cf, CF_LBA_15_8) \in Nat /\ Reg(cf, CF_LBA_7_0) \in Nat
    BY RegType, RegisterNumbers, ByteRange
  <2> QED BY <2>1 DEF SectorAddr
<1>7. ByteAddr(cf) \in Nat
  BY <1>1, <1>6, SMT DEF ByteAddr
<1> QED BY <1>2, <1>3, <1>5, <1>6, <1>7

LEMMA CommandType ==
  ASSUME NEW cf \in Card, NEW disk, NEW cmd
  PROVE  cf_command(cf, disk, cmd) \in Card
<1> DEFINE c == [cf EXCEPT !.error_register = 0]
<1>1. c \in Card
  BY ByteRange DEF Card
<1> HIDE DEF c
<1>2. ReadSectors(c, disk) \in Card
  <2>1. seek_to(c, "disk", ByteAddr(c), ByteSize(c)) \in Card
    BY <1>1, SizesType, SeekType DEF Buffers
  <2>2. [c EXCEPT !.exited = TRUE] \in Card
    BY <1>1 DEF Card
  <2> QED BY <2>1, <2>2 DEF ReadSectors
<1>3. seek_to(c, "ident", 0, SECTOR) \in Card
  <2>1. SECTOR \in 0..SIZE_T-1
    BY SectorAssumption
  <2> QED BY <1>1, <2>1, SeekType DEF Buffers
<1>4. cf_abort(c) \in Card
  BY <1>1, AbortType
<1>5. SetFeature(c) \in Card
  <2>1. [c EXCEPT !.feat_8bit = TRUE] \in Card /\ [c EXCEPT !.feat_8bit = FALSE] \in Card
    BY <1>1 DEF Card
  <2> QED BY <1>4, <2>1 DEF SetFeature
<1> QED BY <1>2, <1>3, <1>4, <1>5 DEF cf_command, c

\* The card after a write, and after a read.
LEMMA AfterWriteType ==
  ASSUME NEW cf \in Card, NEW disk, NEW r \in 0..7, NEW b \in Byte
  PROVE  AfterWrite(cf, disk, r, b) \in Card
  BY CommandType, WrittenType DEF AfterWrite

LEMMA AdvancedType ==
  ASSUME NEW cf \in Card
  PROVE  Advanced(cf) \in Card
<1> DEFINE left == (cf.region_size - 1) % SIZE_T
           moved == [cf EXCEPT !.pos = @ + 1, !.region_size = left]
<1>1. left \in 0..SIZE_T-1
  BY SectorAssumption, SMT DEF Card
<1>2. moved \in Card
  <2>1. cf.pos + 1 \in Nat
    BY DEF Card
  <2> HIDE DEF left
  <2> QED BY <1>1, <2>1 DEF Card
<1>3. WithStatus(moved, ClearBits(status(cf), {CF_DRQ})) \in Card
  BY <1>2, WithStatusType, BitsType
<1>4. [WithStatus(moved, ClearBits(status(cf), {CF_DRQ}))
         EXCEPT !.seek_ptr = NoTransfer, !.pos = 0] \in Card
  BY <1>3 DEF Card
<1> QED BY <1>2, <1>4 DEF Advanced

LEMMA AfterReadType ==
  ASSUME NEW cf \in Card, NEW disk, NEW r
  PROVE  AfterRead(cf, disk, r) \in Card
  BY AdvancedType DEF AfterRead

\* What a read hands to the accumulator.
LEMMA ReadValueType ==
  ASSUME NEW cf \in Card, NEW disk \in Seq(Byte), NEW r \in 0..7,
         NEW a \in Byte, NEW wild \in Byte
  PROVE  ReadValue(cf, disk, r, a, wild) \in Byte
<1>1. ByteAt(cf, disk, wild) \in Byte
  <2>1. cf.pos \in Nat
    BY DEF Card
  <2>2. ident_buffer(cf.pos) \in Byte
    <3>1. \A n \in Nat : (7 * n) % 256 \in Byte
      BY ByteRange
    <3> QED BY <2>1, <3>1 DEF ident_buffer
  <2>3. cf.pos < Len(disk) => disk[cf.pos + 1] \in Byte
    BY <2>1
  <2> QED BY <2>2, <2>3 DEF ByteAt
<1>2. cf.error_register \in Byte
  BY DEF Card
<1>3. Reg(cf, r) \in Byte
  BY RegType
<1>4. 255 \in Byte
  BY ByteRange
<1> QED BY <1>1, <1>2, <1>3, <1>4 DEF ReadValue
=============================================================================
