---------------------------- MODULE CfHostProofs ----------------------------
(***************************************************************************)
(* The card on a disk image keeps its promises to a program that accesses  *)
(* its registers in any order, whatever the sector size and the disk.      *)
(***************************************************************************)
EXTENDS CfHost, CompactFlashProofs, SequenceTheorems

-----------------------------------------------------------------------------
(* Bits: what SetBits and ClearBits do to each of them.                    *)

\* A digit of a number is what stands at its place.
LEMMA DigitOf ==
  \A lo, b, h \in Nat : b <= 1 =>
    /\ lo < 1   => ((lo + b + 2 * h) \div 1) % 2 = b
    /\ lo < 8   => ((lo + 8 * b + 16 * h) \div 8) % 2 = b
    /\ lo < 64  => ((lo + 64 * b + 128 * h) \div 64) % 2 = b
    /\ lo < 128 => ((lo + 128 * b + 256 * h) \div 128) % 2 = b
  OBVIOUS

\* The bits of the status register: ERR, DRQ, RDY and BUSY.
Flags == {1, 8, 64, 128}

LEMMA BitOfByte == \A S : \A w \in Flags : HasBit(ByteOf(S), w) <=> w \in S
<1> SUFFICES ASSUME NEW S PROVE \A w \in Flags : HasBit(ByteOf(S), w) <=> w \in S
  OBVIOUS
<1> DEFINE b(w) == IF w \in S THEN 1 ELSE 0
<1>1. \A w : b(w) \in Nat /\ b(w) <= 1
  OBVIOUS
<1>2. \A w : b(w) = 1 <=> w \in S
  OBVIOUS
<1>3. \A w \in Nat : Part(S, w) = w * b(w)
  BY DEF Part
<1> HIDE DEF b
<1>4. ByteOf(S) = b(1) + 2 * b(2) + 4 * b(4) + 8 * b(8) + 16 * b(16)
                  + 32 * b(32) + 64 * b(64) + 128 * b(128)
  BY <1>1, <1>3 DEF ByteOf
<1>5. HasBit(ByteOf(S), 1) <=> 1 \in S
  <2> DEFINE h == b(2) + 2 * b(4) + 4 * b(8) + 8 * b(16) + 16 * b(32)
                  + 32 * b(64) + 64 * b(128)
  <2>1. h \in Nat /\ ByteOf(S) = 0 + b(1) + 2 * h
    BY <1>1, <1>4
  <2> HIDE DEF h
  <2> QED BY <1>1, <1>2, <2>1, DigitOf DEF HasBit
<1>6. HasBit(ByteOf(S), 8) <=> 8 \in S
  <2> DEFINE l == b(1) + 2 * b(2) + 4 * b(4)
             h == b(16) + 2 * b(32) + 4 * b(64) + 8 * b(128)
  <2>1. l \in Nat /\ l < 8 /\ h \in Nat /\ ByteOf(S) = l + 8 * b(8) + 16 * h
    BY <1>1, <1>4
  <2> HIDE DEF l, h
  <2> QED BY <1>1, <1>2, <2>1, DigitOf DEF HasBit
<1>7. HasBit(ByteOf(S), 64) <=> 64 \in S
  <2> DEFINE l == b(1) + 2 * b(2) + 4 * b(4) + 8 * b(8) + 16 * b(16) + 32 * b(32)
  <2>1. l \in Nat /\ l < 64 /\ ByteOf(S) = l + 64 * b(64) + 128 * b(128)
    BY <1>1, <1>4
  <2> HIDE DEF l
  <2> QED BY <1>1, <1>2, <2>1, DigitOf DEF HasBit
<1>8. HasBit(ByteOf(S), 128) <=> 128 \in S
  <2> DEFINE l == b(1) + 2 * b(2) + 4 * b(4) + 8 * b(8) + 16 * b(16) + 32 * b(32)
                  + 64 * b(64)
  <2>1. l \in Nat /\ l < 128 /\ ByteOf(S) = l + 128 * b(128) + 256 * 0
    BY <1>1, <1>4
  <2> HIDE DEF l
  <2> QED BY <1>1, <1>2, <2>1, DigitOf DEF HasBit
<1> QED BY <1>5, <1>6, <1>7, <1>8 DEF Flags

LEMMA BitsChanged ==
  ASSUME NEW a, NEW S, NEW w \in Flags
  PROVE  /\ HasBit(SetBits(a, S), w) <=> HasBit(a, w) \/ w \in S
         /\ HasBit(ClearBits(a, S), w) <=> HasBit(a, w) /\ w \notin S
<1>1. w \in BitsOf(a) <=> HasBit(a, w)
  BY DEF BitsOf, Flags, Weights
<1> QED BY <1>1, BitOfByte DEF SetBits, ClearBits
-----------------------------------------------------------------------------
(* The invariant.  Its parts need one another: a transfer is never empty   *)
(* because data is requested only for one that is not, and it stays within *)
(* the disk because the check on the command was made against the same     *)
(* disk; the error register holds what the last command left.              *)

Requested(cf) == HasBit(status(cf), CF_DRQ)
Live(cf) == HasBit(status(cf), CF_RDY) /\ ~HasBit(status(cf), CF_BUSY)
Room(d, cf) == IF cf.seek_ptr = "ident" THEN SECTOR ELSE Len(d)

\* A card in order, in front of the disk d.
Sound(d, cf) ==
  /\ cf \in Card
  /\ Requested(cf) <=> Transferring(cf)
  /\ Live(cf)
  /\ Transferring(cf) => cf.region_size > 0 /\ cf.pos + cf.region_size <= Room(d, cf)
  /\ cf.error_register \in {0, 5}

LEMMA FlagsAre == /\ CF_ERR = 1 /\ CF_DRQ = 8 /\ CF_RDY = 64 /\ CF_BUSY = 128
                  /\ CF_ERR \in Flags /\ CF_DRQ \in Flags /\ CF_RDY \in Flags
                  /\ CF_BUSY \in Flags
  BY DEF CF_ERR, CF_DRQ, CF_RDY, CF_BUSY, Flags

LEMMA InitSound == \A d : Sound(d, INIT_CARD)
<1>1. status(INIT_CARD) = 64 /\ INIT_CARD.seek_ptr = "null"
      /\ INIT_CARD.error_register = 0
  BY DEF INIT_CARD, status, CF_STATUS_CMD, CF_LBA_27_24_MODE, CF_RDY, NoTransfer
<1>2. HasBit(64, 64) /\ ~HasBit(64, 8) /\ ~HasBit(64, 128)
  BY DEF HasBit
<1> QED BY <1>1, <1>2, FlagsAre, InitType
      DEF Sound, Requested, Live, Transferring, NoTransfer

\* Writing the status register, and nothing else, to what it is.
LEMMA StatusWritten ==
  ASSUME NEW cf \in Card, NEW s \in Byte
  PROVE  /\ WithStatus(cf, s) \in Card
         /\ status(WithStatus(cf, s)) = s
         /\ WithStatus(cf, s).seek_ptr = cf.seek_ptr
         /\ WithStatus(cf, s).pos = cf.pos
         /\ WithStatus(cf, s).region_size = cf.region_size
         /\ WithStatus(cf, s).error_register = cf.error_register
         /\ WithStatus(cf, s).exited = cf.exited
  BY WithStatusType, RegisterNumbers DEF WithStatus, status, Card

\* An error is marked; nothing else happens to the card.
LEMMA AbortSound ==
  ASSUME NEW d, NEW cf, Sound(d, cf), cf.error_register = 0
  PROVE  /\ Sound(d, cf_abort(cf))
         /\ cf_abort(cf).seek_ptr = cf.seek_ptr /\ cf_abort(cf).pos = cf.pos
         /\ cf_abort(cf).region_size = cf.region_size
         /\ cf_abort(cf).exited = cf.exited
<1> DEFINE s == SetBits(status(cf), {CF_ERR})
           c == WithStatus(cf, s)
<1>1. cf \in Card /\ s \in Byte
  BY BitsType DEF Sound
<1>2. \A w \in Flags : w # CF_ERR => (HasBit(s, w) <=> HasBit(status(cf), w))
  BY BitsChanged
<1> HIDE DEF s
<1>3. /\ c \in Card /\ status(c) = s /\ c.seek_ptr = cf.seek_ptr /\ c.pos = cf.pos
      /\ c.region_size = cf.region_size /\ c.error_register = 0
      /\ c.exited = cf.exited
  BY <1>1, StatusWritten
<1>4. SetBits(0, {1, 4}) = 5
  <2>1. \A w \in Weights : ~HasBit(0, w)
    BY DEF HasBit, Weights
  <2>2. BitsOf(0) \cup {1, 4} = {1, 4}
    BY <2>1 DEF BitsOf
  <2> QED BY <2>2 DEF SetBits, ByteOf, Part
<1> HIDE DEF c
<1>5. cf_abort(cf) = [c EXCEPT !.error_register = 5]
  BY <1>3, <1>4 DEF cf_abort, c, s, Card
<1>6. 5 \in Byte
  BY ByteRange
<1>7. /\ cf_abort(cf) \in Card /\ status(cf_abort(cf)) = s
      /\ cf_abort(cf).seek_ptr = cf.seek_ptr /\ cf_abort(cf).pos = cf.pos
      /\ cf_abort(cf).region_size = cf.region_size
      /\ cf_abort(cf).exited = cf.exited
      /\ cf_abort(cf).error_register = 5
  BY <1>3, <1>5, <1>6 DEF Card, status
<1> QED BY <1>2, <1>7, FlagsAre DEF Sound, Requested, Live, Transferring, Room
\* A transfer of some bytes, all of them in the buffer.
LEMMA SeekSound ==
  ASSUME NEW d, NEW cf, Sound(d, cf), NEW buf \in Buffers, NEW at \in Nat,
         NEW size \in 0..SIZE_T-1, size > 0,
         at + size <= IF buf = "ident" THEN SECTOR ELSE Len(d)
  PROVE  /\ Sound(d, seek_to(cf, buf, at, size))
         /\ seek_to(cf, buf, at, size).seek_ptr = buf
         /\ seek_to(cf, buf, at, size).pos = at
         /\ seek_to(cf, buf, at, size).region_size = size
         /\ seek_to(cf, buf, at, size).exited = cf.exited
<1> DEFINE ready == ClearBits(SetBits(status(cf), {CF_DRQ, CF_RDY}), {CF_BUSY})
           c == WithStatus(cf, ready)
           sought == seek_to(cf, buf, at, size)
<1>1. cf \in Card /\ ready \in Byte
  BY BitsType DEF Sound
<1>2. HasBit(ready, CF_DRQ) /\ HasBit(ready, CF_RDY) /\ ~HasBit(ready, CF_BUSY)
  BY FlagsAre, BitsChanged
<1> HIDE DEF ready
<1>3. /\ c \in Card /\ status(c) = ready /\ c.error_register = cf.error_register
      /\ c.exited = cf.exited
  BY <1>1, StatusWritten
<1>4. sought = [c EXCEPT !.seek_ptr = buf, !.pos = at, !.region_size = size]
  BY DEF seek_to, c, ready
<1> HIDE DEF c, sought
<1>5. /\ sought \in Card /\ status(sought) = ready /\ sought.seek_ptr = buf
      /\ sought.pos = at /\ sought.region_size = size
      /\ sought.error_register = cf.error_register /\ sought.exited = cf.exited
  BY <1>3, <1>4 DEF Card, status
<1>6. Transferring(sought) /\ Room(d, sought) = IF buf = "ident" THEN SECTOR ELSE Len(d)
  BY <1>5 DEF Transferring, Room, Buffers, NoTransfer
<1>7. Sound(d, sought)
  BY <1>2, <1>5, <1>6 DEF Sound, Requested, Live
<1> QED BY <1>5, <1>7 DEF sought

LEMMA ClearedSound ==
  ASSUME NEW d, NEW cf, Sound(d, cf)
  PROVE  /\ Sound(d, [cf EXCEPT !.error_register = 0])
         /\ [cf EXCEPT !.error_register = 0].error_register = 0
         /\ [cf EXCEPT !.error_register = 0].seek_ptr = cf.seek_ptr
         /\ [cf EXCEPT !.error_register = 0].pos = cf.pos
         /\ [cf EXCEPT !.error_register = 0].region_size = cf.region_size
         /\ [cf EXCEPT !.error_register = 0].exited = cf.exited
         /\ [cf EXCEPT !.error_register = 0].registers = cf.registers
<1>1. 0 \in Byte
  BY ByteRange
<1> QED BY <1>1 DEF Sound, Card, Requested, Live, Transferring, Room, status

LEMMA ExitedSound ==
  ASSUME NEW d, NEW cf, Sound(d, cf)
  PROVE  /\ Sound(d, [cf EXCEPT !.exited = TRUE])
         /\ [cf EXCEPT !.exited = TRUE].exited
  BY DEF Sound, Card, Requested, Live, Transferring, Room, status

\* The same transfer, or none, in two cards.
SameTransfer(a, b) ==
  a.seek_ptr = b.seek_ptr /\ a.pos = b.pos /\ a.region_size = b.region_size

\* What a command does: it starts a transfer of whole sectors of the disk or
\* of the identification, or it ends the emulator, or it leaves the transfer.
Fetches(d, cf, from, n) ==
  /\ cf.seek_ptr = "disk" /\ from \in Nat /\ n \in Nat \ {0}
  /\ cf.pos = SECTOR * from /\ cf.region_size = SECTOR * n
  /\ SECTOR * (from + n) <= Len(d)
Identifies(cf) == cf.seek_ptr = "ident" /\ cf.pos = 0 /\ cf.region_size = SECTOR

LEMMA ReadSound ==
  ASSUME NEW d \in Seq(Byte), NEW cf, Sound(d, cf), Reg(cf, CF_SECTOR_COUNT) # 0
  PROVE  /\ Sound(d, ReadSectors(cf, d))
         /\ ~ReadSectors(cf, d).exited =>
              Fetches(d, ReadSectors(cf, d), SectorAddr(cf), Reg(cf, CF_SECTOR_COUNT))
<1>1. CASE LbaMode(cf) /\ ByteAddr(cf) + ByteSize(cf) <= Len(d)
  <2> DEFINE n == Reg(cf, CF_SECTOR_COUNT)
             from == SectorAddr(cf)
             r == ReadSectors(cf, d)
  <2>1. r = seek_to(cf, "disk", ByteAddr(cf), ByteSize(cf))
    BY <1>1 DEF ReadSectors
  <2>2. SECTOR \in Nat \ {0}
    BY SectorAssumption
  <2>3. n \in Nat \ {0} /\ from \in Nat
    BY SizesType DEF Sound
  <2> HIDE DEF n, from
  <2>4. ByteAddr(cf) = from * SECTOR /\ ByteSize(cf) = SECTOR * n
    BY DEF ByteAddr, ByteSize, n, from
  <2>5. SECTOR * n > 0 /\ from * SECTOR = SECTOR * from
    BY <2>2, <2>3
  <2>6. ByteAddr(cf) \in Nat /\ ByteSize(cf) \in 0..SIZE_T-1
    BY SizesType DEF Sound
  <2> HIDE DEF r
  <2>7. /\ Sound(d, r) /\ r.seek_ptr = "disk" /\ r.pos = ByteAddr(cf)
        /\ r.region_size = ByteSize(cf)
    BY <1>1, <2>1, <2>4, <2>5, <2>6, SeekSound DEF Buffers
  <2>8. SECTOR * (from + n) = SECTOR * from + SECTOR * n
    BY <2>2, <2>3
  <2>9. SECTOR * (from + n) <= Len(d)
    BY <1>1, <2>4, <2>5, <2>8
  <2>10. Fetches(d, r, from, n)
    BY <2>3, <2>4, <2>5, <2>7, <2>9 DEF Fetches
  <2> QED BY <2>7, <2>10 DEF r, n, from
<1>2. CASE ~(LbaMode(cf) /\ ByteAddr(cf) + ByteSize(cf) <= Len(d))
  BY <1>2, ExitedSound DEF ReadSectors
<1> QED BY <1>1, <1>2
\* The card c that a command leaves.
Commanded(d, cf, cmd, c) ==
  /\ Sound(d, c)
  /\ cmd \in {32, 33, 236} /\ ~c.exited =>
       Identifies(c) \/ \E from, n \in Nat : Fetches(d, c, from, n)
  /\ cmd \notin {32, 33, 236} \/ c.exited => SameTransfer(c, cf)

LEMMA CommandSound ==
  ASSUME NEW d \in Seq(Byte), NEW cf, Sound(d, cf), ~cf.exited, NEW cmd,
         cmd \in {32, 33} => Reg(cf, CF_SECTOR_COUNT) # 0
  PROVE  Commanded(d, cf, cmd, cf_command(cf, d, cmd))
<1> DEFINE clear == [cf EXCEPT !.error_register = 0]
           c == cf_command(cf, d, cmd)
<1>1. /\ Sound(d, clear) /\ clear.error_register = 0 /\ SameTransfer(clear, cf)
      /\ ~clear.exited /\ clear.registers = cf.registers
  BY ClearedSound DEF SameTransfer
<1>2. clear \in Card
  BY <1>1 DEF Sound
<1>3. c = CASE cmd \in {32, 33} -> ReadSectors(clear, d)
            [] cmd = 236        -> seek_to(clear, "ident", 0, SECTOR)
            [] cmd = 239        -> SetFeature(clear)
            [] OTHER            -> cf_abort(clear)
  BY DEF cf_command
<1> SUFFICES Commanded(d, cf, cmd, c)
  OBVIOUS
<1> HIDE DEF clear, c
<1>4. CASE cmd \in {32, 33}
  <2>1. c = ReadSectors(clear, d) /\ Reg(clear, CF_SECTOR_COUNT) # 0
    BY <1>1, <1>3, <1>4 DEF Reg
  <2>2. /\ Sound(d, c)
        /\ ~c.exited => Fetches(d, c, SectorAddr(clear), Reg(clear, CF_SECTOR_COUNT))
    BY <1>1, <2>1, ReadSound
  <2>3. SectorAddr(clear) \in Nat /\ Reg(clear, CF_SECTOR_COUNT) \in Nat
    BY <1>2, SizesType
  <2>4. c.exited => SameTransfer(c, cf)
    <3>1. CASE LbaMode(clear) /\ ByteAddr(clear) + ByteSize(clear) <= Len(d)
      <4>1. c = seek_to(clear, "disk", ByteAddr(clear), ByteSize(clear))
        BY <2>1, <3>1 DEF ReadSectors
      <4>2. c.exited = clear.exited
        BY <1>2, <4>1 DEF seek_to, WithStatus, Card
      <4> QED BY <1>1, <4>2
    <3>2. CASE ~(LbaMode(clear) /\ ByteAddr(clear) + ByteSize(clear) <= Len(d))
      <4>1. c = [clear EXCEPT !.exited = TRUE]
        BY <2>1, <3>2 DEF ReadSectors
      <4> QED BY <1>1, <1>2, <4>1 DEF SameTransfer, Card
    <3> QED BY <3>1, <3>2
  <2>5. SameTransfer(c, clear) => SameTransfer(c, cf)
    BY <1>1 DEF SameTransfer
  <2> QED BY <1>4, <2>2, <2>3, <2>4 DEF Commanded
<1>5. CASE cmd = 236
  <2>1. SECTOR \in Nat /\ SECTOR > 0 /\ SECTOR \in 0..SIZE_T-1
    BY SectorAssumption
  <2>2. c = seek_to(clear, "ident", 0, SECTOR)
    BY <1>3, <1>5
  <2>3. Sound(d, c) /\ Identifies(c) /\ c.exited = clear.exited
    <3>1. 0 + SECTOR <= SECTOR /\ "ident" \in Buffers /\ 0 \in Nat
      BY <2>1 DEF Buffers
    <3> QED BY <1>1, <2>1, <2>2, <3>1, SeekSound DEF Identifies
  <2> QED BY <1>1, <1>5, <2>3 DEF Commanded
<1>6. CASE cmd \notin {32, 33, 236}
  <2>1. c = clear \/ c = [clear EXCEPT !.feat_8bit = TRUE]
        \/ c = [clear EXCEPT !.feat_8bit = FALSE] \/ c = cf_abort(clear)
    BY <1>3, <1>6 DEF SetFeature
  <2>2. c = cf_abort(clear) => Sound(d, c) /\ SameTransfer(c, clear)
    BY <1>1, AbortSound DEF SameTransfer
  <2>3. c # cf_abort(clear) => Sound(d, c) /\ SameTransfer(c, clear)
    <3>1. SUFFICES ASSUME c # cf_abort(clear)
                   PROVE  Sound(d, c) /\ SameTransfer(c, clear)
      OBVIOUS
    <3>2. c \in Card /\ SameTransfer(c, clear) /\ status(c) = status(clear)
          /\ c.error_register = clear.error_register
      BY <1>2, <2>1, <3>1 DEF Card, SameTransfer, status
    <3> QED
      BY <1>1, <3>2 DEF Sound, SameTransfer, Requested, Live, Transferring, Room
  <2>4. Sound(d, c) /\ SameTransfer(c, clear)
    BY <2>2, <2>3
  <2> QED BY <1>1, <1>6, <2>4 DEF Commanded, SameTransfer
<1> QED BY <1>4, <1>5, <1>6

\* A byte is handed over.
LEMMA AdvancedSound ==
  ASSUME NEW d, NEW cf, Sound(d, cf), Transferring(cf)
  PROVE  /\ Sound(d, Advanced(cf))
         /\ IF cf.region_size = 1 THEN ~Transferring(Advanced(cf))
            ELSE /\ Advanced(cf).seek_ptr = cf.seek_ptr
                 /\ Advanced(cf).pos = cf.pos + 1
                 /\ Advanced(cf).region_size = cf.region_size - 1
<1> DEFINE left == (cf.region_size - 1) % SIZE_T
           moved == [cf EXCEPT !.pos = @ + 1, !.region_size = left]
           s == ClearBits(status(cf), {CF_DRQ})
           c == WithStatus(moved, s)
           last == [c EXCEPT !.seek_ptr = NoTransfer, !.pos = 0]
<1>1. SIZE_T \in Nat \ {0} /\ cf \in Card
  BY SectorAssumption DEF Sound
<1>2. cf.region_size \in 1..SIZE_T-1 /\ cf.pos \in Nat
  BY <1>1 DEF Sound, Card
<1>3. left = cf.region_size - 1 /\ left \in 0..SIZE_T-1
  BY <1>1, <1>2
<1> HIDE DEF left
<1>4. /\ moved \in Card /\ moved.pos = cf.pos + 1 /\ moved.region_size = left
      /\ moved.seek_ptr = cf.seek_ptr /\ status(moved) = status(cf)
      /\ moved.error_register = cf.error_register
  <2>1. cf.pos + 1 \in Nat
    BY <1>2
  <2> QED BY <1>1, <1>3, <2>1 DEF Card, status
<1>5. Advanced(cf) = IF left > 0 THEN moved ELSE last
  BY DEF Advanced, left
<1>6. CASE left > 0
  <2>1. moved.pos + moved.region_size = cf.pos + cf.region_size
    BY <1>2, <1>3, <1>4
  <2>2. Advanced(cf) = moved /\ cf.region_size # 1
    BY <1>2, <1>3, <1>5, <1>6
  <2> HIDE DEF moved
  <2>3. Sound(d, moved)
    BY <1>4, <1>6, <2>1 DEF Sound, Requested, Live, Transferring, Room
  <2> QED BY <1>3, <1>4, <2>2, <2>3
<1>7. CASE ~(left > 0)
  <2>1. s \in Byte /\ ~HasBit(s, CF_DRQ)
        /\ \A w \in Flags : w # CF_DRQ => (HasBit(s, w) <=> HasBit(status(cf), w))
    BY BitsType, FlagsAre, BitsChanged
  <2> HIDE DEF s, moved
  <2>2. c \in Card /\ status(c) = s /\ c.error_register = cf.error_register
    BY <1>4, <2>1, StatusWritten
  <2> HIDE DEF c
  <2>3. /\ last \in Card /\ status(last) = s /\ last.error_register = cf.error_register
        /\ ~Transferring(last)
    BY <2>2 DEF Card, status, Transferring, NoTransfer
  <2>4. Advanced(cf) = last /\ cf.region_size = 1
    BY <1>2, <1>3, <1>5, <1>7
  <2> HIDE DEF last
  <2>5. Sound(d, last)
    BY <2>1, <2>3, FlagsAre DEF Sound, Requested, Live
  <2> QED BY <2>3, <2>4, <2>5
<1> QED BY <1>6, <1>7
-----------------------------------------------------------------------------
(* The steps of the program.                                               *)

HostInv == /\ disk \in Disks /\ acc \in Byte /\ data \in Seq(Byte)
           /\ Sound(disk, card)
           /\ disk = NoDisk => card = INIT_CARD

LEMMA HostInit == Init => HostInv
<1>1. 0 \in Byte
  BY ByteRange
<1> QED BY <1>1, InitSound DEF Init, HostInv

\* Writing a register that is neither the status nor the command.
LEMMA RegisterSound ==
  ASSUME NEW d, NEW cf, Sound(d, cf), NEW r \in 0..7, r # CF_STATUS_CMD,
         NEW b \in Byte
  PROVE  /\ Sound(d, AfterWrite(cf, d, r, b))
         /\ SameTransfer(AfterWrite(cf, d, r, b), cf)
<1> DEFINE c == [cf EXCEPT !.registers[r] = b]
<1>1. c \in Card
  BY WrittenType DEF Sound
<1>2. /\ SameTransfer(c, cf) /\ status(c) = status(cf)
      /\ c.error_register = cf.error_register
  BY RegisterNumbers DEF SameTransfer, status, Sound, Card
<1>3. AfterWrite(cf, d, r, b) = IF d = NoDisk THEN cf ELSE c
  BY DEF AfterWrite
<1> HIDE DEF c
<1>4. Sound(d, c)
  BY <1>1, <1>2 DEF Sound, SameTransfer, Requested, Live, Transferring, Room
<1> QED BY <1>2, <1>3, <1>4 DEF SameTransfer

LEMMA SetRegisterStep ==
  ASSUME HostInv, SetRegister
  PROVE  HostInv' /\ SameTransfer(card', card) /\ UNCHANGED <<disk, data>>
<1>1. PICK r \in 0..7, b \in Byte : r # CF_STATUS_CMD /\ Writes(r, b)
  <2>1. CF_SECTOR_COUNT # CF_STATUS_CMD /\ CF_LBA_7_0 # CF_STATUS_CMD
        /\ CF_LBA_27_24_MODE # CF_STATUS_CMD /\ CF_ERROR_FEATURE # CF_STATUS_CMD
    BY DEF CF_SECTOR_COUNT, CF_STATUS_CMD, CF_LBA_7_0, CF_LBA_27_24_MODE,
           CF_ERROR_FEATURE
  <2> QED BY <2>1, RegisterNumbers, HostAssumption DEF SetRegister
<1>2. /\ card' = AfterWrite(card, disk, r, b) /\ acc' = b /\ disk' = disk
      /\ data' = data
  BY <1>1 DEF Writes, SetRegister
<1>3. Sound(disk, card') /\ SameTransfer(card', card)
  BY <1>1, <1>2, RegisterSound DEF HostInv
<1>4. disk = NoDisk => card' = INIT_CARD
  BY <1>2 DEF HostInv, AfterWrite
<1> QED BY <1>2, <1>3, <1>4 DEF HostInv

LEMMA GiveCommandStep ==
  ASSUME HostInv, ~MayReadNone, GiveCommand
  PROVE  /\ HostInv' /\ disk' = disk
         /\ \/ SameTransfer(card', card) /\ data' = data
            \/ /\ disk # NoDisk /\ data' = <<>>
               /\ Identifies(card')
                  \/ \E from, n \in Nat : Fetches(disk, card', from, n)
<1>1. PICK cmd \in Commands : /\ Sensible(cmd) /\ Writes(CF_STATUS_CMD, cmd)
                              /\ data' = IF Starts(cmd) THEN <<>> ELSE data
  BY DEF GiveCommand
<1>2. /\ ~card.exited /\ acc' = cmd /\ disk' = disk
      /\ card' = AfterWrite(card, disk, CF_STATUS_CMD, cmd)
  BY <1>1 DEF Writes
<1>3. cmd \in Byte /\ disk \in Seq(Byte)
  BY HostAssumption, DiskAssumption DEF HostInv
<1>4. CASE disk = NoDisk
  <2>1. card' = card /\ data' = data
    BY <1>1, <1>2, <1>4 DEF AfterWrite, Starts
  <2> QED BY <1>2, <1>3, <2>1 DEF HostInv, SameTransfer
<1>5. CASE disk # NoDisk
  <2>1. card' = cf_command(card, disk, cmd)
    BY <1>2, <1>5 DEF AfterWrite
  <2>2. Commanded(disk, card, cmd, card')
    BY <1>1, <1>2, <1>3, <2>1, CommandSound DEF HostInv, Sensible
  <2>3. data' \in Seq(Byte)
    BY <1>1 DEF HostInv
  <2>4. HostInv'
    BY <1>2, <1>3, <1>5, <2>2, <2>3 DEF HostInv, Commanded
  <2> QED BY <1>1, <1>2, <1>5, <2>2, <2>4 DEF Commanded, Starts
<1> QED BY <1>4, <1>5

\* A read of the data register while there is a transfer moves it on by one
\* byte; any other read moves nothing.
LEMMA ReadsStep ==
  ASSUME HostInv, NEW r \in 0..7, Reads(r)
  PROVE  /\ acc' \in Byte /\ disk' = disk /\ Sound(disk, card')
         /\ disk = NoDisk => card' = INIT_CARD
         /\ IF disk # NoDisk /\ r = CF_DATA /\ Transferring(card)
            THEN /\ card' = Advanced(card)
                 /\ \E wild \in Byte : acc' = ByteAt(card, disk, wild)
            ELSE card' = card
<1>1. PICK wild \in WildBytes : acc' = ReadValue(card, disk, r, acc, wild)
  BY DEF Reads
<1>2. card' = AfterRead(card, disk, r) /\ disk' = disk
  BY DEF Reads
<1>3. wild \in Byte /\ disk \in Seq(Byte) /\ card \in Card
  BY WildAssumption, DiskAssumption DEF HostInv, Sound
<1>4. acc' \in Byte
  BY <1>1, <1>3, ReadValueType DEF HostInv
<1>5. CASE disk # NoDisk /\ r = CF_DATA /\ Transferring(card)
  <2>1. card' = Advanced(card)
    BY <1>2, <1>5 DEF AfterRead
  <2>2. acc' = ByteAt(card, disk, wild)
    BY <1>1, <1>5 DEF ReadValue, CF_DATA, CF_ERROR_FEATURE
  <2>3. Sound(disk, card')
    BY <1>5, <2>1, AdvancedSound DEF HostInv
  <2> QED BY <1>2, <1>3, <1>4, <1>5, <2>1, <2>2, <2>3
<1>6. CASE ~(disk # NoDisk /\ r = CF_DATA /\ Transferring(card))
  <2>1. card' = card
    BY <1>2, <1>6 DEF AfterRead
  <2> QED BY <1>2, <1>4, <1>6, <2>1 DEF HostInv
<1> QED BY <1>5, <1>6

LEMMA ReadRegisterStep ==
  ASSUME HostInv, ReadRegister
  PROVE  HostInv' /\ card' = card /\ UNCHANGED <<disk, data>>
<1>1. PICK r \in 0..7 : r # CF_DATA /\ Reads(r)
  <2>1. CF_ERROR_FEATURE # CF_DATA /\ CF_SECTOR_COUNT # CF_DATA
        /\ CF_STATUS_CMD # CF_DATA
    BY DEF CF_DATA, CF_ERROR_FEATURE, CF_SECTOR_COUNT, CF_STATUS_CMD
  <2> QED BY <2>1, RegisterNumbers DEF ReadRegister
<1>2. data' = data
  BY DEF ReadRegister
<1> QED BY <1>1, <1>2, ReadsStep DEF HostInv

LEMMA ReadDataStep ==
  ASSUME HostInv, ReadData
  PROVE  /\ HostInv' /\ disk' = disk
         /\ \/ card' = card /\ data' = data
            \/ /\ disk # NoDisk /\ Transferring(card) /\ card' = Advanced(card)
               /\ data' = Append(data, acc')
               /\ \E wild \in Byte : acc' = ByteAt(card, disk, wild)
<1>1. /\ Reads(CF_DATA)
      /\ data' = IF disk # NoDisk /\ Transferring(card) THEN Append(data, acc')
                 ELSE data
  BY DEF ReadData
<1>2. CF_DATA \in 0..7
  BY RegisterNumbers
<1>3. acc' \in Byte /\ data' \in Seq(Byte)
  BY <1>1, <1>2, ReadsStep DEF HostInv
<1> QED BY <1>1, <1>2, <1>3, ReadsStep DEF HostInv
-----------------------------------------------------------------------------
(* What is left of a transfer.                                             *)

\* The byte at position p of a buffer, when there is one.
Content(d, buf, p) ==
  CASE buf = "ident" /\ p < SECTOR -> ident_buffer(p)
    [] buf = "disk" /\ p < Len(d)  -> d[p + 1]
    [] OTHER                       -> 0

LEMMA RemainingIs ==
  ASSUME NEW d, NEW cf \in Card, Transferring(cf)
  PROVE  RemainingOf(d, cf)
           = [i \in 1..cf.region_size |-> Content(d, cf.seek_ptr, cf.pos + i - 1)]
<1>1. ASSUME NEW i \in 1..cf.region_size
      PROVE  ByteAt([cf EXCEPT !.pos = @ + i - 1], d, 0)
               = Content(d, cf.seek_ptr, cf.pos + i - 1)
  <2> DEFINE c == [cf EXCEPT !.pos = @ + i - 1]
  <2>1. c.seek_ptr = cf.seek_ptr /\ c.pos = cf.pos + i - 1
    BY DEF Card
  <2> HIDE DEF c
  <2>2. ByteAt(c, d, 0) = Content(d, c.seek_ptr, c.pos)
    BY DEF ByteAt, Content
  <2> QED BY <2>1, <2>2 DEF c
<1> QED BY <1>1 DEF RemainingOf

LEMMA SameRemaining ==
  ASSUME NEW d, NEW a \in Card, NEW b \in Card, SameTransfer(a, b)
  PROVE  RemainingOf(d, a) = RemainingOf(d, b)
<1>1. CASE Transferring(a)
  <2>1. Transferring(b)
    BY <1>1 DEF SameTransfer, Transferring
  <2>2. RemainingOf(d, a)
          = [i \in 1..a.region_size |-> Content(d, a.seek_ptr, a.pos + i - 1)]
    BY <1>1, RemainingIs
  <2>3. RemainingOf(d, b)
          = [i \in 1..b.region_size |-> Content(d, b.seek_ptr, b.pos + i - 1)]
    BY <2>1, RemainingIs
  <2>4. a.region_size = b.region_size /\ a.seek_ptr = b.seek_ptr /\ a.pos = b.pos
    BY DEF SameTransfer
  <2> QED BY <2>2, <2>3, <2>4
<1>2. CASE ~Transferring(a)
  BY <1>2 DEF SameTransfer, Transferring, RemainingOf
<1> QED BY <1>1, <1>2

\* A transfer that has just been started is one of those that can be asked
\* for.
LEMMA FetchedIsRequestable ==
  ASSUME NEW d \in Disks, NEW cf, Sound(d, cf),
         Identifies(cf) \/ \E from, n \in Nat : Fetches(d, cf, from, n)
  PROVE  RemainingOf(d, cf) \in Requestable
<1>1. cf \in Card /\ SECTOR \in Nat /\ SECTOR >= 1 /\ d \in Seq(Byte)
  BY SectorAssumption, DiskAssumption DEF Sound
<1>2. CASE Identifies(cf)
  <2>1. Transferring(cf) /\ cf.pos = 0 /\ cf.region_size = SECTOR
        /\ cf.seek_ptr = "ident"
    BY <1>2 DEF Identifies, Transferring, NoTransfer
  <2>2. \A i \in 1..SECTOR : Content(d, "ident", 0 + i - 1) = ident_buffer(i - 1)
    BY <1>1 DEF Content
  <2>3. RemainingOf(d, cf) = [i \in 1..SECTOR |-> Content(d, "ident", 0 + i - 1)]
    BY <1>1, <2>1, RemainingIs
  <2>4. RemainingOf(d, cf) = Identification
    BY <2>2, <2>3 DEF Identification
  <2> QED BY <2>4 DEF Requestable
<1>3. ASSUME NEW from \in Nat, NEW n \in Nat, Fetches(d, cf, from, n)
      PROVE  RemainingOf(d, cf) \in Requestable
  <2> DEFINE first == SECTOR * from
             size == SECTOR * n
  <2>1. /\ Transferring(cf) /\ cf.seek_ptr = "disk"
        /\ cf.pos = first /\ cf.region_size = size
    BY <1>3 DEF Fetches, Transferring, NoTransfer
  <2>2. n >= 1 /\ SECTOR * (from + n) <= Len(d) /\ Len(d) \in Nat
    BY <1>1, <1>3 DEF Fetches
  <2>3. /\ first \in Nat /\ size \in Nat /\ first >= from /\ size >= n
        /\ SECTOR * (from + n) = first + size
    BY <1>1
  <2>4. <<from, n>> \in Runs(d)
    <3>1. from \in 0..Len(d) /\ n \in 1..Len(d)
      BY <2>2, <2>3
    <3> QED BY <2>2, <3>1 DEF Runs
  <2> HIDE DEF first, size
  <2>5. \A i \in 1..size : Content(d, "disk", first + i - 1) = d[first + i]
    <3>1. SUFFICES ASSUME NEW i \in 1..size
                   PROVE  Content(d, "disk", first + i - 1) = d[first + i]
      OBVIOUS
    <3>2. first + i - 1 < Len(d) /\ first + i - 1 + 1 = first + i
      BY <2>2, <2>3
    <3> QED BY <3>2 DEF Content
  <2>6. RemainingOf(d, cf) = [i \in 1..size |-> Content(d, "disk", first + i - 1)]
    BY <1>1, <2>1, RemainingIs
  <2>7. RemainingOf(d, cf) = Slice(d, first, size)
    BY <2>5, <2>6 DEF Slice
  <2>8. RemainingOf(d, cf)
          \in {Slice(d, SECTOR * an[1], SECTOR * an[2]) : an \in Runs(d)}
    BY <2>4, <2>7 DEF first, size
  <2> QED BY <2>8 DEF Requestable
<1> QED BY <1>2, <1>3

LEMMA TailIs ==
  ASSUME NEW S, NEW s \in Seq(S), s # <<>>
  PROVE  Tail(s) = [i \in 1..(Len(s) - 1) |-> s[i + 1]]
<1>1. /\ Tail(s) \in Seq(S) /\ Len(Tail(s)) = Len(s) - 1
      /\ \A i \in 1..Len(Tail(s)) : Tail(s)[i] = s[i + 1]
  BY HeadTailProperties
<1> DEFINE t == Tail(s)
<1>2. t = [i \in 1..Len(t) |-> t[i]]
  <2>1. t \in Seq(S)
    BY <1>1
  <2> HIDE DEF t
  <2> QED BY <2>1
<1> QED BY <1>1, <1>2

\* A read takes the first byte of the rest, and leaves the others.
LEMMA TakenIsHead ==
  ASSUME NEW d \in Seq(Byte), NEW cf, Sound(d, cf), Transferring(cf)
  PROVE  /\ RemainingOf(d, cf) # <<>>
         /\ \A wild : ByteAt(cf, d, wild) = Head(RemainingOf(d, cf))
         /\ RemainingOf(d, Advanced(cf)) = Tail(RemainingOf(d, cf))
<1> DEFINE size == cf.region_size
           f(p) == Content(d, cf.seek_ptr, p)
           rest == [i \in 1..size |-> f(cf.pos + i - 1)]
           c == Advanced(cf)
<1>1. cf \in Card /\ c \in Card
  BY AdvancedType DEF Sound
<1>2. size \in Nat /\ size > 0 /\ cf.pos \in Nat /\ cf.pos + size <= Room(d, cf)
  BY <1>1, SectorAssumption DEF Sound, Card
<1>3. RemainingOf(d, cf) = rest
  BY <1>1, RemainingIs
<1>4. ASSUME NEW wild PROVE ByteAt(cf, d, wild) = f(cf.pos)
  <2>1. cf.seek_ptr \in Buffers /\ SECTOR \in Nat /\ Len(d) \in Nat
    BY <1>1, SectorAssumption DEF Card, Transferring
  <2>2. cf.pos < IF cf.seek_ptr = "ident" THEN SECTOR ELSE Len(d)
    BY <1>2, <2>1 DEF Room
  <2> QED BY <2>1, <2>2 DEF ByteAt, Content, Buffers
<1> HIDE DEF f
<1>5. rest # <<>> /\ Head(rest) = f(cf.pos)
      /\ Tail(rest) = [i \in 1..(size - 1) |-> f(cf.pos + (i + 1) - 1)]
  <2>1. rest \in Seq({f(p) : p \in Int}) /\ Len(rest) = size
    BY <1>2
  <2>2. rest # <<>>
    BY <1>2, <2>1
  <2>3. Head(rest) = rest[1] /\ rest[1] = f(cf.pos + 1 - 1) /\ cf.pos + 1 - 1 = cf.pos
    BY <1>2, <2>1, <2>2
  <2>4. \A i \in 1..(size - 1) : rest[i + 1] = f(cf.pos + (i + 1) - 1)
    BY <1>2
  <2>5. Tail(rest) = [i \in 1..(Len(rest) - 1) |-> rest[i + 1]]
    <3> HIDE DEF rest
    <3> QED BY <2>1, <2>2, TailIs
  <2> HIDE DEF rest
  <2> QED BY <2>1, <2>2, <2>3, <2>4, <2>5
<1>6. RemainingOf(d, c) = Tail(rest)
  <2>1. CASE size = 1
    <3>1. ~Transferring(c)
      BY <2>1, AdvancedSound
    <3>2. RemainingOf(d, c) = <<>>
      BY <3>1 DEF RemainingOf
    <3>3. Tail(rest) = <<>>
      BY <1>5, <2>1
    <3> QED BY <3>2, <3>3
  <2>2. CASE size # 1
    <3>1. /\ c.seek_ptr = cf.seek_ptr /\ c.pos = cf.pos + 1
          /\ c.region_size = size - 1
      BY <2>2, AdvancedSound
    <3>2. Transferring(c)
      BY <3>1 DEF Transferring
    <3>3. RemainingOf(d, c) = [i \in 1..(size - 1) |-> f(cf.pos + 1 + i - 1)]
      BY <1>1, <3>1, <3>2, RemainingIs DEF f
    <3>4. \A i \in 1..(size - 1) : cf.pos + 1 + i - 1 = cf.pos + (i + 1) - 1
      BY <1>2
    <3> QED BY <1>5, <3>3, <3>4
  <2> QED BY <2>1, <2>2
<1> QED BY <1>3, <1>4, <1>5, <1>6 DEF f
-----------------------------------------------------------------------------
(* The theorems.                                                           *)

LEMMA HostNext == HostInv /\ ~MayReadNone /\ [Next]_hostVars => HostInv'
<1> SUFFICES ASSUME HostInv, ~MayReadNone, [Next]_hostVars
             PROVE  HostInv'
  OBVIOUS
<1>1. CASE SetRegister
  BY <1>1, SetRegisterStep
<1>2. CASE GiveCommand
  BY <1>2, GiveCommandStep
<1>3. CASE ReadData
  BY <1>3, ReadDataStep
<1>4. CASE ReadRegister
  BY <1>4, ReadRegisterStep
<1>5. CASE UNCHANGED hostVars
  BY <1>5 DEF HostInv, hostVars
<1> QED BY <1>1, <1>2, <1>3, <1>4, <1>5 DEF Next

LEMMA HostInvariant == ~MayReadNone => (Spec => []HostInv)
<1> SUFFICES ASSUME ~MayReadNone PROVE Spec => []HostInv
  OBVIOUS
<1>1. Init => HostInv
  BY HostInit
<1>2. HostInv /\ [Next]_hostVars => HostInv'
  BY HostNext
<1> QED BY <1>1, <1>2, PTL DEF Spec

\* The registers are bytes and a transfer's position and size are numbers the
\* code's size_t holds, as long as no read of zero sectors is asked for.
THEOREM TypeCorrect == ~MayReadNone => (Spec => []TypeOK)
<1>1. HostInv => TypeOK
  BY DEF HostInv, Sound, TypeOK
<1> QED BY <1>1, HostInvariant, PTL

\* As long as the program asks for at least one sector, the card never reads
\* beyond the end of the disk or of the identification, with any disk, any
\* sector size and any order of register accesses (ios_compactflash.c:52).
THEOREM StaysInBufferTheorem == ~MayReadNone => (Spec => []StaysInBuffer)
<1>1. HostInv => StaysInBuffer
  BY DEF HostInv, Sound, Room, StaysInBuffer, BufferSize
<1> QED BY <1>1, HostInvariant, PTL

\* The data-request bit is set exactly while the data register has a byte
\* (ios_compactflash.c:30-45, 228-243).
THEOREM DrqMeansDataTheorem == ~MayReadNone => (Spec => []DrqMeansData)
<1>1. HostInv => DrqMeansData
  BY DEF HostInv, Sound, Requested, DrqMeansData
<1> QED BY <1>1, HostInvariant, PTL

\* A card with a disk always passes the probe of the error register and the
\* wait on RDY and BUSY of the test programs (cf_info.na).
THEOREM AnswersProbeTheorem == ~MayReadNone => (Spec => []AnswersProbe)
<1>1. \A e \in {0, 5} : BitAnd(e, 42) = 0
  <2>1. \A e \in {0, 5} : \A w \in Weights : ~(HasBit(e, w) /\ HasBit(42, w))
    BY DEF HasBit, Weights
  <2>2. \A e \in {0, 5} : BitsOf(e) \cap BitsOf(42) = {}
    BY <2>1 DEF BitsOf
  <2>3. ByteOf({}) = 0
    BY DEF ByteOf, Part
  <2> QED BY <2>2, <2>3 DEF BitAnd
<1>2. HostInv => AnswersProbe
  BY <1>1 DEF HostInv, Sound, Live, AnswersProbe
<1> QED BY <1>2, HostInvariant, PTL

\* What a step of the program means to one who sees only the bytes: a
\* command, a byte taken, or nothing.
LEMMA StepRefines ==
  ASSUME HostInv, ~MayReadNone, [Next]_hostVars
  PROVE  Stream!Next \/ UNCHANGED <<Remaining, data>>
<1>1. disk \in Disks /\ disk \in Seq(Byte) /\ Sound(disk, card) /\ card \in Card
  BY DiskAssumption DEF HostInv, Sound
<1>2. HostInv' /\ disk' = disk => Sound(disk, card') /\ card' \in Card
  BY DEF HostInv, Sound
<1>3. ASSUME HostInv', disk' = disk, SameTransfer(card', card), data' = data
      PROVE  UNCHANGED <<Remaining, data>>
  BY <1>1, <1>2, <1>3, SameRemaining DEF Remaining
<1>4. CASE SetRegister
  BY <1>3, <1>4, SetRegisterStep
<1>5. CASE GiveCommand
  <2>1. HostInv' /\ disk' = disk
    BY <1>5, GiveCommandStep
  <2>2. CASE SameTransfer(card', card) /\ data' = data
    BY <1>3, <2>1, <2>2
  <2>3. CASE /\ data' = <<>>
             /\ Identifies(card')
                \/ \E from, n \in Nat : Fetches(disk, card', from, n)
    <3>1. RemainingOf(disk, card') \in Requestable
      BY <1>1, <1>2, <2>1, <2>3, FetchedIsRequestable
    <3> QED BY <2>1, <2>3, <3>1 DEF Remaining, Stream!Next, Stream!Command
  <2> QED BY <1>5, <2>2, <2>3, GiveCommandStep
<1>6. CASE ReadData
  <2>1. HostInv' /\ disk' = disk
    BY <1>6, ReadDataStep
  <2>2. CASE card' = card /\ data' = data
    BY <1>3, <2>1, <2>2 DEF SameTransfer
  <2>3. CASE /\ Transferring(card) /\ card' = Advanced(card)
             /\ data' = Append(data, acc')
             /\ \E wild \in Byte : acc' = ByteAt(card, disk, wild)
    <3>1. /\ Remaining # <<>> /\ acc' = Head(Remaining)
          /\ RemainingOf(disk, card') = Tail(Remaining)
      BY <1>1, <2>3, TakenIsHead DEF Remaining
    <3>2. Remaining' = Tail(Remaining)
      BY <2>1, <3>1 DEF Remaining
    <3> QED BY <2>3, <3>1, <3>2 DEF Stream!Next, Stream!Take
  <2> QED BY <1>6, <2>2, <2>3, ReadDataStep
<1>7. CASE ReadRegister
  BY <1>3, <1>7, ReadRegisterStep DEF SameTransfer
<1>8. CASE UNCHANGED hostVars
  BY <1>8 DEF hostVars, Remaining
<1> QED BY <1>4, <1>5, <1>6, <1>7, <1>8 DEF Next

\* The card implements the stream of sectors: whatever the program does to
\* the other registers, and whenever, every byte of what it asked for is
\* handed over once and in order, and nothing else is.
THEOREM DeliversSectorsTheorem == ~MayReadNone => (Spec => DeliversSectors)
<1> SUFFICES ASSUME ~MayReadNone PROVE Spec => DeliversSectors
  OBVIOUS
<1>1. Spec => []HostInv
  BY HostInvariant
<1>2. Init => Stream!Init
  <2>1. ~Transferring(INIT_CARD)
    BY DEF INIT_CARD, Transferring
  <2> QED BY <2>1 DEF Init, Remaining, RemainingOf, Stream!Init
<1>3. HostInv /\ [Next]_hostVars => [Stream!Next]_<<Remaining, data>>
  BY StepRefines
<1> QED BY <1>1, <1>2, <1>3, PTL DEF Spec, DeliversSectors, Stream!Spec
=============================================================================
