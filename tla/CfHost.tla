------------------------------- MODULE CfHost -------------------------------
(***************************************************************************)
(* A program driving the emulated card through its eight registers, in     *)
(* any order: it may set up a command half way through a transfer, stop    *)
(* reading, read too much, or give a command the card does not know.       *)
(* Each step is one `rd io` or `wr io` with y in 8..15, that is one call   *)
(* of io_step_compactflash with active set.                                *)
(***************************************************************************)
EXTENDS CompactFlash

CONSTANTS SectorCounts, Addresses, Modes, Features, Commands,
                                    \* bytes the program writes
          MayReadNone,    \* whether it may ask for a read of no sectors
          WildBytes,      \* what a read beyond the buffer may return
          MaxData         \* data bytes it reads after one command

ASSUME HostAssumption ==
  (SectorCounts \cup Addresses \cup Modes \cup Features \cup Commands)
    \subseteq Byte
ASSUME WildAssumption == WildBytes \subseteq Byte /\ WildBytes # {}

VARIABLES disk, card,
          acc,       \* the accumulator
          data       \* data bytes read since the last transfer was started

hostVars == <<disk, card, acc, data>>

Init == /\ disk \in Disks
        /\ card = INIT_CARD
        /\ acc = 0
        /\ data = <<>>

Writes(r, b) == /\ ~card.exited
                /\ acc' = b
                /\ card' = AfterWrite(card, disk, r, b)
                /\ UNCHANGED disk

SetRegister == /\ \/ \E b \in SectorCounts : Writes(CF_SECTOR_COUNT, b)
                  \/ \E b \in Addresses    : Writes(CF_LBA_7_0, b)
                  \/ \E b \in Modes        : Writes(CF_LBA_27_24_MODE, b)
                  \/ \E b \in Features     : Writes(CF_ERROR_FEATURE, b)
               /\ UNCHANGED data

\* A command that starts a transfer.
Starts(cmd) == disk # NoDisk /\ cmd \in {32, 33, 236} /\ ~card'.exited

Sensible(cmd) == cmd \in {32, 33} => Reg(card, CF_SECTOR_COUNT) # 0

GiveCommand == \E cmd \in Commands :
                 /\ MayReadNone \/ Sensible(cmd)
                 /\ Writes(CF_STATUS_CMD, cmd)
                 /\ data' = IF Starts(cmd) THEN <<>> ELSE data

Reads(r) == /\ ~card.exited
            /\ \E wild \in WildBytes : acc' = ReadValue(card, disk, r, acc, wild)
            /\ card' = AfterRead(card, disk, r)
            /\ UNCHANGED disk

ReadData == /\ Len(data) < MaxData
            /\ Reads(CF_DATA)
            /\ data' = IF disk # NoDisk /\ Transferring(card)
                       THEN Append(data, acc') ELSE data

ReadRegister == /\ \E r \in {CF_ERROR_FEATURE, CF_SECTOR_COUNT, CF_STATUS_CMD} :
                     Reads(r)
                /\ UNCHANGED data

Next == SetRegister \/ GiveCommand \/ ReadData \/ ReadRegister

Spec == Init /\ [][Next]_hostVars
-----------------------------------------------------------------------------
TypeOK == /\ disk \in Disks /\ card \in Card
          /\ acc \in Byte /\ data \in Seq(Byte)

BufferSize == IF card.seek_ptr = "ident" THEN SECTOR ELSE Len(disk)

\* Nothing is read beyond the end of the disk or of the identification: the
\* rest of a transfer lies within its buffer, and is never empty.
StaysInBuffer == Transferring(card) =>
                   /\ card.region_size > 0
                   /\ card.pos + card.region_size <= BufferSize

\* The data-request bit of the status register tells the program exactly
\* when the data register has a byte for it.
DrqMeansData == HasBit(status(card), CF_DRQ) <=> Transferring(card)

\* The tests find a card by the bits of the error register that are always
\* zero and wait for it on BUSY and RDY (cf_init and cf_wait of cf_info.na):
\* with a disk, neither an error nor a transfer ever makes them fail.
AnswersProbe == disk # NoDisk =>
                  /\ BitAnd(card.error_register, 42) = 0
                  /\ HasBit(status(card), CF_RDY) /\ ~HasBit(status(card), CF_BUSY)

\* The rest of the transfer in progress in a card in front of the disk d.
RemainingOf(d, cf) ==
  IF Transferring(cf)
  THEN [i \in 1..cf.region_size |-> ByteAt([cf EXCEPT !.pos = @ + i - 1], d, 0)]
  ELSE <<>>
Remaining == RemainingOf(disk, card)

Slice(d, from, n) == [i \in 1..n |-> d[from + i]]
Identification == [i \in 1..SECTOR |-> ident_buffer(i - 1)]
\* The sectors of a disk, from the first of them, how many.
Runs(d) == {an \in (0..Len(d)) \X (1..Len(d)) : SECTOR * (an[1] + an[2]) <= Len(d)}
Requestable ==
  {Identification} \cup
  UNION {{Slice(d, SECTOR * an[1], SECTOR * an[2]) : an \in Runs(d)} : d \in Disks}

\* The card hands over the requested sectors, every byte once and in order,
\* whatever the program does to the other registers in between.
Stream == INSTANCE SectorStream WITH Requests <- Requestable,
                                     pending <- Remaining
DeliversSectors == Stream!Spec
=============================================================================
