------------------------------- MODULE FlashDisk -------------------------------
(***************************************************************************)
(* The flash disk driver (internal_flash.c) under the mass storage class.  *)
(* The flash is erased in pages and programmed in write blocks; a page     *)
(* holds two sectors.  FILEIO_InternalFlash_SectorWrite saves the page in  *)
(* file_buffer, erases it, and programs file_buffer with the new sector in *)
(* it, write block after write block.  The processor stands still during   *)
(* an erase or a programming; the power may fail before, after and in the  *)
(* middle of each.                                                         *)
(***************************************************************************)
EXTENDS Integers

CONSTANTS
  Pages,         \* pages of the disk
  SectorBlocks,  \* FILEIO_CONFIG_MEDIA_SECTOR_SIZE in write blocks
  Bytes,         \* what a host may put in a write block
  Erased,        \* a write block of 0xFF
  Garbage        \* what is left by a flash operation that was cut short

ASSUME FlashAssumption ==
  /\ Pages \in Nat \ {0} /\ SectorBlocks \in Nat \ {0}
  /\ Erased \in Bytes /\ Garbage \notin Bytes

VARIABLES
  flash,        \* the pages of the disk
  op,           \* the flash operation that is next in SectorWrite
  lba,          \* the sector it writes
  buffer,       \* the sector buffer of the mass storage class
  file_buffer,  \* the page that is rewritten
  written,      \* its write blocks that are programmed
  answer        \* what the last call returned, or what this one will

vars == <<flash, op, lba, buffer, file_buffer, written, answer>>

\* DRV_FILEIO_INTERNAL_FLASH_TOTAL_DISK_SIZE, with two sectors on a page.
Sectors == 0 .. 2 * Pages - 1
PageBlocks == 2 * SectorBlocks

Values == Bytes \cup {Garbage}
SectorData == [0 .. SectorBlocks - 1 -> Values]
PageData == [0 .. PageBlocks - 1 -> Values]

\* FILEIO_InternalFlash_CapacityRead: the last sector.
CapacityRead == 2 * Pages - 1

\* The two halves of a sector's address: the erase page, and the place in it.
PageOf(s) == s \div 2
Offset(s) == IF s % 2 = 0 THEN 0 ELSE SectorBlocks

\* A sector of a page.
Slice(page, s) == [i \in 0 .. SectorBlocks - 1 |-> page[Offset(s) + i]]

\* The page with a new sector in it.
Overlay(page, s, data) ==
  [i \in 0 .. PageBlocks - 1 |->
     IF i \in Offset(s) .. Offset(s) + SectorBlocks - 1 THEN data[i - Offset(s)] ELSE page[i]]

BlankPage == [i \in 0 .. PageBlocks - 1 |-> Erased]

TypeOK ==
  /\ flash \in [0 .. Pages - 1 -> PageData]
  /\ op \in {"none", "erase", "program"}
  /\ lba \in Sectors /\ buffer \in SectorData
  /\ file_buffer \in PageData
  /\ written \in 0 .. PageBlocks - 1
  /\ answer \in BOOLEAN

----------------------------------------------------------------------------

\* A drive with any contents.
Init ==
  /\ flash \in [0 .. Pages - 1 -> PageData]
  /\ op = "none" /\ lba = 0 /\ written = 0 /\ answer = TRUE
  /\ buffer = [i \in 0 .. SectorBlocks - 1 |-> Erased]
  /\ file_buffer = BlankPage

\* FILEIO_InternalFlash_SectorRead
SectorRead(s) ==
  /\ op = "none"
  /\ answer' = (s \in Sectors)
  /\ buffer' = IF s \in Sectors THEN Slice(flash[PageOf(s)], s) ELSE buffer
  /\ UNCHANGED <<flash, op, lba, file_buffer, written>>

\* FILEIO_InternalFlash_SectorWrite of a sector that is not on the disk.
WriteOutside(s) ==
  /\ op = "none" /\ s \notin Sectors
  /\ answer' = FALSE
  /\ UNCHANGED <<flash, op, lba, buffer, file_buffer, written>>

\* Mutant: the comparison ends with the first write block.
MatchesAtFirst(s, data) == flash[PageOf(s)][Offset(s)] = data[0]

\* The flash holds the sector already.
Matches(s, data) == Slice(flash[PageOf(s)], s) = data

\* What follows matches, too: the comparison goes on to the length of a page, and compares the
\* flash after the sector with the RAM after the buffer, which may be anything.
SkipWrite(s, data) ==
  /\ op = "none" /\ s \in Sectors /\ Matches(s, data)
  /\ buffer' = data /\ answer' = TRUE
  /\ UNCHANGED <<flash, op, lba, file_buffer, written>>

\* There is a difference, in the sector or behind it: the page is saved, with the new sector in
\* it, and is to be erased.
BeginWrite(s, data) ==
  /\ op = "none" /\ s \in Sectors
  /\ op' = "erase" /\ lba' = s /\ written' = 0
  /\ buffer' = data /\ answer' = TRUE
  /\ file_buffer' = Overlay(flash[PageOf(s)], s, data)
  /\ UNCHANGED flash

SectorWrite(s, data) == WriteOutside(s) \/ SkipWrite(s, data) \/ BeginWrite(s, data)

\* Mutant: the page of the next sector is erased.
EraseNextPage ==
  /\ op = "erase"
  /\ flash' = [flash EXCEPT ![((lba + 1) \div 2) % Pages] = BlankPage]
  /\ op' = "program"
  /\ UNCHANGED <<lba, buffer, file_buffer, written, answer>>

EraseBlock ==
  /\ op = "erase"
  /\ flash' = [flash EXCEPT ![PageOf(lba)] = BlankPage]
  /\ op' = "program"
  /\ UNCHANGED <<lba, buffer, file_buffer, written, answer>>

\* Programming clears bits, and works on an erased block only.
Programmed(old, new) == IF old = Erased THEN new ELSE Garbage

\* file_buffer does not matter any more once the call is over, and is forgotten here.
WriteOver == op' = "none" /\ lba' = 0 /\ file_buffer' = BlankPage /\ written' = 0

\* Mutant: the loop counts one write block too many.
ProgramBlockTooMany ==
  /\ op = "program"
  /\ IF written \in 0 .. PageBlocks - 1
     THEN flash' = [flash EXCEPT ![PageOf(lba)][written] = Programmed(@, file_buffer[written])]
     ELSE UNCHANGED flash
  /\ IF written = PageBlocks THEN WriteOver
     ELSE written' = written + 1 /\ UNCHANGED <<op, lba, file_buffer>>
  /\ UNCHANGED <<buffer, answer>>

\* One write block; with the last one the call returns.
ProgramBlock ==
  /\ op = "program"
  /\ flash' = [flash EXCEPT ![PageOf(lba)][written] = Programmed(@, file_buffer[written])]
  /\ IF written = PageBlocks - 1 THEN WriteOver
     ELSE written' = written + 1 /\ UNCHANGED <<op, lba, file_buffer>>
  /\ UNCHANGED <<buffer, answer>>

\* The power fails, perhaps in the middle of a flash operation, and the drive starts anew.
PowerFail ==
  /\ \/ flash' = flash
     \/ /\ op = "erase"
        /\ flash' = [flash EXCEPT ![PageOf(lba)] = [i \in 0 .. PageBlocks - 1 |-> Garbage]]
     \/ /\ op = "program"
        /\ flash' = [flash EXCEPT ![PageOf(lba)][written] = Garbage]
  /\ WriteOver /\ answer' = TRUE
  /\ UNCHANGED buffer

\* The mass storage class asks for a sector that is not there, too.
Next ==
  \/ \E s \in 0 .. CapacityRead + 1 :
       \/ SectorRead(s)
       \/ \E data \in [0 .. SectorBlocks - 1 -> Bytes] : SectorWrite(s, data)
  \/ EraseBlock \/ ProgramBlock \/ PowerFail

Spec == Init /\ [][Next]_vars

----------------------------------------------------------------------------
(* Properties.                                                              *)

\* What a read of sector s would bring, could it be asked for: while the page is rewritten its
\* sectors are in file_buffer.
Content(s) ==
  IF op # "none" /\ PageOf(s) = PageOf(lba) THEN Slice(file_buffer, s)
  ELSE Slice(flash[PageOf(s)], s)

Status == CASE op # "none" -> "busy"
            [] op = "none" /\ answer -> "done"
            [] op = "none" /\ ~answer -> "refused"

PageMates == [s \in Sectors |-> {t \in Sectors : PageOf(t) = PageOf(s)}]

Store == INSTANCE BlockStore WITH
  Data <- SectorData,
  Page <- PageMates,
  content <- [s \in Sectors |-> Content(s)],
  atRisk <- IF op = "none" THEN {} ELSE PageMates[lba],
  status <- Status

\* A sector write changes its sector and no other, the neighbour on its page survives the erase
\* in file_buffer, a write that is skipped because it "already matches" was not needed
\* (internal_flash.c:530), and a power failure takes at most the page under way, and only before
\* the write is acknowledged.
ImplementsBlockStore == Store!Spec

\* What is in the flash at any step of a write: the page as it will be up to the block that is
\* next, and blank from there on, so that nothing is programmed over anything
\* (internal_flash.c:617).
PageUnderWay ==
  op = "program" =>
    \A i \in 0 .. PageBlocks - 1 :
      flash[PageOf(lba)][i] = IF i < written THEN file_buffer[i] ELSE Erased
=============================================================================
