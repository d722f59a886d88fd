--------------------------- MODULE FlashDisk_proof ---------------------------
(* The flash disk driver implements the block store, for every number of pages and blocks. *)
EXTENDS FlashDisk, TLAPS

\* A sector's address is a page of the disk and one of the two places on it.
LEMMA SectorAddress ==
  ASSUME NEW s \in Sectors
  PROVE  PageOf(s) \in 0 .. Pages - 1 /\ Offset(s) \in {0, SectorBlocks}
BY FlashAssumption DEF Sectors, PageOf, Offset

\* Two sectors of one page are at different places.
LEMMA PlacesDiffer ==
  ASSUME NEW s \in Sectors, NEW t \in Sectors, PageOf(s) = PageOf(t), s # t
  PROVE  Offset(s) # Offset(t)
BY FlashAssumption DEF Sectors, PageOf, Offset

LEMMA SliceType ==
  ASSUME NEW page \in PageData, NEW s
  PROVE  Slice(page, s) \in SectorData
<1>1. \A i \in 0 .. SectorBlocks - 1 : Offset(s) + i \in 0 .. PageBlocks - 1
  BY FlashAssumption DEF Offset, PageBlocks
<1> QED BY <1>1 DEF Slice, PageData, SectorData

LEMMA OverlayType ==
  ASSUME NEW page \in PageData, NEW s, NEW data \in SectorData
  PROVE  Overlay(page, s, data) \in PageData
<1>1. \A i \in Offset(s) .. Offset(s) + SectorBlocks - 1 : i - Offset(s) \in 0 .. SectorBlocks - 1
  BY FlashAssumption DEF Offset
<1> QED BY <1>1 DEF Overlay, PageData, SectorData

LEMMA BlankPageType == BlankPage \in PageData
BY FlashAssumption DEF BlankPage, PageData, Values

\* A page is what its write blocks are.
LEMMA SamePage ==
  ASSUME NEW p \in PageData, NEW q \in PageData, \A i \in 0 .. PageBlocks - 1 : p[i] = q[i]
  PROVE  p = q
<1>1. /\ p = [i \in 0 .. PageBlocks - 1 |-> p[i]]
      /\ q = [i \in 0 .. PageBlocks - 1 |-> q[i]]
  BY DEF PageData
<1>2. [i \in 0 .. PageBlocks - 1 |-> p[i]] = [i \in 0 .. PageBlocks - 1 |-> q[i]]
  OBVIOUS
<1> QED BY <1>1, <1>2

\* The new sector is read back from the page it was laid over.
LEMMA SliceOfOverlay ==
  ASSUME NEW page \in PageData, NEW s, NEW data \in SectorData
  PROVE  Slice(Overlay(page, s, data), s) = data
<1>1. \A i \in 0 .. SectorBlocks - 1 :
        /\ Offset(s) + i \in 0 .. PageBlocks - 1
        /\ Offset(s) + i \in Offset(s) .. Offset(s) + SectorBlocks - 1
        /\ (Offset(s) + i) - Offset(s) = i
  BY FlashAssumption DEF Offset, PageBlocks
<1>2. \A i \in 0 .. SectorBlocks - 1 : Overlay(page, s, data)[Offset(s) + i] = data[i]
  BY <1>1 DEF Overlay
<1> QED BY <1>2 DEF Slice, SectorData

\* ... and the other sector of the page is what it was.
LEMMA SliceBesideOverlay ==
  ASSUME NEW page \in PageData, NEW s \in Sectors, NEW t \in Sectors, NEW data \in SectorData,
         PageOf(s) = PageOf(t), s # t
  PROVE  Slice(Overlay(page, s, data), t) = Slice(page, t)
<1>1. \A i \in 0 .. SectorBlocks - 1 :
        /\ Offset(t) + i \in 0 .. PageBlocks - 1
        /\ Offset(t) + i \notin Offset(s) .. Offset(s) + SectorBlocks - 1
  BY PlacesDiffer, SectorAddress, FlashAssumption DEF PageBlocks
<1>2. \A i \in 0 .. SectorBlocks - 1 : Overlay(page, s, data)[Offset(t) + i] = page[Offset(t) + i]
  BY <1>1 DEF Overlay
<1> QED BY <1>2 DEF Slice

----------------------------------------------------------------------------
(* The invariant: types, and how far the page under way is. *)

IndInv ==
  /\ TypeOK
  /\ PageUnderWay
  /\ op # "program" => written = 0
  /\ op # "none" => answer

LEMMA InitIndInv == Init => IndInv
<1> SUFFICES ASSUME Init PROVE IndInv
  OBVIOUS
<1>1. 0 \in Sectors /\ 0 \in 0 .. PageBlocks - 1
  BY FlashAssumption DEF Sectors, PageBlocks
<1>2. [i \in 0 .. SectorBlocks - 1 |-> Erased] \in SectorData
  BY FlashAssumption DEF SectorData, Values
<1> QED BY <1>1, <1>2, BlankPageType DEF Init, IndInv, TypeOK, PageUnderWay

\* What the mass storage class writes fits in its buffer.
LEMMA WriteData ==
  ASSUME NEW data \in [0 .. SectorBlocks - 1 -> Bytes]
  PROVE  data \in SectorData
BY DEF SectorData, Values

\* A call is over.
LEMMA WriteOverIndInv ==
  ASSUME TypeOK, WriteOver, flash' \in [0 .. Pages - 1 -> PageData], answer' \in BOOLEAN,
         buffer' \in SectorData
  PROVE  IndInv'
<1>1. 0 \in Sectors /\ 0 \in 0 .. PageBlocks - 1
  BY FlashAssumption DEF Sectors, PageBlocks
<1> QED BY <1>1, BlankPageType DEF WriteOver, IndInv, TypeOK, PageUnderWay

LEMMA NextIndInv == IndInv /\ [Next]_vars => IndInv'
<1> SUFFICES ASSUME IndInv, [Next]_vars
             PROVE  IndInv'
  OBVIOUS
<1> USE DEF IndInv, TypeOK
<1>1. ASSUME NEW s, SectorRead(s) PROVE IndInv'
  <2>1. buffer' \in SectorData
    BY <1>1, SectorAddress, SliceType DEF SectorRead
  <2> QED BY <1>1, <2>1 DEF SectorRead, PageUnderWay
<1>2. ASSUME NEW s, NEW data \in [0 .. SectorBlocks - 1 -> Bytes], SectorWrite(s, data)
      PROVE  IndInv'
  <2>1. CASE WriteOutside(s)
    BY <2>1 DEF WriteOutside, PageUnderWay
  <2>2. CASE SkipWrite(s, data)
    BY <2>2, WriteData DEF SkipWrite, PageUnderWay
  <2>3. CASE BeginWrite(s, data)
    <3>1. file_buffer' \in PageData
      BY <2>3, WriteData, SectorAddress, OverlayType DEF BeginWrite
    <3>2. 0 \in 0 .. PageBlocks - 1
      BY FlashAssumption DEF PageBlocks
    <3> QED BY <2>3, <3>1, <3>2, WriteData DEF BeginWrite, PageUnderWay
  <2> QED BY <1>2, <2>1, <2>2, <2>3 DEF SectorWrite
<1>3. CASE EraseBlock
  <2>1. flash' \in [0 .. Pages - 1 -> PageData]
    BY <1>3, SectorAddress, BlankPageType DEF EraseBlock
  <2>2. flash'[PageOf(lba)] = BlankPage
    BY <1>3, SectorAddress DEF EraseBlock
  <2>3. PageUnderWay'
    BY <1>3, <2>2, FlashAssumption DEF EraseBlock, PageUnderWay, BlankPage, PageBlocks
  <2> QED BY <1>3, <2>1, <2>3 DEF EraseBlock
<1>4. CASE ProgramBlock
  <2>1. PageOf(lba) \in 0 .. Pages - 1
    BY SectorAddress
  <2>2. /\ flash[PageOf(lba)][written] = Erased
        /\ file_buffer[written] \in Values
    BY <1>4, FlashAssumption DEF ProgramBlock, PageUnderWay, PageData, PageBlocks
  <2>3. flash' = [flash EXCEPT ![PageOf(lba)][written] = file_buffer[written]]
    BY <1>4, <2>1, <2>2 DEF ProgramBlock, Programmed
  <2>4. flash' \in [0 .. Pages - 1 -> PageData]
    BY <2>1, <2>2, <2>3 DEF PageData
  <2>5. CASE written = PageBlocks - 1
    BY <1>4, <2>4, <2>5, WriteOverIndInv DEF ProgramBlock
  <2>6. CASE written # PageBlocks - 1
    <3>1. written + 1 \in 0 .. PageBlocks - 1
      BY <2>6, FlashAssumption DEF PageBlocks
    <3>2. \A i \in 0 .. PageBlocks - 1 :
            flash'[PageOf(lba)][i] = IF i = written THEN file_buffer[i] ELSE flash[PageOf(lba)][i]
      BY <2>1, <2>3 DEF PageData
    <3>3. PageUnderWay'
      BY <1>4, <2>6, <3>1, <3>2, FlashAssumption DEF ProgramBlock, PageUnderWay, PageBlocks
    <3> QED BY <1>4, <2>4, <2>6, <3>1, <3>3 DEF ProgramBlock
  <2> QED BY <2>5, <2>6
<1>5. CASE PowerFail
  <2>1. flash' \in [0 .. Pages - 1 -> PageData]
    <3>1. PageOf(lba) \in 0 .. Pages - 1
      BY SectorAddress
    <3>2. [i \in 0 .. PageBlocks - 1 |-> Garbage] \in PageData
      BY DEF PageData, Values
    <3>3. CASE flash' = flash
      BY <3>3
    <3>4. CASE flash' = [flash EXCEPT ![PageOf(lba)] = [i \in 0 .. PageBlocks - 1 |-> Garbage]]
      BY <3>1, <3>2, <3>4
    <3>5. CASE flash' = [flash EXCEPT ![PageOf(lba)][written] = Garbage]
      BY <3>1, <3>5 DEF PageData, Values
    <3> QED BY <1>5, <3>3, <3>4, <3>5 DEF PowerFail
  <2> QED BY <1>5, <2>1, WriteOverIndInv DEF PowerFail
<1>6. CASE UNCHANGED vars
  BY <1>6 DEF vars, PageUnderWay
<1> QED BY <1>1, <1>2, <1>3, <1>4, <1>5, <1>6 DEF Next

LEMMA InductiveInvariant == Spec => []IndInv
BY InitIndInv, NextIndInv, PTL DEF Spec

\* Every variable keeps its type; the block loop stays inside the page (internal_flash.c:625).
THEOREM TypeCorrect == Spec => []TypeOK
<1>1. IndInv => TypeOK
  BY DEF IndInv
<1> QED BY <1>1, InductiveInvariant, PTL

\* No write block is programmed over anything but an erased one (internal_flash.c:617).
THEOREM NothingIsProgrammedOver == Spec => []PageUnderWay
<1>1. IndInv => PageUnderWay
  BY DEF IndInv
<1> QED BY <1>1, InductiveInvariant, PTL

----------------------------------------------------------------------------
(* The refinement: each step of the driver is a step of the block store or a stutter. *)

\* What the store holds, and what of it is at risk.
Contents == [s \in Sectors |-> Content(s)]
AtRisk == IF op = "none" THEN {} ELSE PageMates[lba]

LEMMA ContentsType ==
  ASSUME TypeOK
  PROVE  Contents \in [Sectors -> SectorData]
<1>1. ASSUME NEW s \in Sectors PROVE Content(s) \in SectorData
  BY SectorAddress, SliceType DEF TypeOK, Content
<1> QED BY <1>1 DEF Contents

\* Nothing that the store is about has changed.
LEMMA SameContents ==
  ASSUME flash' = flash, op' = op, lba' = lba, file_buffer' = file_buffer
  PROVE  Contents' = Contents /\ AtRisk' = AtRisk
BY DEF Contents, AtRisk, Content, Slice, Offset, PageOf, PageMates, Sectors

LEMMA ReadStep ==
  ASSUME NEW s, SectorRead(s)
  PROVE  Store!Next
<1>1. Contents' = Contents /\ AtRisk' = AtRisk
  BY SameContents DEF SectorRead
<1>2. CASE s \in Sectors
  <2>1. Store!Read(s)
    BY <1>1, <1>2 DEF SectorRead, Store!Read, Contents, AtRisk, Content, Status
  <2> QED BY <1>2, <2>1 DEF Store!Next
<1>3. CASE s \notin Sectors
  <2>1. Store!Refuse
    BY <1>1, <1>3 DEF SectorRead, Store!Refuse, Contents, AtRisk, Status
  <2> QED BY <2>1 DEF Store!Next
<1> QED BY <1>2, <1>3

LEMMA WriteStep ==
  ASSUME TypeOK, NEW s, NEW data \in SectorData, SectorWrite(s, data)
  PROVE  Store!Next
<1>1. CASE WriteOutside(s)
  <2>1. Contents' = Contents /\ AtRisk' = AtRisk
    BY <1>1, SameContents DEF WriteOutside
  <2>2. Store!Refuse
    BY <1>1, <2>1 DEF WriteOutside, Store!Refuse, Contents, AtRisk, Status
  <2> QED BY <2>2 DEF Store!Next
<1>2. CASE SkipWrite(s, data)
  <2>1. Contents' = Contents /\ AtRisk' = AtRisk
    BY <1>2, SameContents DEF SkipWrite
  <2>2. s \in Sectors /\ Contents[s] = data
    BY <1>2 DEF SkipWrite, Matches, Contents, Content
  <2>3. Contents' = [Contents EXCEPT ![s] = data]
    BY <2>1, <2>2 DEF Contents
  <2>4. Store!Write(s, data)
    BY <1>2, <2>1, <2>3 DEF SkipWrite, Store!Write, Contents, AtRisk, Status
  <2> QED BY <2>2, <2>4 DEF Store!Next
<1>3. CASE BeginWrite(s, data)
  <2>1. s \in Sectors /\ op = "none" /\ op' = "erase" /\ lba' = s /\ flash' = flash
    BY <1>3 DEF BeginWrite
  <2>2. ASSUME NEW t \in Sectors
        PROVE  Content(t)' = IF t = s THEN data ELSE Content(t)
    <3>1. flash[PageOf(s)] \in PageData
      BY <2>1, SectorAddress DEF TypeOK
    <3>2. file_buffer' = Overlay(flash[PageOf(s)], s, data)
      BY <1>3 DEF BeginWrite
    <3>3. Content(t) = Slice(flash[PageOf(t)], t)
      BY <2>1 DEF Content
    <3>4. Content(t)' = IF PageOf(t) = PageOf(s) THEN Slice(file_buffer', t)
                        ELSE Slice(flash[PageOf(t)], t)
      BY <2>1 DEF Content, Slice, PageOf, Offset
    <3>5. CASE t = s
      BY <3>1, <3>2, <3>4, <3>5, SliceOfOverlay
    <3>6. CASE t # s /\ PageOf(t) = PageOf(s)
      BY <2>1, <3>1, <3>2, <3>3, <3>4, <3>6, SliceBesideOverlay
    <3>7. CASE PageOf(t) # PageOf(s)
      BY <3>3, <3>4, <3>7
    <3> QED BY <3>5, <3>6, <3>7
  <2>3. Contents' = [Contents EXCEPT ![s] = data]
    BY <2>2 DEF Contents, Sectors
  <2>4. AtRisk' = PageMates[s]
    BY <2>1 DEF AtRisk, PageMates, PageOf, Sectors
  <2>5. Store!Write(s, data)
    BY <1>3, <2>1, <2>3, <2>4 DEF BeginWrite, Store!Write, Contents, AtRisk, Status
  <2> QED BY <2>1, <2>5 DEF Store!Next
<1> QED BY <1>1, <1>2, <1>3 DEF SectorWrite

LEMMA EraseStep ==
  ASSUME TypeOK, EraseBlock
  PROVE  UNCHANGED Store!storeVars
<1>1. ASSUME NEW s \in Sectors PROVE Content(s)' = Content(s)
  <2>1. op # "none" /\ op' # "none" /\ lba' = lba /\ file_buffer' = file_buffer
    BY DEF EraseBlock
  <2>2. PageOf(s) # PageOf(lba) => flash'[PageOf(s)] = flash[PageOf(s)]
    BY SectorAddress DEF EraseBlock, TypeOK
  <2> QED BY <2>1, <2>2 DEF Content, Slice, Offset, PageOf
<1>2. Contents' = Contents
  BY <1>1 DEF Contents, Sectors
<1>3. AtRisk' = AtRisk
  BY DEF EraseBlock, AtRisk, PageMates, PageOf, Sectors
<1> QED BY <1>2, <1>3 DEF EraseBlock, Store!storeVars, Contents, AtRisk, Status

LEMMA ProgramStep ==
  ASSUME IndInv, ProgramBlock
  PROVE  Store!Next \/ UNCHANGED Store!storeVars
<1> USE DEF IndInv, TypeOK
<1>1. PageOf(lba) \in 0 .. Pages - 1
  BY SectorAddress
<1>2. ASSUME NEW s \in Sectors, PageOf(s) # PageOf(lba)
      PROVE  flash'[PageOf(s)] = flash[PageOf(s)]
  BY <1>1, <1>2, SectorAddress DEF ProgramBlock
<1>3. CASE written # PageBlocks - 1
  <2>1. op' = op /\ op # "none" /\ lba' = lba /\ file_buffer' = file_buffer
    BY <1>3 DEF ProgramBlock
  <2>2. ASSUME NEW s \in Sectors PROVE Content(s)' = Content(s)
    BY <1>2, <2>1 DEF Content, Slice, Offset, PageOf
  <2>3. Contents' = Contents
    BY <2>2 DEF Contents, Sectors
  <2>4. AtRisk' = AtRisk
    BY <2>1 DEF AtRisk, PageMates, PageOf, Sectors
  <2> QED BY <2>1, <2>3, <2>4 DEF ProgramBlock, Store!storeVars, Contents, AtRisk, Status
<1>4. CASE written = PageBlocks - 1
  <2>1. op = "program" /\ op' = "none"
    BY <1>4 DEF ProgramBlock, WriteOver
  <2>2. flash'[PageOf(lba)] = file_buffer
    <3>1. flash[PageOf(lba)][written] = Erased
      BY <1>4, <2>1, FlashAssumption DEF PageUnderWay
    <3>2. flash'[PageOf(lba)] = [flash[PageOf(lba)] EXCEPT ![written] = file_buffer[written]]
      BY <1>1, <3>1 DEF ProgramBlock, Programmed
    <3>3. \A i \in 0 .. PageBlocks - 1 :
            flash'[PageOf(lba)][i] = IF i = written THEN file_buffer[i] ELSE flash[PageOf(lba)][i]
      BY <1>1, <3>2 DEF PageData
    <3>4. \A i \in 0 .. PageBlocks - 1 : flash'[PageOf(lba)][i] = file_buffer[i]
      BY <1>4, <2>1, <3>3, FlashAssumption DEF PageUnderWay, PageBlocks
    <3>5. flash'[PageOf(lba)] \in PageData
      BY <1>1, <3>2 DEF PageData
    <3> QED BY <3>4, <3>5, SamePage
  <2>3. ASSUME NEW s \in Sectors PROVE Content(s)' = Content(s)
    <3>1. Content(s)' = Slice(flash'[PageOf(s)], s)
      BY <2>1 DEF Content, Slice, Offset, PageOf
    <3>2. Content(s) = IF PageOf(s) = PageOf(lba) THEN Slice(file_buffer, s)
                       ELSE Slice(flash[PageOf(s)], s)
      BY <2>1 DEF Content
    <3> QED BY <1>2, <2>2, <3>1, <3>2
  <2>4. Contents' = Contents
    BY <2>3 DEF Contents, Sectors
  <2>5. Store!Acknowledge
    BY <2>1, <2>4 DEF ProgramBlock, Store!Acknowledge, Contents, AtRisk, Status
  <2> QED BY <2>5 DEF Store!Next
<1> QED BY <1>3, <1>4

LEMMA PowerFailStep ==
  ASSUME IndInv, TypeOK', PowerFail
  PROVE  Store!Next
<1>1. Contents' \in [Sectors -> SectorData]
  <2>1. ASSUME NEW s \in Sectors PROVE Content(s)' \in SectorData
    <3>1. Slice(flash'[PageOf(s)], s) \in SectorData
      BY SectorAddress, SliceType DEF TypeOK
    <3> QED BY <3>1 DEF PowerFail, WriteOver, Content, Slice, Offset, PageOf
  <2> QED BY <2>1 DEF Contents, Sectors
<1>2. ASSUME NEW s \in Sectors, s \notin AtRisk PROVE Content(s)' = Content(s)
  <2>1. op # "none" => PageOf(s) # PageOf(lba)
    BY <1>2 DEF AtRisk, PageMates, IndInv, TypeOK
  <2>2. flash'[PageOf(s)] = flash[PageOf(s)]
    BY <2>1, SectorAddress DEF PowerFail, IndInv, TypeOK
  <2> QED BY <2>1, <2>2 DEF PowerFail, WriteOver, Content, Slice, Offset, PageOf
<1>3. \A s \in Sectors \ AtRisk : Contents'[s] = Contents[s]
  BY <1>2 DEF Contents, Sectors
<1>4. AtRisk' = {} /\ Status' = "done"
  BY DEF PowerFail, WriteOver, AtRisk, Status
<1>5. Store!PowerFail
  BY <1>1, <1>3, <1>4 DEF PowerFail, Store!PowerFail, Contents, AtRisk, Status
<1> QED BY <1>5 DEF Store!Next

\* A sector write changes its sector only, keeps the neighbour on its page, and is durable once
\* it is acknowledged (internal_flash.c:501-673), for every size of the disk and of its sectors.
THEOREM DriverIsABlockStore == Spec => ImplementsBlockStore
<1>1. Init => Store!Init
  <2> SUFFICES ASSUME Init PROVE Store!Init
    OBVIOUS
  <2>1. TypeOK
    BY InitIndInv DEF IndInv
  <2> QED BY <2>1, ContentsType DEF Init, TypeOK, Store!Init, Contents, AtRisk, Status
<1>2. IndInv /\ IndInv' /\ [Next]_vars => [Store!Next]_(Store!storeVars)
  <2> SUFFICES ASSUME IndInv, IndInv', [Next]_vars
               PROVE  Store!Next \/ UNCHANGED Store!storeVars
    OBVIOUS
  <2>1. TypeOK /\ TypeOK'
    BY DEF IndInv
  <2>2. ASSUME NEW s, SectorRead(s) PROVE Store!Next
    BY <2>2, ReadStep
  <2>3. ASSUME NEW s, NEW data \in [0 .. SectorBlocks - 1 -> Bytes], SectorWrite(s, data)
        PROVE  Store!Next
    BY <2>1, <2>3, WriteData, WriteStep
  <2>4. CASE EraseBlock
    BY <2>1, <2>4, EraseStep
  <2>5. CASE ProgramBlock
    BY <2>5, ProgramStep
  <2>6. CASE PowerFail
    BY <2>1, <2>6, PowerFailStep
  <2>7. CASE UNCHANGED vars
    <3>1. Contents' = Contents /\ AtRisk' = AtRisk
      BY <2>7, SameContents DEF vars
    <3> QED BY <2>7, <3>1 DEF vars, Store!storeVars, Contents, AtRisk, Status
  <2> QED BY <2>2, <2>3, <2>4, <2>5, <2>6, <2>7 DEF Next
<1> QED BY <1>1, <1>2, InductiveInvariant, PTL DEF Spec, Store!Spec, ImplementsBlockStore
=============================================================================
