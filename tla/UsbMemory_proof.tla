--------------------------- MODULE UsbMemory_proof ---------------------------
(* The firmware and the SIE agree on the entries, and the buffers do not overlap. *)
EXTENDS UsbMemory, TLAPS

\* The four modes, each with its numbers.
LEMMA Modes ==
  /\ USB_PING_PONG_MODE \in {0, 1, 2, 3}
  /\ USB_EP0_BUFF_SIZE \in {8, 16, 32, 64}
  /\ USB_MAX_EP_NUMBER \in 1 .. 15
BY MemoryAssumption DEF MemoryAssumption, NO_PING_PONG, EP0_OUT_ONLY, FULL_PING_PONG, ALL_BUT_EP0

\* The macro finds the entry that the SIE uses (usb_device_local.h): in every mode for the endpoints
\* that USBConfigureEndpoint and USBStallEndpoint use it for, all but 0.
THEOREM MacroFindsTheEntry ==
  ASSUME NEW ep \in Endpoints \ {0}, NEW dir \in BdtDirections, NEW pp \in Banks
  PROVE  EP(ep, dir, pp) = SieEntry(ep, dir, pp)
<1> USE DEF Endpoints, BdtDirections, Banks, OUT_FROM_HOST, IN_TO_HOST, EP,
            SieEntry, NoPingPongTable, Ep0OutOnlyTable, FullTable, AllButEp0Table,
            NO_PING_PONG, EP0_OUT_ONLY, FULL_PING_PONG, ALL_BUT_EP0
<1>1. CASE USB_PING_PONG_MODE = 0  BY <1>1
<1>2. CASE USB_PING_PONG_MODE = 1  BY <1>2
<1>3. CASE USB_PING_PONG_MODE = 2  BY <1>3
<1>4. CASE USB_PING_PONG_MODE = 3  BY <1>4
<1>5. QED  BY <1>1, <1>2, <1>3, <1>4, Modes

\* No entry serves two endpoints, two directions or, where the SIE takes two in turn, two packets.
THEOREM EntriesAreDistinct ==
  ASSUME NEW e1 \in Endpoints, NEW d1 \in BdtDirections, NEW p1 \in Banks,
         NEW e2 \in Endpoints, NEW d2 \in BdtDirections, NEW p2 \in Banks,
         SieEntry(e1, d1, p1) = SieEntry(e2, d2, p2)
  PROVE  e1 = e2 /\ d1 = d2 /\ (PingPong(e1, d1) => p1 = p2)
<1> USE DEF Endpoints, BdtDirections, Banks, OUT_FROM_HOST, IN_TO_HOST, SieEntry, PingPong,
            NoPingPongTable, Ep0OutOnlyTable, FullTable, AllButEp0Table,
            NO_PING_PONG, EP0_OUT_ONLY, FULL_PING_PONG, ALL_BUT_EP0
<1>1. CASE USB_PING_PONG_MODE = 0  BY <1>1
<1>2. CASE USB_PING_PONG_MODE = 1  BY <1>2
<1>3. CASE USB_PING_PONG_MODE = 2  BY <1>3
<1>4. CASE USB_PING_PONG_MODE = 3  BY <1>4
<1>5. QED  BY <1>1, <1>2, <1>3, <1>4, Modes

\* The table has the entries of all the endpoints of the drive, and not one more
\* (usb_hal_pic18.h:209).
THEOREM TableIsLargeEnough ==
  ASSUME NEW ep \in 0 .. USB_MAX_EP_NUMBER, NEW dir \in BdtDirections, NEW pp \in Banks
  PROVE  SieEntry(ep, dir, pp) \in 0 .. SieEntry(USB_MAX_EP_NUMBER, IN_TO_HOST, 1)
         /\ BDT_NUM_ENTRIES = SieEntry(USB_MAX_EP_NUMBER, IN_TO_HOST, 1) + 1
<1> USE Modes DEF BdtDirections, Banks, OUT_FROM_HOST, IN_TO_HOST, SieEntry,
            BDT_NUM_ENTRIES, NoPingPongTable, Ep0OutOnlyTable, FullTable, AllButEp0Table,
            NO_PING_PONG, EP0_OUT_ONLY, FULL_PING_PONG, ALL_BUT_EP0
<1>1. CASE USB_PING_PONG_MODE = 0  BY <1>1
<1>2. CASE USB_PING_PONG_MODE = 1  BY <1>2
<1>3. CASE USB_PING_PONG_MODE = 2  BY <1>3
<1>4. CASE USB_PING_PONG_MODE = 3  BY <1>4
<1>5. QED  BY <1>1, <1>2, <1>3, <1>4, Modes

----------------------------------------------------------------------------
(* Pointers.                                                                *)

\* The table begins at the beginning of a page of 256 bytes: the bit that is flipped in the low byte
\* is the lowest of the entry's number.
LEMMA BitIsParity ==
  ASSUME NEW i \in 0 .. 63
  PROVE  BitOf(EntryAddress(i)) = i % 2
<1>1. (1024 + 4 * i) % 256 = 4 * i  OBVIOUS
<1>2. (4 * i) \div 4 = i  OBVIOUS
<1>3. QED  BY <1>1, <1>2 DEF BitOf, EntryAddress, USB_BDT_ADDRESS

\* Of a pair of entries the first has an even number.
LEMMA FlipAPair ==
  ASSUME NEW k \in 0 .. 31, NEW pp \in Banks, NEW bit \in Banks
  PROVE  /\ WithBit(EntryAddress(2 * k + pp), bit, 4) = EntryAddress(2 * k + bit)
         /\ USBAdvancePingPongBuffer(EntryAddress(2 * k + pp), 4) = EntryAddress(2 * k + 1 - pp)
<1>1. 2 * k + pp \in 0 .. 63  BY DEF Banks
<1>2. (2 * k + pp) % 2 = pp
  <2>1. CASE pp = 0  BY <2>1
  <2>2. CASE pp = 1  BY <2>2
  <2>3. QED  BY <2>1, <2>2 DEF Banks
<1>3. BitOf(EntryAddress(2 * k + pp)) = pp  BY <1>1, <1>2, BitIsParity
<1>4. QED  BY <1>3 DEF WithBit, USBAdvancePingPongBuffer, EntryAddress, USB_BDT_ADDRESS, Banks

\* Where the SIE has a pair, as a number of pairs before it.
LEMMA Pairs ==
  ASSUME NEW ep \in Endpoints, NEW dir \in BdtDirections, PingPong(ep, dir)
  PROVE  \E k \in 0 .. 31 : \A pp \in Banks : SieEntry(ep, dir, pp) = 2 * k + pp
<1> USE DEF Endpoints, BdtDirections, Banks, OUT_FROM_HOST, IN_TO_HOST, SieEntry, PingPong,
            NoPingPongTable, Ep0OutOnlyTable, FullTable, AllButEp0Table,
            NO_PING_PONG, EP0_OUT_ONLY, FULL_PING_PONG, ALL_BUT_EP0
<1>1. CASE USB_PING_PONG_MODE = 0  BY <1>1
<1>2. CASE USB_PING_PONG_MODE = 1
  <2>1. \A pp \in Banks : SieEntry(ep, dir, pp) = pp  BY <1>2
  <2>2. WITNESS 0 \in 0 .. 31
  <2>3. QED  BY <1>2
<1>3. CASE USB_PING_PONG_MODE = 2
  <2>1. 2 * ep + dir \in 0 .. 31  OBVIOUS
  <2>2. \A pp \in Banks : SieEntry(ep, dir, pp) = 2 * (2 * ep + dir) + pp  BY <1>3
  <2>3. QED  BY <2>1, <2>2
<1>4. CASE USB_PING_PONG_MODE = 3
  <2>1. 2 * ep + dir - 1 \in 0 .. 31  BY <1>4
  <2>2. \A pp \in Banks : SieEntry(ep, dir, pp) = 2 * (2 * ep + dir - 1) + pp  BY <1>4
  <2>3. QED  BY <2>1, <2>2
<1>5. QED  BY <1>1, <1>2, <1>3, <1>4, Modes

\* The bit is there to be flipped exactly where the SIE takes two entries in turn.
LEMMA NextWherePaired ==
  ASSUME NEW ep \in Endpoints, NEW dir \in BdtDirections
  PROVE  /\ ep # 0 => USB_NEXT_PING_PONG = (IF PingPong(ep, dir) THEN 4 ELSE 0)
         /\ ep = 0 /\ dir = OUT_FROM_HOST =>
              USB_NEXT_EP0_OUT_PING_PONG = (IF PingPong(ep, dir) THEN 4 ELSE 0)
         /\ ep = 0 /\ dir = IN_TO_HOST =>
              USB_NEXT_EP0_IN_PING_PONG = (IF PingPong(ep, dir) THEN 4 ELSE 0)
<1> USE DEF PingPong, OUT_FROM_HOST, IN_TO_HOST, USB_NEXT_PING_PONG, USB_NEXT_EP0_OUT_PING_PONG,
            USB_NEXT_EP0_IN_PING_PONG, NO_PING_PONG, EP0_OUT_ONLY, FULL_PING_PONG, ALL_BUT_EP0
<1>1. CASE USB_PING_PONG_MODE = 0  BY <1>1
<1>2. CASE USB_PING_PONG_MODE = 1  BY <1>2
<1>3. CASE USB_PING_PONG_MODE = 2  BY <1>3
<1>4. CASE USB_PING_PONG_MODE = 3  BY <1>4
<1>5. QED  BY <1>1, <1>2, <1>3, <1>4, Modes

\* Without a pair both numbers are the same entry.
LEMMA Single ==
  ASSUME NEW ep \in Endpoints, NEW dir \in BdtDirections, ~PingPong(ep, dir),
         NEW p1 \in Banks, NEW p2 \in Banks
  PROVE  SieEntry(ep, dir, p1) = SieEntry(ep, dir, p2)
BY Modes DEF Endpoints, BdtDirections, Banks, OUT_FROM_HOST, IN_TO_HOST, SieEntry, PingPong,
   NoPingPongTable, Ep0OutOnlyTable, FullTable, AllButEp0Table,
   NO_PING_PONG, EP0_OUT_ONLY, FULL_PING_PONG, ALL_BUT_EP0

\* After a packet the pointer of an endpoint is at the entry that the SIE takes next
\* (usb_device.c:264), in every mode, and an advance of endpoint 0 likewise.
THEOREM AdvanceFollowsTheSie ==
  ASSUME NEW ep \in Endpoints, NEW dir \in BdtDirections, NEW pp \in Banks, NEW next,
         next = (IF ep # 0 THEN USB_NEXT_PING_PONG
                 ELSE IF dir = OUT_FROM_HOST THEN USB_NEXT_EP0_OUT_PING_PONG
                 ELSE USB_NEXT_EP0_IN_PING_PONG)
  PROVE  USBAdvancePingPongBuffer(EntryAddress(SieEntry(ep, dir, pp)), next)
           = EntryAddress(SieEntry(ep, dir, 1 - pp))
<1>1. next = (IF PingPong(ep, dir) THEN 4 ELSE 0)
  BY NextWherePaired DEF BdtDirections
<1>2. 1 - pp \in Banks  BY DEF Banks
<1>3. CASE PingPong(ep, dir)
  <2>1. PICK k \in 0 .. 31 : \A p \in Banks : SieEntry(ep, dir, p) = 2 * k + p  BY <1>3, Pairs
  <2>2. SieEntry(ep, dir, pp) = 2 * k + pp /\ SieEntry(ep, dir, 1 - pp) = 2 * k + 1 - pp
    BY <2>1, <1>2 DEF Banks
  <2>3. USBAdvancePingPongBuffer(EntryAddress(2 * k + pp), 4) = EntryAddress(2 * k + 1 - pp)
    BY FlipAPair
  <2>4. QED  BY <1>1, <1>3, <2>2, <2>3
<1>4. CASE ~PingPong(ep, dir)
  <2>1. SieEntry(ep, dir, pp) = SieEntry(ep, dir, 1 - pp)  BY <1>4, <1>2, Single
  <2>2. QED  BY <1>1, <1>4, <2>1 DEF USBAdvancePingPongBuffer, WithBit
<1>5. QED  BY <1>3, <1>4

\* A clear halt finds both entries of an endpoint from either of them (usb_device.c:265).
THEOREM OddAndEvenAreThePair ==
  ASSUME NEW ep \in Endpoints \ {0}, NEW dir \in BdtDirections, NEW pp \in Banks
  PROVE  /\ USBHALPingPongSetToEven(EntryAddress(SieEntry(ep, dir, pp)))
              = EntryAddress(SieEntry(ep, dir, 0))
         /\ USBHALPingPongSetToOdd(EntryAddress(SieEntry(ep, dir, pp)))
              = EntryAddress(SieEntry(ep, dir, 1))
<1>1. USB_NEXT_PING_PONG = (IF PingPong(ep, dir) THEN 4 ELSE 0)  BY NextWherePaired
<1>2. 0 \in Banks /\ 1 \in Banks  BY DEF Banks
<1>3. CASE PingPong(ep, dir)
  <2>1. PICK k \in 0 .. 31 : \A p \in Banks : SieEntry(ep, dir, p) = 2 * k + p  BY <1>3, Pairs
  <2>2. \A bit \in Banks : WithBit(EntryAddress(2 * k + pp), bit, 4) = EntryAddress(2 * k + bit)
    BY FlipAPair
  <2>3. QED
    BY <1>1, <1>2, <1>3, <2>1, <2>2 DEF USBHALPingPongSetToEven, USBHALPingPongSetToOdd
<1>4. CASE ~PingPong(ep, dir)
  <2>1. /\ SieEntry(ep, dir, pp) = SieEntry(ep, dir, 0)
        /\ SieEntry(ep, dir, pp) = SieEntry(ep, dir, 1)
    BY <1>4, <1>2, Single
  <2>2. QED
    BY <1>1, <1>4, <2>1 DEF USBHALPingPongSetToEven, USBHALPingPongSetToOdd, WithBit
<1>5. QED  BY <1>3, <1>4

\* From USTAT the firmware takes exactly the transactions of endpoint 0 OUT for such, and finds
\* the entry of the pair that the packet is in (usb_device.c:2372).  Without a pair the SIE says 0.
THEOREM UstatFindsTheEntry ==
  ASSUME NEW ep \in Endpoints, NEW dir \in BdtDirections, NEW pp \in Banks,
         ~PingPong(ep, dir) => pp = 0
  PROVE  /\ IsEp0Out(Ustat(ep, dir, pp)) <=> ep = 0 /\ dir = OUT_FROM_HOST
         /\ ep = 0 /\ dir = OUT_FROM_HOST =>
              EP0OutCurrent(Ustat(ep, dir, pp)) = SieEntry(ep, dir, pp)
<1>1. IsEp0Out(Ustat(ep, dir, pp)) <=> ep = 0 /\ dir = OUT_FROM_HOST
  <2> USE DEF Endpoints, BdtDirections, Banks, OUT_FROM_HOST, IN_TO_HOST
  <2>1. (8 * ep + 4 * dir + 2 * pp) \div 2 = 4 * ep + 2 * dir + pp  OBVIOUS
  <2>2. (4 * ep + 2 * dir + pp) % 2 = pp  OBVIOUS
  <2>3. QED  BY <2>1, <2>2 DEF IsEp0Out, Ustat
<1>2. ASSUME ep = 0, dir = OUT_FROM_HOST
      PROVE  EP0OutCurrent(Ustat(ep, dir, pp)) = SieEntry(ep, dir, pp)
  <2>1. EP0OutCurrent(Ustat(ep, dir, pp)) = pp
    BY <1>2 DEF EP0OutCurrent, Ustat, OUT_FROM_HOST, Banks
  <2> USE DEF Banks, OUT_FROM_HOST, SieEntry, PingPong, NoPingPongTable, Ep0OutOnlyTable, FullTable,
              AllButEp0Table, NO_PING_PONG, EP0_OUT_ONLY, FULL_PING_PONG, ALL_BUT_EP0
  <2>2. CASE USB_PING_PONG_MODE = 0  BY <1>2, <2>1, <2>2
  <2>3. CASE USB_PING_PONG_MODE = 1  BY <1>2, <2>1, <2>3
  <2>4. CASE USB_PING_PONG_MODE = 2  BY <1>2, <2>1, <2>4
  <2>5. CASE USB_PING_PONG_MODE = 3  BY <1>2, <2>1, <2>5
  <2>6. QED  BY <2>2, <2>3, <2>4, <2>5, Modes
<1>3. QED  BY <1>1, <1>2

----------------------------------------------------------------------------
(* Buffers.                                                                 *)

\* Nothing that the SIE writes or reads overlaps anything else of it, whatever the mode, the packet
\* size and the number of endpoints (usb_hal_pic18.h:221); the descriptors stay in their page.
THEOREM BuffersAreApart ==
  /\ \A a, b \in Regions : a # b => Apart(a, b)
  /\ USB_BDT_ADDRESS + 4 * BDT_NUM_ENTRIES <= USB_BDT_ADDRESS + 256
<1>1. BDT_NUM_ENTRIES \in 4 .. 64
  BY Modes DEF BDT_NUM_ENTRIES, NO_PING_PONG, EP0_OUT_ONLY, FULL_PING_PONG, ALL_BUT_EP0
<1>2. \A a, b \in Regions : a # b => Apart(a, b)
  BY <1>1, Modes DEF Regions, Apart, CTRL_TRF_SETUP_ADDRESS, CTRL_TRF_DATA_ADDRESS,
     MSD_CBW_ADDRESS, MSD_CSW_ADDRESS, MSD_BUFFER_ADDRESS, MSD_OUT_EP_SIZE, MSD_CSW_SIZE,
     USB_BDT_ADDRESS
<1>3. QED  BY <1>1, <1>2 DEF USB_BDT_ADDRESS

----------------------------------------------------------------------------
(* The status byte.                                                         *)

\* The PID takes the place of the control bits and of nothing else.
LEMMA PidIsInItsField ==
  ASSUME NEW stat \in StatusBytes, NEW pid \in TokenPids
  PROVE  GivenBack(stat, pid) \in SUBSET (2 .. 6) /\ (DTS \in GivenBack(stat, pid) <=> DTS \in stat)
BY DEF GivenBack, Bits, StatusBytes, DTS

\* Whatever an entry held, the PID of the last packet included, the operations on the byte do to
\* its owner and its toggle what UsbEndpoint says of a pair (usb_device.c:1023, 1087, 2885, 2915).
THEOREM EndpointModelIsExact ==
  ASSUME NEW stat \in StatusBytes, NEW pid \in TokenPids
  PROVE  /\ View(TransferOnePacket(stat, TRUE)) = [own |-> "armed", toggle |-> View(stat).toggle]
         /\ View(Stalled(stat)) = [own |-> "stall", toggle |-> View(stat).toggle]
         /\ View(ClearedActive(stat, TRUE)) = [own |-> "cpu", toggle |-> 0]
         /\ View(ClearedOther(stat)) = [own |-> "cpu", toggle |-> 1]
         /\ View(GivenBack(stat, pid)) = [own |-> "cpu", toggle |-> View(stat).toggle]
         /\ View(ConfiguredFirst(stat, TRUE)) = [own |-> "cpu", toggle |-> 0]
<1> USE DEF View, StatusBytes, BSTALL, DTSEN, DTS, UOWN
<1>1. View(TransferOnePacket(stat, TRUE)) = [own |-> "armed", toggle |-> View(stat).toggle]
  BY DEF TransferOnePacket
<1>2. View(Stalled(stat)) = [own |-> "stall", toggle |-> View(stat).toggle]  BY DEF Stalled
<1>3. View(ClearedActive(stat, TRUE)) = [own |-> "cpu", toggle |-> 0]  BY DEF ClearedActive
<1>4. View(ClearedOther(stat)) = [own |-> "cpu", toggle |-> 1]  BY DEF ClearedOther
<1>5. View(GivenBack(stat, pid)) = [own |-> "cpu", toggle |-> View(stat).toggle]
  BY PidIsInItsField
<1>6. View(ConfiguredFirst(stat, TRUE)) = [own |-> "cpu", toggle |-> 0]  BY DEF ConfiguredFirst
<1>7. QED  BY <1>1, <1>2, <1>3, <1>4, <1>5, <1>6

\* No bit that the SIE or a STALL left gets into an armed entry (usb_device.c:1025).
THEOREM ArmedForOnePacket ==
  ASSUME NEW stat \in StatusBytes, NEW paired \in BOOLEAN
  PROVE  TransferOnePacket(stat, paired) \ {DTS} = {DTSEN, UOWN}
BY DEF TransferOnePacket, DTS, DTSEN, UOWN

\* An endpoint whose halt was cleared begins with DATA0 and goes on with DATA1, with a pair of
\* entries and without one, whatever they held (usb_device.c:2885 and 2948).
THEOREM HaltClearedStartsAnew ==
  ASSUME NEW stat \in StatusBytes, NEW other \in StatusBytes, NEW pid \in TokenPids
  PROVE  /\ View(TransferOnePacket(ClearedActive(stat, TRUE), TRUE)).toggle = 0
         /\ View(TransferOnePacket(ClearedOther(other), TRUE)).toggle = 1
         /\ LET first == TransferOnePacket(ClearedActive(stat, FALSE), FALSE)
            IN  /\ View(first).toggle = 0
                /\ View(TransferOnePacket(GivenBack(first, pid), FALSE)).toggle = 1
<1> DEFINE first == TransferOnePacket(ClearedActive(stat, FALSE), FALSE)
<1> USE DEF View, StatusBytes, BSTALL, DTSEN, DTS, UOWN
<1>1. View(TransferOnePacket(ClearedActive(stat, TRUE), TRUE)).toggle = 0
  BY DEF TransferOnePacket, ClearedActive
<1>2. View(TransferOnePacket(ClearedOther(other), TRUE)).toggle = 1
  BY DEF TransferOnePacket, ClearedOther
<1>3. DTS \notin first /\ first \in StatusBytes
  BY DEF TransferOnePacket, ClearedActive
<1>4. DTS \notin GivenBack(first, pid)
  <2> HIDE DEF first
  <2>1. QED  BY <1>3, PidIsInItsField
<1>5. View(TransferOnePacket(GivenBack(first, pid), FALSE)).toggle = 1
  <2> HIDE DEF first
  <2>1. QED  BY <1>4 DEF TransferOnePacket
<1>6. QED  BY <1>1, <1>2, <1>3, <1>5

\* So does an endpoint that was configured (usb_device.c:1562).
THEOREM ConfiguredStartsAnew ==
  ASSUME NEW stat \in StatusBytes, NEW other \in StatusBytes, NEW pid \in TokenPids
  PROVE  /\ View(TransferOnePacket(ConfiguredFirst(stat, TRUE), TRUE)).toggle = 0
         /\ View(TransferOnePacket(ConfiguredSecond(other), TRUE)).toggle = 1
         /\ View(TransferOnePacket(ConfiguredFirst(stat, FALSE), FALSE)).toggle = 0
BY DEF View, StatusBytes, BSTALL, DTSEN, DTS, UOWN, TransferOnePacket,
       ConfiguredFirst, ConfiguredSecond
=============================================================================
