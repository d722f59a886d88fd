------------------------------ MODULE UsbMemory ------------------------------
(***************************************************************************)
(* The memory that the firmware shares with the USB module: the table of   *)
(* buffer descriptors and the buffers they point at.                       *)
(*                                                                         *)
(* The SIE numbers the entries of the table by the ping-pong mode          *)
(* (usb_device_local.h has its numbering as constants); the firmware finds *)
(* an entry in three other ways: with the macro EP, by flipping a bit in   *)
(* the low byte of a pointer, and from the USTAT register.  The buffers    *)
(* are laid out by hand behind the table (usb_hal_pic18.h).  This module   *)
(* is about values, not about steps; the models of the endpoints take from *)
(* it that an endpoint has two entries and that one follows the other.     *)
(***************************************************************************)
EXTENDS Integers

CONSTANTS USB_PING_PONG_MODE, \* FULL_PING_PONG as shipped
          USB_EP0_BUFF_SIZE,  \* 8 as shipped
          USB_MAX_EP_NUMBER   \* 1 as shipped

NO_PING_PONG == 0
EP0_OUT_ONLY == 1
FULL_PING_PONG == 2
ALL_BUT_EP0 == 3

\* The choices that the comments of usb_config.h leave.
ASSUME MemoryAssumption ==
  /\ USB_PING_PONG_MODE \in {NO_PING_PONG, EP0_OUT_ONLY, FULL_PING_PONG, ALL_BUT_EP0}
  /\ USB_EP0_BUFF_SIZE \in {8, 16, 32, 64}
  /\ USB_MAX_EP_NUMBER \in 1 .. 15

OUT_FROM_HOST == 0
IN_TO_HOST == 1

Endpoints == 0 .. 15
BdtDirections == {OUT_FROM_HOST, IN_TO_HOST}
Banks == {0, 1}

----------------------------------------------------------------------------
(* The entries, as the SIE numbers them.                                    *)

\* EP0_OUT_EVEN .. EP15_IN_ODD, for each mode.
NoPingPongTable(ep, dir, pp) == 2 * ep + dir

Ep0OutOnlyTable(ep, dir, pp) ==
  IF ep = 0 /\ dir = OUT_FROM_HOST THEN pp ELSE 2 * ep + dir + 1

FullTable(ep, dir, pp) == 4 * ep + 2 * dir + pp

AllButEp0Table(ep, dir, pp) ==
  IF ep = 0 THEN dir ELSE 4 * ep + 2 * dir + pp - 2

SieEntry(ep, dir, pp) ==
  CASE USB_PING_PONG_MODE = NO_PING_PONG   -> NoPingPongTable(ep, dir, pp)
    [] USB_PING_PONG_MODE = EP0_OUT_ONLY   -> Ep0OutOnlyTable(ep, dir, pp)
    [] USB_PING_PONG_MODE = FULL_PING_PONG -> FullTable(ep, dir, pp)
    [] USB_PING_PONG_MODE = ALL_BUT_EP0    -> AllButEp0Table(ep, dir, pp)

\* Whether the SIE takes two entries in turn.
PingPong(ep, dir) ==
  CASE USB_PING_PONG_MODE = NO_PING_PONG   -> FALSE
    [] USB_PING_PONG_MODE = EP0_OUT_ONLY   -> ep = 0 /\ dir = OUT_FROM_HOST
    [] USB_PING_PONG_MODE = FULL_PING_PONG -> TRUE
    [] USB_PING_PONG_MODE = ALL_BUT_EP0    -> ep # 0

BDT_NUM_ENTRIES ==
  CASE USB_PING_PONG_MODE = NO_PING_PONG   -> (USB_MAX_EP_NUMBER + 1) * 2
    [] USB_PING_PONG_MODE = EP0_OUT_ONLY   -> (USB_MAX_EP_NUMBER + 1) * 2 + 1
    [] USB_PING_PONG_MODE = FULL_PING_PONG -> (USB_MAX_EP_NUMBER + 1) * 4
    [] USB_PING_PONG_MODE = ALL_BUT_EP0    -> (USB_MAX_EP_NUMBER + 1) * 4 - 2

----------------------------------------------------------------------------
(* The entries, as the firmware finds them.                                 *)

EP(ep, dir, pp) ==
  CASE USB_PING_PONG_MODE = NO_PING_PONG   -> 2 * ep + dir
    [] USB_PING_PONG_MODE = EP0_OUT_ONLY   ->
         2 * ep + dir + (IF ep = 0 /\ dir = OUT_FROM_HOST THEN pp ELSE 1)
    [] USB_PING_PONG_MODE = FULL_PING_PONG -> 4 * ep + 2 * dir + pp
    [] USB_PING_PONG_MODE = ALL_BUT_EP0    ->
         4 * ep + 2 * dir + (IF ep = 0 THEN 0 ELSE pp - 2)

\* The bit that tells the two entries of an endpoint apart in a pointer: none, or that of value 4.
USB_NEXT_PING_PONG ==
  IF USB_PING_PONG_MODE \in {FULL_PING_PONG, ALL_BUT_EP0} THEN 4 ELSE 0

USB_NEXT_EP0_OUT_PING_PONG ==
  IF USB_PING_PONG_MODE \in {FULL_PING_PONG, EP0_OUT_ONLY} THEN 4 ELSE 0

USB_NEXT_EP0_IN_PING_PONG ==
  IF USB_PING_PONG_MODE = FULL_PING_PONG THEN 4 ELSE 0

USB_BDT_ADDRESS == 1024

\* &BDT[i]
EntryAddress(i) == USB_BDT_ADDRESS + 4 * i

\* The operations work on the low byte of the pointer and on one bit of it.
BitOf(pointer) == ((pointer % 256) \div 4) % 2

WithBit(pointer, bit, next) ==
  IF next = 0 THEN pointer ELSE pointer + 4 * (bit - BitOf(pointer))

USBAdvancePingPongBuffer(pointer, next) == WithBit(pointer, 1 - BitOf(pointer), next)

USBHALPingPongSetToOdd(pointer) == WithBit(pointer, 1, USB_NEXT_PING_PONG)

USBHALPingPongSetToEven(pointer) == WithBit(pointer, 0, USB_NEXT_PING_PONG)

\* USTAT: bit 1 the entry of the pair, bit 2 the direction, bits 3 to 6 the endpoint.
Ustat(ep, dir, pp) == 8 * ep + 4 * dir + 2 * pp

IsEp0Out(ustat) == ustat - 2 * ((ustat \div 2) % 2) = 0

EP0OutCurrent(ustat) == (ustat \div 2) % 64

----------------------------------------------------------------------------
(* The buffers.                                                             *)

MSD_OUT_EP_SIZE == 64
MSD_CSW_SIZE == 13

CTRL_TRF_SETUP_ADDRESS == USB_BDT_ADDRESS + BDT_NUM_ENTRIES * 4
CTRL_TRF_DATA_ADDRESS == CTRL_TRF_SETUP_ADDRESS + USB_EP0_BUFF_SIZE
MSD_CBW_ADDRESS == CTRL_TRF_DATA_ADDRESS + USB_EP0_BUFF_SIZE
MSD_CSW_ADDRESS == MSD_CBW_ADDRESS + MSD_OUT_EP_SIZE
MSD_BUFFER_ADDRESS == 1536

\* What the SIE may touch there: the length the entry is armed with, which for the SETUP packet and
\* for the CBW is a packet of the endpoint and not the size of the object.
Regions ==
  {[object |-> "BDT",         first |-> USB_BDT_ADDRESS,        length |-> 4 * BDT_NUM_ENTRIES],
   [object |-> "SetupPkt",    first |-> CTRL_TRF_SETUP_ADDRESS, length |-> USB_EP0_BUFF_SIZE],
   [object |-> "CtrlTrfData", first |-> CTRL_TRF_DATA_ADDRESS,  length |-> USB_EP0_BUFF_SIZE],
   [object |-> "msd_cbw",     first |-> MSD_CBW_ADDRESS,        length |-> MSD_OUT_EP_SIZE],
   [object |-> "msd_csw",     first |-> MSD_CSW_ADDRESS,        length |-> MSD_CSW_SIZE],
   [object |-> "msd_buffer",  first |-> MSD_BUFFER_ADDRESS,     length |-> 512]}

Apart(a, b) == a.first + a.length <= b.first \/ b.first + b.length <= a.first

----------------------------------------------------------------------------
(* The status byte of an entry, BDnSTAT, as the set of the bits that are    *)
(* set: | is union, & ~ is difference.                                      *)

Bits(value, width) == {i \in 0 .. width - 1 : (value \div 2^i) % 2 = 1}

BSTALL == 2
DTSEN  == 3
INCDIS == 4
KEN    == 5
DTS    == 6
UOWN   == 7

StatusBytes == SUBSET (0 .. 7)

\* The SIE gives an entry back with the PID of the token where the control bits were.
TokenPids == {1, 9, 13}   \* PID_OUT, PID_IN, PID_SETUP

GivenBack(stat, pid) == (stat \cap {DTS}) \cup {2 + i : i \in Bits(pid, 4)}

\* USBConfigureEndpoint for an endpoint but 0: its first entry, its second one where there is a pair.
ConfiguredFirst(stat, paired) == IF paired THEN stat \ {UOWN, DTS} ELSE (stat \ {UOWN}) \cup {DTS}

ConfiguredSecond(stat) == stat \cup {DTS}

\* USBTransferOnePacket; the toggle is turned where there is no pair.
TransferOnePacket(stat, paired) ==
  LET toggled == IF paired THEN stat
                 ELSE IF DTS \in stat THEN stat \ {DTS} ELSE stat \cup {DTS}
  IN  (toggled \cap {DTS}) \cup {DTSEN, UOWN}

\* USBStallEndpoint and SET_FEATURE(ENDPOINT_HALT).  A PID stays where it is.
Stalled(stat) == stat \cup {BSTALL, UOWN}

\* CLEAR_FEATURE(ENDPOINT_HALT): the entry that the SIE takes next, then the other one of the pair.
ClearedActive(stat, paired) ==
  IF paired THEN stat \ {UOWN, DTS, BSTALL} ELSE (stat \ {UOWN, BSTALL}) \cup {DTS}

ClearedOther(stat) == (IF UOWN \in stat THEN stat \ {UOWN} ELSE stat) \cup {DTS}

\* What UsbEndpoint keeps of the byte.
View(stat) ==
  [own |-> IF UOWN \notin stat THEN "cpu" ELSE IF BSTALL \in stat THEN "stall" ELSE "armed",
   toggle |-> IF DTS \in stat THEN 1 ELSE 0]

----------------------------------------------------------------------------
(* The interrupt flags that are polled, in the register UIR.                *)

FlagBit == [URSTIF |-> 0, UERRIF |-> 1, ACTVIF |-> 2, TRNIF |-> 3,
            IDLEIF |-> 4, STALLIF |-> 5, SOFIF |-> 6]

\* The masks of usb_hal_pic18.h (its comments have TRNIF at bit 4 and IDLEIF at bit 5).
FlagMask == [TRNIF |-> 247, URSTIF |-> 254, IDLEIF |-> 239, ACTVIF |-> 251,
             SOFIF |-> 191, STALLIF |-> 223, UERRIF |-> 253]

USBClearInterruptFlag(register, mask) == register \cap Bits(mask, 8)
=============================================================================
