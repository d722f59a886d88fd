----------------------------- MODULE UsbEndpoint -----------------------------
(***************************************************************************)
(* One direction of a bulk endpoint under full ping-pong buffering         *)
(* (usb_device.c): two entries of the buffer descriptor table, used in     *)
(* turn.  The firmware hands entry "next" (pBDTEntryIn, pBDTEntryOut) to   *)
(* the serial interface engine (SIE); the SIE works on entry "active"      *)
(* (ping_pong_state) and gives it back when a transaction is complete.     *)
(*                                                                         *)
(* An entry is the firmware's ("cpu", UOWN clear), armed for one packet    *)
(* ("armed", UOWN set) or answers STALL ("stall", UOWN and BSTALL set).    *)
(* toggle is its DATA0/DATA1 bit, data the buffer it points to and cnt the *)
(* length in CNT.  Nothing reads BSTALL of an entry without UOWN.          *)
(***************************************************************************)
EXTENDS Naturals

\* The buffer pointer of an entry that was never armed.
NoBuffer == <<"none", 0>>

Entries == 0 .. 1

Directions == {"in", "out"}

\* USBAdvancePingPongBuffer
Other(i) == 1 - i

\* The type of an endpoint whose entries point to one of the given buffers.
EndpointType(buffers) ==
  [entry : [Entries -> [own : {"cpu", "armed", "stall"}, toggle : {0, 1},
                        data : buffers \cup {NoBuffer}, cnt : Nat]],
   next : Entries, active : Entries]

\* USBConfigureEndpoint, after the table was cleared and the ping-pong pointers were reset.
USBConfigureEndpoint ==
  [entry |-> [i \in Entries |-> [own |-> "cpu", toggle |-> i, data |-> NoBuffer, cnt |-> 0]],
   next |-> 0, active |-> 0]

\* USBHandleBusy(h), and the same of USBGetNextHandle().
USBHandleBusy(e, h) == e.entry[h].own # "cpu"

NextHandleBusy(e) == USBHandleBusy(e, e.next)

\* USBTransferOnePacket: whatever the next entry was, it is armed now; only its toggle stays.
USBTransferOnePacket(e, data, len) ==
  [e EXCEPT !.entry[e.next] = [own |-> "armed", toggle |-> @.toggle, data |-> data, cnt |-> len],
            !.next = Other(e.next)]

\* USBStallEndpoint: both entries.
USBStallEndpoint(e) ==
  [e EXCEPT !.entry = [i \in Entries |-> [e.entry[i] EXCEPT !.own = "stall"]]]

\* Mutant: the SIE keeps the entry.
ReclaimKeepingOwner(e, i, toggle) == [e EXCEPT !.entry[i].toggle = toggle]

\* Mutant: the toggle stays as it was.
ReclaimKeepingToggle(e, i, toggle) == [e EXCEPT !.entry[i].own = "cpu"]

\* An entry taken back from the SIE, with the given data toggle.
Reclaim(e, i, toggle) ==
  [e EXCEPT !.entry[i].own = "cpu", !.entry[i].toggle = toggle]

\* The SIE has moved a packet of cnt bytes and goes on to the other entry.
Complete(e, cnt) ==
  [e EXCEPT !.entry[e.active].own = "cpu", !.entry[e.active].cnt = cnt,
            !.active = Other(e.active)]

Active(e) == e.entry[e.active]
=============================================================================
