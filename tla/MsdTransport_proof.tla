------------------------- MODULE MsdTransport_proof -------------------------
(* The data toggles and the persistent stall, for every set of commands, sizes and disturbances. *)
EXTENDS MsdTransport, Integers, TLAPS

\* The types that the proofs need.  They leave open whether a count is negative and whether a
\* chunk lies in the sector buffer.
Buffers == {"none", "msd_cbw", "msd_csw", "msd_buffer"} \X Int

Entry == [own : {"cpu", "armed", "stall"}, toggle : {0, 1}, data : Buffers, cnt : Int]

Endpoint == [entry : [Entries -> Entry], next : Entries, active : Entries]

Pair == [in : Endpoint, out : Endpoint, inHandle : Entries, outHandle : Entries]

Counted == [op : Operations, in : BOOLEAN, length : Int, lba : Nat, count : Nat, tag : Tags,
            form : {"meaningful", "meaningless", "invalid"}]

\* The SIE is on the same entry, and no data toggle has changed.
SameToggles(e, f) ==
  /\ f.active = e.active
  /\ \A i \in Entries : f.entry[i].toggle = e.entry[i].toggle

AllStalled(e) == \A i \in Entries : e.entry[i].own = "stall"

----------------------------------------------------------------------------
(* The operators on an endpoint.                                            *)

LEMMA ConfiguredShape ==
  /\ USBConfigureEndpoint \in Endpoint
  /\ USBConfigureEndpoint.active = 0
  /\ \A i \in Entries : USBConfigureEndpoint.entry[i].toggle = i
<1>1. NoBuffer \in Buffers
  BY DEF NoBuffer, Buffers
<1> QED BY <1>1 DEF USBConfigureEndpoint, Endpoint, Entry, Entries

\* Only one entry of the endpoint changes.
LEMMA NewEntry ==
  ASSUME NEW e \in Endpoint, NEW i \in Entries, NEW r \in Entry
  PROVE  [e EXCEPT !.entry[i] = r]
           = [entry |-> [e.entry EXCEPT ![i] = r], next |-> e.next, active |-> e.active]
BY DEF Endpoint

LEMMA NewEntryShape ==
  ASSUME NEW e \in Endpoint, NEW i \in Entries, NEW r \in Entry, NEW n \in Entries, NEW a \in Entries
  PROVE  LET f == [entry |-> [e.entry EXCEPT ![i] = r], next |-> n, active |-> a]
         IN f \in Endpoint /\ f.entry[i] = r /\ f.entry[Other(i)] = e.entry[Other(i)]
BY DEF Endpoint, Entries, Other

LEMMA TransferShape ==
  ASSUME NEW e \in Endpoint, NEW data \in Buffers, NEW len \in Int
  PROVE  /\ USBTransferOnePacket(e, data, len) \in Endpoint
         /\ SameToggles(e, USBTransferOnePacket(e, data, len))
<1> DEFINE r == [own |-> "armed", toggle |-> e.entry[e.next].toggle, data |-> data, cnt |-> len]
           f == [entry |-> [e.entry EXCEPT ![e.next] = r], next |-> Other(e.next),
                 active |-> e.active]
<1>1. r \in Entry /\ r.toggle = e.entry[e.next].toggle
  BY DEF Entry, Endpoint
<1>2. USBTransferOnePacket(e, data, len) = [[e EXCEPT !.entry[e.next] = r] EXCEPT !.next = Other(e.next)]
  BY DEF USBTransferOnePacket
<1> HIDE DEF r
<1>3. USBTransferOnePacket(e, data, len) = f
  BY <1>1, <1>2, NewEntry DEF Endpoint
<1>4. f \in Endpoint /\ f.entry[e.next] = r /\ f.entry[Other(e.next)] = e.entry[Other(e.next)]
  BY <1>1, NewEntryShape DEF Endpoint, Entries, Other
<1> QED BY <1>1, <1>3, <1>4 DEF SameToggles, Endpoint, Entries, Other

LEMMA StallShape ==
  ASSUME NEW e \in Endpoint
  PROVE  /\ USBStallEndpoint(e) \in Endpoint
         /\ SameToggles(e, USBStallEndpoint(e))
         /\ AllStalled(USBStallEndpoint(e))
BY DEF USBStallEndpoint, Endpoint, Entry, SameToggles, AllStalled, Entries

LEMMA ReclaimShape ==
  ASSUME NEW e \in Endpoint, NEW i \in Entries, NEW t \in {0, 1}
  PROVE  /\ Reclaim(e, i, t) \in Endpoint
         /\ Reclaim(e, i, t).active = e.active
         /\ Reclaim(e, i, t).entry[i].toggle = t
         /\ Reclaim(e, i, t).entry[Other(i)] = e.entry[Other(i)]
<1> DEFINE r == [e.entry[i] EXCEPT !.own = "cpu", !.toggle = t]
           f == [entry |-> [e.entry EXCEPT ![i] = r], next |-> e.next, active |-> e.active]
<1>1. r \in Entry /\ r.toggle = t
  BY DEF Entry, Endpoint
<1>2. Reclaim(e, i, t) = [e EXCEPT !.entry[i] = r]
  BY DEF Reclaim, Endpoint
<1> HIDE DEF r
<1>3. Reclaim(e, i, t) = f
  BY <1>1, <1>2, NewEntry
<1>4. f \in Endpoint /\ f.entry[i] = r /\ f.entry[Other(i)] = e.entry[Other(i)]
  BY <1>1, NewEntryShape DEF Endpoint
<1> QED BY <1>1, <1>3, <1>4

LEMMA CompleteShape ==
  ASSUME NEW e \in Endpoint, NEW cnt \in Int
  PROVE  /\ Complete(e, cnt) \in Endpoint
         /\ Complete(e, cnt).active = Other(e.active)
         /\ \A i \in Entries : Complete(e, cnt).entry[i].toggle = e.entry[i].toggle
<1> DEFINE r == [e.entry[e.active] EXCEPT !.own = "cpu", !.cnt = cnt]
           f == [entry |-> [e.entry EXCEPT ![e.active] = r], next |-> e.next,
                 active |-> Other(e.active)]
<1>1. r \in Entry /\ r.toggle = e.entry[e.active].toggle
  BY DEF Entry, Endpoint
<1>2. Complete(e, cnt) = [[e EXCEPT !.entry[e.active] = r] EXCEPT !.active = Other(e.active)]
  BY DEF Complete, Endpoint
<1> HIDE DEF r
<1>3. Complete(e, cnt) = f
  BY <1>1, <1>2, NewEntry DEF Endpoint
<1>4. f \in Endpoint /\ f.entry[e.active] = r /\ f.entry[Other(e.active)] = e.entry[Other(e.active)]
  BY <1>1, NewEntryShape DEF Endpoint, Entries, Other
<1> QED BY <1>1, <1>3, <1>4 DEF Endpoint, Entries, Other

----------------------------------------------------------------------------
(* The operators on the pair.                                               *)

LEMMA TxShape ==
  ASSUME NEW u \in Pair, NEW data \in Buffers, NEW len \in Int
  PROVE  Tx(u, data, len) \in Pair
         /\ \A d \in Directions : SameToggles(u[d], Tx(u, data, len)[d])
<1> DEFINE e == USBTransferOnePacket(u.in, data, len)
<1>1. e \in Endpoint /\ SameToggles(u.in, e)
  BY TransferShape DEF Pair
<1>2. Tx(u, data, len) = [u EXCEPT !.in = e, !.inHandle = u.in.next]
  BY DEF Tx, Pair
<1> HIDE DEF e
<1>3. u.in.next \in Entries
  BY DEF Pair, Endpoint
<1> QED BY <1>1, <1>2, <1>3 DEF Pair, Directions, SameToggles

LEMMA RxShape ==
  ASSUME NEW u \in Pair, NEW data \in Buffers
  PROVE  Rx(u, data) \in Pair
         /\ \A d \in Directions : SameToggles(u[d], Rx(u, data)[d])
<1> DEFINE e == USBTransferOnePacket(u.out, data, EP_SIZE)
<1>1. e \in Endpoint /\ SameToggles(u.out, e)
  BY TransferShape, SizesAssumption DEF Pair
<1>2. Rx(u, data) = [u EXCEPT !.out = e, !.outHandle = u.out.next]
  BY DEF Rx, Pair
<1> HIDE DEF e
<1>3. u.out.next \in Entries
  BY DEF Pair, Endpoint
<1> QED BY <1>1, <1>2, <1>3 DEF Pair, Directions, SameToggles

LEMMA StallPairShape ==
  ASSUME NEW u \in Pair, NEW s \in Directions
  PROVE  /\ Stall(u, s) \in Pair
         /\ \A d \in Directions : SameToggles(u[d], Stall(u, s)[d])
         /\ AllStalled(Stall(u, s)[s])
         /\ \A d \in Directions \ {s} : Stall(u, s)[d] = u[d]
<1>1. u[s] \in Endpoint
  BY DEF Pair, Directions
<1> DEFINE e == USBStallEndpoint(u[s])
<1>2. e \in Endpoint /\ SameToggles(u[s], e) /\ AllStalled(e)
  BY <1>1, StallShape
<1>3. Stall(u, s) = [u EXCEPT ![s] = e]
  BY DEF Stall, Pair
<1> HIDE DEF e
<1> QED BY <1>2, <1>3 DEF Pair, Directions, SameToggles

LEMMA StallBothShape ==
  ASSUME NEW u \in Pair
  PROVE  /\ StallBoth(u) \in Pair
         /\ \A d \in Directions : SameToggles(u[d], StallBoth(u)[d]) /\ AllStalled(StallBoth(u)[d])
<1> DEFINE v == Stall(u, "in")
<1>1. "in" \in Directions /\ "out" \in Directions
  BY DEF Directions
<1>2. v \in Pair /\ AllStalled(v["in"]) /\ \A d \in Directions : SameToggles(u[d], v[d])
  BY <1>1, StallPairShape
<1>3. StallBoth(u) = Stall(v, "out")
  BY DEF StallBoth
<1> HIDE DEF v
<1>4. /\ Stall(v, "out") \in Pair /\ AllStalled(Stall(v, "out")["out"])
      /\ \A d \in Directions : SameToggles(v[d], Stall(v, "out")[d])
      /\ Stall(v, "out")["in"] = v["in"]
  BY <1>1, <1>2, StallPairShape DEF Directions
<1>5. \A d \in Directions : SameToggles(u[d], Stall(v, "out")[d])
  BY <1>2, <1>4 DEF SameToggles
<1> QED BY <1>2, <1>3, <1>4, <1>5 DEF Directions

\* EVENT_TRANSFER_TERMINATED moves no toggle, and stalls again what an invalid CBW has stalled.
LEMMA TerminatedShape ==
  ASSUME NEW u \in Pair, NEW d \in Directions, NEW i \in Entries
  PROVE  /\ TransferTerminated(u, d, i) \in Pair
         /\ \A b \in Directions : SameToggles(u[b], TransferTerminated(u, d, i)[b])
         /\ ~MSDCBWValid => \A b \in Directions : AllStalled(TransferTerminated(u, d, i)[b])
<1>1. CbwBuffer \in Buffers
  BY DEF CbwBuffer, Buffers
<1>2. CASE ~MSDCBWValid
  BY <1>2, StallBothShape DEF TransferTerminated
<1>3. CASE MSDCBWValid /\ d = "out" /\ i = u.out.next
  BY <1>1, <1>3, RxShape DEF TransferTerminated
<1>4. CASE MSDCBWValid /\ ~(d = "out" /\ i = u.out.next)
  BY <1>4 DEF TransferTerminated, SameToggles
<1> QED BY <1>2, <1>3, <1>4

LEMMA TerminateShape ==
  ASSUME NEW u \in Pair, NEW d \in Directions, NEW i \in Entries, NEW t \in {0, 1}
  PROVE  LET v == Terminate(u, d, i, t)
         IN /\ v \in Pair
            /\ \A b \in Directions : v[b].active = u[b].active
            /\ v[d].entry[i].toggle = t
            /\ v[d].entry[Other(i)].toggle = u[d].entry[Other(i)].toggle
            /\ \A b \in Directions \ {d} : SameToggles(u[b], v[b])
            /\ ~MSDCBWValid /\ (\A b \in Directions : AllStalled(u[b]))
                 => \A b \in Directions : AllStalled(v[b])
<1>1. u[d] \in Endpoint
  BY DEF Pair, Directions
<1> DEFINE e == Reclaim(u[d], i, t)
           r == [u EXCEPT ![d] = e]
           v == Terminate(u, d, i, t)
<1>2. /\ e \in Endpoint /\ e.active = u[d].active
      /\ e.entry[i].toggle = t /\ e.entry[Other(i)] = u[d].entry[Other(i)]
  BY <1>1, ReclaimShape
<1>3. v = IF USBHandleBusy(u[d], i) THEN TransferTerminated(r, d, i) ELSE r
  BY DEF Terminate, Pair
<1> HIDE DEF e, v
<1>4. /\ r \in Pair /\ r[d] = e
      /\ \A b \in Directions \ {d} : r[b] = u[b]
  BY <1>2 DEF Pair, Directions
<1> HIDE DEF r
<1>5. /\ v \in Pair
      /\ \A b \in Directions : SameToggles(r[b], v[b])
      /\ ~MSDCBWValid /\ USBHandleBusy(u[d], i) => \A b \in Directions : AllStalled(v[b])
  <2>1. CASE USBHandleBusy(u[d], i)
    BY <1>3, <1>4, <2>1, TerminatedShape
  <2>2. CASE ~USBHandleBusy(u[d], i)
    BY <1>3, <1>4, <2>2 DEF SameToggles
  <2> QED BY <2>1, <2>2
<1>6. (\A b \in Directions : AllStalled(u[b])) => USBHandleBusy(u[d], i)
  BY DEF AllStalled, USBHandleBusy
<1>7. i \in Entries /\ Other(i) \in Entries
  BY DEF Entries, Other
<1>8. \A b \in Directions : v[b].active = u[b].active
  BY <1>2, <1>4, <1>5 DEF SameToggles
<1>9. /\ v[d].entry[i].toggle = t
      /\ v[d].entry[Other(i)].toggle = u[d].entry[Other(i)].toggle
  BY <1>2, <1>4, <1>5, <1>7 DEF SameToggles
<1>10. \A b \in Directions \ {d} : SameToggles(u[b], v[b])
  BY <1>4, <1>5
<1> QED BY <1>5, <1>6, <1>8, <1>9, <1>10 DEF v

----------------------------------------------------------------------------
(* The invariant.                                                           *)

Types ==
  /\ usb \in Pair
  /\ gblCBW \in Counted /\ msd_cbw \in Counted /\ cmd \in Counted
  /\ moved \in Int /\ ptrNextData \in Int
  /\ toggle \in [Directions -> {0, 1}]

ClearsHalt(d) == IF d = "in" THEN "CLEAR_HALT_IN" ELSE "CLEAR_HALT_OUT"

\* Both entries, not just the one at hand, hold the toggles that the host will use: except where
\* a request is waiting that sets them right.
InStep(d) ==
  setup \notin {"BUS_RESET", ClearsHalt(d)} =>
    \A i \in Entries :
      usb[d].entry[i].toggle = IF i = usb[d].active THEN toggle[d] ELSE 1 - toggle[d]

\* ... and there the host has started with DATA0.
StartsAnew ==
  /\ setup = "BUS_RESET" => host = "configure"
  /\ host = "configure" \/ setup = "SET_CONFIGURATION" => \A d \in Directions : toggle[d] = 0
  /\ \A d \in Directions : setup = ClearsHalt(d) => toggle[d] = 0

\* An invalid CBW has stalled all that there is, and MSDTasks waits for a CBW that cannot come.
Locked ==
  configured /\ ~MSDCBWValid =>
    MSD_State = "WAIT" /\ \A d \in Directions : AllStalled(usb[d])

IndInv == Types /\ (\A d \in Directions : InStep(d)) /\ StartsAnew /\ Locked

----------------------------------------------------------------------------
(* MSDTasks.                                                                *)

\* What every step of MSDTasks does, as far as the invariant goes.
MSDTasksEffect ==
  /\ usb' \in Pair /\ \A d \in Directions : SameToggles(usb[d], usb'[d])
  /\ gblCBW' \in Counted /\ msd_cbw' = msd_cbw /\ ptrNextData' \in Int
  /\ setup' = setup /\ configured' = configured
  /\ configured /\ (MSD_State = "WAIT" => ~OutBusy)
  /\ MSDCBWValid' = MSDCBWValid \/ MSDCBWValid' \/ RejectCBW

LEMMA BuffersOfDrive ==
  /\ CbwBuffer \in Buffers /\ CswBuffer \in Buffers
  /\ \A k \in Int : DataBuffer(k) \in Buffers
BY DEF CbwBuffer, CswBuffer, DataBuffer, Buffers

LEMMA ShorterLength ==
  ASSUME NEW c \in Counted, NEW n \in Int
  PROVE  [c EXCEPT !.length = @ - n] \in Counted
BY DEF Counted

\* An error moves no toggle.
LEMMA ErrorHandlerEffect ==
  ASSUME Types, NEW stalled \in Directions \cup {"none"}, NEW status, NEW key,
         MSDErrorHandler(stalled, status, key)
  PROVE  usb' \in Pair /\ \A d \in Directions : SameToggles(usb[d], usb'[d])
<1>1. usb' = usb \/ (stalled \in Directions /\ usb' = Stall(usb, stalled))
  BY DEF MSDErrorHandler
<1> QED BY <1>1, StallPairShape DEF Types, SameToggles

LEMMA MSDTasksStep == Types /\ MSDTasks => MSDTasksEffect
<1> SUFFICES ASSUME Types, MSDTasks PROVE MSDTasksEffect
  OBVIOUS
<1> USE BuffersOfDrive DEF Types
<1>q. ASSUME usb' = usb PROVE usb' \in Pair /\ \A d \in Directions : SameToggles(usb[d], usb'[d])
  BY <1>q DEF SameToggles
<1>1. CASE AcceptCBW
  BY <1>1, <1>q DEF AcceptCBW, MSDTasksEffect, CBWReceived, Tasks, bufferVars
<1>2. CASE RejectCBW
  BY <1>2, StallBothShape DEF RejectCBW, MSDTasksEffect, CBWReceived, Tasks, bufferVars
<1>3. CASE SendCSW
  <2> DEFINE sent == Tx(usb, CswBuffer, CSW_SIZE)
  <2>1. sent \in Pair /\ \A d \in Directions : SameToggles(usb[d], sent[d])
    BY TxShape, SizesAssumption
  <2>2. usb' = sent \/ usb' = Rx(sent, CbwBuffer)
    BY <1>3 DEF SendCSW
  <2> HIDE DEF sent
  <2>3. usb' \in Pair /\ \A d \in Directions : SameToggles(usb[d], usb'[d])
    BY <2>1, <2>2, RxShape DEF SameToggles
  <2> QED BY <1>3, <2>3 DEF SendCSW, MSDTasksEffect, Tasks, bufferVars, controlVars
<1>4. CASE FailCheckedCommand
  <2>1. usb' \in Pair /\ \A d \in Directions : SameToggles(usb[d], usb'[d])
    BY <1>4, ErrorHandlerEffect DEF FailCheckedCommand, ErrorCase, Directions
  <2> QED BY <1>4, <2>1 DEF FailCheckedCommand, Starting, Tasks, MSDTasksEffect, commandFrame, controlVars
<1>5. CASE FailUnsupported
  <2>1. usb' \in Pair /\ \A d \in Directions : SameToggles(usb[d], usb'[d])
    BY <1>5, ErrorHandlerEffect DEF FailUnsupported, Directions
  <2> QED BY <1>5, <2>1 DEF FailUnsupported, Starting, Tasks, MSDTasksEffect, commandFrame, controlVars
<1>6. CASE NoAnswerWanted \/ PreventAllowMediumRemoval \/ TestUnitReady \/ VerifyOrStopStart
  BY <1>6, <1>q DEF NoAnswerWanted, PreventAllowMediumRemoval, TestUnitReady, VerifyOrStopStart,
     Conclude, Starting, Tasks, MSDTasksEffect, commandFrame, controlVars
<1>7. CASE PrepareResponse
  BY <1>7, <1>q DEF PrepareResponse, Starting, Tasks, MSDTasksEffect, commandFrame, controlVars
<1>8. CASE SendResponse
  <2>1. Least(EP_SIZE, gblCBW.length) \in Int /\ DataBuffer(0) \in Buffers
    BY SizesAssumption DEF Least, Counted
  <2>2. /\ usb' = Tx(usb, DataBuffer(0), Least(EP_SIZE, gblCBW.length))
        /\ gblCBW' = [gblCBW EXCEPT !.length = @ - Least(EP_SIZE, gblCBW.length)]
    BY <1>8 DEF SendResponse
  <2>3. usb' \in Pair /\ \A d \in Directions : SameToggles(usb[d], usb'[d])
    BY <2>1, <2>2, TxShape
  <2>4. gblCBW' \in Counted
    BY <2>1, <2>2, ShorterLength
  <2>5. Tasks({"DATA_IN", "DATA_OUT"}) /\ UNCHANGED <<controlVars, msd_cbw, ptrNextData>>
    BY <1>8 DEF SendResponse, commandFrame
  <2> QED BY <2>3, <2>4, <2>5 DEF Tasks, MSDTasksEffect, controlVars
<1>t. ASSUME NEW k \in Int, NEW left, TransmitChunk(k, left)
      PROVE  /\ usb' \in Pair /\ \A d \in Directions : SameToggles(usb[d], usb'[d])
             /\ gblCBW' \in Counted /\ ptrNextData' \in Int
  <2>1. EP_SIZE \in Int /\ DataBuffer(k) \in Buffers
    BY SizesAssumption
  <2>2. /\ usb' = Tx(usb, DataBuffer(k), EP_SIZE)
        /\ gblCBW' = [gblCBW EXCEPT !.length = @ - EP_SIZE]
        /\ ptrNextData' = k + 1
    BY <1>t DEF TransmitChunk
  <2>3. usb' \in Pair /\ \A d \in Directions : SameToggles(usb[d], usb'[d])
    BY <2>1, <2>2, TxShape
  <2>4. gblCBW' \in Counted
    BY <2>1, <2>2, ShorterLength
  <2> QED BY <2>2, <2>3, <2>4
<1>r. ASSUME NEW lba, NEW remaining, ReadSector(lba, remaining)
      PROVE  /\ usb' \in Pair /\ \A d \in Directions : SameToggles(usb[d], usb'[d])
             /\ gblCBW' \in Counted /\ ptrNextData' \in Int
             /\ UNCHANGED <<controlVars, msd_cbw>>
  <2>1. CASE AwaitBuffer(lba)
    BY <2>1, <1>q DEF AwaitBuffer, readFrame, commandFrame
  <2>2. CASE FetchSector(lba)
    <3>1. TransmitChunk(0, BLOCKLEN) /\ UNCHANGED <<controlVars, msd_cbw>>
      BY <2>2 DEF FetchSector, readFrame, commandFrame
    <3> QED BY <1>t, <3>1
  <2>3. CASE RetryRead(lba)
    BY <2>3, <1>q DEF RetryRead, readFrame, commandFrame
  <2>4. CASE AbandonRead(lba)
    BY <2>4, StallPairShape DEF AbandonRead, readFrame, commandFrame, Directions
  <2> QED BY <1>r, <2>1, <2>2, <2>3, <2>4 DEF ReadSector
<1>9. CASE ReadStart
  <2>1. ReadSector(gblCBW.lba, gblCBW.count - 1) /\ Tasks({"DATA_IN", "DATA_OUT"})
    BY <1>9 DEF ReadStart, Starting
  <2> QED BY <1>r, <2>1 DEF Tasks, MSDTasksEffect, controlVars
<1>10. CASE ReadNextSector
  BY <1>10, <1>r DEF ReadNextSector, Reading, Tasks, MSDTasksEffect, controlVars
<1>11. CASE ReadNothing \/ ReadEnd \/ SectorTransmitted
  BY <1>11, <1>q DEF ReadNothing, ReadEnd, SectorTransmitted, Starting, Reading, Tasks,
     MSDTasksEffect, readFrame, commandFrame, controlVars
<1>12. CASE TransmitPacket
  <2>1. /\ usb' \in Pair /\ \A d \in Directions : SameToggles(usb[d], usb'[d])
        /\ gblCBW' \in Counted /\ ptrNextData' \in Int
    BY <1>12, <1>q, <1>t DEF TransmitPacket
  <2> QED BY <1>12, <2>1 DEF TransmitPacket, Reading, Tasks, MSDTasksEffect, readFrame,
             commandFrame, controlVars
<1>13. CASE WriteProtected
  BY <1>13, StallPairShape DEF WriteProtected, Starting, Tasks, MSDTasksEffect, commandFrame,
     controlVars, Directions
<1>c. ASSUME NEW k \in Int, ReceiveChunk(k)
      PROVE  usb' \in Pair /\ \A d \in Directions : SameToggles(usb[d], usb'[d])
  BY <1>c, <1>q, RxShape DEF ReceiveChunk
<1>14. CASE WriteStart \/ WriteNextSector
  BY <1>14, <1>c DEF WriteStart, WriteNextSector, ReceiveSector, Starting, Writing, Tasks,
     MSDTasksEffect, writeFrame
<1>15. CASE WriteNothing \/ WriteEnd
  BY <1>15, <1>q DEF WriteNothing, WriteEnd, Starting, Writing, Tasks, MSDTasksEffect,
     commandFrame, controlVars
<1>16. CASE AskForPacket
  BY <1>16, <1>c DEF AskForPacket, Writing, Tasks, MSDTasksEffect, writeFrame
<1>17. CASE PacketReceived
  <2>1. usb.out.entry[usb.outHandle].cnt \in Int
    BY DEF Pair, Endpoint, Entry
  <2>2. gblCBW' \in Counted
    BY <1>17, <2>1, ShorterLength DEF PacketReceived
  <2> QED BY <1>17, <1>q, <2>2 DEF PacketReceived, Writing, Tasks, MSDTasksEffect, writeFrame
<1>18. CASE SectorReceived \/ RetryWrite
  BY <1>18, <1>q DEF SectorReceived, RetryWrite, Writing, Tasks, MSDTasksEffect, writeFrame
<1>19. CASE WriteSector \/ AbandonWrite \/ SkipSector
  BY <1>19, <1>q DEF WriteSector, AbandonWrite, SkipSector, SectorDone, Writing, Tasks,
     MSDTasksEffect, writeFrame
<1> QED BY <1>1, <1>2, <1>3, <1>4, <1>5, <1>6, <1>7, <1>8, <1>9, <1>10, <1>11, <1>12, <1>13,
           <1>14, <1>15, <1>16, <1>17, <1>18, <1>19 DEF MSDTasks

----------------------------------------------------------------------------
(* Steps that keep the toggles, and steps that start them anew.             *)

LEMMA KeepInStep ==
  ASSUME NEW d \in Directions, InStep(d), SameToggles(usb[d], usb'[d]), toggle' = toggle,
         setup' \notin {"BUS_RESET", ClearsHalt(d)} => setup \notin {"BUS_RESET", ClearsHalt(d)}
  PROVE  InStep(d)'
BY DEF InStep, SameToggles, ClearsHalt

LEMMA FreshInStep ==
  ASSUME NEW d \in Directions, SameToggles(USBConfigureEndpoint, usb'[d]), toggle'[d] = 0
  PROVE  InStep(d)'
BY ConfiguredShape DEF InStep, SameToggles, Entries

LEMMA ClearedShape ==
  ASSUME NEW u \in Pair
  PROVE  ClearedPair(u) \in Pair /\ \A d \in Directions : ClearedPair(u)[d] = USBConfigureEndpoint
<1> DEFINE e == USBConfigureEndpoint
<1>1. e \in Endpoint
  BY ConfiguredShape
<1>2. ClearedPair(u) = [u EXCEPT !.in = e, !.out = e]
  BY DEF ClearedPair
<1> HIDE DEF e
<1>3. ClearedPair(u) \in Pair /\ \A d \in Directions : ClearedPair(u)[d] = e
  BY <1>1, <1>2 DEF Pair, Directions
<1> QED BY <1>3 DEF e

LEMMA InitializeShape ==
  ASSUME NEW u \in Pair
  PROVE  /\ APP_DeviceMSDInitialize(u) \in Pair
         /\ \A d \in Directions : SameToggles(USBConfigureEndpoint, APP_DeviceMSDInitialize(u)[d])
<1> DEFINE e == USBConfigureEndpoint
           p == [u EXCEPT !["out"] = e]
           q == [p EXCEPT !["in"] = e]
           v == [q EXCEPT !.inHandle = 0]
<1>1. e \in Endpoint
  BY ConfiguredShape
<1>2. APP_DeviceMSDInitialize(u) = Rx(v, CbwBuffer)
  BY DEF APP_DeviceMSDInitialize, USBEnableEndpoint
<1> HIDE DEF e
<1>3. v \in Pair /\ \A d \in Directions : v[d] = e
  <2>1. p \in Pair /\ p["out"] = e
    BY <1>1 DEF Pair
  <2> HIDE DEF p
  <2>2. q \in Pair /\ q["in"] = e /\ q["out"] = e
    BY <1>1, <2>1 DEF Pair
  <2> HIDE DEF q
  <2>3. v \in Pair /\ v["in"] = e /\ v["out"] = e
    BY <2>2 DEF Pair, Entries
  <2> QED BY <2>3 DEF Directions
<1> HIDE DEF v
<1>4. Rx(v, CbwBuffer) \in Pair /\ \A d \in Directions : SameToggles(e, Rx(v, CbwBuffer)[d])
  BY <1>3, RxShape, BuffersOfDrive
<1> QED BY <1>2, <1>4 DEF e

LEMMA NoCommandType == \A t \in Tags : NoCommand(t) \in Counted
BY DEF NoCommand, Counted, Operations

LEMMA InitIndInv == Init => IndInv
<1> SUFFICES ASSUME Init PROVE IndInv
  OBVIOUS
<1> PICK t \in Tags : MsdInit(t) /\ cmd = NoCommand(t)
  BY DEF Init
<1> DEFINE e == USBConfigureEndpoint
           v == [in |-> e, out |-> e, inHandle |-> 0, outHandle |-> 0]
<1>1. e \in Endpoint
  BY ConfiguredShape
<1>2. usb = Rx(v, CbwBuffer)
  BY DEF MsdInit
<1> HIDE DEF e
<1>3. v \in Pair /\ \A d \in Directions : v[d] = e
  BY <1>1 DEF Pair, Directions, Entries
<1> HIDE DEF v
<1>4. usb \in Pair /\ \A d \in Directions : SameToggles(e, usb[d])
  BY <1>2, <1>3, RxShape, BuffersOfDrive
<1>5. Types
  BY <1>4, NoCommandType DEF Init, MsdInit, Types, Directions
<1>6. ASSUME NEW d \in Directions PROVE InStep(d)
  BY <1>4, ConfiguredShape DEF e, Init, InStep, SameToggles, Directions, Entries
<1>7. StartsAnew /\ Locked
  BY DEF Init, MsdInit, StartsAnew, Locked, ClearsHalt, Directions
<1> QED BY <1>5, <1>6, <1>7 DEF IndInv

----------------------------------------------------------------------------
(* The drive.                                                               *)

LEMMA MSDTasksIndInv == IndInv /\ MSDTasks /\ UNCHANGED hostVars => IndInv'
<1> SUFFICES ASSUME IndInv, MSDTasks, UNCHANGED hostVars PROVE IndInv'
  OBVIOUS
<1>1. MSDTasksEffect
  BY MSDTasksStep DEF IndInv
<1>2. Types'
  BY <1>1 DEF IndInv, Types, MSDTasksEffect, hostVars
<1>3. ASSUME NEW d \in Directions PROVE InStep(d)'
  BY <1>1, KeepInStep DEF IndInv, MSDTasksEffect, hostVars
<1>4. StartsAnew'
  BY <1>1 DEF IndInv, StartsAnew, MSDTasksEffect, hostVars
<1>5. Locked'
  <2> SUFFICES ASSUME ~MSDCBWValid'
               PROVE  MSD_State' = "WAIT" /\ \A d \in Directions : AllStalled(usb'[d])
    BY DEF Locked
  <2>1. MSDCBWValid
    <3> SUFFICES ASSUME ~MSDCBWValid PROVE FALSE
      OBVIOUS
    <3>1. MSD_State = "WAIT" /\ AllStalled(usb["out"])
      BY <1>1 DEF IndInv, Locked, MSDTasksEffect, Directions
    <3>2. OutBusy
      BY <3>1 DEF OutBusy, USBHandleBusy, AllStalled, IndInv, Types, Pair
    <3> QED BY <1>1, <3>1, <3>2 DEF MSDTasksEffect
  <2>2. RejectCBW
    BY <1>1, <2>1 DEF MSDTasksEffect
  <2>3. MSD_State' = "WAIT" /\ usb' = StallBoth(usb)
    BY <2>2 DEF RejectCBW, CBWReceived, Tasks, machineVars
  <2> QED BY <2>3, StallBothShape DEF IndInv, Types
<1> QED BY <1>2, <1>3, <1>4, <1>5 DEF IndInv

\* A clear halt sets both toggles right, whatever is armed or stalled again under way.
LEMMA ClearHaltIndInv ==
  ASSUME IndInv, UNCHANGED hostVars, NEW d \in Directions,
         setup = ClearsHalt(d), setup' = "none", ClearHalt(d)
  PROVE  IndInv'
<1> DEFINE a == usb[d].active
           synced == [usb EXCEPT ![d].next = a]
           u == Terminate(synced, d, Other(a), 1)
<1>1. usb \in Pair /\ usb[d] \in Endpoint /\ a \in Entries /\ Other(a) \in Entries
  BY DEF IndInv, Types, Pair, Endpoint, Directions, Entries, Other
<1>2. usb' = Terminate(u, d, a, 0)
  BY DEF ClearHalt
<1> HIDE DEF u
<1>3. /\ synced \in Pair
      /\ \A b \in Directions : SameToggles(usb[b], synced[b])
      /\ \A b \in Directions : AllStalled(usb[b]) => AllStalled(synced[b])
  <2> DEFINE e == [usb[d] EXCEPT !.next = a]
  <2>1. /\ e \in Endpoint /\ SameToggles(usb[d], e)
        /\ AllStalled(usb[d]) => AllStalled(e)
    BY <1>1 DEF Endpoint, SameToggles, AllStalled
  <2>2. synced = [usb EXCEPT ![d] = e]
    BY <1>1
  <2> HIDE DEF e, synced
  <2>3. synced \in Pair /\ synced[d] = e /\ \A b \in Directions \ {d} : synced[b] = usb[b]
    BY <1>1, <2>1, <2>2 DEF Pair, Directions
  <2> QED BY <2>1, <2>3 DEF SameToggles
<1> HIDE DEF synced
<1>4. /\ u \in Pair
      /\ \A b \in Directions : u[b].active = synced[b].active
      /\ u[d].entry[Other(a)].toggle = 1
      /\ \A b \in Directions \ {d} : SameToggles(synced[b], u[b])
      /\ ~MSDCBWValid /\ (\A b \in Directions : AllStalled(synced[b]))
           => \A b \in Directions : AllStalled(u[b])
  BY <1>1, <1>3, TerminateShape DEF u
<1>5. /\ usb' \in Pair
      /\ \A b \in Directions : usb'[b].active = u[b].active
      /\ usb'[d].entry[a].toggle = 0
      /\ usb'[d].entry[Other(a)].toggle = u[d].entry[Other(a)].toggle
      /\ \A b \in Directions \ {d} : SameToggles(u[b], usb'[b])
      /\ ~MSDCBWValid /\ (\A b \in Directions : AllStalled(u[b]))
           => \A b \in Directions : AllStalled(usb'[b])
  BY <1>1, <1>2, <1>4, TerminateShape
<1>6. Types'
  BY <1>5 DEF IndInv, Types, ClearHalt, hostVars, bufferVars
<1>7. ASSUME NEW b \in Directions PROVE InStep(b)'
  <2>1. CASE b = d
    <3>1. usb'[d].active = a /\ toggle'[d] = 0
      BY <1>3, <1>4, <1>5 DEF SameToggles, IndInv, StartsAnew, hostVars
    <3>2. usb'[d].entry[a].toggle = 0 /\ usb'[d].entry[Other(a)].toggle = 1
      BY <1>4, <1>5
    <3> QED BY <1>1, <2>1, <3>1, <3>2 DEF InStep, Entries, Other
  <2>2. CASE b # d
    <3>1. SameToggles(usb[b], usb'[b])
      BY <1>3, <1>4, <1>5, <2>2 DEF SameToggles
    <3>2. setup \notin {"BUS_RESET", ClearsHalt(b)} /\ toggle' = toggle
      BY <2>2 DEF ClearsHalt, Directions, hostVars
    <3> QED BY <3>1, <3>2, KeepInStep DEF IndInv
  <2> QED BY <2>1, <2>2
<1>8. StartsAnew'
  BY DEF IndInv, StartsAnew, ClearsHalt, hostVars
<1>9. Locked'
  BY <1>3, <1>4, <1>5 DEF IndInv, Locked, ClearHalt, machineVars
<1> QED BY <1>6, <1>7, <1>8, <1>9 DEF IndInv

LEMMA SetHaltIndInv ==
  ASSUME IndInv, UNCHANGED hostVars, NEW d \in Directions,
         setup \in {"SET_HALT_IN", "SET_HALT_OUT"}, setup' = "none", SetHalt(d)
  PROVE  IndInv'
<1> DEFINE a == usb[d].active
           r == [usb[d].entry[a] EXCEPT !.own = "stall"]
           e == [entry |-> [usb[d].entry EXCEPT ![a] = r], next |-> a, active |-> a]
<1>1. usb \in Pair /\ usb[d] \in Endpoint /\ a \in Entries
  BY DEF IndInv, Types, Pair, Endpoint, Directions
<1>2. r \in Entry /\ r.toggle = usb[d].entry[a].toggle /\ r.own = "stall"
  BY <1>1 DEF Entry, Endpoint
<1>3. usb' = [usb EXCEPT ![d] = [[usb[d] EXCEPT !.next = a] EXCEPT !.entry[a] = r]]
  BY <1>1 DEF SetHalt, Endpoint, Pair
<1> HIDE DEF r
<1>4. [[usb[d] EXCEPT !.next = a] EXCEPT !.entry[a] = r] = e
  <2> DEFINE x == [usb[d] EXCEPT !.next = a]
  <2>1. /\ x \in Endpoint /\ x.entry = usb[d].entry /\ x.next = a
        /\ x.active = a
    BY <1>1 DEF Endpoint
  <2> HIDE DEF x
  <2>2. [x EXCEPT !.entry[a] = r] = e
    BY <1>1, <1>2, <2>1, NewEntry
  <2> QED BY <2>2 DEF x
<1>5. e \in Endpoint /\ e.entry[a] = r /\ e.entry[Other(a)] = usb[d].entry[Other(a)]
  BY <1>1, <1>2, NewEntryShape
<1>6. SameToggles(usb[d], e) /\ (AllStalled(usb[d]) => AllStalled(e))
  BY <1>1, <1>2, <1>5 DEF SameToggles, AllStalled, Entries, Other
<1>7. usb' = [usb EXCEPT ![d] = e]
  BY <1>3, <1>4
<1> HIDE DEF e
<1>8. usb' \in Pair /\ usb'[d] = e /\ \A b \in Directions \ {d} : usb'[b] = usb[b]
  BY <1>1, <1>5, <1>7 DEF Pair, Directions
<1>9. \A b \in Directions : SameToggles(usb[b], usb'[b])
                            /\ (AllStalled(usb[b]) => AllStalled(usb'[b]))
  BY <1>6, <1>8 DEF SameToggles
<1>10. Types'
  BY <1>8 DEF IndInv, Types, SetHalt, hostVars, bufferVars
<1>11. ASSUME NEW b \in Directions PROVE InStep(b)'
  BY <1>9, KeepInStep DEF IndInv, ClearsHalt, hostVars
<1>12. StartsAnew'
  BY DEF IndInv, StartsAnew, ClearsHalt, hostVars
<1>13. Locked'
  BY <1>9 DEF IndInv, Locked, SetHalt, machineVars
<1> QED BY <1>10, <1>11, <1>12, <1>13 DEF IndInv

LEMMA USBDeviceTasksIndInv == IndInv /\ USBDeviceTasks /\ UNCHANGED hostVars => IndInv'
<1> SUFFICES ASSUME IndInv, USBDeviceTasks, UNCHANGED hostVars PROVE IndInv'
  OBVIOUS
<1>1. CASE MassStorageReset
  <2>1. usb' \in Pair /\ \A d \in Directions : SameToggles(usb[d], usb'[d])
    BY <1>1, RxShape, BuffersOfDrive DEF MassStorageReset, IndInv, Types, SameToggles
  <2>2. Types'
    BY <1>1, <2>1 DEF MassStorageReset, IndInv, Types, hostVars, bufferVars
  <2>3. ASSUME NEW d \in Directions PROVE InStep(d)'
    BY <1>1, <2>1, KeepInStep DEF MassStorageReset, IndInv, ClearsHalt, hostVars
  <2>4. StartsAnew' /\ Locked'
    BY <1>1 DEF MassStorageReset, IndInv, StartsAnew, Locked, ClearsHalt, hostVars
  <2> QED BY <2>2, <2>3, <2>4 DEF IndInv
<1>2. CASE SetHaltIn \/ SetHaltOut
  BY <1>2, SetHaltIndInv DEF SetHaltIn, SetHaltOut, Directions
<1>3. CASE ClearHaltIn \/ ClearHaltOut
  BY <1>3, ClearHaltIndInv DEF ClearHaltIn, ClearHaltOut, ClearsHalt, Directions
<1>4. CASE BusReset
  <2>1. usb' \in Pair /\ \A d \in Directions : usb'[d] = USBConfigureEndpoint
    BY <1>4, ClearedShape DEF BusReset, IndInv, Types
  <2>2. toggle' = toggle /\ \A d \in Directions : toggle[d] = 0
    BY <1>4 DEF BusReset, IndInv, StartsAnew, hostVars
  <2>3. Types'
    BY <1>4, <2>1 DEF BusReset, IndInv, Types, hostVars, bufferVars
  <2>4. ASSUME NEW d \in Directions PROVE InStep(d)'
    BY <2>1, <2>2, FreshInStep DEF SameToggles
  <2>5. StartsAnew' /\ Locked'
    BY <1>4 DEF BusReset, IndInv, StartsAnew, Locked, ClearsHalt, hostVars
  <2> QED BY <2>3, <2>4, <2>5 DEF IndInv
<1>5. CASE SetConfiguration
  <2>1. usb' \in Pair /\ \A d \in Directions : SameToggles(USBConfigureEndpoint, usb'[d])
    BY <1>5, ClearedShape, InitializeShape DEF SetConfiguration, IndInv, Types
  <2>2. toggle' = toggle /\ \A d \in Directions : toggle[d] = 0
    BY <1>5 DEF SetConfiguration, IndInv, StartsAnew, hostVars
  <2>3. Types'
    BY <1>5, <2>1 DEF SetConfiguration, IndInv, Types, hostVars, bufferVars
  <2>4. ASSUME NEW d \in Directions PROVE InStep(d)'
    BY <2>1, <2>2, FreshInStep
  <2>5. StartsAnew' /\ Locked'
    BY <1>5 DEF SetConfiguration, IndInv, StartsAnew, Locked, ClearsHalt, hostVars
  <2> QED BY <2>3, <2>4, <2>5 DEF IndInv
<1> QED BY <1>1, <1>2, <1>3, <1>4, <1>5 DEF USBDeviceTasks

----------------------------------------------------------------------------
(* The host.                                                                *)

\* A packet has moved on direction d: the SIE and the host go on together.
LEMMA PacketIndInv ==
  ASSUME IndInv, Types', NEW d \in Directions, NEW cnt \in Int,
         Answers(d, "armed"), usb'[d] = Complete(usb[d], cnt),
         \A b \in Directions \ {d} : usb'[b] = usb[b],
         Flip(d), UNCHANGED controlVars, host \in {"ready", "data", "status", "retry"},
         host' # "configure"
  PROVE  IndInv'
<1>1. usb[d] \in Endpoint
  BY DEF IndInv, Types, Pair, Directions
<1>2. /\ usb'[d].active = Other(usb[d].active)
      /\ \A i \in Entries : usb'[d].entry[i].toggle = usb[d].entry[i].toggle
  BY <1>1, CompleteShape
<1>3. ASSUME NEW b \in Directions PROVE InStep(b)'
  <2>1. setup = "none" /\ setup' = "none" /\ toggle \in [Directions -> {0, 1}]
    BY DEF Answers, controlVars, IndInv, Types
  <2>2. CASE b = d
    <3>1. toggle'[d] = 1 - toggle[d] /\ toggle[d] \in {0, 1} /\ usb[d].active \in Entries
      BY <1>1, <2>1 DEF Flip, Endpoint
    <3> QED BY <1>2, <2>1, <2>2, <3>1 DEF IndInv, InStep, ClearsHalt, Entries, Other
  <2>3. CASE b # d
    BY <2>1, <2>3 DEF Flip, IndInv, InStep, ClearsHalt
  <2> QED BY <2>2, <2>3
<1>4. StartsAnew'
  BY DEF StartsAnew, Answers, controlVars, ClearsHalt
<1>5. Locked'
  <2>1. Active(usb[d]).own # "stall" /\ configured
    BY DEF Answers
  <2>2. ~AllStalled(usb[d])
    BY <1>1, <2>1 DEF AllStalled, Active, Endpoint
  <2> QED BY <2>1, <2>2 DEF IndInv, Locked, controlVars
<1> QED BY <1>3, <1>4, <1>5 DEF IndInv

\* A request on endpoint 0 that sets no toggles, and one after which both ends start anew.
LEMMA RequestIndInv ==
  ASSUME IndInv, Types', setup = "none", UNCHANGED <<usb, configured, MSDCBWValid, MSD_State>>,
         toggle' = toggle, host # "configure", host' # "configure",
         setup' \in {"MSD_RESET", "SET_HALT_IN", "SET_HALT_OUT"}
  PROVE  IndInv'
<1>1. ASSUME NEW d \in Directions PROVE InStep(d)'
  BY KeepInStep DEF IndInv, SameToggles, ClearsHalt
<1>2. StartsAnew' /\ Locked'
  BY DEF IndInv, StartsAnew, Locked, ClearsHalt
<1> QED BY <1>1, <1>2 DEF IndInv

LEMMA ClearRequestIndInv ==
  ASSUME IndInv, Types', NEW d \in Directions, setup = "none", RequestClearHalt(d),
         host # "configure", host' # "configure"
  PROVE  IndInv'
<1>1. /\ setup' = ClearsHalt(d) /\ toggle' = [toggle EXCEPT ![d] = 0]
      /\ UNCHANGED <<usb, configured, MSDCBWValid, MSD_State>>
  BY DEF RequestClearHalt, Request, ClearsHalt, machineVars
<1>2. ASSUME NEW b \in Directions PROVE InStep(b)'
  BY <1>1 DEF IndInv, Types, InStep, ClearsHalt, Directions
<1>3. StartsAnew'
  BY <1>1 DEF IndInv, Types, StartsAnew, ClearsHalt, Directions
<1>4. Locked'
  BY <1>1 DEF IndInv, Locked
<1> QED BY <1>2, <1>3, <1>4 DEF IndInv

LEMMA CountedSteps ==
  /\ Least(EP_SIZE, cmd.length - moved) \in Int \/ cmd \notin Counted \/ moved \notin Int
  /\ \A c \in Commands, t \in Tags : [c EXCEPT !.tag = t] \in Counted
<1>1. ASSUME cmd \in Counted, moved \in Int PROVE Least(EP_SIZE, cmd.length - moved) \in Int
  BY <1>1, SizesAssumption DEF Least, Counted
<1>2. ASSUME NEW c \in Commands, NEW t \in Tags PROVE [c EXCEPT !.tag = t] \in Counted
  BY HostAssumption DEF CBW, Counted
<1> QED BY <1>1, <1>2

\* What a packet of the host changes.
LEMMA SendEffect ==
  ASSUME IndInv, NEW cbw \in Counted, NEW chunk, NEW cnt \in Int, Send(cbw, chunk, cnt),
         cmd' \in Counted, moved' \in Int
  PROVE  Types' /\ usb'["out"] = Complete(usb["out"], cnt) /\ usb'["in"] = usb["in"]
<1> DEFINE e == Complete(usb["out"], cnt)
<1>1. usb \in Pair /\ usb["out"] \in Endpoint
  BY DEF IndInv, Types, Pair
<1>2. e \in Endpoint
  BY <1>1, CompleteShape
<1>3. usb' = [usb EXCEPT !["out"] = e]
  BY DEF Send
<1> HIDE DEF e
<1>4. usb' \in Pair /\ usb'["out"] = e /\ usb'["in"] = usb["in"]
  BY <1>1, <1>2, <1>3 DEF Pair
<1>5. toggle' \in [Directions -> {0, 1}]
  BY DEF Send, Flip, IndInv, Types, Directions
<1>6. msd_cbw' \in Counted /\ gblCBW' = gblCBW /\ ptrNextData' = ptrNextData
  BY DEF Send, IndInv, Types
<1> QED BY <1>4, <1>5, <1>6 DEF e, IndInv, Types

LEMMA ReceiveEffect ==
  ASSUME IndInv, Receive, cmd' \in Counted, moved' \in Int
  PROVE  \E cnt \in Int : /\ Types'
                          /\ usb'["in"] = Complete(usb["in"], cnt) /\ usb'["out"] = usb["out"]
<1> DEFINE cnt == Active(usb["in"]).cnt
           e == Complete(usb["in"], cnt)
<1>1. usb \in Pair /\ usb["in"] \in Endpoint
  BY DEF IndInv, Types, Pair
<1>2. cnt \in Int
  BY <1>1 DEF Active, Endpoint, Entry
<1>3. usb' = [usb EXCEPT !["in"] = e]
  BY DEF Receive, Active
<1> HIDE DEF cnt
<1>4. e \in Endpoint
  BY <1>1, <1>2, CompleteShape
<1> HIDE DEF e
<1>5. usb' \in Pair /\ usb'["in"] = e /\ usb'["out"] = usb["out"]
  BY <1>1, <1>3, <1>4 DEF Pair
<1>6. toggle' \in [Directions -> {0, 1}]
  BY DEF Receive, Flip, IndInv, Types, Directions
<1>7. msd_cbw' = msd_cbw /\ gblCBW' = gblCBW /\ ptrNextData' = ptrNextData
  BY DEF Receive, bufferVars
<1> QED BY <1>2, <1>5, <1>6, <1>7 DEF e, IndInv, Types

\* The step leaves the types alone if the request does.
LEMMA RequestTypes ==
  ASSUME IndInv, NEW r, Request(r), cmd' = cmd, moved' = moved, toggle' \in [Directions -> {0, 1}]
  PROVE  Types'
BY DEF IndInv, Types, Request, bufferVars

LEMMA HostIndInv ==
  IndInv /\ (HostStep \/ Timeout \/ HaltEndpoint \/ ResetBus) => IndInv'
<1> SUFFICES ASSUME IndInv, HostStep \/ Timeout \/ HaltEndpoint \/ ResetBus PROVE IndInv'
  OBVIOUS
<1> USE DEF Directions
<1>0. cmd \in Counted /\ moved \in Int /\ toggle \in [Directions -> {0, 1}]
  BY DEF IndInv, Types
<1>1. CASE SendCBW
  <2> PICK c \in Commands, t \in Tags \ {cmd.tag} :
        /\ cmd' = [c EXCEPT !.tag = t] /\ Send([c EXCEPT !.tag = t], Zeros, CBW_SIZE)
        /\ host' \in {"status", "data"}
    BY <1>1 DEF SendCBW
  <2>1. CBW_SIZE \in Int /\ cmd' \in Counted /\ moved' \in Int
    BY <1>1, CountedSteps, SizesAssumption DEF SendCBW
  <2>2. Types' /\ usb'["out"] = Complete(usb["out"], CBW_SIZE) /\ usb'["in"] = usb["in"]
    BY <2>1, CountedSteps, SendEffect
  <2>3. Answers("out", "armed") /\ Flip("out") /\ UNCHANGED controlVars
    BY <1>1 DEF SendCBW, Send
  <2> QED BY <1>1, <2>1, <2>2, <2>3, PacketIndInv DEF SendCBW
<1>2. CASE SendData
  <2> DEFINE len == Least(EP_SIZE, cmd.length - moved)
  <2>1. len \in Int /\ cmd' \in Counted /\ moved' \in Int
    BY <1>0, <1>2, CountedSteps DEF SendData
  <2>2. /\ Send(NoCommand(cmd.tag), Written(moved \div EP_SIZE), len)
        /\ host' \in {"status", "data"}
    BY <1>2 DEF SendData
  <2> HIDE DEF len
  <2>3. NoCommand(cmd.tag) \in Counted
    BY <1>0, NoCommandType DEF Counted
  <2>4. Types' /\ usb'["out"] = Complete(usb["out"], len) /\ usb'["in"] = usb["in"]
    BY <2>1, <2>2, <2>3, SendEffect
  <2>5. Answers("out", "armed") /\ Flip("out") /\ UNCHANGED controlVars
    BY <1>2, <2>2 DEF SendData, Send
  <2> QED BY <1>2, <2>1, <2>2, <2>4, <2>5, PacketIndInv DEF SendData
<1>3. CASE ReceiveData \/ ReceiveStatus
  <2>1. Receive /\ Answers("in", "armed") /\ host \in {"data", "status", "retry"}
    BY <1>3 DEF ReceiveData, ReceiveStatus
  <2>2. cmd' \in Counted /\ moved' \in Int /\ host' # "configure"
    <3>1. Active(usb.in).cnt \in Int
      BY DEF IndInv, Types, Pair, Endpoint, Entry, Active
    <3>2. CASE ReceiveData
      BY <1>0, <3>1, <3>2 DEF ReceiveData
    <3>3. CASE ReceiveStatus
      BY <1>0, <3>3 DEF ReceiveStatus
    <3> QED BY <1>3, <3>2, <3>3
  <2>3. PICK cnt \in Int :
          Types' /\ usb'["in"] = Complete(usb["in"], cnt) /\ usb'["out"] = usb["out"]
    BY <2>1, <2>2, ReceiveEffect
  <2>4. Flip("in") /\ UNCHANGED controlVars
    BY <2>1 DEF Receive
  <2> QED BY <2>1, <2>2, <2>3, <2>4, PacketIndInv
<1>4. CASE StallInData \/ StallInStatus \/ RecoverClear
  <2>1. PICK d \in Directions : RequestClearHalt(d)
    BY <1>4 DEF StallInData, StallInStatus, RecoverClear
  <2>2. setup = "none" /\ host # "configure" /\ host' # "configure" /\ cmd' = cmd /\ moved' = moved
    BY <1>4 DEF StallInData, StallInStatus, RecoverClear, Answers
  <2>3. toggle' \in [Directions -> {0, 1}]
    BY <1>0, <2>1 DEF RequestClearHalt
  <2>4. Types'
    BY <2>1, <2>2, <2>3, RequestTypes DEF RequestClearHalt
  <2> QED BY <2>1, <2>2, <2>4, ClearRequestIndInv
<1>5. CASE RecoverReset \/ HaltEndpoint
  <2>1. PICK r \in {"MSD_RESET", "SET_HALT_IN", "SET_HALT_OUT"} : Request(r)
    BY <1>5 DEF RecoverReset, HaltEndpoint
  <2>2. /\ setup = "none" /\ host # "configure" /\ host' # "configure"
        /\ cmd' = cmd /\ moved' = moved /\ toggle' = toggle
    BY <1>5 DEF RecoverReset, HaltEndpoint
  <2>3. Types'
    BY <1>0, <2>1, <2>2, RequestTypes
  <2>4. setup' = r /\ UNCHANGED <<usb, configured, MSDCBWValid, MSD_State>>
    BY <2>1 DEF Request, machineVars
  <2> QED BY <2>1, <2>2, <2>3, <2>4, RequestIndInv
<1>6. CASE GiveUp \/ Timeout
  <2>1. UNCHANGED <<deviceVars, cmd, moved, toggle>> /\ host # "configure" /\ host' = "recover"
    BY <1>6 DEF GiveUp, Timeout
  <2>2. UNCHANGED <<usb, gblCBW, msd_cbw, ptrNextData, setup, configured, MSDCBWValid, MSD_State>>
    BY <2>1 DEF deviceVars, controlVars, machineVars, bufferVars
  <2>3. setup # "BUS_RESET"
    BY <2>1 DEF IndInv, StartsAnew
  <2> QED BY <2>1, <2>2, <2>3 DEF IndInv, Types, InStep, StartsAnew, Locked, ClearsHalt
<1>7. CASE ResetBus
  <2>1. Request("BUS_RESET") /\ toggle' = [d \in Directions |-> 0] /\ host' = "configure"
        /\ cmd' = cmd /\ moved' = moved
    BY <1>7 DEF ResetBus
  <2>2. Types'
    BY <2>1, RequestTypes
  <2>3. setup' = "BUS_RESET" /\ UNCHANGED <<usb, configured, MSDCBWValid, MSD_State>>
    BY <2>1 DEF Request, machineVars
  <2>4. \A d \in Directions : InStep(d)'
    BY <2>3 DEF InStep
  <2>5. StartsAnew' /\ Locked'
    BY <2>1, <2>3 DEF IndInv, StartsAnew, Locked, ClearsHalt
  <2> QED BY <2>2, <2>4, <2>5 DEF IndInv
<1>8. CASE Configure
  <2>1. Request("SET_CONFIGURATION") /\ toggle' = toggle /\ host = "configure" /\ host' = "ready"
        /\ setup = "none" /\ cmd' = cmd /\ moved' = moved
    BY <1>8 DEF Configure
  <2>2. Types'
    BY <1>0, <2>1, RequestTypes
  <2>3. setup' = "SET_CONFIGURATION" /\ UNCHANGED <<usb, configured, MSDCBWValid, MSD_State>>
    BY <2>1 DEF Request, machineVars
  <2>4. \A d \in Directions : InStep(d)'
    BY <2>1, <2>3, KeepInStep DEF IndInv, SameToggles, ClearsHalt
  <2>5. StartsAnew' /\ Locked'
    BY <2>1, <2>3 DEF IndInv, StartsAnew, Locked, ClearsHalt
  <2> QED BY <2>2, <2>4, <2>5 DEF IndInv
<1> QED BY <1>1, <1>2, <1>3, <1>4, <1>5, <1>6, <1>7, <1>8 DEF HostStep

LEMMA NextIndInv == IndInv /\ [Next]_vars => IndInv'
<1> SUFFICES ASSUME IndInv, [Next]_vars PROVE IndInv'
  OBVIOUS
<1>1. CASE DriveStep
  BY <1>1, MSDTasksIndInv, USBDeviceTasksIndInv DEF DriveStep
<1>2. CASE HostStep \/ Timeout \/ HaltEndpoint \/ ResetBus
  BY <1>2, HostIndInv
<1>3. CASE (SetReadOnly /\ UNCHANGED hostVars) \/ UNCHANGED vars
  <2>1. UNCHANGED <<usb, setup, configured, MSDCBWValid, MSD_State, gblCBW, msd_cbw, ptrNextData,
                    host, cmd, moved, toggle>>
    BY <1>3 DEF SetReadOnly, vars, deviceVars, hostVars, controlVars, machineVars, bufferVars
  <2> QED BY <2>1 DEF IndInv, Types, InStep, StartsAnew, Locked, ClearsHalt
<1> QED BY <1>1, <1>2, <1>3 DEF Next

THEOREM InductiveInvariant == Spec => []IndInv
BY InitIndInv, NextIndInv, PTL DEF Spec

----------------------------------------------------------------------------
(* Theorems.                                                                *)

\* A packet that is armed has the data toggle that the host uses next, whatever was stalled,
\* cleared, halted or reset before (usb_device.c:2905), for every set of commands and every
\* number of timeouts.
THEOREM NoPacketDropped == Spec => []TogglesAgree
<1>1. IndInv => TogglesAgree
  BY DEF IndInv, Types, Pair, Endpoint, InStep, TogglesAgree, ClearsHalt, Active, Directions
<1> QED BY <1>1, InductiveInvariant, PTL

\* After an invalid CBW both endpoints answer STALL, however often the host clears the halt,
\* until a reset (app.c:270, usb_device_msd.c:476).
THEOREM InvalidCommandLocks == Spec => []PersistentStall
<1>1. IndInv => PersistentStall
  BY DEF IndInv, Types, Pair, Endpoint, Locked, AllStalled, PersistentStall, Active, Directions
<1> QED BY <1>1, InductiveInvariant, PTL
=============================================================================
