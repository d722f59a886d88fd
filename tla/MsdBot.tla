------------------------------- MODULE MsdBot -------------------------------
(***************************************************************************)
(* The mass storage class of the drive (usb_device_msd.c) on its bulk      *)
(* endpoint pair: commands come in as CBWs on OUT, data moves in either    *)
(* direction in packets, and a CSW with the status goes out on IN.  With   *)
(* it the requests on endpoint 0 that touch it: mass storage reset, clear  *)
(* halt (usb_device.c, with the event handler of app.c) and configuration. *)
(*                                                                         *)
(* Every action is one call of MSDTasks, or of USBDeviceTasks with one     *)
(* request to serve: the main loop calls them in turn, and nothing         *)
(* interrupts them (USB_POLLING).  The SIE moves packets at any time       *)
(* between two calls; MsdTransport adds it, and the host.                  *)
(***************************************************************************)
EXTENDS UsbEndpoint

CONSTANTS
  EP_SIZE,      \* MSD_IN_EP_SIZE, MSD_OUT_EP_SIZE
  CBW_SIZE, CSW_SIZE,
  BLOCKLEN,     \* bytes in a sector: BLOCKLEN_512
  MaxAttempts,  \* MSD_FAILED_READ_MAX_ATTEMPTS, MSD_FAILED_WRITE_MAX_ATTEMPTS
  Capacity,     \* sectors on the medium
  Data,         \* what a chunk of a sector may hold: pairs, like Answer and Zeros
  Tags          \* values of dCBWTag

ASSUME SizesAssumption ==
  /\ EP_SIZE \in Nat \ {0} /\ BLOCKLEN \in Nat \ {0} /\ BLOCKLEN % EP_SIZE = 0
  /\ CBW_SIZE \in 1 .. EP_SIZE - 1 /\ CSW_SIZE \in 1 .. EP_SIZE - 1
  /\ MaxAttempts \in Nat /\ Capacity \in Nat \ {0}

VARIABLES
  usb,             \* the endpoint pair and the handles of the last packet on each
  setup,           \* the request on endpoint 0 that is waiting to be served
  configured,      \* USBDeviceState = CONFIGURED_STATE
  MSD_State, MSDCommandState, MSDReadState, MSDWriteState,
  gblCBW,          \* the command being served; its length counts down
  msd_csw, TransferLength, LBA, MSDRetryAttempt, MSDHostNoData,
  MSDCBWValid, sense,
  msd_cbw,         \* buffer: what came in as a CBW
  msd_buffer,      \* buffer: one sector, as chunks of a packet each
  ptrNextData,     \* the chunk that is next
  store,           \* the medium: LUNSectorRead and LUNSectorWrite
  isReadOnly       \* settings_getIsReadOnly()

machineVars == <<MSD_State, MSDCommandState, MSDReadState, MSDWriteState>>
lengthVars  == <<TransferLength, LBA, MSDRetryAttempt>>
bufferVars  == <<msd_cbw, msd_buffer, ptrNextData>>
mediaVars   == <<store, isReadOnly>>
controlVars == <<setup, configured, MSDCBWValid, MSDHostNoData>>
deviceVars  == <<usb, controlVars, machineVars, gblCBW, msd_csw, lengthVars, sense, bufferVars,
                 mediaVars>>

Sectors == 0 .. Capacity - 1
Chunks  == 0 .. BLOCKLEN \div EP_SIZE - 1

\* Buffer pointers.
CbwBuffer     == <<"msd_cbw", 0>>
CswBuffer     == <<"msd_csw", 0>>
DataBuffer(k) == <<"msd_buffer", k>>

\* What a packet carries that is not from the medium: an answer, or padding.
Answer == <<"answer", 0>>
Zeros  == <<"zeros", 0>>
Blank  == <<"blank", 0>>   \* a chunk of the medium that nobody has written

\* Bytes of the answers that are not sectors (each less than a packet).
ResponseSize == [INQUIRY |-> 36, READ_CAPACITY |-> 8, REQUEST_SENSE |-> 18, MODE_SENSE |-> 4]

Responses == DOMAIN ResponseSize

ASSUME ResponseAssumption == \A op \in Responses : ResponseSize[op] <= EP_SIZE

Operations ==
  Responses \cup {"READ_10", "WRITE_10", "TEST_UNIT_READY", "PREVENT_ALLOW_MEDIUM_REMOVAL",
                  "VERIFY", "STOP_START", "UNSUPPORTED"}

\* in is the direction bit; count is the number of blocks, or INQUIRY's allocation length.
\* form tells whether the packet has the length and signature of a CBW and, if so, meaning.
CBW == [op : Operations, in : BOOLEAN, length : Nat, lba : Nat, count : Nat, tag : Tags,
        form : {"meaningful", "meaningless", "invalid"}]

CSW == [tag : Tags, residue : Nat, status : {"PASSED", "FAILED", "PHASE_ERROR"}]

SenseKeys == {"NO_SENSE", "NOT_READY", "MEDIUM_ERROR", "ILLEGAL_REQUEST", "DATA_PROTECT"}

\* What REQUEST_SENSE reports of a command that nothing was wrong with.
ResetSenseData == "NO_SENSE"

\* The states of the three machines of MSDTasks.
MsdStates == {"WAIT", "DATA_IN", "DATA_OUT", "SEND_CSW"}
ReadStates == {"WAIT", "BLOCK", "SECTOR", "TX_SECTOR", "TX_PACKET"}
WriteStates == {"WAIT", "BLOCK", "RX_SECTOR", "RX_PACKET", "SECTOR"}

MsdTypeOK ==
  /\ \A d \in Directions :
       usb[d] \in EndpointType({CbwBuffer, CswBuffer} \cup {DataBuffer(k) : k \in Chunks})
  /\ usb.inHandle \in Entries /\ usb.outHandle \in Entries
  /\ setup \in {"none", "MSD_RESET", "SET_HALT_IN", "SET_HALT_OUT", "CLEAR_HALT_IN",
                "CLEAR_HALT_OUT", "BUS_RESET", "SET_CONFIGURATION"}
  /\ {configured, MSDHostNoData, MSDCBWValid, isReadOnly} \subseteq BOOLEAN
  /\ MSD_State \in MsdStates
  /\ MSDCommandState \in Operations \cup {"WAIT", "RESPONSE"}
  /\ MSDReadState \in ReadStates /\ MSDWriteState \in WriteStates
  /\ gblCBW \in CBW /\ msd_cbw \in CBW /\ msd_csw \in CSW
  /\ TransferLength \in Nat /\ LBA \in Nat
  /\ MSDRetryAttempt \in 0 .. MaxAttempts
  /\ sense \in SenseKeys
  /\ msd_buffer \in [Chunks -> Data \cup {Answer, Zeros}]
  /\ ptrNextData \in Nat
  /\ store \in [Sectors -> [Chunks -> Data]]

----------------------------------------------------------------------------
(* The endpoint pair.                                                       *)

InBusy  == USBHandleBusy(usb.in, usb.inHandle)
OutBusy == USBHandleBusy(usb.out, usb.outHandle)

\* USBTxOnePacket and USBRxOnePacket, the result kept as USBMSDInHandle and USBMSDOutHandle.
Tx(u, data, len) ==
  [u EXCEPT !.in = USBTransferOnePacket(@, data, len), !.inHandle = u.in.next]

Rx(u, data) ==
  [u EXCEPT !.out = USBTransferOnePacket(@, data, EP_SIZE), !.outHandle = u.out.next]

Stall(u, d) == [u EXCEPT ![d] = USBStallEndpoint(@)]

StallBoth(u) == Stall(Stall(u, "in"), "out")

----------------------------------------------------------------------------
(* MSDTasks: from a CBW to its CSW.                                         *)

Tasks(states) == configured /\ MSD_State \in states

CBWReceived == Tasks({"WAIT"}) /\ ~OutBusy

HasCBW == usb.out.entry[usb.outHandle].cnt = CBW_SIZE /\ msd_cbw.form # "invalid"

\* Mutant: the CSW keeps the tag of the command before.
AcceptCBWKeepsTag ==
  /\ CBWReceived /\ HasCBW /\ msd_cbw.form = "meaningful"
  /\ gblCBW' = msd_cbw
  /\ msd_csw' = [msd_csw EXCEPT !.residue = 0, !.status = "PASSED"]
  /\ MSD_State' = IF msd_cbw.in THEN "DATA_IN" ELSE "DATA_OUT"
  /\ MSDCommandState' = msd_cbw.op /\ MSDReadState' = "WAIT" /\ MSDWriteState' = "WAIT"
  /\ MSDRetryAttempt' = 0
  /\ sense' = IF msd_cbw.op = "REQUEST_SENSE" THEN sense ELSE ResetSenseData
  /\ MSDHostNoData' = (msd_cbw.length = 0)
  /\ MSDCBWValid' = TRUE
  /\ UNCHANGED <<usb, setup, configured, TransferLength, LBA, bufferVars, mediaVars>>

AcceptCBW ==
  /\ CBWReceived /\ HasCBW /\ msd_cbw.form = "meaningful"
  /\ gblCBW' = msd_cbw
  /\ msd_csw' = [tag |-> msd_cbw.tag, residue |-> 0, status |-> "PASSED"]
  /\ MSD_State' = IF msd_cbw.in THEN "DATA_IN" ELSE "DATA_OUT"
  /\ MSDCommandState' = msd_cbw.op /\ MSDReadState' = "WAIT" /\ MSDWriteState' = "WAIT"
  /\ MSDRetryAttempt' = 0
  /\ sense' = IF msd_cbw.op = "REQUEST_SENSE" THEN sense ELSE ResetSenseData
  /\ MSDHostNoData' = (msd_cbw.length = 0)
  /\ MSDCBWValid' = TRUE
  /\ UNCHANGED <<usb, setup, configured, TransferLength, LBA, bufferVars, mediaVars>>

\* A CBW without meaning stalls both endpoints; an invalid one does so persistently.
RejectCBW ==
  /\ CBWReceived /\ (HasCBW => msd_cbw.form = "meaningless")
  /\ gblCBW' = msd_cbw
  /\ MSDCBWValid' = HasCBW
  /\ usb' = StallBoth(usb)
  /\ UNCHANGED <<setup, configured, MSDHostNoData, machineVars, msd_csw, lengthVars, sense,
                 bufferVars, mediaVars>>

\* The handler is through with the command: MSDTasks goes on to the status c.
Finish(c) ==
  /\ MSD_State' = "SEND_CSW" /\ MSDCommandState' = "WAIT"
  /\ MSDReadState' = "WAIT" /\ MSDWriteState' = "WAIT"
  /\ msd_csw' = IF MSD_State = "DATA_OUT" /\ c.status = "PASSED" /\ c.residue # 0
                THEN [c EXCEPT !.status = "PHASE_ERROR"] ELSE c

SendCSW ==
  /\ Tasks({"SEND_CSW"}) /\ ~NextHandleBusy(usb.in)
  /\ LET sent == Tx(usb, CswBuffer, CSW_SIZE)
     IN usb' = IF OutBusy THEN sent ELSE Rx(sent, CbwBuffer)
  /\ MSD_State' = "WAIT"
  /\ UNCHANGED <<controlVars, MSDCommandState, MSDReadState, MSDWriteState, gblCBW, msd_csw,
                 lengthVars, sense, bufferVars, mediaVars>>

Starting(op) ==
  /\ Tasks({"DATA_IN", "DATA_OUT"}) /\ MSDCommandState = op
  /\ MSDReadState = "WAIT" /\ MSDWriteState = "WAIT"

\* What MSDTasks leaves alone while it works on a command.
commandFrame == <<controlVars, mediaVars, msd_cbw>>

----------------------------------------------------------------------------
(* Errors: the thirteen cases of the bulk-only transport, and unknown commands. *)

\* Bytes the device expects to move for a command that is checked.
DeviceBytes ==
  CASE gblCBW.op \in {"READ_10", "WRITE_10"} -> gblCBW.count * BLOCKLEN
    [] gblCBW.op = "INQUIRY" -> gblCBW.count
    [] OTHER -> 0

\* MSDCheckForErrorCases.  The cases 3, 5, 8, 11 and 13 share the values of 2, 4, 7, 9 and 10.
NoErrorCase ==
  \/ MSDHostNoData /\ DeviceBytes = 0
  \/ gblCBW.length = DeviceBytes /\ (MSD_State = "DATA_OUT" <=> gblCBW.op = "WRITE_10")

ErrorCase ==
  IF MSD_State = "DATA_OUT"
  THEN CASE gblCBW.op # "WRITE_10" /\ DeviceBytes # 0 -> 10
         [] MSDHostNoData -> 2
         [] DeviceBytes = 0 \/ gblCBW.length > DeviceBytes -> 9
         [] OTHER -> 10
  ELSE CASE gblCBW.op = "WRITE_10" -> 7
         [] MSDHostNoData -> 2
         [] DeviceBytes = 0 \/ gblCBW.length > DeviceBytes -> 4
         [] OTHER -> 7

\* MSDErrorHandler: a status for everything that did not move, with the endpoint stalled on
\* which the host would move it.  While a handle is busy nothing is reported: a read or a
\* write then ends with the status it has, any other command is checked again.
MSDErrorHandler(stalled, status, key) ==
  IF InBusy \/ OutBusy
  THEN /\ IF MSDCommandState \in {"READ_10", "WRITE_10"}
          THEN Finish(msd_csw) ELSE UNCHANGED <<machineVars, msd_csw>>
       /\ UNCHANGED <<usb, sense>>
  ELSE /\ Finish([msd_csw EXCEPT !.residue = gblCBW.length, !.status = status])
       /\ usb' = IF stalled = "none" THEN usb ELSE Stall(usb, stalled)
       /\ sense' = key

FailCheckedCommand ==
  /\ \E op \in {"READ_10", "WRITE_10", "INQUIRY", "TEST_UNIT_READY"} : Starting(op)
  /\ MSDCommandState = "INQUIRY" => ~MSDHostNoData
  /\ ~NoErrorCase
  /\ TransferLength' = IF MSDCommandState = "TEST_UNIT_READY" THEN TransferLength
                       ELSE gblCBW.count
  /\ LBA' = IF MSDCommandState \in {"READ_10", "WRITE_10"} THEN gblCBW.lba ELSE LBA
  /\ MSDErrorHandler(CASE ErrorCase = 2 -> "none" [] ErrorCase \in {4, 7} -> "in"
                       [] ErrorCase \in {9, 10} -> "out",
                     IF ErrorCase \in {2, 7, 10} THEN "PHASE_ERROR" ELSE "FAILED", sense)
  /\ UNCHANGED <<commandFrame, gblCBW, MSDRetryAttempt, msd_buffer, ptrNextData>>

FailUnsupported ==
  /\ Starting("UNSUPPORTED")
  /\ MSDErrorHandler(IF MSD_State = "DATA_OUT" /\ gblCBW.length # 0 THEN "out" ELSE "in",
                     "FAILED", "ILLEGAL_REQUEST")
  /\ UNCHANGED <<commandFrame, gblCBW, lengthVars, msd_buffer, ptrNextData>>

----------------------------------------------------------------------------
(* MSDProcessCommandMediaPresent: all commands but reads and writes.        *)

\* Commands that end at once; sense key and status as given.
Conclude(status, key) ==
  /\ Finish([msd_csw EXCEPT !.residue = 0, !.status = status])
  /\ sense' = key
  /\ UNCHANGED <<commandFrame, usb, gblCBW, lengthVars, msd_buffer, ptrNextData>>

NoAnswerWanted ==
  /\ Starting("INQUIRY") \/ Starting("REQUEST_SENSE")
  /\ MSDHostNoData
  /\ Conclude(msd_csw.status, sense)

PreventAllowMediumRemoval ==
  Starting("PREVENT_ALLOW_MEDIUM_REMOVAL") /\ Conclude("FAILED", "ILLEGAL_REQUEST")

TestUnitReady ==
  Starting("TEST_UNIT_READY") /\ NoErrorCase /\ Conclude(msd_csw.status, "NO_SENSE")

VerifyOrStopStart ==
  (Starting("VERIFY") \/ Starting("STOP_START")) /\ Conclude(msd_csw.status, sense)

Least(a, b) == IF a < b THEN a ELSE b

\* Mutant: the residue is taken from what the host allocated.
ComputeResidueOfOffer(offered, expected) ==
  LET sent == IF gblCBW.length < expected THEN gblCBW.length ELSE Least(offered, expected)
  IN /\ TransferLength' = sent
     /\ msd_csw' = [msd_csw EXCEPT !.residue = IF gblCBW.length < expected THEN 0
                                              ELSE gblCBW.length - offered]

\* MSDComputeDeviceInAndResidue(expected), with TransferLength at "offered".
ComputeDeviceInAndResidue(offered, expected) ==
  LET sent == IF gblCBW.length < expected THEN gblCBW.length ELSE Least(offered, expected)
  IN /\ TransferLength' = sent
     /\ msd_csw' = [msd_csw EXCEPT !.residue =
                      IF gblCBW.length < expected THEN 0 ELSE gblCBW.length - sent]

PrepareResponse ==
  /\ \E op \in Responses :
       /\ Starting(op)
       /\ op \in {"INQUIRY", "REQUEST_SENSE"} => ~MSDHostNoData
       /\ op = "INQUIRY" => NoErrorCase
       /\ ComputeDeviceInAndResidue(IF op = "INQUIRY" THEN gblCBW.count ELSE ResponseSize[op],
                                    ResponseSize[op])
  /\ msd_buffer' = [msd_buffer EXCEPT ![0] = Answer]
  /\ MSDCommandState' = "RESPONSE"
  /\ UNCHANGED <<commandFrame, usb, MSD_State, MSDReadState, MSDWriteState, gblCBW, LBA,
                 MSDRetryAttempt, sense, ptrNextData>>

\* MSD_COMMAND_RESPONSE: a packet, padded with zeros once the answer is used up.
SendResponse ==
  /\ Tasks({"DATA_IN", "DATA_OUT"}) /\ MSDCommandState = "RESPONSE" /\ ~InBusy
  /\ LET len == Least(EP_SIZE, gblCBW.length)
     IN /\ usb' = Tx(usb, DataBuffer(0), len)
        /\ gblCBW' = [gblCBW EXCEPT !.length = @ - len]
        /\ TransferLength' = IF TransferLength >= len THEN TransferLength - len ELSE 0
        /\ msd_buffer' = IF TransferLength = 0 /\ len > 0
                         THEN [msd_buffer EXCEPT ![0] = Zeros] ELSE msd_buffer
        /\ IF gblCBW.length = len THEN Finish(msd_csw) ELSE UNCHANGED <<machineVars, msd_csw>>
  /\ UNCHANGED <<commandFrame, LBA, MSDRetryAttempt, sense, ptrNextData>>

----------------------------------------------------------------------------
(* MSDReadHandler.  The residue of the CSW counts the bytes left of a sector. *)

Reading(states) ==
  Tasks({"DATA_IN", "DATA_OUT"}) /\ MSDCommandState = "READ_10" /\ MSDReadState \in states

readFrame == <<commandFrame, MSD_State, MSDCommandState, MSDWriteState>>

\* One packet of the sector in msd_buffer, chunk k, with "left" bytes of it still to go.
TransmitChunk(k, left) ==
  /\ usb' = Tx(usb, DataBuffer(k), EP_SIZE)
  /\ MSDReadState' = "TX_SECTOR"
  /\ gblCBW' = [gblCBW EXCEPT !.length = @ - EP_SIZE]
  /\ msd_csw' = [msd_csw EXCEPT !.residue = left - EP_SIZE]
  /\ ptrNextData' = k + 1

\* The last sector has not gone out yet.
AwaitBuffer(lba) ==
  /\ InBusy
  /\ MSDReadState' = "SECTOR" /\ LBA' = lba
  /\ UNCHANGED <<readFrame, usb, gblCBW, msd_csw, MSDRetryAttempt, sense, msd_buffer,
                 ptrNextData>>

\* Mutant: the buffer is filled while its last packet is still to be sent.
FetchSectorEarly(lba) ==
  /\ lba \in Sectors
  /\ msd_buffer' = store[lba] /\ LBA' = lba + 1
  /\ TransmitChunk(0, BLOCKLEN)
  /\ UNCHANGED <<readFrame, MSDRetryAttempt, sense>>

FetchSector(lba) ==
  /\ ~InBusy /\ lba \in Sectors
  /\ msd_buffer' = store[lba] /\ LBA' = lba + 1
  /\ TransmitChunk(0, BLOCKLEN)
  /\ UNCHANGED <<readFrame, MSDRetryAttempt, sense>>

\* Mutant: the attempts are not counted.
RetryReadForEver(lba) ==
  /\ ~InBusy /\ lba \notin Sectors /\ MSDRetryAttempt < MaxAttempts
  /\ MSDReadState' = "SECTOR" /\ LBA' = lba
  /\ UNCHANGED <<readFrame, usb, gblCBW, msd_csw, MSDRetryAttempt, sense, msd_buffer,
                 ptrNextData>>

RetryRead(lba) ==
  /\ ~InBusy /\ lba \notin Sectors /\ MSDRetryAttempt < MaxAttempts
  /\ MSDReadState' = "SECTOR" /\ LBA' = lba
  /\ MSDRetryAttempt' = MSDRetryAttempt + 1
  /\ UNCHANGED <<readFrame, usb, gblCBW, msd_csw, sense, msd_buffer, ptrNextData>>

AbandonRead(lba) ==
  /\ ~InBusy /\ lba \notin Sectors /\ MSDRetryAttempt = MaxAttempts
  /\ LBA' = lba
  /\ Finish([msd_csw EXCEPT !.status = "PHASE_ERROR"])
  /\ sense' = "MEDIUM_ERROR"
  /\ usb' = Stall(usb, "in")
  /\ UNCHANGED <<commandFrame, gblCBW, MSDRetryAttempt, msd_buffer, ptrNextData>>

ReadSector(lba, remaining) ==
  /\ TransferLength' = remaining
  /\ AwaitBuffer(lba) \/ FetchSector(lba) \/ RetryRead(lba) \/ AbandonRead(lba)

ReadStart ==
  /\ Starting("READ_10") /\ NoErrorCase
  /\ gblCBW.count > 0 /\ ReadSector(gblCBW.lba, gblCBW.count - 1)

ReadNextSector ==
  \/ Reading({"BLOCK"}) /\ TransferLength > 0 /\ ReadSector(LBA, TransferLength - 1)
  \/ Reading({"SECTOR"}) /\ ReadSector(LBA, TransferLength)

ReadNothing ==
  /\ Starting("READ_10") /\ NoErrorCase /\ gblCBW.count = 0
  /\ Finish(msd_csw)
  /\ TransferLength' = 0 /\ LBA' = gblCBW.lba
  /\ UNCHANGED <<commandFrame, usb, gblCBW, MSDRetryAttempt, sense, msd_buffer, ptrNextData>>

ReadEnd ==
  /\ Reading({"BLOCK"}) /\ TransferLength = 0
  /\ Finish(msd_csw)
  /\ UNCHANGED <<commandFrame, usb, gblCBW, lengthVars, sense, msd_buffer, ptrNextData>>

SectorTransmitted ==
  /\ Reading({"TX_SECTOR"}) /\ msd_csw.residue = 0
  /\ MSDReadState' = "BLOCK"
  /\ UNCHANGED <<readFrame, usb, gblCBW, msd_csw, lengthVars, sense, msd_buffer, ptrNextData>>

TransmitPacket ==
  /\ Reading({"TX_SECTOR", "TX_PACKET"}) /\ (MSDReadState = "TX_SECTOR" => msd_csw.residue # 0)
  /\ IF InBusy
     THEN MSDReadState' = "TX_PACKET" /\ UNCHANGED <<usb, gblCBW, msd_csw, ptrNextData>>
     ELSE TransmitChunk(ptrNextData, msd_csw.residue)
  /\ UNCHANGED <<readFrame, lengthVars, sense, msd_buffer>>

----------------------------------------------------------------------------
(* MSDWriteHandler.                                                         *)

Writing(states) ==
  Tasks({"DATA_IN", "DATA_OUT"}) /\ MSDCommandState = "WRITE_10" /\ MSDWriteState \in states

writeFrame == <<setup, configured, MSDCBWValid, MSDHostNoData, isReadOnly, msd_cbw,
                MSDCommandState, MSDReadState>>

WriteProtected ==
  /\ Starting("WRITE_10") /\ NoErrorCase /\ isReadOnly
  /\ TransferLength' = gblCBW.count /\ LBA' = gblCBW.lba
  /\ Finish([msd_csw EXCEPT !.status = "FAILED"])
  /\ sense' = "DATA_PROTECT"
  /\ usb' = Stall(usb, "out")
  /\ UNCHANGED <<commandFrame, gblCBW, MSDRetryAttempt, msd_buffer, ptrNextData>>

\* One packet into chunk k of msd_buffer, as soon as the last one is in.
ReceiveChunk(k) ==
  IF OutBusy THEN MSDWriteState' = "RX_SECTOR" /\ UNCHANGED usb
  ELSE MSDWriteState' = "RX_PACKET" /\ usb' = Rx(usb, DataBuffer(k))

ReceiveSector ==
  /\ ptrNextData' = 0
  /\ msd_csw' = [msd_csw EXCEPT !.residue = BLOCKLEN]
  /\ ReceiveChunk(0)

\* The code assigns MSD_WRITE10_BLOCK to MSD_State where MSDWriteState is meant; the value, 1,
\* is that of MSD_DATA_IN.
WriteStart ==
  /\ Starting("WRITE_10") /\ NoErrorCase /\ ~isReadOnly
  /\ gblCBW.count > 0
  /\ TransferLength' = gblCBW.count /\ LBA' = gblCBW.lba
  /\ MSD_State' = "DATA_IN"
  /\ ReceiveSector
  /\ UNCHANGED <<writeFrame, gblCBW, MSDRetryAttempt, sense, msd_buffer, store>>

WriteNothing ==
  /\ Starting("WRITE_10") /\ NoErrorCase /\ ~isReadOnly
  /\ gblCBW.count = 0
  /\ TransferLength' = 0 /\ LBA' = gblCBW.lba
  /\ Finish(msd_csw)
  /\ UNCHANGED <<commandFrame, usb, gblCBW, MSDRetryAttempt, sense, msd_buffer, ptrNextData>>

WriteNextSector ==
  /\ Writing({"BLOCK"}) /\ TransferLength > 0
  /\ ReceiveSector
  /\ UNCHANGED <<writeFrame, MSD_State, gblCBW, lengthVars, sense, msd_buffer, store>>

WriteEnd ==
  /\ Writing({"BLOCK"}) /\ TransferLength = 0
  /\ Finish(msd_csw)
  /\ UNCHANGED <<commandFrame, usb, gblCBW, lengthVars, sense, msd_buffer, ptrNextData>>

\* Mutant: a packet more than the sector has.
AskForPacketPastSector ==
  /\ Writing({"RX_SECTOR"})
  /\ ReceiveChunk(ptrNextData)
  /\ UNCHANGED <<writeFrame, MSD_State, gblCBW, msd_csw, lengthVars, sense, msd_buffer,
                 ptrNextData, store>>

AskForPacket ==
  /\ Writing({"RX_SECTOR"}) /\ msd_csw.residue > 0
  /\ ReceiveChunk(ptrNextData)
  /\ UNCHANGED <<writeFrame, MSD_State, gblCBW, msd_csw, lengthVars, sense, msd_buffer,
                 ptrNextData, store>>

\* Mutant: the packet is counted before it is there.
PacketReceivedEarly ==
  /\ Writing({"RX_PACKET"})
  /\ LET len == usb.out.entry[usb.outHandle].cnt
     IN /\ gblCBW' = [gblCBW EXCEPT !.length = @ - len]
        /\ msd_csw' = [msd_csw EXCEPT !.residue = @ - len]
  /\ ptrNextData' = ptrNextData + 1
  /\ MSDWriteState' = "RX_SECTOR"
  /\ UNCHANGED <<writeFrame, usb, MSD_State, lengthVars, sense, msd_buffer, store>>

PacketReceived ==
  /\ Writing({"RX_PACKET"}) /\ ~OutBusy
  /\ LET len == usb.out.entry[usb.outHandle].cnt
     IN /\ gblCBW' = [gblCBW EXCEPT !.length = @ - len]
        /\ msd_csw' = [msd_csw EXCEPT !.residue = @ - len]
  /\ ptrNextData' = ptrNextData + 1
  /\ MSDWriteState' = "RX_SECTOR"
  /\ UNCHANGED <<writeFrame, usb, MSD_State, lengthVars, sense, msd_buffer, store>>

SectorReceived ==
  /\ Writing({"RX_SECTOR"}) /\ msd_csw.residue = 0
  /\ msd_csw' = IF isReadOnly THEN [msd_csw EXCEPT !.status = "FAILED"] ELSE msd_csw
  /\ sense' = IF isReadOnly THEN "NOT_READY" ELSE sense
  /\ MSDWriteState' = "SECTOR"
  /\ UNCHANGED <<writeFrame, usb, MSD_State, gblCBW, lengthVars, msd_buffer, ptrNextData, store>>

\* Mutant: all sectors go to the same place.
SectorDoneInPlace ==
  /\ TransferLength' = TransferLength - 1 /\ MSDWriteState' = "BLOCK"
  /\ UNCHANGED <<writeFrame, usb, MSD_State, gblCBW, LBA, MSDRetryAttempt, msd_buffer,
                 ptrNextData>>

\* The sector at LBA is dealt with.
SectorDone ==
  /\ LBA' = LBA + 1 /\ TransferLength' = TransferLength - 1
  /\ MSDWriteState' = "BLOCK"
  /\ UNCHANGED <<writeFrame, usb, MSD_State, gblCBW, MSDRetryAttempt, msd_buffer, ptrNextData>>

WriteSector ==
  /\ Writing({"SECTOR"}) /\ msd_csw.status = "PASSED" /\ LBA \in Sectors
  /\ store' = [store EXCEPT ![LBA] = msd_buffer]
  /\ SectorDone
  /\ UNCHANGED <<msd_csw, sense>>

RetryWrite ==
  /\ Writing({"SECTOR"}) /\ msd_csw.status = "PASSED" /\ LBA \notin Sectors
  /\ MSDRetryAttempt < MaxAttempts
  /\ MSDRetryAttempt' = MSDRetryAttempt + 1
  /\ UNCHANGED <<writeFrame, usb, MSD_State, MSDWriteState, gblCBW, msd_csw, TransferLength, LBA,
                 sense, msd_buffer, ptrNextData, store>>

\* Mutant: the failure reaches the sense key only.
AbandonWriteQuietly ==
  /\ Writing({"SECTOR"}) /\ msd_csw.status = "PASSED" /\ LBA \notin Sectors
  /\ MSDRetryAttempt = MaxAttempts
  /\ sense' = "MEDIUM_ERROR"
  /\ SectorDone /\ UNCHANGED <<msd_csw, store>>

AbandonWrite ==
  /\ Writing({"SECTOR"}) /\ msd_csw.status = "PASSED" /\ LBA \notin Sectors
  /\ MSDRetryAttempt = MaxAttempts
  /\ msd_csw' = [msd_csw EXCEPT !.status = "FAILED"] /\ sense' = "MEDIUM_ERROR"
  /\ SectorDone /\ UNCHANGED store

\* After a failure the rest of the data is taken and dropped.
SkipSector ==
  /\ Writing({"SECTOR"}) /\ msd_csw.status # "PASSED"
  /\ SectorDone
  /\ UNCHANGED <<msd_csw, sense, store>>

MSDTasks ==
  \/ AcceptCBW       \/ RejectCBW        \/ SendCSW           \/ FailCheckedCommand
  \/ FailUnsupported \/ NoAnswerWanted   \/ PreventAllowMediumRemoval
  \/ TestUnitReady   \/ VerifyOrStopStart \/ PrepareResponse  \/ SendResponse
  \/ ReadStart       \/ ReadNextSector   \/ ReadNothing       \/ ReadEnd
  \/ SectorTransmitted \/ TransmitPacket \/ WriteProtected    \/ WriteStart
  \/ WriteNothing    \/ WriteNextSector  \/ WriteEnd          \/ AskForPacket
  \/ PacketReceived  \/ SectorReceived   \/ WriteSector       \/ RetryWrite
  \/ AbandonWrite    \/ SkipSector

----------------------------------------------------------------------------
(* USBDeviceTasks: requests of the host on endpoint 0, and bus resets.      *)

\* Back to waiting for a CBW.
IdleMachines ==
  /\ MSD_State' = "WAIT" /\ MSDCommandState' = "WAIT"
  /\ MSDReadState' = "WAIT" /\ MSDWriteState' = "WAIT"

\* USBCheckMSDRequest: the data toggles and stalls stay, and so does what is armed.
MassStorageReset ==
  /\ setup = "MSD_RESET" /\ setup' = "none"
  /\ IdleMachines
  /\ MSDCBWValid' = TRUE
  /\ usb' = IF NextHandleBusy(usb.out) THEN usb ELSE Rx(usb, CbwBuffer)
  /\ UNCHANGED <<configured, MSDHostNoData, gblCBW, msd_csw, lengthVars, sense, bufferVars,
                 mediaVars>>

\* Mutant: the stall of an invalid CBW is like any other.
TransferTerminatedForgiving(u, d, i) ==
  IF d = "out" /\ i = u.out.next THEN Rx(u, CbwBuffer) ELSE u

\* EVENT_TRANSFER_TERMINATED for entry i of direction d, which has just been reclaimed.
TransferTerminated(u, d, i) ==
  IF ~MSDCBWValid THEN StallBoth(u)
  ELSE IF d = "out" /\ i = u.out.next THEN Rx(u, CbwBuffer) ELSE u

\* Take entry i of direction d back, and tell the application if the SIE held it.
Terminate(u, d, i, toggle) ==
  LET reclaimed == [u EXCEPT ![d] = Reclaim(@, i, toggle)]
  IN IF USBHandleBusy(u[d], i) THEN TransferTerminated(reclaimed, d, i) ELSE reclaimed

\* Mutant: the active entry comes first.
ClearHaltActiveFirst(d) ==
  /\ configured
  /\ LET active == usb[d].active
         synced == [usb EXCEPT ![d].next = active]
     IN usb' = Terminate(Terminate(synced, d, active, 0), d, Other(active), 1)
  /\ UNCHANGED <<configured, MSDCBWValid, MSDHostNoData, machineVars, gblCBW, msd_csw,
                 lengthVars, sense, bufferVars, mediaVars>>

\* USBStdFeatureReqHandler, CLEAR_FEATURE(ENDPOINT_HALT): first the entry that the SIE would
\* use after the active one, then the active one.
ClearHalt(d) ==
  /\ configured
  /\ LET active == usb[d].active
         synced == [usb EXCEPT ![d].next = active]
     IN usb' = Terminate(Terminate(synced, d, Other(active), 1), d, active, 0)
  /\ UNCHANGED <<configured, MSDCBWValid, MSDHostNoData, machineVars, gblCBW, msd_csw,
                 lengthVars, sense, bufferVars, mediaVars>>

\* SET_FEATURE(ENDPOINT_HALT): the active entry answers STALL.  The SIE owns it then, so
\* ClearHalt tells the application of it (transfer_terminated says nothing more).
SetHalt(d) ==
  /\ configured
  /\ LET active == usb[d].active
     IN usb' = [usb EXCEPT ![d].next = active, ![d].entry[active].own = "stall"]
  /\ UNCHANGED <<configured, MSDCBWValid, MSDHostNoData, machineVars, gblCBW, msd_csw,
                 lengthVars, sense, bufferVars, mediaVars>>

SetHaltIn    == setup = "SET_HALT_IN"    /\ setup' = "none" /\ SetHalt("in")
SetHaltOut   == setup = "SET_HALT_OUT"   /\ setup' = "none" /\ SetHalt("out")
ClearHaltIn  == setup = "CLEAR_HALT_IN"  /\ setup' = "none" /\ ClearHalt("in")
ClearHaltOut == setup = "CLEAR_HALT_OUT" /\ setup' = "none" /\ ClearHalt("out")

\* USBDeviceInit on a bus reset: the table is cleared and the endpoints are disabled.
ClearedPair(u) == [u EXCEPT !.in = USBConfigureEndpoint, !.out = USBConfigureEndpoint]

BusReset ==
  /\ setup = "BUS_RESET" /\ setup' = "none"
  /\ configured' = FALSE
  /\ usb' = ClearedPair(usb)
  /\ UNCHANGED <<MSDCBWValid, MSDHostNoData, machineVars, gblCBW, msd_csw, lengthVars, sense,
                 bufferVars, mediaVars>>

\* USBEnableEndpoint, for IN and for OUT.
USBEnableEndpoint(u, d) == [u EXCEPT ![d] = USBConfigureEndpoint]

\* APP_DeviceMSDInitialize, with USBMSDInit: the drive waits for a CBW.
APP_DeviceMSDInitialize(u) ==
  Rx([USBEnableEndpoint(USBEnableEndpoint(u, "out"), "in") EXCEPT !.inHandle = 0], CbwBuffer)

\* USBStdSetCfgHandler, with the event that it is configured.
SetConfiguration ==
  /\ setup = "SET_CONFIGURATION" /\ setup' = "none"
  /\ configured' = TRUE
  /\ usb' = APP_DeviceMSDInitialize(ClearedPair(usb))
  /\ IdleMachines
  /\ MSDHostNoData' = FALSE /\ MSDCBWValid' = TRUE
  /\ sense' = ResetSenseData
  /\ UNCHANGED <<gblCBW, msd_csw, lengthVars, bufferVars, mediaVars>>

USBDeviceTasks ==
  \/ MassStorageReset \/ SetHaltIn \/ SetHaltOut \/ ClearHaltIn \/ ClearHaltOut
  \/ BusReset \/ SetConfiguration

----------------------------------------------------------------------------
(* The main loop besides USB: the online command ReadOnly, on a drive whose limit does not  *)
(* make it reset itself (app.c:159).                                                        *)

SetReadOnly ==
  /\ ~isReadOnly /\ isReadOnly' = TRUE
  /\ UNCHANGED <<usb, controlVars, machineVars, gblCBW, msd_csw, lengthVars, sense, bufferVars,
                 store>>

----------------------------------------------------------------------------
(* The drive just configured, with no command yet.                          *)

NoCommand(tag) == [op |-> "UNSUPPORTED", in |-> FALSE, length |-> 0, lba |-> 0, count |-> 0,
                   tag |-> tag, form |-> "invalid"]

MsdInit(tag) ==
  /\ usb = Rx([in |-> USBConfigureEndpoint, out |-> USBConfigureEndpoint,
               inHandle |-> 0, outHandle |-> 0], CbwBuffer)
  /\ setup = "none" /\ configured = TRUE
  /\ MSD_State = "WAIT" /\ MSDCommandState = "WAIT"
  /\ MSDReadState = "WAIT" /\ MSDWriteState = "WAIT"
  /\ gblCBW = NoCommand(tag) /\ msd_cbw = NoCommand(tag)
  /\ msd_csw = [tag |-> tag, residue |-> 0, status |-> "PASSED"]
  /\ TransferLength = 0 /\ LBA = 0 /\ MSDRetryAttempt = 0
  /\ MSDHostNoData = FALSE /\ MSDCBWValid = TRUE
  /\ sense = ResetSenseData
  /\ msd_buffer = [k \in Chunks |-> Blank] /\ ptrNextData = 0
  /\ store = [s \in Sectors |-> [k \in Chunks |-> Blank]]
  /\ isReadOnly = FALSE
=============================================================================
