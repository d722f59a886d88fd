------------------------------ MODULE UsbDevice ------------------------------
(***************************************************************************)
(* The device side of endpoint 0 and of the bus (usb_device.c): attaching, *)
(* bus reset, suspend and wake-up, and the control transfers with their    *)
(* standard and mass storage requests.                                     *)
(*                                                                         *)
(* A call of USBDeviceTasks looks at the flags of U1IR one after the other *)
(* and then serves the transactions that the serial interface engine (SIE) *)
(* has queued; the SIE goes on between any two of these steps.  "task" is  *)
(* where the call is.  The SIE works on entry active["out"] or             *)
(* active["in"] of the buffer descriptor table, the firmware hands it      *)
(* entries through outCurrent, outNext and inNext.                         *)
(*                                                                         *)
(* Nobody defers a stage, so USBCtrlEPAllowStatusStage does its work while *)
(* the SETUP packet is served, and the status stage timeout finds it done. *)
(***************************************************************************)
EXTENDS UsbEndpoint, UsbDescriptors

CONSTANTS
  EP0_SIZE,     \* USB_EP0_BUFF_SIZE
  Requests      \* what a SETUP packet may hold

\* The standard requests, and those of the mass storage class.
StandardRequests ==
  {"GET_STATUS", "CLEAR_FEATURE", "SET_FEATURE", "SET_ADDRESS", "GET_DESCRIPTOR", "SET_DESCRIPTOR",
   "GET_CONFIGURATION", "SET_CONFIGURATION", "GET_INTERFACE", "SET_INTERFACE", "SYNCH_FRAME"}

ClassRequests == {"MSD_RESET", "GET_MAX_LUN"}

\* What wLength may be.
Words == 0 .. 65535

\* A SETUP packet: bRequest (op), the recipient or the type of the descriptor (what), the low
\* byte of wValue, wLength, and whether the direction bit says IN.
SetupPackets ==
  [op : StandardRequests \cup ClassRequests,
   what : {"DEVICE", "INTERFACE", "ENDPOINT", "CONFIGURATION", "STRING"},
   value : 0 .. 255, length : Words, in : BOOLEAN]

ASSUME DeviceAssumption ==
  EP0_SIZE \in Nat \ {0} /\ Requests \subseteq SetupPackets

VARIABLES
  task,           \* where USBDeviceTasks is
  out, in,        \* the entries of endpoint 0 in the buffer descriptor table
  active,         \* the entry of each direction that the SIE uses next
  fifo,           \* USTAT: transactions that are done and not served yet
  PKTDIS,         \* set by the SIE with a SETUP packet
  U1ADDR,         \* the address the SIE answers to
  U1IR,           \* the flags that are set
  SUSPND, ACTVIE, \* the SIE sleeps; its wake-up is unmasked
  outCurrent, outNext, inNext,  \* pBDTEntryEP0OutCurrent, pBDTEntryEP0OutNext, pBDTEntryIn[0]
  controlTransferState, shortPacketStatus, BothEP0OutUOWNsSet,
  inPipe,         \* inPipes[0]: source of the data stage, bytes copied, bytes left
  SetupPkt,       \* the last SETUP packet
  CtrlTrfData,    \* the packet buffer of IN: source of its bytes and where in it they start
  USBDeviceState, USBActiveConfiguration, USBAlternateInterface, RemoteWakeup

sieVars == <<active, U1ADDR, U1IR, SUSPND, ACTVIE>>
pointers == <<outCurrent, outNext, inNext>>
stageVars == <<controlTransferState, shortPacketStatus, BothEP0OutUOWNsSet, inPipe>>
stateVars == <<USBDeviceState, USBActiveConfiguration, USBAlternateInterface, RemoteWakeup>>
usbVars == <<task, out, in, fifo, PKTDIS, sieVars, pointers, stageVars, SetupPkt, CtrlTrfData,
             stateVars>>

Values == {r.value : r \in Requests} \cup {0}

\* Where the bytes of a data stage come from.
Sources == DescriptorKeys \cup
  {<<s, v>> : s \in {"CONFIGURATION", "INTERFACE", "MAX_LUN", "STATUS"}, v \in Values \cup 0 .. 3}
  \cup {<<"none", 0>>}

BeforeDefault == {"DETACHED", "ATTACHED", "POWERED"}

\* Who owns an entry; what the firmware reads of one that was filled, the packet identifier, and
\* what the SIE reads of one to send, data toggle and length.
Owners == {"cpu", "armed", "stall"}
OutEntries == [own : Owners, pid : {"SETUP", "OUT"}]
InEntries == [own : Owners, dts : {0, 1}, cnt : 0 .. EP0_SIZE]

\* USTAT of a transaction on endpoint 0.
Transactions == Directions \X Entries

\* inPipes[0]
Pipes == [source : Sources, pos : Nat, wCount : Nat]

UsbTypeOK ==
  /\ task \in {"activity", "reset", "idle", "drain", "more"}
  /\ out \in [Entries -> OutEntries] /\ in \in [Entries -> InEntries]
  /\ active \in [Directions -> Entries]
  /\ fifo \in Seq(Transactions)
  /\ PKTDIS \in BOOLEAN /\ SUSPND \in BOOLEAN /\ ACTVIE \in BOOLEAN
  /\ U1ADDR \in 0 .. 127
  /\ U1IR \subseteq {"URSTIF", "IDLEIF", "ACTVIF", "STALLIF"}
  /\ outCurrent \in Entries /\ outNext \in Entries /\ inNext \in Entries
  /\ controlTransferState \in {"WAIT_SETUP", "CTRL_TRF_TX", "CTRL_TRF_RX"}
  /\ shortPacketStatus \in {"NOT_USED", "PENDING", "SENT"}
  /\ BothEP0OutUOWNsSet \in BOOLEAN
  /\ inPipe \in Pipes
  /\ SetupPkt \in Requests
  /\ CtrlTrfData \in Sources \X Nat
  /\ USBDeviceState \in BeforeDefault \cup {"DEFAULT", "ADR_PENDING", "ADDRESS", "CONFIGURED"}
  /\ USBActiveConfiguration \in Values /\ USBAlternateInterface \in Values
  /\ RemoteWakeup \in BOOLEAN

Smaller(a, b) == IF a < b THEN a ELSE b

----------------------------------------------------------------------------
(* The entries.                                                             *)

\* Armed to take a SETUP packet and to answer STALL to anything else.
StallEntry == [own |-> "stall", pid |-> "OUT"]
\* Armed for the status packet of a control read.
StatusEntry == [own |-> "armed", pid |-> "OUT"]

InPacket(dts, cnt) == [own |-> "armed", dts |-> dts, cnt |-> cnt]

\* USBDeviceInit: one entry takes the first SETUP packet.
ClearedOut == [i \in Entries |-> IF i = 0 THEN StallEntry ELSE [own |-> "cpu", pid |-> "OUT"]]
ClearedIn == [i \in Entries |-> [own |-> "cpu", dts |-> 0, cnt |-> 0]]

\* USBCtrlTrfSetupHandler takes both IN entries back; what they held does not matter any more,
\* and is forgotten here, and so is what is left in CtrlTrfData when nothing is copied there.
ReclaimedIn == ClearedIn
NoBytes == <<<<"none", 0>>, 0>>

----------------------------------------------------------------------------
(* USBDeviceTasks up to the queue of transactions.                          *)

\* Attached, and powered once the data lines are up: until then (SE0) no reset is taken for one.
Attach ==
  /\ task = "activity" /\ USBDeviceState \in {"DETACHED", "ATTACHED"}
  /\ \/ USBDeviceState' = "ATTACHED" /\ UNCHANGED U1IR
     \/ USBDeviceState' = "POWERED" /\ U1IR' = {}
  /\ task' = "reset"
  /\ UNCHANGED <<out, in, active, fifo, PKTDIS, U1ADDR, SUSPND, ACTVIE, pointers, stageVars,
                 SetupPkt, CtrlTrfData, USBActiveConfiguration, USBAlternateInterface,
                 RemoteWakeup>>

\* Mutant: a suspended drive ends the call before it looks for the wake-up.
SuspendedFirst ==
  /\ task = "activity" /\ "ACTVIF" \in U1IR /\ ACTVIE /\ SUSPND
  /\ UNCHANGED usbVars

\* USBWakeFromSuspend
USBWakeFromSuspend ==
  /\ task = "activity" /\ "ACTVIF" \in U1IR /\ ACTVIE
  /\ SUSPND' = FALSE /\ ACTVIE' = FALSE /\ U1IR' = U1IR \ {"ACTVIF"}
  /\ task' = "reset"
  /\ UNCHANGED <<out, in, active, fifo, PKTDIS, U1ADDR, pointers, stageVars, SetupPkt,
                 CtrlTrfData, stateVars>>

\* A suspended drive that nobody wakes ends every call here.
StayAwake ==
  /\ task = "activity" /\ USBDeviceState \notin {"DETACHED", "ATTACHED"}
  /\ ~ ("ACTVIF" \in U1IR /\ ACTVIE) /\ ~SUSPND
  /\ task' = "reset"
  /\ UNCHANGED <<out, in, fifo, PKTDIS, sieVars, pointers, stageVars, SetupPkt, CtrlTrfData,
                 stateVars>>

\* Mutant: the configuration outlives the reset.
InitKeepingConfiguration ==
  /\ task = "reset" /\ "URSTIF" \in U1IR
  /\ U1IR' = {} /\ U1ADDR' = 0 /\ PKTDIS' = FALSE
  /\ out' = ClearedOut /\ in' = ClearedIn
  /\ active' = [d \in Directions |-> 0] /\ fifo' = <<>>
  /\ inNext' = 0
  /\ USBDeviceState' = "DEFAULT"
  /\ task' = "idle"
  /\ UNCHANGED <<SUSPND, ACTVIE, outCurrent, outNext, stageVars, SetupPkt, CtrlTrfData,
                 USBActiveConfiguration, USBAlternateInterface, RemoteWakeup>>

\* A bus reset: USBDeviceInit, and the default state.
USBDeviceInit ==
  /\ task = "reset" /\ "URSTIF" \in U1IR
  /\ U1IR' = {} /\ U1ADDR' = 0 /\ PKTDIS' = FALSE
  /\ out' = ClearedOut /\ in' = ClearedIn
  /\ active' = [d \in Directions |-> 0] /\ fifo' = <<>>
  /\ inNext' = 0
  /\ USBActiveConfiguration' = 0
  /\ USBDeviceState' = "DEFAULT"
  /\ task' = "idle"
  /\ UNCHANGED <<SUSPND, ACTVIE, outCurrent, outNext, stageVars, SetupPkt, CtrlTrfData,
                 USBAlternateInterface, RemoteWakeup>>

NoReset ==
  /\ task = "reset" /\ "URSTIF" \notin U1IR
  /\ task' = "idle"
  /\ UNCHANGED <<out, in, fifo, PKTDIS, sieVars, pointers, stageVars, SetupPkt, CtrlTrfData,
                 stateVars>>

\* Mutant: what the comment in USBSuspend warns of.
SuspendForgettingActivity ==
  /\ task = "idle" /\ "IDLEIF" \in U1IR
  /\ SUSPND' = TRUE /\ ACTVIE' = TRUE /\ U1IR' = U1IR \ {"IDLEIF", "ACTVIF"}
  /\ UNCHANGED <<task, out, in, active, fifo, PKTDIS, U1ADDR, pointers, stageVars, SetupPkt,
                 CtrlTrfData, stateVars>>

\* USBSuspend; the call goes on.
USBSuspend ==
  /\ task = "idle" /\ "IDLEIF" \in U1IR
  /\ SUSPND' = TRUE /\ ACTVIE' = TRUE /\ U1IR' = U1IR \ {"IDLEIF"}
  /\ UNCHANGED <<task, out, in, active, fifo, PKTDIS, U1ADDR, pointers, stageVars, SetupPkt,
                 CtrlTrfData, stateVars>>

\* USBStallHandler, and on to the queue; a drive without a reset has none.
USBStallHandler ==
  /\ task = "idle" /\ "IDLEIF" \notin U1IR
  /\ U1IR' = U1IR \ {"STALLIF"}
  /\ out' = IF "STALLIF" \in U1IR /\ out[outCurrent].own = "armed" /\ in[inNext].own = "stall"
            THEN [out EXCEPT ![outCurrent] = StallEntry] ELSE out
  /\ task' = IF USBDeviceState \in BeforeDefault THEN "activity" ELSE "drain"
  /\ UNCHANGED <<in, active, fifo, PKTDIS, U1ADDR, SUSPND, ACTVIE, pointers, stageVars, SetupPkt,
                 CtrlTrfData, stateVars>>

\* The queue is empty, or four transactions were served (the count is left out: the call may end
\* after the first of them, or later).
EndCall ==
  /\ \/ task = "drain" /\ fifo = <<>>
     \/ task = "more"
  /\ task' = "activity"
  /\ UNCHANGED <<out, in, fifo, PKTDIS, sieVars, pointers, stageVars, SetupPkt, CtrlTrfData,
                 stateVars>>

----------------------------------------------------------------------------
(* USBCtrlEPService: the oldest transaction of the queue, here a SETUP.     *)

\* The oldest transaction is done on entry e of direction d.
Serving(d, e) == task \in {"drain", "more"} /\ fifo # <<>> /\ Head(fifo) = <<d, e>>

\* It is served.
Served == fifo' = Tail(fifo) /\ task' = "more"

ServingSetup(e, ops) == Serving("out", e) /\ out[e].pid = "SETUP" /\ SetupPkt.op \in ops

\* What every SETUP packet changes, and what none does.
SetupHandled(e) ==
  /\ Served /\ PKTDIS' = FALSE
  /\ outCurrent' = e
  /\ UNCHANGED <<U1ADDR, U1IR, SUSPND, ACTVIE, SetupPkt>>

\* The entries stay where they are.
SamePointers(e) == outNext' = Other(e) /\ UNCHANGED <<inNext, active>>

NothingToSend == [source |-> <<"none", 0>>, pos |-> 0, wCount |-> 0]

\* Mutant: a transfer that ends with a full packet ends without a short one.
NextShortPacketNoZero(status, left) ==
  CASE left >= EP0_SIZE -> status
    [] left < EP0_SIZE /\ left > 0 /\ status = "NOT_USED" -> "PENDING"
    [] OTHER -> "SENT"

\* USBCtrlTrfTxService: a packet that is short, or empty after a full one, goes out once.
NextShortPacket(status, left) ==
  CASE left >= EP0_SIZE -> status
    [] left < EP0_SIZE /\ status = "NOT_USED" -> "PENDING"
    [] OTHER -> "SENT"

\* Mutant: the source pointer stays.
AfterPacketFromStart(pipe) ==
  [pipe EXCEPT !.wCount = @ - Smaller(EP0_SIZE, pipe.wCount)]

\* Mutant: a packet is always full.
AfterFullPacket(pipe) == [pipe EXCEPT !.pos = @ + EP0_SIZE, !.wCount = @ - EP0_SIZE]

AfterPacket(pipe) ==
  LET n == Smaller(EP0_SIZE, pipe.wCount)
  IN [pipe EXCEPT !.pos = @ + n, !.wCount = @ - n]

\* USBCtrlEPServiceComplete for a request that nobody knows.
Unclaimed(e) ==
  /\ out' = [out EXCEPT ![Other(e)] = StallEntry]
  /\ in' = [ReclaimedIn EXCEPT ![inNext].own = "stall"]
  /\ controlTransferState' = "WAIT_SETUP" /\ shortPacketStatus' = "NOT_USED"
  /\ BothEP0OutUOWNsSet' = FALSE
  /\ inPipe' = NothingToSend
  /\ CtrlTrfData' = NoBytes

\* Mutant: the status packet is awaited without a second entry for the next SETUP.
ControlReadOneEntry(e, source, size) ==
  LET pipe == [source |-> source, pos |-> 0, wCount |-> Smaller(SetupPkt.length, size)]
  IN /\ in' = [ReclaimedIn EXCEPT ![inNext] = InPacket(1, Smaller(EP0_SIZE, pipe.wCount))]
     /\ CtrlTrfData' = <<source, 0>>
     /\ inPipe' = AfterPacket(pipe)
     /\ shortPacketStatus' = NextShortPacket("NOT_USED", pipe.wCount)
     /\ controlTransferState' = "CTRL_TRF_TX"
     /\ out' = [out EXCEPT ![Other(e)] = StatusEntry]
     /\ BothEP0OutUOWNsSet' = TRUE

\* ... for a control read: the first packet is armed, and both OUT entries, for the status packet
\* may come early.
ControlRead(e, source, size) ==
  LET pipe == [source |-> source, pos |-> 0, wCount |-> Smaller(SetupPkt.length, size)]
  IN /\ in' = [ReclaimedIn EXCEPT ![inNext] = InPacket(1, Smaller(EP0_SIZE, pipe.wCount))]
     /\ CtrlTrfData' = <<source, 0>>
     /\ inPipe' = AfterPacket(pipe)
     /\ shortPacketStatus' = NextShortPacket("NOT_USED", pipe.wCount)
     /\ controlTransferState' = "CTRL_TRF_TX"
     /\ out' = [out EXCEPT ![e] = StallEntry, ![Other(e)] = StatusEntry]
     /\ BothEP0OutUOWNsSet' = TRUE

\* Mutant: the status packet has the wrong data toggle.
NoDataStageData0(entriesOut, entriesIn, nextOut, nextIn) ==
  /\ out' = [entriesOut EXCEPT ![nextOut] = StallEntry]
  /\ in' = [entriesIn EXCEPT ![nextIn] = InPacket(0, 0)]
  /\ controlTransferState' = "CTRL_TRF_RX" /\ shortPacketStatus' = "NOT_USED"
  /\ BothEP0OutUOWNsSet' = FALSE
  /\ inPipe' = NothingToSend
  /\ CtrlTrfData' = NoBytes

\* ... for a request without data: the host reads an empty packet.
NoDataStage(entriesOut, entriesIn, nextOut, nextIn) ==
  /\ out' = [entriesOut EXCEPT ![nextOut] = StallEntry]
  /\ in' = [entriesIn EXCEPT ![nextIn] = InPacket(1, 0)]
  /\ controlTransferState' = "CTRL_TRF_RX" /\ shortPacketStatus' = "NOT_USED"
  /\ BothEP0OutUOWNsSet' = FALSE
  /\ inPipe' = NothingToSend
  /\ CtrlTrfData' = NoBytes

Claimed(e, source, size) ==
  IF SetupPkt.in THEN ControlRead(e, source, size)
  ELSE NoDataStage(out, ReclaimedIn, Other(e), inNext)

Acknowledged(e) == Claimed(e, <<"none", 0>>, 0)

SetAddress(e) ==
  /\ ServingSetup(e, {"SET_ADDRESS"}) /\ SetupHandled(e) /\ SamePointers(e)
  /\ Acknowledged(e)
  /\ USBDeviceState' = "ADR_PENDING"
  /\ UNCHANGED <<USBActiveConfiguration, USBAlternateInterface, RemoteWakeup>>

\* USBStdGetDscHandler: one device descriptor, whatever the index.
DescriptorKey == IF SetupPkt.what = "DEVICE" THEN <<"DEVICE", 0>> ELSE <<SetupPkt.what, SetupPkt.value>>

GetDescriptor(e) ==
  /\ ServingSetup(e, {"GET_DESCRIPTOR"}) /\ SetupHandled(e) /\ SamePointers(e)
  /\ IF SetupPkt.in /\ DescriptorKey \in DescriptorKeys
     THEN ControlRead(e, DescriptorKey, BytesSent(DescriptorKey))
     ELSE Unclaimed(e)
  /\ UNCHANGED stateVars

\* Mutant: the firmware's IN pointer stays.
SetConfigurationKeepingInNext(e) ==
  /\ ServingSetup(e, {"SET_CONFIGURATION"}) /\ Served /\ PKTDIS' = FALSE
  /\ active' = [d \in Directions |-> 0]
  /\ outCurrent' = 0 /\ outNext' = 0
  /\ NoDataStage([ClearedOut EXCEPT ![0].own = "cpu"], ClearedIn, 0, inNext)
  /\ USBActiveConfiguration' = SetupPkt.value
  /\ USBDeviceState' = IF SetupPkt.value = 0 THEN "ADDRESS" ELSE "CONFIGURED"
  /\ USBAlternateInterface' = 0
  /\ UNCHANGED <<U1ADDR, U1IR, SUSPND, ACTVIE, SetupPkt, RemoteWakeup, inNext>>

\* USBStdSetCfgHandler: the table and the ping-pong pointers are cleared under the request.
SetConfiguration(e) ==
  /\ ServingSetup(e, {"SET_CONFIGURATION"}) /\ Served /\ PKTDIS' = FALSE
  /\ active' = [d \in Directions |-> 0]
  /\ outCurrent' = 0 /\ outNext' = 0 /\ inNext' = 0
  /\ NoDataStage([ClearedOut EXCEPT ![0].own = "cpu"], ClearedIn, 0, 0)
  /\ USBActiveConfiguration' = SetupPkt.value
  /\ USBDeviceState' = IF SetupPkt.value = 0 THEN "ADDRESS" ELSE "CONFIGURED"
  /\ USBAlternateInterface' = 0
  /\ UNCHANGED <<U1ADDR, U1IR, SUSPND, ACTVIE, SetupPkt, RemoteWakeup>>

GetConfiguration(e) ==
  /\ ServingSetup(e, {"GET_CONFIGURATION"}) /\ SetupHandled(e) /\ SamePointers(e)
  /\ Claimed(e, <<"CONFIGURATION", USBActiveConfiguration>>, 1)
  /\ UNCHANGED stateVars

\* USBStdGetStatusHandler: bit 0 self powered, bit 1 remote wakeup; of an endpoint bit 0 says
\* that it is halted, which depends on the bulk endpoints.
StatusBits ==
  CASE SetupPkt.what = "DEVICE" -> {IF RemoteWakeup THEN 3 ELSE 1}
    [] SetupPkt.what = "INTERFACE" -> {0}
    [] OTHER -> {0, 1}

GetStatus(e) ==
  /\ ServingSetup(e, {"GET_STATUS"}) /\ SetupHandled(e) /\ SamePointers(e)
  /\ \E bits \in StatusBits : Claimed(e, <<"STATUS", bits>>, 2)
  /\ UNCHANGED stateVars

\* USBStdFeatureReqHandler: feature 1 of the device is the remote wakeup, feature 0 of an
\* endpoint its halt (what that does to the endpoint is in MsdBot).
Feature(e) ==
  /\ ServingSetup(e, {"SET_FEATURE", "CLEAR_FEATURE"}) /\ SetupHandled(e) /\ SamePointers(e)
  /\ LET wakeup == SetupPkt.what = "DEVICE" /\ SetupPkt.value = 1
         halt == SetupPkt.what = "ENDPOINT" /\ SetupPkt.value = 0
                 /\ USBDeviceState = "CONFIGURED"
     IN /\ RemoteWakeup' = IF wakeup THEN SetupPkt.op = "SET_FEATURE" ELSE RemoteWakeup
        /\ IF wakeup \/ halt THEN Acknowledged(e) ELSE Unclaimed(e)
  /\ UNCHANGED <<USBDeviceState, USBActiveConfiguration, USBAlternateInterface>>

GetInterface(e) ==
  /\ ServingSetup(e, {"GET_INTERFACE"}) /\ SetupHandled(e) /\ SamePointers(e)
  /\ Claimed(e, <<"INTERFACE", USBAlternateInterface>>, 1)
  /\ UNCHANGED stateVars

SetInterface(e) ==
  /\ ServingSetup(e, {"SET_INTERFACE"}) /\ SetupHandled(e) /\ SamePointers(e)
  /\ Acknowledged(e)
  /\ USBAlternateInterface' = SetupPkt.value
  /\ UNCHANGED <<USBDeviceState, USBActiveConfiguration, RemoteWakeup>>

\* USBCheckMSDRequest; what a reset does to the class is in MsdBot.
MassStorageRequest(e) ==
  /\ ServingSetup(e, {"MSD_RESET", "GET_MAX_LUN"}) /\ SetupHandled(e) /\ SamePointers(e)
  /\ CASE SetupPkt.op = "MSD_RESET" /\ SetupPkt.value = 0 /\ SetupPkt.length = 0 -> Acknowledged(e)
       [] SetupPkt.op = "GET_MAX_LUN" /\ SetupPkt.value = 0 /\ SetupPkt.length = 1 ->
            Claimed(e, <<"MAX_LUN", 0>>, 1)
       [] OTHER -> Unclaimed(e)
  /\ UNCHANGED stateVars

\* USBCheckStdRequest hands these to a handler that does nothing, or to none.
UnknownRequest(e) ==
  /\ ServingSetup(e, {"SET_DESCRIPTOR", "SYNCH_FRAME"}) /\ SetupHandled(e) /\ SamePointers(e)
  /\ Unclaimed(e)
  /\ UNCHANGED stateVars

USBCtrlTrfSetupHandler ==
  \E e \in Entries :
    \/ SetAddress(e) \/ GetDescriptor(e) \/ SetConfiguration(e) \/ GetConfiguration(e)
    \/ GetStatus(e)  \/ Feature(e)       \/ GetInterface(e)     \/ SetInterface(e)
    \/ MassStorageRequest(e) \/ UnknownRequest(e)

----------------------------------------------------------------------------
(* The other transactions.                                                  *)

\* USBCtrlTrfOutHandler: the status packet of a control read.  No request of this drive takes
\* data (USBCtrlTrfRxService, left out); a packet in state CTRL_TRF_RX would stay in the queue
\* here, and the host would wait for ever.
USBCtrlTrfOutHandler ==
  \E e \in Entries :
    /\ Serving("out", e) /\ out[e].pid = "OUT" /\ controlTransferState # "CTRL_TRF_RX"
    /\ Served
    /\ outCurrent' = e /\ outNext' = Other(e)
    /\ controlTransferState' = "WAIT_SETUP"
    /\ out' = IF BothEP0OutUOWNsSet THEN out ELSE [out EXCEPT ![Other(e)] = StallEntry]
    /\ BothEP0OutUOWNsSet' = FALSE
    /\ UNCHANGED <<in, PKTDIS, sieVars, inNext, shortPacketStatus, inPipe, SetupPkt,
                   CtrlTrfData, stateVars>>

\* Mutant: any packet that goes out ends a SET_ADDRESS.
TakeAnyAddress ==
  /\ U1ADDR' = SetupPkt.value % 128
  /\ USBDeviceState' = IF SetupPkt.value % 128 = 0 THEN "DEFAULT" ELSE "ADDRESS"

\* USBCtrlTrfInHandler: an address that is pending is taken over, from whatever SETUP packet
\* came last.
TakeAddress ==
  IF USBDeviceState = "ADR_PENDING"
  THEN /\ U1ADDR' = SetupPkt.value % 128
       /\ USBDeviceState' = IF SetupPkt.value % 128 = 0 THEN "DEFAULT" ELSE "ADDRESS"
  ELSE UNCHANGED <<U1ADDR, USBDeviceState>>

inFrame == <<out, active, PKTDIS, U1IR, SUSPND, ACTVIE, outCurrent, outNext,
             BothEP0OutUOWNsSet, SetupPkt, USBActiveConfiguration, USBAlternateInterface,
             RemoteWakeup>>

NextInPacket ==
  \E e \in Entries :
    /\ Serving("in", e) /\ controlTransferState = "CTRL_TRF_TX"
    /\ Served /\ inNext' = Other(inNext)
    /\ TakeAddress
    /\ CtrlTrfData' = <<inPipe.source, inPipe.pos>>
    /\ inPipe' = AfterPacket(inPipe)
    /\ shortPacketStatus' = NextShortPacket(shortPacketStatus, inPipe.wCount)
    /\ in' = [in EXCEPT ![Other(inNext)] =
                IF shortPacketStatus' = "SENT" THEN [@ EXCEPT !.own = "stall", !.cnt = 0]
                ELSE InPacket(1 - in[inNext].dts, Smaller(EP0_SIZE, inPipe.wCount))]
    /\ UNCHANGED <<inFrame, controlTransferState>>

StatusInDone ==
  \E e \in Entries :
    /\ Serving("in", e) /\ controlTransferState # "CTRL_TRF_TX"
    /\ Served /\ inNext' = Other(inNext)
    /\ TakeAddress
    /\ controlTransferState' = "WAIT_SETUP"
    /\ UNCHANGED <<inFrame, in, CtrlTrfData, inPipe, shortPacketStatus>>

USBDeviceTasks ==
  \/ Attach  \/ USBWakeFromSuspend \/ StayAwake \/ USBDeviceInit \/ NoReset
  \/ USBSuspend \/ USBStallHandler \/ EndCall
  \/ USBCtrlTrfSetupHandler \/ USBCtrlTrfOutHandler \/ NextInPacket \/ StatusInDone

----------------------------------------------------------------------------
(* The SIE.  It moves nothing while it sleeps or while a SETUP packet waits to be served. *)

Listening(address) ==
  USBDeviceState \notin BeforeDefault /\ U1ADDR = address /\ ~SUSPND /\ ~PKTDIS

\* A SETUP packet is taken by any entry the SIE owns.
SieSetup(address, r) ==
  LET e == active["out"]
  IN /\ Listening(address) /\ out[e].own # "cpu"
     /\ out' = [out EXCEPT ![e] = [own |-> "cpu", pid |-> "SETUP"]]
     /\ active' = [active EXCEPT !["out"] = Other(e)]
     /\ fifo' = Append(fifo, <<"out", e>>)
     /\ PKTDIS' = TRUE /\ SetupPkt' = r
     /\ UNCHANGED <<task, in, U1ADDR, U1IR, SUSPND, ACTVIE, pointers, stageVars, CtrlTrfData,
                    stateVars>>

\* An OUT packet goes in.
SieOut(address) ==
  LET e == active["out"]
  IN /\ Listening(address) /\ out[e].own = "armed"
     /\ out' = [out EXCEPT ![e].own = "cpu"]
     /\ active' = [active EXCEPT !["out"] = Other(e)]
     /\ fifo' = Append(fifo, <<"out", e>>)
     /\ UNCHANGED <<task, in, PKTDIS, U1ADDR, U1IR, SUSPND, ACTVIE, pointers, stageVars, SetupPkt,
                    CtrlTrfData, stateVars>>

\* An IN packet goes out and is acknowledged.
SieIn(address) ==
  LET e == active["in"]
  IN /\ Listening(address) /\ in[e].own = "armed"
     /\ in' = [in EXCEPT ![e].own = "cpu"]
     /\ active' = [active EXCEPT !["in"] = Other(e)]
     /\ fifo' = Append(fifo, <<"in", e>>)
     /\ UNCHANGED <<task, out, PKTDIS, U1ADDR, U1IR, SUSPND, ACTVIE, pointers, stageVars, SetupPkt,
                    CtrlTrfData, stateVars>>

\* The same, but the acknowledgement is lost: the SIE will send the packet again.
SieInUnacknowledged(address) ==
  Listening(address) /\ in[active["in"]].own = "armed" /\ UNCHANGED usbVars

\* The SIE answers STALL.
SieStall(address, own) ==
  /\ Listening(address) /\ own = "stall"
  /\ U1IR' = U1IR \cup {"STALLIF"}
  /\ UNCHANGED <<task, out, in, active, fifo, PKTDIS, U1ADDR, SUSPND, ACTVIE, pointers, stageVars,
                 SetupPkt, CtrlTrfData, stateVars>>

\* A flag is set by something on the bus; a bus reset clears the address, too.
SieFlags(flags, address) ==
  /\ U1IR' = U1IR \cup flags /\ U1ADDR' = address
  /\ UNCHANGED <<task, out, in, active, fifo, PKTDIS, SUSPND, ACTVIE, pointers, stageVars,
                 SetupPkt, CtrlTrfData, stateVars>>

\* main, before the first call of USBDeviceTasks: USBDeviceInit.
UsbInit ==
  /\ task = "activity"
  /\ out = ClearedOut /\ in = ClearedIn
  /\ active = [d \in Directions |-> 0] /\ fifo = <<>>
  /\ PKTDIS = FALSE /\ U1ADDR = 0 /\ U1IR = {} /\ SUSPND = FALSE /\ ACTVIE = FALSE
  /\ outCurrent = 0 /\ outNext = 0 /\ inNext = 0
  /\ controlTransferState = "WAIT_SETUP" /\ shortPacketStatus = "NOT_USED"
  /\ BothEP0OutUOWNsSet = FALSE
  /\ inPipe = NothingToSend
  /\ SetupPkt \in Requests
  /\ CtrlTrfData = NoBytes
  /\ USBDeviceState = "DETACHED"
  /\ USBActiveConfiguration = 0 /\ USBAlternateInterface = 0 /\ RemoteWakeup = FALSE
=============================================================================
