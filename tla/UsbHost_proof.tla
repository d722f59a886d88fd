--------------------------- MODULE UsbHost_proof ---------------------------
(* Types, wake-up, the readiness for a SETUP packet, and what host and device know of each  *)
(* other in a transfer: for every set of requests and every number of disturbances.         *)
EXTENDS UsbHost, TLAPS

----------------------------------------------------------------------------
(* Types.                                                                   *)

LEMMA PacketFields ==
  ASSUME NEW r \in SetupPackets
  PROVE  r.value \in 0 .. 255 /\ r.length \in Words
BY DEF SetupPackets

LEMMA LengthType ==
  ASSUME NEW w, w \in Words
  PROVE  w \in Nat
BY DEF Words

LEMMA RequestFields ==
  ASSUME NEW r \in Requests
  PROVE  r.value \in Values /\ r.value \in 0 .. 255 /\ r.length \in Nat
<1>1. r.value \in Values
  BY DEF Values
<1>2. r \in SetupPackets
  BY DeviceAssumption
<1>3. r.value \in 0 .. 255 /\ r.length \in Words
  BY <1>2, PacketFields
<1>4. r.length \in Nat
  BY <1>3, LengthType
<1> QED BY <1>1, <1>3, <1>4

LEMMA EmptySource == <<"none", 0>> \in Sources
BY DEF Sources

LEMMA SetupType ==
  ASSUME UsbTypeOK
  PROVE  SetupPkt \in Requests /\ SetupPkt.value \in Values /\ SetupPkt.length \in Nat
BY RequestFields DEF UsbTypeOK

LEMMA PipeType ==
  ASSUME NEW p \in Pipes
  PROVE  AfterPacket(p) \in Pipes /\ Smaller(EP0_SIZE, p.wCount) \in 0 .. EP0_SIZE
<1>1. p.wCount \in Nat /\ p.pos \in Nat
  BY DEF Pipes
<1>2. Smaller(EP0_SIZE, p.wCount) \in Nat /\ Smaller(EP0_SIZE, p.wCount) <= p.wCount
      /\ Smaller(EP0_SIZE, p.wCount) <= EP0_SIZE
  BY <1>1, DeviceAssumption DEF Smaller
<1>3. Smaller(EP0_SIZE, p.wCount) \in 0 .. EP0_SIZE
  BY <1>2, DeviceAssumption
<1> DEFINE n == Smaller(EP0_SIZE, p.wCount)
<1>4. AfterPacket(p) = [p EXCEPT !.pos = @ + n, !.wCount = @ - n]
  BY DEF AfterPacket
<1> HIDE DEF n
<1>5. n \in Nat /\ n <= p.wCount
  BY <1>2 DEF n
<1>6. p.pos + n \in Nat /\ p.wCount - n \in Nat
  BY <1>1, <1>5
<1> QED BY <1>3, <1>4, <1>6 DEF Pipes

LEMMA NothingType == NothingToSend \in Pipes /\ NoBytes \in Sources \X Nat
BY EmptySource DEF NothingToSend, NoBytes, Pipes

LEMMA ClearedType ==
  ClearedOut \in [Entries -> OutEntries] /\ ClearedIn \in [Entries -> InEntries]
BY DeviceAssumption DEF ClearedOut, ClearedIn, StallEntry, OutEntries, InEntries, Owners

\* What a stage may leave behind.
StageTypes ==
  /\ out \in [Entries -> OutEntries] /\ in \in [Entries -> InEntries]
  /\ controlTransferState \in {"WAIT_SETUP", "CTRL_TRF_TX", "CTRL_TRF_RX"}
  /\ shortPacketStatus \in {"NOT_USED", "PENDING", "SENT"}
  /\ BothEP0OutUOWNsSet \in BOOLEAN
  /\ inPipe \in Pipes
  /\ CtrlTrfData \in Sources \X Nat

LEMMA EntryTypes ==
  /\ StallEntry \in OutEntries /\ StatusEntry \in OutEntries
  /\ \A dts \in {0, 1}, cnt \in 0 .. EP0_SIZE : InPacket(dts, cnt) \in InEntries
  /\ \A e \in Entries : Other(e) \in Entries
BY DEF StallEntry, StatusEntry, InPacket, OutEntries, InEntries, Owners, Entries, Other

LEMMA UnclaimedType ==
  ASSUME UsbTypeOK, NEW e \in Entries, Unclaimed(e)
  PROVE  StageTypes'
<1>1. [ReclaimedIn EXCEPT ![inNext].own = "stall"] \in [Entries -> InEntries]
  <2>1. inNext \in Entries /\ ClearedIn[inNext] \in InEntries
    BY ClearedType DEF UsbTypeOK
  <2>2. [ClearedIn[inNext] EXCEPT !.own = "stall"] \in InEntries
    BY <2>1 DEF InEntries, Owners
  <2>3. [ClearedIn EXCEPT ![inNext] = [ClearedIn[inNext] EXCEPT !.own = "stall"]]
          \in [Entries -> InEntries]
    BY <2>1, <2>2, ClearedType
  <2>4. [ReclaimedIn EXCEPT ![inNext].own = "stall"]
          = [ClearedIn EXCEPT ![inNext] = [ClearedIn[inNext] EXCEPT !.own = "stall"]]
    BY DEF ReclaimedIn
  <2> QED BY <2>3, <2>4
<1> QED BY <1>1, EntryTypes, NothingType DEF Unclaimed, StageTypes, UsbTypeOK

LEMMA NoDataType ==
  ASSUME NEW entriesOut \in [Entries -> OutEntries], NEW entriesIn \in [Entries -> InEntries],
         NEW nextOut \in Entries, NEW nextIn \in Entries,
         NoDataStage(entriesOut, entriesIn, nextOut, nextIn)
  PROVE  StageTypes'
<1>1. InPacket(1, 0) \in InEntries
  BY EntryTypes, DeviceAssumption
<1>2. in' \in [Entries -> InEntries] /\ out' \in [Entries -> OutEntries]
  BY <1>1, EntryTypes DEF NoDataStage
<1> QED BY <1>2, NothingType DEF NoDataStage, StageTypes

LEMMA ControlReadType ==
  ASSUME UsbTypeOK, NEW e \in Entries, NEW source \in Sources, NEW size \in Nat,
         ControlRead(e, source, size)
  PROVE  StageTypes'
<1> DEFINE pipe == [source |-> source, pos |-> 0, wCount |-> Smaller(SetupPkt.length, size)]
<1>1. pipe \in Pipes
  BY SetupType DEF Pipes, Smaller
<1>2. /\ in' = [ReclaimedIn EXCEPT ![inNext] = InPacket(1, Smaller(EP0_SIZE, pipe.wCount))]
      /\ CtrlTrfData' = <<source, 0>>
      /\ inPipe' = AfterPacket(pipe)
      /\ shortPacketStatus' = NextShortPacket("NOT_USED", pipe.wCount)
      /\ controlTransferState' = "CTRL_TRF_TX"
      /\ out' = [out EXCEPT ![e] = StallEntry, ![Other(e)] = StatusEntry]
      /\ BothEP0OutUOWNsSet' = TRUE
  BY DEF ControlRead
<1> HIDE DEF pipe
<1>3. InPacket(1, Smaller(EP0_SIZE, pipe.wCount)) \in InEntries /\ AfterPacket(pipe) \in Pipes
  BY <1>1, PipeType, EntryTypes
<1>4. in' \in [Entries -> InEntries]
  BY <1>2, <1>3, ClearedType DEF ReclaimedIn
<1>5. out' \in [Entries -> OutEntries]
  BY <1>2, EntryTypes DEF UsbTypeOK
<1>6. shortPacketStatus' \in {"NOT_USED", "PENDING", "SENT"}
  BY <1>2 DEF NextShortPacket
<1> QED BY <1>2, <1>3, <1>4, <1>5, <1>6 DEF StageTypes

LEMMA ClaimedType ==
  ASSUME UsbTypeOK, NEW e \in Entries, NEW source \in Sources, NEW size \in Nat,
         Claimed(e, source, size)
  PROVE  StageTypes'
<1>1. CASE SetupPkt.in
  BY <1>1, ControlReadType DEF Claimed
<1>2. CASE ~SetupPkt.in
  BY <1>2, NoDataType, EntryTypes, ClearedType DEF Claimed, ReclaimedIn, UsbTypeOK
<1> QED BY <1>1, <1>2

\* A descriptor is a source, and has a length.
LEMMA DescriptorLength ==
  ASSUME NEW key \in DescriptorKeys
  PROVE  key \in Sources /\ BytesSent(key) \in Nat
<1>1. key \in Sources
  BY DEF Sources
<1>2. CASE key = <<"DEVICE", 0>>
  <2>1. key[1] = "DEVICE" /\ Descriptor(key) = device_dsc
    BY <1>2 DEF Descriptor
  <2>2. device_dsc[1].bLength = 18
    BY DEF device_dsc
  <2> QED BY <1>1, <2>1, <2>2 DEF BytesSent
<1>3. CASE key \in {"CONFIGURATION"} \X DOMAIN USB_CD_Ptr
  <2>1. key[1] = "CONFIGURATION" /\ key[2] = 0
    BY <1>3 DEF USB_CD_Ptr
  <2>2. Descriptor(key) = configDescriptor1
    BY <2>1 DEF Descriptor, USB_CD_Ptr
  <2>3. configDescriptor1[1].wTotalLength = 32
    BY DEF configDescriptor1
  <2>4. BytesSent(key) = Descriptor(key)[1].wTotalLength
    BY <2>1 DEF BytesSent
  <2> QED BY <1>1, <2>2, <2>3, <2>4
<1>4. CASE key \in {"STRING"} \X DOMAIN USB_SD_Ptr
  <2>1. key[1] = "STRING" /\ key[2] \in 0 .. 3
    BY <1>4 DEF USB_SD_Ptr
  <2>2. PICK n \in Nat : Descriptor(key) = StringDescriptor(n)
    BY <2>1 DEF Descriptor, USB_SD_Ptr
  <2>3. StringDescriptor(n)[1].bLength = 2 + 2 * n
    BY DEF StringDescriptor
  <2>4. BytesSent(key) = Descriptor(key)[1].bLength
    BY <2>1 DEF BytesSent
  <2> QED BY <1>1, <2>2, <2>3, <2>4
<1> QED BY <1>1, <1>2, <1>3, <1>4 DEF DescriptorKeys

StateTypes ==
  /\ USBDeviceState \in BeforeDefault \cup {"DEFAULT", "ADR_PENDING", "ADDRESS", "CONFIGURED"}
  /\ USBActiveConfiguration \in Values /\ USBAlternateInterface \in Values
  /\ RemoteWakeup \in BOOLEAN

LEMMA ServedType ==
  ASSUME UsbTypeOK, fifo # <<>>
  PROVE  Tail(fifo) \in Seq(Transactions)
BY DEF UsbTypeOK

\* A SETUP packet that leaves the entries where they are.
LEMMA HandledTypes ==
  ASSUME UsbTypeOK, NEW e \in Entries, NEW ops, ServingSetup(e, ops), SetupHandled(e),
         SamePointers(e), StageTypes', StateTypes'
  PROVE  UsbTypeOK'
<1>1. fifo' \in Seq(Transactions)
  BY ServedType DEF ServingSetup, Serving, SetupHandled, Served
<1> QED BY <1>1, EntryTypes DEF UsbTypeOK, StageTypes, StateTypes, SetupHandled, SamePointers, Served

LEMMA SameStateTypes == UsbTypeOK /\ UNCHANGED stateVars => StateTypes'
BY DEF UsbTypeOK, StateTypes, stateVars

LEMMA SetupHandlerTypes == UsbTypeOK /\ USBCtrlTrfSetupHandler => UsbTypeOK'
<1> SUFFICES ASSUME UsbTypeOK, NEW e \in Entries,
                    \/ SetAddress(e) \/ GetDescriptor(e) \/ SetConfiguration(e)
                    \/ GetConfiguration(e) \/ GetStatus(e) \/ Feature(e) \/ GetInterface(e)
                    \/ SetInterface(e) \/ MassStorageRequest(e) \/ UnknownRequest(e)
             PROVE  UsbTypeOK'
  BY DEF USBCtrlTrfSetupHandler
<1>0. <<"none", 0>> \in Sources /\ SetupPkt.value \in Values
  BY EmptySource, SetupType
<1>1. CASE SetAddress(e)
  <2>1. StageTypes'
    BY <1>0, <1>1, ClaimedType DEF SetAddress, Acknowledged
  <2>2. StateTypes'
    BY <1>1 DEF SetAddress, StateTypes, UsbTypeOK
  <2> QED BY <1>1, <2>1, <2>2, HandledTypes DEF SetAddress
<1>2. CASE GetDescriptor(e)
  <2>1. StageTypes'
    BY <1>2, ControlReadType, UnclaimedType, DescriptorLength DEF GetDescriptor
  <2> QED BY <1>2, <2>1, SameStateTypes, HandledTypes DEF GetDescriptor
<1>3. CASE SetConfiguration(e)
  <2>1. [ClearedOut EXCEPT ![0].own = "cpu"] \in [Entries -> OutEntries]
    <3>1. 0 \in Entries /\ ClearedOut[0] \in OutEntries
      BY ClearedType DEF Entries
    <3>2. [ClearedOut[0] EXCEPT !.own = "cpu"] \in OutEntries
      BY <3>1 DEF OutEntries, Owners
    <3>3. [ClearedOut EXCEPT ![0] = [ClearedOut[0] EXCEPT !.own = "cpu"]] \in [Entries -> OutEntries]
      BY <3>1, <3>2, ClearedType
    <3> QED BY <3>3
  <2>2. 0 \in Entries /\ NoDataStage([ClearedOut EXCEPT ![0].own = "cpu"], ClearedIn, 0, 0)
    BY <1>3 DEF SetConfiguration, Entries
  <2>3. StageTypes'
    BY <2>1, <2>2, ClearedType, NoDataType
  <2>4. StateTypes'
    <3>1. 0 \in Values
      BY DEF Values
    <3> QED BY <1>0, <1>3, <3>1 DEF SetConfiguration, StateTypes, UsbTypeOK
  <2>5. fifo' \in Seq(Transactions)
    BY <1>3, ServedType DEF SetConfiguration, ServingSetup, Serving, Served
  <2>6. active' \in [Directions -> Entries]
    BY <1>3 DEF SetConfiguration, Entries
  <2>7. outCurrent' \in Entries /\ outNext' \in Entries /\ inNext' \in Entries
    BY <1>3, <2>2 DEF SetConfiguration
  <2> QED BY <1>3, <2>3, <2>4, <2>5, <2>6, <2>7
          DEF SetConfiguration, Served, UsbTypeOK, StageTypes, StateTypes
<1>4. CASE GetConfiguration(e)
  <2>1. <<"CONFIGURATION", USBActiveConfiguration>> \in Sources
    BY DEF Sources, UsbTypeOK
  <2>2. StageTypes'
    BY <1>4, <2>1, ClaimedType DEF GetConfiguration
  <2> QED BY <1>4, <2>2, SameStateTypes, HandledTypes DEF GetConfiguration
<1>5. CASE GetStatus(e)
  <2>1. \A bits \in StatusBits : <<"STATUS", bits>> \in Sources
    <3>1. StatusBits \subseteq 0 .. 3
      BY DEF StatusBits
    <3> QED BY <3>1 DEF Sources
  <2>2. PICK bits \in StatusBits : Claimed(e, <<"STATUS", bits>>, 2)
    BY <1>5 DEF GetStatus
  <2>3. StageTypes'
    BY <2>1, <2>2, ClaimedType
  <2> QED BY <1>5, <2>3, SameStateTypes, HandledTypes DEF GetStatus
<1>6. CASE Feature(e)
  <2>1. StageTypes'
    BY <1>0, <1>6, ClaimedType, UnclaimedType DEF Feature, Acknowledged
  <2>2. StateTypes'
    BY <1>6 DEF Feature, StateTypes, UsbTypeOK
  <2> QED BY <1>6, <2>1, <2>2, HandledTypes DEF Feature
<1>7. CASE GetInterface(e)
  <2>1. <<"INTERFACE", USBAlternateInterface>> \in Sources
    BY DEF Sources, UsbTypeOK
  <2>2. StageTypes'
    BY <1>7, <2>1, ClaimedType DEF GetInterface
  <2> QED BY <1>7, <2>2, SameStateTypes, HandledTypes DEF GetInterface
<1>8. CASE SetInterface(e)
  <2>1. StageTypes'
    BY <1>0, <1>8, ClaimedType DEF SetInterface, Acknowledged
  <2>2. StateTypes'
    BY <1>0, <1>8 DEF SetInterface, StateTypes, UsbTypeOK
  <2> QED BY <1>8, <2>1, <2>2, HandledTypes DEF SetInterface
<1>9. CASE MassStorageRequest(e)
  <2>1. <<"MAX_LUN", 0>> \in Sources
    BY DEF Sources
  <2>2. StageTypes'
    BY <1>0, <1>9, <2>1, ClaimedType, UnclaimedType DEF MassStorageRequest, Acknowledged
  <2> QED BY <1>9, <2>2, SameStateTypes, HandledTypes DEF MassStorageRequest
<1>10. CASE UnknownRequest(e)
  <2>1. StageTypes'
    BY <1>10, UnclaimedType DEF UnknownRequest
  <2> QED BY <1>10, <2>1, SameStateTypes, HandledTypes DEF UnknownRequest
<1> QED BY <1>1, <1>2, <1>3, <1>4, <1>5, <1>6, <1>7, <1>8, <1>9, <1>10

LEMMA TakeAddressTypes ==
  ASSUME UsbTypeOK, TakeAddress
  PROVE  /\ U1ADDR' \in 0 .. 127
         /\ USBDeviceState' \in BeforeDefault \cup {"DEFAULT", "ADR_PENDING", "ADDRESS", "CONFIGURED"}
<1>1. SetupPkt.value \in 0 .. 255
  BY SetupType, RequestFields
<1>2. SetupPkt.value % 128 \in 0 .. 127
  BY <1>1
<1> QED BY <1>2 DEF TakeAddress, UsbTypeOK

LEMMA DeviceTypes == UsbTypeOK /\ USBDeviceTasks => UsbTypeOK'
<1> SUFFICES ASSUME UsbTypeOK, USBDeviceTasks PROVE UsbTypeOK'
  OBVIOUS
<1>1. CASE Attach
  <2>1. U1IR' \subseteq {"URSTIF", "IDLEIF", "ACTVIF", "STALLIF"} /\ task' = "reset"
    BY <1>1 DEF Attach, UsbTypeOK
  <2>2. USBDeviceState' \in BeforeDefault
    BY <1>1 DEF Attach, BeforeDefault
  <2> QED BY <1>1, <2>1, <2>2 DEF Attach, UsbTypeOK, pointers, stageVars
<1>8. CASE USBWakeFromSuspend
  BY <1>8 DEF USBWakeFromSuspend, UsbTypeOK, pointers, stageVars, stateVars
<1>9. CASE StayAwake
  BY <1>9 DEF StayAwake, UsbTypeOK, sieVars, pointers, stageVars, stateVars
<1>12. CASE NoReset
  BY <1>12 DEF NoReset, UsbTypeOK, sieVars, pointers, stageVars, stateVars
<1>10. CASE USBSuspend
  BY <1>10 DEF USBSuspend, UsbTypeOK, pointers, stageVars, stateVars
<1>11. CASE EndCall
  BY <1>11 DEF EndCall, UsbTypeOK, sieVars, pointers, stageVars, stateVars
<1>2. CASE USBDeviceInit
  <2>1. /\ out' \in [Entries -> OutEntries] /\ in' \in [Entries -> InEntries]
        /\ active' \in [Directions -> Entries] /\ fifo' \in Seq(Transactions)
        /\ U1ADDR' \in 0 .. 127 /\ USBActiveConfiguration' \in Values /\ inNext' \in Entries
    BY <1>2, ClearedType DEF USBDeviceInit, Values, Entries
  <2> QED BY <1>2, <2>1 DEF USBDeviceInit, UsbTypeOK, stageVars
<1>3. CASE USBStallHandler
  <2>1. out' \in [Entries -> OutEntries]
    BY <1>3, EntryTypes DEF USBStallHandler, UsbTypeOK
  <2> QED BY <1>3, <2>1 DEF USBStallHandler, UsbTypeOK, pointers, stageVars, stateVars
<1>4. CASE USBCtrlTrfSetupHandler
  BY <1>4, SetupHandlerTypes
<1>5. CASE USBCtrlTrfOutHandler
  <2> PICK e \in Entries :
        /\ Serving("out", e) /\ Served
        /\ outCurrent' = e /\ outNext' = Other(e)
        /\ controlTransferState' = "WAIT_SETUP"
        /\ out' = IF BothEP0OutUOWNsSet THEN out ELSE [out EXCEPT ![Other(e)] = StallEntry]
        /\ BothEP0OutUOWNsSet' = FALSE
        /\ UNCHANGED <<in, PKTDIS, sieVars, inNext, shortPacketStatus, inPipe, SetupPkt,
                       CtrlTrfData, stateVars>>
    BY <1>5 DEF USBCtrlTrfOutHandler
  <2>1. out' \in [Entries -> OutEntries] /\ outNext' \in Entries
    BY EntryTypes DEF UsbTypeOK
  <2>2. fifo' \in Seq(Transactions) /\ task' = "more"
    BY ServedType DEF Serving, Served
  <2> QED BY <2>1, <2>2 DEF UsbTypeOK, sieVars, stateVars
<1>6. CASE NextInPacket
  <2> PICK e \in Entries :
        /\ Serving("in", e) /\ Served /\ inNext' = Other(inNext)
        /\ TakeAddress
        /\ CtrlTrfData' = <<inPipe.source, inPipe.pos>>
        /\ inPipe' = AfterPacket(inPipe)
        /\ shortPacketStatus' = NextShortPacket(shortPacketStatus, inPipe.wCount)
        /\ in' = [in EXCEPT ![Other(inNext)] =
                    IF shortPacketStatus' = "SENT" THEN [@ EXCEPT !.own = "stall", !.cnt = 0]
                    ELSE InPacket(1 - in[inNext].dts, Smaller(EP0_SIZE, inPipe.wCount))]
        /\ UNCHANGED <<inFrame, controlTransferState>>
    BY <1>6 DEF NextInPacket
  <2>1. inNext \in Entries /\ Other(inNext) \in Entries /\ inPipe \in Pipes
    BY EntryTypes DEF UsbTypeOK
  <2>2. AfterPacket(inPipe) \in Pipes /\ Smaller(EP0_SIZE, inPipe.wCount) \in 0 .. EP0_SIZE
    BY <2>1, PipeType
  <2>3. CtrlTrfData' \in Sources \X Nat
    BY <2>1 DEF Pipes
  <2>4. 1 - in[inNext].dts \in {0, 1}
    <3>1. in[inNext] \in InEntries
      BY <2>1 DEF UsbTypeOK
    <3>2. in[inNext].dts \in {0, 1}
      BY <3>1 DEF InEntries
    <3> QED BY <3>2
  <2>5. InPacket(1 - in[inNext].dts, Smaller(EP0_SIZE, inPipe.wCount)) \in InEntries
    BY <2>2, <2>4, EntryTypes
  <2>6. [in[Other(inNext)] EXCEPT !.own = "stall", !.cnt = 0] \in InEntries
    <3>1. in[Other(inNext)] \in InEntries /\ 0 \in 0 .. EP0_SIZE
      BY <2>1, DeviceAssumption DEF UsbTypeOK
    <3> QED BY <3>1 DEF InEntries, Owners
  <2>7. in' \in [Entries -> InEntries]
    BY <2>1, <2>5, <2>6 DEF UsbTypeOK
  <2>8. fifo' \in Seq(Transactions) /\ task' = "more"
    BY ServedType DEF Serving, Served
  <2>9. shortPacketStatus' \in {"NOT_USED", "PENDING", "SENT"}
    BY DEF NextShortPacket, UsbTypeOK
  <2> QED BY <2>1, <2>2, <2>3, <2>7, <2>8, <2>9, TakeAddressTypes DEF UsbTypeOK, inFrame
<1>7. CASE StatusInDone
  <2> PICK e \in Entries :
        /\ Serving("in", e) /\ Served /\ inNext' = Other(inNext)
        /\ TakeAddress
        /\ controlTransferState' = "WAIT_SETUP"
        /\ UNCHANGED <<inFrame, in, CtrlTrfData, inPipe, shortPacketStatus>>
    BY <1>7 DEF StatusInDone
  <2>1. inNext' \in Entries
    BY EntryTypes DEF UsbTypeOK
  <2>2. fifo' \in Seq(Transactions) /\ task' = "more"
    BY ServedType DEF Serving, Served
  <2> QED BY <2>1, <2>2, TakeAddressTypes DEF UsbTypeOK, inFrame
<1> QED
  BY <1>1, <1>2, <1>3, <1>4, <1>5, <1>6, <1>7, <1>8, <1>9, <1>10, <1>11, <1>12
  DEF USBDeviceTasks

LEMMA FifoType ==
  ASSUME UsbTypeOK, NEW d \in Directions, NEW e \in Entries
  PROVE  Append(fifo, <<d, e>>) \in Seq(Transactions)
BY DEF UsbTypeOK, Transactions

LEMMA ActiveType ==
  ASSUME UsbTypeOK, NEW d \in Directions
  PROVE  active[d] \in Entries /\ [active EXCEPT ![d] = Other(active[d])] \in [Directions -> Entries]
BY EntryTypes DEF UsbTypeOK

LEMMA SieSetupTypes ==
  ASSUME UsbTypeOK, NEW address, NEW r \in Requests, SieSetup(address, r)
  PROVE  UsbTypeOK'
<1> DEFINE e == active["out"]
<1>0. "out" \in Directions
  BY DEF Directions
<1>1. e \in Entries
  BY <1>0, ActiveType
<1>2. out' \in [Entries -> OutEntries]
  <2>1. [own |-> "cpu", pid |-> "SETUP"] \in OutEntries
    BY DEF OutEntries, Owners
  <2> QED BY <1>1, <2>1 DEF SieSetup, UsbTypeOK
<1>3. active' \in [Directions -> Entries]
  BY <1>0, ActiveType DEF SieSetup
<1>4. fifo' \in Seq(Transactions)
  BY <1>0, <1>1, FifoType DEF SieSetup
<1> QED BY <1>2, <1>3, <1>4 DEF SieSetup, UsbTypeOK, pointers, stageVars, stateVars

LEMMA SieOutTypes ==
  ASSUME UsbTypeOK, NEW address, SieOut(address)
  PROVE  UsbTypeOK'
<1> DEFINE e == active["out"]
<1>0. "out" \in Directions
  BY DEF Directions
<1>1. e \in Entries
  BY <1>0, ActiveType
<1>2. out' \in [Entries -> OutEntries]
  <2>1. out[e] \in OutEntries
    BY <1>1 DEF UsbTypeOK
  <2>2. [out[e] EXCEPT !.own = "cpu"] \in OutEntries
    BY <2>1 DEF OutEntries, Owners
  <2> QED BY <1>1, <2>2 DEF SieOut, UsbTypeOK
<1>3. active' \in [Directions -> Entries]
  BY <1>0, ActiveType DEF SieOut
<1>4. fifo' \in Seq(Transactions)
  BY <1>0, <1>1, FifoType DEF SieOut
<1> QED BY <1>2, <1>3, <1>4 DEF SieOut, UsbTypeOK, pointers, stageVars, stateVars

LEMMA SieInTypes ==
  ASSUME UsbTypeOK, NEW address, SieIn(address)
  PROVE  UsbTypeOK'
<1> DEFINE e == active["in"]
<1>0. "in" \in Directions
  BY DEF Directions
<1>1. e \in Entries
  BY <1>0, ActiveType
<1>2. in' \in [Entries -> InEntries]
  <2>1. in[e] \in InEntries
    BY <1>1 DEF UsbTypeOK
  <2>2. [in[e] EXCEPT !.own = "cpu"] \in InEntries
    BY <2>1 DEF InEntries, Owners
  <2> QED BY <1>1, <2>2 DEF SieIn, UsbTypeOK
<1>3. active' \in [Directions -> Entries]
  BY <1>0, ActiveType DEF SieIn
<1>4. fifo' \in Seq(Transactions)
  BY <1>0, <1>1, FifoType DEF SieIn
<1> QED BY <1>2, <1>3, <1>4 DEF SieIn, UsbTypeOK, pointers, stageVars, stateVars

LEMMA SameUsbTypes == UsbTypeOK /\ UNCHANGED usbVars => UsbTypeOK'
BY DEF UsbTypeOK, usbVars, sieVars, pointers, stageVars, stateVars

LEMMA SieFlagTypes ==
  ASSUME UsbTypeOK,
         \/ \E address, own : SieStall(address, own)
         \/ \E flags \in SUBSET {"URSTIF", "IDLEIF", "ACTVIF", "STALLIF"}, address \in 0 .. 127 :
               SieFlags(flags, address)
  PROVE  UsbTypeOK'
<1>1. CASE \E address, own : SieStall(address, own)
  BY <1>1 DEF SieStall, UsbTypeOK, pointers, stageVars, stateVars
<1>2. ASSUME NEW flags \in SUBSET {"URSTIF", "IDLEIF", "ACTVIF", "STALLIF"},
             NEW address \in 0 .. 127, SieFlags(flags, address)
      PROVE  UsbTypeOK'
  BY <1>2 DEF SieFlags, UsbTypeOK, pointers, stageVars, stateVars
<1> QED BY <1>1, <1>2

----------------------------------------------------------------------------
(* Types of the host's side.                                                *)

HostTypes ==
  /\ phase \in {"attach", "recovery", "idle", "setup", "data", "status"}
  /\ req \in Requests
  /\ toggle \in {0, 1} /\ got \in Nat
  /\ intact \in BOOLEAN /\ addressing \in BOOLEAN /\ excused \in BOOLEAN
  /\ known \in KnownType
  /\ busActive \in BOOLEAN
  /\ disturbances \in 0 .. MaxDisturbances /\ suspends \in 0 .. MaxSuspends

LEMMA TypeParts ==
  /\ TypeOK <=> UsbTypeOK /\ HostTypes
  /\ UsbTypeOK' /\ HostTypes' => TypeOK'
BY DEF TypeOK, HostTypes

LEMMA DisturbType ==
  ASSUME HostTypes, Disturb \/ UNCHANGED disturbances
  PROVE  disturbances' \in 0 .. MaxDisturbances
BY HostAssumption DEF HostTypes, Disturb

LEMMA FreshType == Fresh \in KnownType
BY DEF Fresh, KnownType, Values

LEMMA LearnedType ==
  ASSUME known \in KnownType, NEW r \in Requests
  PROVE  Learned(r) \in KnownType
<1>1. r.value \in Values /\ 0 \in Values
  BY RequestFields DEF Values
<1>2. [known EXCEPT !.address = r.value] \in KnownType
  BY <1>1 DEF KnownType
<1>3. [known EXCEPT !.configuration = r.value, !.alternate = 0] \in KnownType
  BY <1>1 DEF KnownType
<1>4. [known EXCEPT !.alternate = r.value] \in KnownType
  BY <1>1 DEF KnownType
<1>5. [known EXCEPT !.wakeup = IF r.op = "SET_FEATURE" THEN 1 ELSE 0] \in KnownType
  BY DEF KnownType
<1> QED BY <1>2, <1>3, <1>4, <1>5 DEF Learned

LEMMA DoubtedType ==
  ASSUME known \in KnownType, NEW r
  PROVE  Doubted(r) \in KnownType
<1>1. [known EXCEPT !.configuration = Unknown, !.alternate = Unknown] \in KnownType
  BY DEF KnownType
<1>2. [known EXCEPT !.alternate = Unknown] \in KnownType
  BY DEF KnownType
<1>3. [known EXCEPT !.wakeup = Unknown] \in KnownType
  BY DEF KnownType
<1> QED BY <1>1, <1>2, <1>3 DEF Doubted

LEMMA SendSetupTypes ==
  ASSUME TypeOK, NEW r \in Requests, SendSetup(r)
  PROVE  TypeOK'
<1>1. UsbTypeOK'
  BY SieSetupTypes, TypeParts DEF SendSetup
<1>2. known' \in KnownType
  BY DoubtedType DEF TypeOK, SendSetup
<1>3. disturbances' \in 0 .. MaxDisturbances
  BY DisturbType, TypeParts DEF SendSetup
<1>4. phase' \in {"setup", "data", "status"}
  BY DEF SendSetup, FirstStage
<1>5. HostTypes'
  BY <1>2, <1>3, <1>4 DEF HostTypes, TypeOK, SendSetup
<1> QED BY <1>1, <1>5, TypeParts

LEMMA HostDataTypes == TypeOK /\ HostData => TypeOK'
<1> SUFFICES ASSUME TypeOK, HostData PROVE TypeOK'
  OBVIOUS
<1>1. UsbTypeOK'
  BY SieInTypes, SameUsbTypes, TypeParts DEF HostData, SieInUnacknowledged
<1>2. disturbances' \in 0 .. MaxDisturbances
  BY DisturbType, TypeParts DEF HostData
<1> DEFINE packet == in[active["in"]]
<1>3. packet.cnt \in Nat
  <2>1. "in" \in Directions
    BY DEF Directions
  <2>2. packet \in InEntries
    BY <2>1, ActiveType DEF TypeOK, UsbTypeOK
  <2>3. packet.cnt \in 0 .. EP0_SIZE
    BY <2>2 DEF InEntries
  <2> QED BY <2>3, DeviceAssumption
<1>4. DataStep(packet.cnt, packet.dts, CtrlTrfData)
  BY DEF HostData
<1>5. UNCHANGED <<req, known, addressing, excused, busActive, suspends>>
  BY DEF HostData
<1> HIDE DEF packet
<1>6. /\ phase' \in {"attach", "recovery", "idle", "setup", "data", "status"}
      /\ toggle' \in {0, 1} /\ got' \in Nat /\ intact' \in BOOLEAN
  <2>1. CASE packet.dts # toggle
    BY <1>4, <2>1 DEF DataStep, TypeOK
  <2>2. CASE packet.dts = toggle
    BY <1>3, <1>4, <2>2 DEF DataStep, TypeOK
  <2> QED BY <2>1, <2>2
<1>7. HostTypes'
  BY <1>2, <1>5, <1>6 DEF HostTypes, TypeOK
<1> QED BY <1>1, <1>7, TypeParts

LEMMA DoneTypes ==
  ASSUME TypeOK, Done, UsbTypeOK', Disturb \/ UNCHANGED disturbances
  PROVE  TypeOK'
<1>1. disturbances' \in 0 .. MaxDisturbances
  BY DisturbType, TypeParts
<1>2. known' \in KnownType
  BY LearnedType DEF TypeOK, Done
<1>3. HostTypes'
  BY <1>1, <1>2 DEF HostTypes, TypeOK, Done
<1> QED BY <1>3, TypeParts

LEMMA HostStepTypes == TypeOK /\ HostStep => TypeOK'
<1> SUFFICES ASSUME TypeOK, HostStep PROVE TypeOK'
  OBVIOUS
<1>0. UsbTypeOK /\ HostTypes
  BY TypeParts
<1>1. CASE HostSetup
  BY <1>1, SendSetupTypes DEF HostSetup, TypeOK
<1>2. CASE HostData
  BY <1>2, HostDataTypes
<1>3. CASE HostStatusIn
  <2>1. UsbTypeOK'
    BY <1>0, <1>3, SieInTypes, SameUsbTypes DEF HostStatusIn, SieInUnacknowledged
  <2> QED BY <1>3, <2>1, DoneTypes DEF HostStatusIn
<1>4. CASE HostStatusOut
  <2>1. UsbTypeOK'
    BY <1>0, <1>4, SieOutTypes DEF HostStatusOut
  <2>2. CASE Done /\ UNCHANGED disturbances
    BY <2>1, <2>2, DoneTypes
  <2>3. CASE /\ Disturb /\ excused' = TRUE
             /\ UNCHANGED <<phase, req, toggle, got, intact, known, addressing, busActive, suspends>>
    <3>1. disturbances' \in 0 .. MaxDisturbances
      BY <1>0, <2>3, DisturbType
    <3>2. HostTypes'
      BY <1>0, <2>3, <3>1 DEF HostTypes
    <3> QED BY <2>1, <3>2, TypeParts
  <2> QED BY <1>4, <2>2, <2>3 DEF HostStatusOut
<1>5. CASE HostStalled
  <2>1. UsbTypeOK'
    BY <1>0, <1>5, SieFlagTypes DEF HostStalled
  <2>2. HostTypes'
    BY <1>0, <1>5 DEF HostStalled, HostTypes
  <2> QED BY <2>1, <2>2, TypeParts
<1>6. CASE ResetBus
  <2>1. UsbTypeOK'
    <3>1. 0 \in 0 .. 127
      OBVIOUS
    <3>2. {"URSTIF"} \cup (IF busActive THEN {} ELSE {"ACTVIF"})
            \in SUBSET {"URSTIF", "IDLEIF", "ACTVIF", "STALLIF"}
      OBVIOUS
    <3>3. SieFlags({"URSTIF"} \cup (IF busActive THEN {} ELSE {"ACTVIF"}), 0)
      BY <1>6 DEF ResetBus
    <3> QED BY <1>0, <3>1, <3>2, <3>3, SieFlagTypes
  <2>2. disturbances' \in 0 .. MaxDisturbances
    BY <1>0, <1>6, DisturbType DEF ResetBus
  <2>3. HostTypes'
    BY <1>0, <1>6, <2>2, FreshType DEF ResetBus, HostTypes
  <2> QED BY <2>1, <2>3, TypeParts
<1>7. CASE HostRecovered
  BY <1>0, <1>7, SameUsbTypes, TypeParts DEF HostRecovered, HostTypes
<1>8. CASE ResumeBus
  <2>1. UsbTypeOK'
    BY <1>0, <1>8, SieFlagTypes DEF ResumeBus, UsbTypeOK
  <2>2. HostTypes'
    BY <1>0, <1>8 DEF ResumeBus, HostTypes
  <2> QED BY <2>1, <2>2, TypeParts
<1> QED BY <1>1, <1>2, <1>3, <1>4, <1>5, <1>6, <1>7, <1>8 DEF HostStep

\* Every variable keeps its type.
THEOREM TypeCorrect == Spec => []TypeOK
<1>1. Init => TypeOK
  <2> SUFFICES ASSUME Init PROVE TypeOK
    OBVIOUS
  <2>0. 0 \in Values /\ 0 \in Entries /\ <<>> \in Seq(Transactions)
    BY DEF Values, Entries
  <2>1. UsbTypeOK
    BY <2>0, ClearedType, NothingType DEF Init, UsbInit, UsbTypeOK, BeforeDefault
  <2>2. HostTypes
    <3>1. SetupPkt \in Requests
      BY <2>1, SetupType
    <3>2. 0 \in 0 .. MaxDisturbances /\ 0 \in 0 .. MaxSuspends
      BY HostAssumption
    <3> QED BY <3>1, <3>2, FreshType DEF Init, HostTypes
  <2> QED BY <2>1, <2>2, TypeParts
<1>2. TypeOK /\ [Next]_vars => TypeOK'
  <2> SUFFICES ASSUME TypeOK, [Next]_vars PROVE TypeOK'
    OBVIOUS
  <2>0. UsbTypeOK /\ HostTypes
    BY TypeParts
  <2>1. CASE DeviceStep
    <3>1. HostTypes'
      BY <2>0, <2>1 DEF DeviceStep, HostTypes
    <3> QED BY <2>0, <2>1, <3>1, DeviceTypes, TypeParts DEF DeviceStep
  <2>2. CASE HostStep
    BY <2>2, HostStepTypes
  <2>3. CASE HostEndsData
    <3>1. disturbances' \in 0 .. MaxDisturbances
      BY <2>0, <2>3, DisturbType DEF HostEndsData
    <3>2. HostTypes'
      BY <2>0, <2>3, <3>1 DEF HostEndsData, HostTypes
    <3>3. UsbTypeOK'
      BY <2>0, <2>3, SameUsbTypes DEF HostEndsData
    <3> QED BY <3>2, <3>3, TypeParts
  <2>4. CASE HostGivesUp
    <3>1. disturbances' \in 0 .. MaxDisturbances
      BY <2>0, <2>4, DisturbType DEF HostGivesUp
    <3>2. HostTypes'
      BY <2>0, <2>4, <3>1 DEF HostGivesUp, HostTypes
    <3>3. UsbTypeOK'
      BY <2>0, <2>4, SameUsbTypes DEF HostGivesUp
    <3> QED BY <3>2, <3>3, TypeParts
  <2>5. CASE SuspendBus
    <3>1. UsbTypeOK'
      BY <2>0, <2>5, SieFlagTypes DEF SuspendBus, UsbTypeOK
    <3>2. suspends' \in 0 .. MaxSuspends
      BY <2>0, <2>5, HostAssumption DEF SuspendBus, HostTypes
    <3>3. HostTypes'
      BY <2>0, <2>5, <3>2 DEF SuspendBus, HostTypes
    <3> QED BY <3>1, <3>3, TypeParts
  <2>6. CASE UNCHANGED vars
    <3>1. UNCHANGED usbVars /\ UNCHANGED hostVars
      BY <2>6 DEF vars
    <3> QED BY <2>0, <3>1, SameUsbTypes, TypeParts DEF HostTypes, hostVars
  <2> QED BY <2>1, <2>2, <2>3, <2>4, <2>5, <2>6 DEF Next
<1> QED BY <1>1, <1>2, PTL DEF Spec

----------------------------------------------------------------------------
(* The wake-up call.                                                        *)

\* The SIE sleeps exactly while the wake-up is unmasked, and never in the part of USBDeviceTasks
\* that throws flags away; a bus that is awake after a suspend, served or not, has left its call;
\* a drive that is not attached is not suspended.
Wakeable ==
  /\ SUSPND = ACTVIE
  /\ busActive /\ (SUSPND \/ "IDLEIF" \in U1IR) => "ACTVIF" \in U1IR
  /\ SUSPND => "IDLEIF" \notin U1IR
  /\ task = "reset" => ~SUSPND
  /\ SUSPND \/ "IDLEIF" \in U1IR \/ phase # "attach" =>
       USBDeviceState \notin {"DETACHED", "ATTACHED"}

\* Past the first steps of a call the state is one that a drive on the bus has.
LEMMA StateKept ==
  ASSUME TypeOK, USBCtrlTrfSetupHandler \/ USBCtrlTrfOutHandler \/ NextInPacket \/ StatusInDone
  PROVE  /\ task' \in {"more"}
         /\ UNCHANGED <<SUSPND, ACTVIE, U1IR>>
         /\ \/ UNCHANGED USBDeviceState
            \/ USBDeviceState' \in {"DEFAULT", "ADR_PENDING", "ADDRESS", "CONFIGURED"}
<1>1. CASE USBCtrlTrfSetupHandler
  <2> PICK e \in Entries :
        \/ SetAddress(e) \/ GetDescriptor(e) \/ SetConfiguration(e) \/ GetConfiguration(e)
        \/ GetStatus(e)  \/ Feature(e)       \/ GetInterface(e)     \/ SetInterface(e)
        \/ MassStorageRequest(e) \/ UnknownRequest(e)
    BY <1>1 DEF USBCtrlTrfSetupHandler
  <2>1. task' = "more" /\ UNCHANGED <<SUSPND, ACTVIE, U1IR>>
    BY DEF SetAddress, GetDescriptor, SetConfiguration, GetConfiguration, GetStatus, Feature,
           GetInterface, SetInterface, MassStorageRequest, UnknownRequest, SetupHandled, Served
  <2>2. \/ UNCHANGED USBDeviceState
        \/ USBDeviceState' \in {"DEFAULT", "ADR_PENDING", "ADDRESS", "CONFIGURED"}
    BY DEF SetAddress, GetDescriptor, SetConfiguration, GetConfiguration, GetStatus, Feature,
           GetInterface, SetInterface, MassStorageRequest, UnknownRequest, stateVars
  <2> QED BY <2>1, <2>2
<1>2. CASE USBCtrlTrfOutHandler
  BY <1>2 DEF USBCtrlTrfOutHandler, Served, sieVars, stateVars
<1>3. CASE NextInPacket
  BY <1>3 DEF NextInPacket, Served, TakeAddress, inFrame
<1>4. CASE StatusInDone
  BY <1>4 DEF StatusInDone, Served, TakeAddress, inFrame
<1> QED BY <1>1, <1>2, <1>3, <1>4

LEMMA DeviceStepWakes == TypeOK /\ Wakeable /\ DeviceStep => Wakeable'
<1> SUFFICES ASSUME TypeOK, Wakeable, DeviceStep PROVE Wakeable'
  OBVIOUS
<1>0. USBDeviceTasks /\ UNCHANGED <<phase, busActive>>
  BY DEF DeviceStep
<1>1. CASE Attach
  BY <1>0, <1>1 DEF Attach, Wakeable
<1>2. CASE USBWakeFromSuspend
  BY <1>0, <1>2 DEF USBWakeFromSuspend, Wakeable, stateVars
<1>3. CASE StayAwake
  BY <1>0, <1>3 DEF StayAwake, Wakeable, sieVars, stateVars
<1>4. CASE USBDeviceInit
  BY <1>0, <1>4 DEF USBDeviceInit, Wakeable
<1>5. CASE NoReset
  BY <1>0, <1>5 DEF NoReset, Wakeable, sieVars, stateVars
<1>6. CASE USBSuspend
  BY <1>0, <1>6 DEF USBSuspend, Wakeable, stateVars
<1>7. CASE USBStallHandler
  BY <1>0, <1>7 DEF USBStallHandler, Wakeable, stateVars
<1>8. CASE EndCall
  BY <1>0, <1>8 DEF EndCall, Wakeable, sieVars, stateVars
<1>9. CASE USBCtrlTrfSetupHandler \/ USBCtrlTrfOutHandler \/ NextInPacket \/ StatusInDone
  <2>1. task' = "more" /\ UNCHANGED <<SUSPND, ACTVIE, U1IR>>
    BY <1>9, StateKept
  <2>2. USBDeviceState \notin {"DETACHED", "ATTACHED"} =>
          USBDeviceState' \notin {"DETACHED", "ATTACHED"}
    BY <1>9, StateKept
  <2> QED BY <1>0, <2>1, <2>2 DEF Wakeable
<1> QED BY <1>0, <1>1, <1>2, <1>3, <1>4, <1>5, <1>6, <1>7, <1>8, <1>9 DEF USBDeviceTasks

LEMMA HostWakes == TypeOK /\ Wakeable /\ (HostStep \/ SuspendBus) => Wakeable'
<1> SUFFICES ASSUME TypeOK, Wakeable, HostStep \/ SuspendBus PROVE Wakeable'
  OBVIOUS
<1>1. CASE HostSetup
  <2>1. PICK r \in Requests : SendSetup(r)
    BY <1>1 DEF HostSetup, TypeOK
  <2>2. SieSetup(known.address, r) /\ busActive' = busActive
    BY <2>1 DEF SendSetup
  <2>3. phase # "attach"
    BY <1>1 DEF HostSetup
  <2> QED BY <2>2, <2>3 DEF SieSetup, Wakeable, stateVars
<1>2. CASE HostData
  <2>1. phase # "attach" /\ busActive' = busActive
    BY <1>2 DEF HostData
  <2>2. UNCHANGED <<SUSPND, ACTVIE, U1IR, USBDeviceState, task>>
    BY <1>2 DEF HostData, SieIn, SieInUnacknowledged, usbVars, sieVars, stateVars
  <2> QED BY <2>1, <2>2 DEF Wakeable
<1>3. CASE HostStatusIn
  <2>1. phase # "attach" /\ busActive' = busActive
    BY <1>3 DEF HostStatusIn, Done
  <2>2. UNCHANGED <<SUSPND, ACTVIE, U1IR, USBDeviceState, task>>
    BY <1>3 DEF HostStatusIn, SieIn, SieInUnacknowledged, usbVars, sieVars, stateVars
  <2> QED BY <2>1, <2>2 DEF Wakeable
<1>4. CASE HostStatusOut
  <2>1. phase # "attach" /\ busActive' = busActive
    BY <1>4 DEF HostStatusOut, Done
  <2>2. UNCHANGED <<SUSPND, ACTVIE, U1IR, USBDeviceState, task>>
    BY <1>4 DEF HostStatusOut, SieOut, stateVars
  <2> QED BY <2>1, <2>2 DEF Wakeable
<1>5. CASE HostStalled
  <2>1. phase # "attach" /\ busActive' = busActive
    BY <1>5 DEF HostStalled, Refused
  <2>2. UNCHANGED <<SUSPND, ACTVIE, USBDeviceState, task>> /\ U1IR' = U1IR \cup {"STALLIF"}
    BY <1>5 DEF HostStalled, SieStall, stateVars
  <2> QED BY <2>1, <2>2 DEF Wakeable
<1>6. CASE ResetBus
  <2>1. /\ UNCHANGED <<SUSPND, ACTVIE, USBDeviceState, task>> /\ busActive'
        /\ U1IR' = U1IR \cup {"URSTIF"} \cup (IF busActive THEN {} ELSE {"ACTVIF"})
        /\ USBDeviceState \notin {"DETACHED", "ATTACHED"}
    BY <1>6 DEF ResetBus, SieFlags, stateVars
  <2>2. "ACTVIF" \in U1IR => "ACTVIF" \in U1IR'
    BY <2>1
  <2>3. "IDLEIF" \in U1IR' <=> "IDLEIF" \in U1IR
    BY <2>1
  <2>4. ~busActive => "ACTVIF" \in U1IR'
    BY <2>1
  <2> QED BY <2>1, <2>2, <2>3, <2>4 DEF Wakeable, TypeOK
<1>7. CASE HostRecovered
  <2>1. phase # "attach" /\ busActive' = busActive
    BY <1>7 DEF HostRecovered
  <2>2. UNCHANGED <<SUSPND, ACTVIE, U1IR, USBDeviceState, task>>
    BY <1>7 DEF HostRecovered, usbVars, sieVars, stateVars
  <2> QED BY <2>1, <2>2 DEF Wakeable
<1>8. CASE ResumeBus
  <2>1. /\ UNCHANGED <<SUSPND, ACTVIE, USBDeviceState, task, phase>> /\ busActive'
        /\ U1IR' = U1IR \cup {"ACTVIF"}
    BY <1>8 DEF ResumeBus, SieFlags, stateVars
  <2> QED BY <2>1 DEF Wakeable
<1>9. CASE SuspendBus
  <2>1. /\ UNCHANGED <<SUSPND, ACTVIE, USBDeviceState, task, phase>> /\ ~busActive'
        /\ phase # "attach" /\ ~SUSPND
    BY <1>9 DEF SuspendBus, SieFlags, stateVars
  <2> QED BY <2>1 DEF Wakeable
<1> QED BY <1>1, <1>2, <1>3, <1>4, <1>5, <1>6, <1>7, <1>8, <1>9 DEF HostStep

LEMMA WakeableInvariant == Spec => []Wakeable
<1>1. Init => Wakeable
  BY DEF Init, UsbInit, Wakeable
<1>2. TypeOK /\ Wakeable /\ [Next]_vars => Wakeable'
  <2> SUFFICES ASSUME TypeOK, Wakeable, [Next]_vars PROVE Wakeable'
    OBVIOUS
  <2>1. CASE DeviceStep
    BY <2>1, DeviceStepWakes
  <2>2. CASE HostStep \/ SuspendBus
    BY <2>2, HostWakes
  <2>3. CASE HostEndsData
    <3>1. phase # "attach" /\ UNCHANGED <<SUSPND, ACTVIE, U1IR, USBDeviceState, task, busActive>>
      BY <2>3 DEF HostEndsData, usbVars, sieVars, stateVars
    <3> QED BY <3>1 DEF Wakeable
  <2>4. CASE HostGivesUp
    <3>1. phase # "attach" /\ UNCHANGED <<SUSPND, ACTVIE, U1IR, USBDeviceState, task, busActive>>
      BY <2>4 DEF HostGivesUp, usbVars, sieVars, stateVars
    <3> QED BY <3>1 DEF Wakeable
  <2>5. CASE UNCHANGED vars
    BY <2>5 DEF Wakeable, vars, usbVars, hostVars, sieVars, stateVars
  <2> QED BY <2>1, <2>2, <2>3, <2>4, <2>5 DEF Next
<1> QED BY <1>1, <1>2, TypeCorrect, PTL DEF Spec

\* A device that sleeps on a bus that is awake has its wake-up call waiting (usb_device.c:2260).
THEOREM NeverAsleepForEver == Spec => []WakeUpPending
<1>1. Wakeable => WakeUpPending
  BY DEF Wakeable, WakeUpPending
<1> QED BY <1>1, WakeableInvariant, PTL

----------------------------------------------------------------------------
(* Room for a SETUP packet.                                                 *)

\* Transaction k of the queue is an OUT one, of this kind.
Pending(k, pid) == k \in 1 .. Len(fifo) /\ fifo[k][1] = "out" /\ out[fifo[k][2]].pid = pid

\* A SETUP packet that waits is the last transaction of the queue, and the SIE waits for it to be
\* served; the entries of all that wait belong to the firmware; one status packet waits at most.
Queued ==
  /\ PKTDIS => /\ fifo # <<>>
               /\ fifo[Len(fifo)] = <<"out", Other(active["out"])>>
               /\ out[Other(active["out"])].pid = "SETUP"
  /\ \A k \in 1 .. Len(fifo) : Pending(k, "SETUP") => PKTDIS /\ k = Len(fifo)
  /\ \A k \in 1 .. Len(fifo) : fifo[k][1] = "out" => out[fifo[k][2]].own = "cpu"
  /\ \A k, l \in 1 .. Len(fifo) : Pending(k, "OUT") /\ Pending(l, "OUT") => k = l

\* The entry that the SIE is on belongs to it unless a SETUP packet waits; where that entry would
\* take a status packet, the next one is ready for a SETUP; and the firmware knows as long as
\* a status packet may come or waits to be served that both are armed.
Ready ==
  /\ ~PKTDIS => out[active["out"]].own # "cpu"
  /\ ~PKTDIS /\ out[active["out"]].own = "armed" => out[Other(active["out"])].own = "stall"
  /\ \A i \in Entries : out[i].own # "cpu" => out[i].pid = "OUT"
  /\ \A i \in Entries : out[i].own = "armed" => BothEP0OutUOWNsSet
  /\ \A k \in 1 .. Len(fifo) : Pending(k, "OUT") =>
       BothEP0OutUOWNsSet /\ \A i \in Entries : out[i].own # "armed"

receiveVars == <<out, active, fifo, PKTDIS, BothEP0OutUOWNsSet>>

LEMMA SameRoom == Queued /\ Ready /\ UNCHANGED receiveVars => Queued' /\ Ready'
BY DEF Queued, Ready, Pending, receiveVars

LEMMA TwoEntries ==
  /\ \A i \in Entries : Other(i) \in Entries /\ Other(i) # i /\ Other(Other(i)) = i
  /\ \A i, j \in Entries : i = j \/ i = Other(j)
BY DEF Entries, Other

LEMMA ReceiveTypes ==
  ASSUME UsbTypeOK
  PROVE  /\ active["out"] \in Entries
         /\ \A i \in Entries : out[i] \in OutEntries
         /\ \A i \in Entries : out[i].pid \in {"SETUP", "OUT"}
         /\ \A k \in 1 .. Len(fifo) :
              /\ fifo[k] = <<fifo[k][1], fifo[k][2]>>
              /\ fifo[k][1] \in Directions /\ fifo[k][2] \in Entries
         /\ Len(fifo) \in Nat
<1>1. active["out"] \in Entries
  BY ActiveType DEF Directions
<1>2. \A i \in Entries : out[i] \in OutEntries
  BY DEF UsbTypeOK
<1>3. \A i \in Entries : out[i].pid \in {"SETUP", "OUT"}
  BY <1>2 DEF OutEntries
<1>4. fifo \in Seq(Transactions)
  BY DEF UsbTypeOK
<1>5. \A k \in 1 .. Len(fifo) : fifo[k] \in Transactions
  BY <1>4
<1>6. \A x \in Transactions : x = <<x[1], x[2]>> /\ x[1] \in Directions /\ x[2] \in Entries
  BY DEF Transactions
<1> QED BY <1>1, <1>2, <1>3, <1>4, <1>5, <1>6

LEMMA TailItems ==
  ASSUME UsbTypeOK, fifo # <<>>
  PROVE  /\ Len(Tail(fifo)) = Len(fifo) - 1 /\ Len(fifo) >= 1
         /\ \A k \in 1 .. Len(fifo) - 1 : Tail(fifo)[k] = fifo[k + 1]
         /\ Head(fifo) = fifo[1]
         /\ Len(fifo) = 1 => Tail(fifo) = <<>>
<1>1. fifo \in Seq(Transactions)
  BY DEF UsbTypeOK
<1>2. Len(fifo) \in Nat /\ Len(fifo) # 0
  BY <1>1
<1>3. Tail(fifo) \in Seq(Transactions) /\ Len(Tail(fifo)) = Len(fifo) - 1
  BY <1>1
<1>4. \A k \in 1 .. Len(fifo) - 1 : Tail(fifo)[k] = fifo[k + 1]
  BY <1>1
<1>5. Len(fifo) = 1 => Tail(fifo) = <<>>
  <2>1. \A s \in Seq(Transactions) : Len(s) = 0 => s = <<>>
    OBVIOUS
  <2>2. Len(fifo) = 1 => Len(Tail(fifo)) = 0
    BY <1>3
  <2> QED BY <1>3, <2>1, <2>2, Zenon
<1> QED BY <1>1, <1>2, <1>3, <1>4, <1>5

LEMMA AppendItems ==
  ASSUME UsbTypeOK, NEW x, x \in Transactions
  PROVE  /\ Len(Append(fifo, x)) = Len(fifo) + 1
         /\ \A k \in 1 .. Len(fifo) : Append(fifo, x)[k] = fifo[k]
         /\ Append(fifo, x)[Len(fifo) + 1] = x
         /\ Append(fifo, x) # <<>>
<1>1. fifo \in Seq(Transactions)
  BY DEF UsbTypeOK
<1>2. Len(fifo) \in Nat
  BY <1>1
<1>3. Len(Append(fifo, x)) = Len(fifo) + 1
  BY <1>1
<1>4. \A k \in 1 .. Len(fifo) : Append(fifo, x)[k] = fifo[k]
  BY <1>1
<1>5. Append(fifo, x)[Len(fifo) + 1] = x
  BY <1>1
<1> QED BY <1>2, <1>3, <1>4, <1>5

\* A transaction other than a SETUP is served.
LEMMA OtherServed ==
  ASSUME UsbTypeOK, Queued, Ready, fifo # <<>>, fifo' = Tail(fifo),
         UNCHANGED <<out, active, PKTDIS>>,
         ~Pending(1, "SETUP"),
         UNCHANGED BothEP0OutUOWNsSet \/ Pending(1, "OUT")
  PROVE  Queued' /\ Ready'
<1>0. Len(fifo) \in Nat
  BY ReceiveTypes
<1>1. /\ Len(fifo') = Len(fifo) - 1 /\ Len(fifo) >= 1
      /\ \A k \in 1 .. Len(fifo') : fifo'[k] = fifo[k + 1] /\ k + 1 \in 1 .. Len(fifo)
  BY <1>0, TailItems
<1>2. \A k \in 1 .. Len(fifo'), pid \in {"SETUP", "OUT"} : Pending(k, pid)' => Pending(k + 1, pid)
  BY <1>1 DEF Pending
<1>3. PKTDIS => Len(fifo) # 1
  <2> SUFFICES ASSUME PKTDIS, Len(fifo) = 1 PROVE FALSE
    OBVIOUS
  <2> QED BY <1>0 DEF Queued, Pending
<1>4. PKTDIS => fifo' # <<>> /\ fifo'[Len(fifo')] = fifo[Len(fifo)]
  <2> SUFFICES ASSUME PKTDIS PROVE fifo' # <<>> /\ fifo'[Len(fifo')] = fifo[Len(fifo)]
    OBVIOUS
  <2>1. Len(fifo') \in 1 .. Len(fifo')
    BY <1>0, <1>1, <1>3
  <2> QED BY <1>0, <1>1, <2>1
<1>5. Queued'
  <2>1. PKTDIS' => /\ fifo' # <<>>
                   /\ fifo'[Len(fifo')] = <<"out", Other(active'["out"])>>
                   /\ out'[Other(active'["out"])].pid = "SETUP"
    BY <1>4 DEF Queued
  <2>2. \A k \in 1 .. Len(fifo') : Pending(k, "SETUP")' => PKTDIS' /\ k = Len(fifo')
    <3> SUFFICES ASSUME NEW k \in 1 .. Len(fifo'), Pending(k, "SETUP")'
                 PROVE  PKTDIS' /\ k = Len(fifo')
      OBVIOUS
    <3>1. Pending(k + 1, "SETUP") /\ k + 1 \in 1 .. Len(fifo)
      BY <1>1, <1>2
    <3>2. PKTDIS /\ k + 1 = Len(fifo)
      BY <3>1 DEF Queued
    <3>3. PKTDIS'
      BY <3>2, Zenon
    <3>4. Len(fifo') \in Nat
      BY <1>0, <1>1
    <3>5. k \in Nat
      BY <3>4
    <3>6. k + 1 = Len(fifo) /\ Len(fifo') = Len(fifo) - 1
      BY <1>1, <3>2, Zenon
    <3>7. k = Len(fifo')
      BY <1>0, <3>5, <3>6
    <3> QED BY <3>3, <3>7
  <2>3. \A k \in 1 .. Len(fifo') : fifo'[k][1] = "out" => out'[fifo'[k][2]].own = "cpu"
    BY <1>1 DEF Queued
  <2>4. \A k, l \in 1 .. Len(fifo') : Pending(k, "OUT")' /\ Pending(l, "OUT")' => k = l
    <3> SUFFICES ASSUME NEW k \in 1 .. Len(fifo'), NEW l \in 1 .. Len(fifo'),
                        Pending(k, "OUT")', Pending(l, "OUT")'
                 PROVE  k = l
      OBVIOUS
    <3>1. k + 1 = l + 1
      BY <1>1, <1>2 DEF Queued
    <3> QED BY <1>0, <1>1, <3>1
  <2> QED BY <2>1, <2>2, <2>3, <2>4 DEF Queued
<1>6. Ready'
  <2>1. \A k \in 1 .. Len(fifo') : Pending(k, "OUT")' =>
          BothEP0OutUOWNsSet' /\ \A i \in Entries : out'[i].own # "armed"
    <3> SUFFICES ASSUME NEW k \in 1 .. Len(fifo'), Pending(k, "OUT")'
                 PROVE  BothEP0OutUOWNsSet' /\ \A i \in Entries : out'[i].own # "armed"
      OBVIOUS
    <3>1. Pending(k + 1, "OUT") /\ k + 1 \in 1 .. Len(fifo) /\ 1 \in 1 .. Len(fifo) /\ k + 1 # 1
      BY <1>0, <1>1, <1>2
    <3>2. ~Pending(1, "OUT")
      BY <3>1 DEF Queued
    <3> QED BY <3>1, <3>2 DEF Ready
  <2>2. \A i \in Entries : out'[i].own = "armed" => BothEP0OutUOWNsSet'
    <3>1. Pending(1, "OUT") => \A i \in Entries : out[i].own # "armed"
      BY DEF Ready, Pending
    <3> QED BY <3>1 DEF Ready
  <2> QED BY <2>1, <2>2 DEF Ready
<1> QED BY <1>5, <1>6

\* A SETUP packet is served: the queue is empty then, and the SIE is on the other entry.
LEMMA SetupServed ==
  ASSUME UsbTypeOK, Queued, NEW e \in Entries, NEW ops, ServingSetup(e, ops), fifo' = Tail(fifo)
  PROVE  fifo' = <<>> /\ e = Other(active["out"]) /\ active["out"] = Other(e)
         /\ out[e].own = "cpu" /\ Len(fifo') = 0
<1>1. /\ fifo # <<>> /\ fifo[1] = <<"out", e>> /\ out[e].pid = "SETUP"
      /\ Len(fifo) \in Nat /\ Len(fifo) >= 1
  BY TailItems, ReceiveTypes DEF ServingSetup, Serving
<1>2. Pending(1, "SETUP")
  BY <1>1 DEF Pending
<1>3. PKTDIS /\ Len(fifo) = 1
  <2>1. 1 \in 1 .. Len(fifo)
    BY <1>1
  <2> QED BY <1>2, <2>1 DEF Queued
<1>4. fifo[1] = <<"out", Other(active["out"])>>
  BY <1>3 DEF Queued
<1>5. e = Other(active["out"]) /\ active["out"] \in Entries
  BY <1>1, <1>4, ReceiveTypes
<1>6. active["out"] = Other(e)
  BY <1>5, TwoEntries
<1>7. out[e].own = "cpu"
  BY <1>1 DEF Queued
<1>8. fifo' = <<>>
  BY <1>1, <1>3, TailItems
<1> QED BY <1>5, <1>6, <1>7, <1>8

\* What the stages that follow arm is enough.
LEMMA SetupRoom ==
  ASSUME NEW a, NEW b, a \in Entries, b = Other(a),
         fifo' = <<>>, active'["out"] = a, PKTDIS' = FALSE,
         out'[a] = StallEntry \/ (out'[a] = StatusEntry /\ BothEP0OutUOWNsSet'),
         out'[b] = StallEntry \/ (out'[b].own = "cpu" /\ out'[a] = StallEntry)
  PROVE  Queued' /\ Ready'
<1>1. Entries = {a, b}
  BY DEF Entries, Other
<1>2. Len(fifo') = 0 /\ 1 .. Len(fifo') = {}
  OBVIOUS
<1>3. Queued'
  BY <1>2 DEF Queued, Pending
<1>4. /\ StallEntry.own = "stall" /\ StallEntry.pid = "OUT"
      /\ StatusEntry.own = "armed" /\ StatusEntry.pid = "OUT"
  BY DEF StallEntry, StatusEntry
<1>5. \A i \in Entries : out'[i].own # "cpu" => out'[i].pid = "OUT"
  BY <1>1, <1>4
<1>6. \A i \in Entries : out'[i].own = "armed" => BothEP0OutUOWNsSet'
  BY <1>1, <1>4
<1>7. out'[active'["out"]].own # "cpu"
  BY <1>4
<1>8. out'[active'["out"]].own = "armed" => out'[Other(active'["out"])].own = "stall"
  BY <1>4
<1> QED BY <1>2, <1>3, <1>5, <1>6, <1>7, <1>8 DEF Ready

LEMMA StageRoom ==
  ASSUME UsbTypeOK, Queued, NEW e \in Entries, NEW ops, ServingSetup(e, ops), SetupHandled(e),
         SamePointers(e),
         \/ Unclaimed(e)
         \/ \E source \in Sources, size \in Nat : Claimed(e, source, size)
         \/ \E source \in Sources, size \in Nat : ControlRead(e, source, size)
  PROVE  Queued' /\ Ready'
<1>1. fifo' = Tail(fifo) /\ PKTDIS' = FALSE /\ active' = active
  BY DEF SetupHandled, Served, SamePointers
<1>2. fifo' = <<>> /\ active'["out"] = Other(e) /\ e = Other(Other(e)) /\ out[e].own = "cpu"
  BY <1>1, SetupServed
<1>3. Other(e) \in Entries /\ Other(e) # e /\ out \in [Entries -> OutEntries]
  BY TwoEntries DEF UsbTypeOK
<1>4. CASE out' = [out EXCEPT ![Other(e)] = StallEntry]
  <2>1. out'[Other(e)] = StallEntry /\ out'[e].own = "cpu"
    BY <1>2, <1>3, <1>4
  <2> QED BY <1>1, <1>2, <1>3, <2>1, SetupRoom
<1>5. CASE out' = [out EXCEPT ![e] = StallEntry, ![Other(e)] = StatusEntry] /\ BothEP0OutUOWNsSet'
  <2>1. out'[Other(e)] = StatusEntry /\ out'[e] = StallEntry
    BY <1>3, <1>5
  <2> QED BY <1>1, <1>2, <1>3, <1>5, <2>1, SetupRoom
<1> QED BY <1>4, <1>5 DEF Unclaimed, Claimed, ControlRead, NoDataStage

LEMMA SetupHandlerRoom ==
  ASSUME TypeOK, Queued, Ready, USBCtrlTrfSetupHandler
  PROVE  Queued' /\ Ready'
<1>0. UsbTypeOK
  BY TypeParts
<1> PICK e \in Entries :
      \/ SetAddress(e) \/ GetDescriptor(e) \/ SetConfiguration(e) \/ GetConfiguration(e)
      \/ GetStatus(e)  \/ Feature(e)       \/ GetInterface(e)     \/ SetInterface(e)
      \/ MassStorageRequest(e) \/ UnknownRequest(e)
  BY DEF USBCtrlTrfSetupHandler
<1>1. <<"none", 0>> \in Sources
  BY EmptySource
<1>2. CASE SetAddress(e)
  BY <1>0, <1>1, <1>2, StageRoom DEF SetAddress, Acknowledged
<1>3. CASE GetDescriptor(e)
  BY <1>0, <1>3, StageRoom, DescriptorLength DEF GetDescriptor
<1>4. CASE SetConfiguration(e)
  <2>1. fifo' = <<>>
    BY <1>0, <1>4, SetupServed DEF SetConfiguration, Served
  <2>2. active'["out"] = 0 /\ PKTDIS' = FALSE
    BY <1>4 DEF SetConfiguration, Directions
  <2>3. out' = [[ClearedOut EXCEPT ![0].own = "cpu"] EXCEPT ![0] = StallEntry]
    BY <1>4 DEF SetConfiguration, NoDataStage
  <2>4. out'[0] = StallEntry /\ out'[1].own = "cpu"
    <3>1. DOMAIN ClearedOut = Entries /\ ClearedOut[1] = [own |-> "cpu", pid |-> "OUT"]
      BY DEF ClearedOut, Entries
    <3>2. out'[0] = StallEntry /\ out'[1] = ClearedOut[1]
      BY <2>3, <3>1 DEF Entries
    <3> QED BY <3>1, <3>2
  <2>5. 0 \in Entries /\ 1 = Other(0)
    BY DEF Entries, Other
  <2> QED BY <2>1, <2>2, <2>4, <2>5, SetupRoom
<1>5. CASE GetConfiguration(e)
  <2>1. <<"CONFIGURATION", USBActiveConfiguration>> \in Sources
    BY <1>0 DEF Sources, UsbTypeOK
  <2> QED BY <1>0, <1>5, <2>1, StageRoom DEF GetConfiguration
<1>6. CASE GetStatus(e)
  <2>1. \A bits \in StatusBits : <<"STATUS", bits>> \in Sources
    <3>1. StatusBits \subseteq 0 .. 3
      BY DEF StatusBits
    <3> QED BY <3>1 DEF Sources
  <2>2. PICK bits \in StatusBits : Claimed(e, <<"STATUS", bits>>, 2)
    BY <1>6 DEF GetStatus
  <2> QED BY <1>0, <1>6, <2>1, <2>2, StageRoom DEF GetStatus
<1>7. CASE Feature(e)
  BY <1>0, <1>1, <1>7, StageRoom DEF Feature, Acknowledged
<1>8. CASE GetInterface(e)
  <2>1. <<"INTERFACE", USBAlternateInterface>> \in Sources
    BY <1>0 DEF Sources, UsbTypeOK
  <2> QED BY <1>0, <1>8, <2>1, StageRoom DEF GetInterface
<1>9. CASE SetInterface(e)
  BY <1>0, <1>1, <1>9, StageRoom DEF SetInterface, Acknowledged
<1>10. CASE MassStorageRequest(e)
  <2>1. <<"MAX_LUN", 0>> \in Sources
    BY DEF Sources
  <2> QED BY <1>0, <1>1, <1>10, <2>1, StageRoom DEF MassStorageRequest, Acknowledged
<1>11. CASE UnknownRequest(e)
  BY <1>0, <1>11, StageRoom DEF UnknownRequest
<1> QED BY <1>2, <1>3, <1>4, <1>5, <1>6, <1>7, <1>8, <1>9, <1>10, <1>11

\* A transaction that is not a SETUP packet.
LEMMA OtherHandlerRoom ==
  ASSUME TypeOK, Queued, Ready, USBCtrlTrfOutHandler \/ NextInPacket \/ StatusInDone
  PROVE  Queued' /\ Ready'
<1>0. UsbTypeOK
  BY TypeParts
<1>1. CASE USBCtrlTrfOutHandler
  <2> PICK e \in Entries :
        /\ Serving("out", e) /\ out[e].pid = "OUT" /\ Served
        /\ out' = IF BothEP0OutUOWNsSet THEN out ELSE [out EXCEPT ![Other(e)] = StallEntry]
        /\ UNCHANGED PKTDIS /\ UNCHANGED active
    BY <1>1 DEF USBCtrlTrfOutHandler, sieVars
  <2>1. fifo # <<>> /\ fifo[1] = <<"out", e>> /\ 1 \in 1 .. Len(fifo) /\ fifo' = Tail(fifo)
    BY <1>0, TailItems, ReceiveTypes DEF Serving, Served
  <2>2. Pending(1, "OUT") /\ ~Pending(1, "SETUP")
    BY <2>1 DEF Pending
  <2>3. BothEP0OutUOWNsSet
    BY <2>1, <2>2 DEF Ready
  <2> QED BY <1>0, <2>1, <2>2, <2>3, OtherServed
<1>2. CASE NextInPacket \/ StatusInDone
  <2>1. PICK e \in Entries : Serving("in", e) /\ Served
    BY <1>2 DEF NextInPacket, StatusInDone
  <2>2. UNCHANGED <<out, active, PKTDIS>> /\ UNCHANGED BothEP0OutUOWNsSet
    BY <1>2 DEF NextInPacket, StatusInDone, inFrame
  <2>3. fifo # <<>> /\ fifo[1] = <<"in", e>> /\ fifo' = Tail(fifo)
    BY <1>0, <2>1, TailItems DEF Serving, Served
  <2>4. ~Pending(1, "SETUP")
    BY <2>3 DEF Pending
  <2> QED BY <1>0, <2>2, <2>3, <2>4, OtherServed
<1> QED BY <1>1, <1>2

LEMMA ClearedRoom ==
  ASSUME fifo' = <<>>, out' = ClearedOut, active' = [d \in Directions |-> 0], PKTDIS' = FALSE
  PROVE  Queued' /\ Ready'
<1>1. 0 \in Entries /\ 1 = Other(0)
  BY DEF Entries, Other
<1>2. out'[0] = StallEntry /\ out'[1].own = "cpu"
  BY DEF ClearedOut, Entries
<1>3. active'["out"] = 0
  BY DEF Directions
<1> QED BY <1>1, <1>2, <1>3, SetupRoom

\* A stalled transfer takes its status entry back.
LEMMA StallRoom ==
  ASSUME TypeOK, Queued, Ready, USBStallHandler
  PROVE  Queued' /\ Ready'
<1>0. UsbTypeOK /\ UNCHANGED <<fifo, active, PKTDIS, BothEP0OutUOWNsSet>>
  BY TypeParts DEF USBStallHandler, stageVars
<1>1. CASE out' = out
  BY <1>0, <1>1, SameRoom DEF receiveVars
<1>2. CASE out[outCurrent].own = "armed" /\ out' = [out EXCEPT ![outCurrent] = StallEntry]
  <2>1. outCurrent \in Entries /\ active["out"] \in Entries /\ out \in [Entries -> OutEntries]
    BY <1>0, ReceiveTypes DEF UsbTypeOK
  <2>2. out'[outCurrent] = StallEntry
    BY <1>2, <2>1
  <2>3. \A i \in Entries : i # outCurrent => out'[i] = out[i]
    BY <1>2, <2>1
  <2>4. StallEntry.own = "stall" /\ StallEntry.pid = "OUT"
    BY DEF StallEntry
  <2>5. \A k \in 1 .. Len(fifo) : fifo[k][1] = "out" =>
          fifo[k][2] \in Entries /\ fifo[k][2] # outCurrent
    BY <1>0, <1>2, ReceiveTypes DEF Queued
  <2>6. \A k, pid : Pending(k, pid)' <=> Pending(k, pid)
    BY <1>0, <2>3, <2>5 DEF Pending
  <2>7. Queued'
    <3>1. PKTDIS' => /\ fifo' # <<>>
                     /\ fifo'[Len(fifo')] = <<"out", Other(active'["out"])>>
                     /\ out'[Other(active'["out"])].pid = "SETUP"
      <4> SUFFICES ASSUME PKTDIS
                   PROVE  /\ fifo # <<>> /\ fifo[Len(fifo)] = <<"out", Other(active["out"])>>
                          /\ out'[Other(active["out"])].pid = "SETUP"
        BY <1>0
      <4>1. out[outCurrent].pid = "OUT"
        BY <1>2, <2>1 DEF Ready
      <4>2. Other(active["out"]) \in Entries /\ Other(active["out"]) # outCurrent
        BY <2>1, <4>1, TwoEntries DEF Queued
      <4> QED BY <2>3, <4>2 DEF Queued
    <3>2. \A k \in 1 .. Len(fifo') : fifo'[k][1] = "out" => out'[fifo'[k][2]].own = "cpu"
      BY <1>0, <2>3, <2>5 DEF Queued
    <3> QED BY <1>0, <2>6, <3>1, <3>2 DEF Queued
  <2>8. Ready'
    <3>1. ~PKTDIS => out'[active["out"]].own # "cpu"
      BY <2>1, <2>2, <2>3, <2>4 DEF Ready
    <3>2. ~PKTDIS /\ out'[active["out"]].own = "armed" => out'[Other(active["out"])].own = "stall"
      BY <2>1, <2>2, <2>3, <2>4, TwoEntries DEF Ready
    <3>3. \A i \in Entries : out'[i].own # "cpu" => out'[i].pid = "OUT"
      BY <2>2, <2>3, <2>4 DEF Ready
    <3>4. \A i \in Entries : out'[i].own = "armed" => out[i].own = "armed"
      BY <2>2, <2>3, <2>4
    <3> QED BY <1>0, <2>6, <3>1, <3>2, <3>3, <3>4 DEF Ready
  <2> QED BY <2>7, <2>8
<1> QED BY <1>1, <1>2 DEF USBStallHandler

LEMMA DeviceRoom ==
  ASSUME TypeOK, Queued, Ready, USBDeviceTasks
  PROVE  Queued' /\ Ready'
<1>1. CASE Attach \/ USBWakeFromSuspend \/ StayAwake \/ NoReset \/ USBSuspend \/ EndCall
  <2>1. UNCHANGED receiveVars
    BY <1>1 DEF receiveVars, Attach, USBWakeFromSuspend, StayAwake, NoReset, USBSuspend, EndCall,
       sieVars, stageVars
  <2> QED BY <2>1, SameRoom
<1>2. CASE USBDeviceInit
  BY <1>2, ClearedRoom DEF USBDeviceInit
<1> QED BY <1>1, <1>2, StallRoom, SetupHandlerRoom, OtherHandlerRoom DEF USBDeviceTasks

\* The SIE takes a SETUP packet.
LEMMA SieSetupRoom ==
  ASSUME TypeOK, Queued, Ready, NEW address, NEW r, SieSetup(address, r)
  PROVE  Queued' /\ Ready'
<1> DEFINE e == active["out"]
<1>0. UsbTypeOK /\ e \in Entries /\ Len(fifo) \in Nat /\ out \in [Entries -> OutEntries]
  BY TypeParts, ReceiveTypes DEF UsbTypeOK
<1>1. /\ ~PKTDIS /\ PKTDIS' = TRUE /\ out[e].own # "cpu"
      /\ out' = [out EXCEPT ![e] = [own |-> "cpu", pid |-> "SETUP"]]
      /\ active'["out"] = Other(e)
      /\ fifo' = Append(fifo, <<"out", e>>) /\ UNCHANGED BothEP0OutUOWNsSet
  <2>1. active' = [active EXCEPT !["out"] = Other(e)]
    BY DEF SieSetup
  <2>2. active'["out"] = Other(e)
    BY <1>0, <2>1 DEF UsbTypeOK, Directions
  <2> QED BY <2>2 DEF SieSetup, Listening, stageVars
<1>2. <<"out", e>> \in Transactions
  BY <1>0 DEF Transactions, Directions
<1>3. /\ Len(fifo') = Len(fifo) + 1 /\ fifo' # <<>>
      /\ \A k \in 1 .. Len(fifo) : fifo'[k] = fifo[k]
      /\ fifo'[Len(fifo')] = <<"out", e>>
  BY <1>0, <1>1, <1>2, AppendItems
<1>4. out'[e] = [own |-> "cpu", pid |-> "SETUP"] /\ \A i \in Entries : i # e => out'[i] = out[i]
  BY <1>0, <1>1
<1>5. \A k \in 1 .. Len(fifo') : k \in 1 .. Len(fifo) \/ k = Len(fifo')
  BY <1>0, <1>3
<1>6. \A k \in 1 .. Len(fifo) : fifo[k][1] = "out" => fifo[k][2] \in Entries /\ fifo[k][2] # e
  BY <1>0, <1>1, ReceiveTypes DEF Queued
<1>7. \A k \in 1 .. Len(fifo), pid \in {"SETUP", "OUT"} : Pending(k, pid)' => Pending(k, pid)
  BY <1>3, <1>4, <1>6 DEF Pending
<1>8. \A k \in 1 .. Len(fifo') : k = Len(fifo') => ~Pending(k, "OUT")'
  BY <1>3, <1>4 DEF Pending
<1>9. \A k \in 1 .. Len(fifo) : ~Pending(k, "SETUP")
  BY <1>1 DEF Queued
<1>10. Other(Other(e)) = e
  BY <1>0, TwoEntries
<1>11. Queued'
  <2>1. PKTDIS' => /\ fifo' # <<>>
                   /\ fifo'[Len(fifo')] = <<"out", Other(active'["out"])>>
                   /\ out'[Other(active'["out"])].pid = "SETUP"
    BY <1>1, <1>3, <1>4, <1>10
  <2>2. \A k \in 1 .. Len(fifo') : Pending(k, "SETUP")' => k = Len(fifo')
    BY <1>5, <1>7, <1>9
  <2>3. \A k \in 1 .. Len(fifo') : fifo'[k][1] = "out" => out'[fifo'[k][2]].own = "cpu"
    BY <1>3, <1>4, <1>5, <1>6 DEF Queued
  <2>4. \A k, l \in 1 .. Len(fifo') : Pending(k, "OUT")' /\ Pending(l, "OUT")' => k = l
    BY <1>5, <1>7, <1>8 DEF Queued
  <2> QED BY <1>1, <2>1, <2>2, <2>3, <2>4 DEF Queued
<1>12. Ready'
  <2>1. \A i \in Entries : out'[i].own # "cpu" => i # e /\ out'[i] = out[i]
    BY <1>4
  <2>2. \A i \in Entries : out'[i].own # "cpu" => out'[i].pid = "OUT"
    BY <2>1 DEF Ready
  <2>3. \A i \in Entries : out'[i].own = "armed" => out[i].own = "armed"
    BY <2>1
  <2>4. \A k \in 1 .. Len(fifo') : Pending(k, "OUT")' => k \in 1 .. Len(fifo) /\ Pending(k, "OUT")
    BY <1>5, <1>7, <1>8
  <2> QED BY <1>1, <2>2, <2>3, <2>4 DEF Ready
<1> QED BY <1>11, <1>12

\* The SIE takes the status packet of a control read.
LEMMA SieOutRoom ==
  ASSUME TypeOK, Queued, Ready, NEW address, SieOut(address)
  PROVE  Queued' /\ Ready'
<1> DEFINE e == active["out"]
<1>0. UsbTypeOK /\ e \in Entries /\ Len(fifo) \in Nat /\ out \in [Entries -> OutEntries]
  BY TypeParts, ReceiveTypes DEF UsbTypeOK
<1>1. /\ ~PKTDIS /\ UNCHANGED PKTDIS /\ out[e].own = "armed"
      /\ out' = [out EXCEPT ![e] = [out[e] EXCEPT !.own = "cpu"]]
      /\ active'["out"] = Other(e)
      /\ fifo' = Append(fifo, <<"out", e>>) /\ UNCHANGED BothEP0OutUOWNsSet
  <2>1. active' = [active EXCEPT !["out"] = Other(e)]
    BY DEF SieOut
  <2>2. active'["out"] = Other(e)
    BY <1>0, <2>1 DEF UsbTypeOK, Directions
  <2> QED BY <2>2 DEF SieOut, Listening, stageVars
<1>2. <<"out", e>> \in Transactions
  BY <1>0 DEF Transactions, Directions
<1>3. /\ Len(fifo') = Len(fifo) + 1
      /\ \A k \in 1 .. Len(fifo) : fifo'[k] = fifo[k]
      /\ fifo'[Len(fifo')] = <<"out", e>>
  BY <1>0, <1>1, <1>2, AppendItems
<1>4. out[e].pid = "OUT" /\ out[e] \in OutEntries /\ BothEP0OutUOWNsSet
  BY <1>0, <1>1 DEF Ready
<1>5. out'[e].own = "cpu" /\ out'[e].pid = "OUT" /\ \A i \in Entries : i # e => out'[i] = out[i]
  BY <1>0, <1>1, <1>4 DEF OutEntries
<1>6. \A k \in 1 .. Len(fifo') : k \in 1 .. Len(fifo) \/ k = Len(fifo')
  BY <1>0, <1>3
<1>7. \A k \in 1 .. Len(fifo) : fifo[k][1] = "out" => fifo[k][2] \in Entries /\ fifo[k][2] # e
  BY <1>0, <1>1, ReceiveTypes DEF Queued
<1>8. \A k \in 1 .. Len(fifo), pid \in {"SETUP", "OUT"} : Pending(k, pid)' => Pending(k, pid)
  BY <1>3, <1>5, <1>7 DEF Pending
<1>9. \A k \in 1 .. Len(fifo) : ~Pending(k, "SETUP") /\ ~Pending(k, "OUT")
  BY <1>0, <1>1 DEF Queued, Ready
<1>10. \A k \in 1 .. Len(fifo') : k = Len(fifo') => ~Pending(k, "SETUP")'
  BY <1>3, <1>5 DEF Pending
<1>11. Other(e) \in Entries /\ Other(e) # e /\ \A i \in Entries : i = e \/ i = Other(e)
  BY <1>0, TwoEntries
<1>12. out'[Other(e)].own = "stall"
  BY <1>1, <1>5, <1>11 DEF Ready
<1>13. Queued'
  <2>1. \A k \in 1 .. Len(fifo') : ~Pending(k, "SETUP")'
    BY <1>6, <1>8, <1>9, <1>10
  <2>2. \A k \in 1 .. Len(fifo') : fifo'[k][1] = "out" => out'[fifo'[k][2]].own = "cpu"
    BY <1>3, <1>5, <1>6, <1>7 DEF Queued
  <2>3. \A k, l \in 1 .. Len(fifo') : Pending(k, "OUT")' /\ Pending(l, "OUT")' => k = l
    BY <1>6, <1>8, <1>9
  <2> QED BY <1>1, <2>1, <2>2, <2>3 DEF Queued
<1>14. Ready'
  <2>1. \A i \in Entries : out'[i].own # "armed"
    BY <1>5, <1>11, <1>12
  <2>2. \A i \in Entries : out'[i].own # "cpu" => out'[i].pid = "OUT"
    BY <1>5 DEF Ready
  <2> QED BY <1>1, <1>4, <1>11, <1>12, <2>1, <2>2 DEF Ready
<1> QED BY <1>13, <1>14

\* An IN packet goes out: its transaction is none of these.
LEMMA SieInRoom ==
  ASSUME TypeOK, Queued, Ready, NEW address, SieIn(address)
  PROVE  Queued' /\ Ready'
<1> DEFINE e == active["in"]
<1>0. UsbTypeOK /\ e \in Entries /\ Len(fifo) \in Nat
  BY TypeParts, ReceiveTypes, ActiveType DEF Directions
<1>1. /\ ~PKTDIS /\ UNCHANGED <<PKTDIS, out, BothEP0OutUOWNsSet>>
      /\ active'["out"] = active["out"]
      /\ fifo' = Append(fifo, <<"in", e>>)
  <2>1. active' = [active EXCEPT !["in"] = Other(e)]
    BY DEF SieIn
  <2>2. active'["out"] = active["out"]
    BY <1>0, <2>1 DEF UsbTypeOK, Directions
  <2> QED BY <2>2 DEF SieIn, Listening, stageVars
<1>2. <<"in", e>> \in Transactions
  BY <1>0 DEF Transactions, Directions
<1>3. /\ Len(fifo') = Len(fifo) + 1
      /\ \A k \in 1 .. Len(fifo) : fifo'[k] = fifo[k]
      /\ fifo'[Len(fifo')] = <<"in", e>>
  BY <1>0, <1>1, <1>2, AppendItems
<1>4. \A k \in 1 .. Len(fifo') : k \in 1 .. Len(fifo) \/ k = Len(fifo')
  BY <1>0, <1>3
<1>5. fifo'[Len(fifo')][1] # "out"
  BY <1>3
<1>6. \A k \in 1 .. Len(fifo'), pid \in {"SETUP", "OUT"} :
        Pending(k, pid)' => k \in 1 .. Len(fifo) /\ Pending(k, pid)
  BY <1>1, <1>3, <1>4, <1>5 DEF Pending
<1>7. \A k \in 1 .. Len(fifo) : ~Pending(k, "SETUP")
  BY <1>1 DEF Queued
<1>8. Queued'
  <2>1. \A k \in 1 .. Len(fifo') : ~Pending(k, "SETUP")'
    BY <1>6, <1>7
  <2>2. \A k \in 1 .. Len(fifo') : fifo'[k][1] = "out" => out'[fifo'[k][2]].own = "cpu"
    BY <1>1, <1>3, <1>4, <1>5 DEF Queued
  <2>3. \A k, l \in 1 .. Len(fifo') : Pending(k, "OUT")' /\ Pending(l, "OUT")' => k = l
    BY <1>6 DEF Queued
  <2> QED BY <1>1, <2>1, <2>2, <2>3 DEF Queued
<1>9. Ready'
  <2>1. \A k \in 1 .. Len(fifo') : Pending(k, "OUT")' =>
          BothEP0OutUOWNsSet' /\ \A i \in Entries : out'[i].own # "armed"
    BY <1>1, <1>6 DEF Ready
  <2> QED BY <1>1, <2>1 DEF Ready
<1> QED BY <1>8, <1>9

LEMMA HostRoom ==
  ASSUME TypeOK, Queued, Ready, HostStep
  PROVE  Queued' /\ Ready'
<1>1. CASE HostSetup
  BY <1>1, SieSetupRoom DEF HostSetup, SendSetup
<1>2. CASE HostData
  <2>1. SieIn(known.address) \/ UNCHANGED usbVars
    BY <1>2 DEF HostData, SieInUnacknowledged
  <2> QED BY <2>1, SieInRoom, SameRoom DEF receiveVars, usbVars, sieVars, stageVars
<1>3. CASE HostStatusIn
  <2>1. SieIn(known.address) \/ UNCHANGED usbVars
    BY <1>3 DEF HostStatusIn, SieInUnacknowledged
  <2> QED BY <2>1, SieInRoom, SameRoom DEF receiveVars, usbVars, sieVars, stageVars
<1>4. CASE HostStatusOut
  BY <1>4, SieOutRoom DEF HostStatusOut
<1>5. CASE HostStalled \/ ResetBus \/ HostRecovered \/ ResumeBus
  <2>1. UNCHANGED receiveVars
    BY <1>5 DEF receiveVars, HostStalled, ResetBus, HostRecovered, ResumeBus, SieStall, SieFlags,
       usbVars, sieVars, stageVars
  <2> QED BY <2>1, SameRoom
<1> QED BY <1>1, <1>2, <1>3, <1>4, <1>5 DEF HostStep

LEMMA RoomInvariant == Spec => [](Queued /\ Ready)
<1>1. Init => Queued /\ Ready
  <2> SUFFICES ASSUME Init PROVE Queued /\ Ready
    OBVIOUS
  <2>1. /\ fifo = <<>> /\ out = ClearedOut /\ active = [d \in Directions |-> 0] /\ PKTDIS = FALSE
    BY DEF Init, UsbInit
  <2>2. Entries = {0, 1} /\ Other(0) = 1
    BY DEF Entries, Other
  <2>3. active["out"] = 0 /\ out[0] = StallEntry /\ out[1] = [own |-> "cpu", pid |-> "OUT"]
    BY <2>1 DEF ClearedOut, Directions, Entries
  <2>4. StallEntry.own = "stall" /\ StallEntry.pid = "OUT"
    BY DEF StallEntry
  <2>5. 1 .. Len(fifo) = {}
    BY <2>1
  <2>6. \A i \in Entries : out[i].own # "armed" /\ out[i].pid = "OUT"
    BY <2>2, <2>3, <2>4
  <2> QED BY <2>1, <2>3, <2>4, <2>5, <2>6 DEF Queued, Ready
<1>2. TypeOK /\ Queued /\ Ready /\ [Next]_vars => Queued' /\ Ready'
  <2> SUFFICES ASSUME TypeOK, Queued, Ready, [Next]_vars PROVE Queued' /\ Ready'
    OBVIOUS
  <2>1. CASE DeviceStep
    BY <2>1, DeviceRoom DEF DeviceStep
  <2>2. CASE HostStep
    BY <2>2, HostRoom
  <2>3. CASE HostEndsData \/ HostGivesUp \/ SuspendBus \/ UNCHANGED vars
    <3>1. UNCHANGED receiveVars
      BY <2>3 DEF receiveVars, HostEndsData, HostGivesUp, SuspendBus, SieFlags, vars, usbVars,
         sieVars, stageVars
    <3> QED BY <3>1, SameRoom
  <2> QED BY <2>1, <2>2, <2>3 DEF Next
<1> QED BY <1>1, <1>2, TypeCorrect, PTL DEF Spec

\* The device can always take a SETUP packet once it has served the last one (usb_device.c:1692,
\* 2547).
THEOREM AlwaysRoomForSetup == Spec => []SetupAccepted
<1>1. Ready => SetupAccepted
  BY DEF Ready, SetupAccepted
<1> QED BY <1>1, RoomInvariant, PTL

----------------------------------------------------------------------------
(* The lengths that descriptors state.                                      *)

\* The fold of a descriptor adds up the bytes of its parts, four at most.
LEMMA BytesOfParts ==
  ASSUME NEW seq, DOMAIN seq \subseteq 1 .. 4,
         \A i \in DOMAIN seq : BytesOfPart(seq[i]) \in Nat
  PROVE  FoldSeq(LAMBDA part, bytes : bytes + BytesOfPart(part), 0, seq) =
           (IF 1 \in DOMAIN seq THEN BytesOfPart(seq[1]) ELSE 0)
             + (IF 2 \in DOMAIN seq THEN BytesOfPart(seq[2]) ELSE 0)
             + (IF 3 \in DOMAIN seq THEN BytesOfPart(seq[3]) ELSE 0)
             + (IF 4 \in DOMAIN seq THEN BytesOfPart(seq[4]) ELSE 0)
<1> DEFINE S == DOMAIN seq
           w(i) == BytesOfPart(seq[i])
           of(i, s) == IF i \in s THEN w(i) ELSE 0
           sum(s) == of(1, s) + of(2, s) + of(3, s) + of(4, s)
           first(s) == CHOOSE x \in s : TRUE
           next(h) == [s \in SUBSET S |-> IF s = {} THEN 0 ELSE h[s \ {first(s)}] + w(first(s))]
           iter[s \in SUBSET S] == IF s = {} THEN 0
              ELSE iter[s \ {CHOOSE x \in s : TRUE}] + BytesOfPart(seq[CHOOSE x \in s : TRUE])
<1>1. FoldSeq(LAMBDA part, bytes : bytes + BytesOfPart(part), 0, seq) = iter[S]
  BY DEF FoldSeq, FoldFunction, FoldFunctionOnSet, MapThenFoldSet
<1>2. iter = CHOOSE h : h = next(h)
  OBVIOUS
<1>3. S \subseteq {1, 2, 3, 4} /\ \A i \in S : w(i) \in Nat
  OBVIOUS
<1>4. \A s \in SUBSET S : s # {} => first(s) \in s
  OBVIOUS
<1> HIDE DEF S, w, iter, first
<1>5. \A s \in SUBSET S : \A x \in s : sum(s) = sum(s \ {x}) + w(x) /\ sum(s) \in Nat
  <2> SUFFICES ASSUME NEW s \in SUBSET S, NEW x, x \in s
               PROVE  sum(s) = sum(s \ {x}) + w(x) /\ sum(s) \in Nat
    OBVIOUS
  <2>1. \A i \in {1, 2, 3, 4} : of(i, s) \in Nat
    BY <1>3
  <2>2. \A i \in {1, 2, 3, 4} : of(i, s \ {x}) = IF i = x THEN 0 ELSE of(i, s)
    OBVIOUS
  <2>3. of(x, s) = w(x) /\ x \in {1, 2, 3, 4}
    BY <1>3
  <2> HIDE DEF of
  <2> QED BY <2>1, <2>2, <2>3
<1>6. sum({}) = 0
  OBVIOUS
<1> DEFINE g == [s \in SUBSET S |-> sum(s)]
<1> HIDE DEF sum
<1>7. g = next(g)
  <2>1. \A s \in SUBSET S : g[s] = IF s = {} THEN 0 ELSE g[s \ {first(s)}] + w(first(s))
    BY <1>4, <1>5, <1>6
  <2> QED BY <2>1
<1>8. iter = next(iter)
  <2> HIDE DEF next, g
  <2> QED BY <1>2, <1>7
<1>9. \A s \in SUBSET S : iter[s] = IF s = {} THEN 0 ELSE iter[s \ {first(s)}] + w(first(s))
  BY <1>8
<1> DEFINE equal(s) == iter[s] = sum(s)
<1>10. \A s \in SUBSET S : s # {} /\ equal(s \ {first(s)}) => equal(s)
  BY <1>4, <1>5, <1>9
<1>11. equal({})
  BY <1>6, <1>9
<1> HIDE DEF equal
<1>12. \A a : \A s \in SUBSET S : s \subseteq {a} => equal(s)
  <2> SUFFICES ASSUME NEW a, NEW s \in SUBSET S, s \subseteq {a}, s # {} PROVE equal(s)
    BY <1>11
  <2>1. s \ {first(s)} = {}
    BY <1>4
  <2> QED BY <1>10, <1>11, <2>1
<1>13. \A a, b : \A s \in SUBSET S : s \subseteq {a, b} => equal(s)
  <2> SUFFICES ASSUME NEW a, NEW b, NEW s \in SUBSET S, s \subseteq {a, b}, s # {} PROVE equal(s)
    BY <1>11
  <2>1. s \ {first(s)} \subseteq {a} \/ s \ {first(s)} \subseteq {b}
    BY <1>4
  <2> QED BY <1>10, <1>12, <2>1
<1>14. \A a, b, c : \A s \in SUBSET S : s \subseteq {a, b, c} => equal(s)
  <2> SUFFICES ASSUME NEW a, NEW b, NEW c, NEW s \in SUBSET S, s \subseteq {a, b, c}, s # {}
               PROVE  equal(s)
    BY <1>11
  <2>1. \/ s \ {first(s)} \subseteq {a, b} \/ s \ {first(s)} \subseteq {a, c}
        \/ s \ {first(s)} \subseteq {b, c}
    BY <1>4
  <2> QED BY <1>10, <1>13, <2>1
<1>15. equal(S)
  <2> SUFFICES ASSUME S # {} PROVE equal(S)
    BY <1>11
  <2>1. \/ S \ {first(S)} \subseteq {1, 2, 3} \/ S \ {first(S)} \subseteq {1, 2, 4}
        \/ S \ {first(S)} \subseteq {1, 3, 4} \/ S \ {first(S)} \subseteq {2, 3, 4}
    BY <1>3, <1>4
  <2> QED BY <1>10, <1>14, <2>1
<1> QED BY <1>1, <1>15 DEF equal, sum, S, w

LEMMA BytesOfDescriptor ==
  ASSUME NEW key, DOMAIN Descriptor(key) \subseteq 1 .. 4,
         \A i \in DOMAIN Descriptor(key) : BytesOfPart(Descriptor(key)[i]) \in Nat
  PROVE  BytesThere(key) =
           (IF 1 \in DOMAIN Descriptor(key) THEN BytesOfPart(Descriptor(key)[1]) ELSE 0)
             + (IF 2 \in DOMAIN Descriptor(key) THEN BytesOfPart(Descriptor(key)[2]) ELSE 0)
             + (IF 3 \in DOMAIN Descriptor(key) THEN BytesOfPart(Descriptor(key)[3]) ELSE 0)
             + (IF 4 \in DOMAIN Descriptor(key) THEN BytesOfPart(Descriptor(key)[4]) ELSE 0)
BY BytesOfParts, Zenon DEF BytesThere

\* A descriptor is as long as it says (usb_descriptors.c).
LEMMA StatedLength ==
  ASSUME NEW key, key \in DescriptorKeys
  PROVE  BytesThere(key) = BytesSent(key)
<1> DEFINE parts == Descriptor(key)
<1>1. CASE key = <<"DEVICE", 0>>
  <2>1. key[1] = "DEVICE" /\ parts = device_dsc
    BY <1>1 DEF Descriptor
  <2>2. DOMAIN parts = 1 .. 1 /\ BytesOfPart(parts[1]) = 18 /\ parts[1].bLength = 18
    BY <2>1 DEF device_dsc, BytesOfPart, StructSize
  <2>3. BytesThere(key) = 18
    <3>1. DOMAIN parts = {1}
      BY <2>2
    <3> QED BY <2>2, <3>1, BytesOfDescriptor
  <2> QED BY <2>1, <2>2, <2>3 DEF BytesSent
<1>2. CASE key \in {"CONFIGURATION"} \X DOMAIN USB_CD_Ptr
  <2>1. key[1] = "CONFIGURATION" /\ key[2] = 0
    BY <1>2 DEF USB_CD_Ptr
  <2>2. parts = configDescriptor1
    BY <2>1 DEF Descriptor, USB_CD_Ptr
  <2>3. /\ DOMAIN parts = 1 .. 4 /\ parts[1].wTotalLength = 32
        /\ BytesOfPart(parts[1]) = 9 /\ BytesOfPart(parts[2]) = 9
        /\ BytesOfPart(parts[3]) = 7 /\ BytesOfPart(parts[4]) = 7
    BY <2>2 DEF configDescriptor1, BytesOfPart, StructSize
  <2>4. \A i \in DOMAIN parts : BytesOfPart(parts[i]) \in Nat
    BY <2>3
  <2>5. BytesThere(key) = 32
    BY <2>3, <2>4, BytesOfDescriptor
  <2> QED BY <2>1, <2>3, <2>5 DEF BytesSent
<1>3. CASE key \in {"STRING"} \X DOMAIN USB_SD_Ptr
  <2>1. key[1] = "STRING" /\ key[2] \in 0 .. 3
    BY <1>3 DEF USB_SD_Ptr
  <2>2. PICK n \in Nat : parts = StringDescriptor(n)
    BY <2>1 DEF Descriptor, USB_SD_Ptr
  <2>3. DOMAIN parts = 1 .. 1 /\ parts[1].bLength = 2 + 2 * n /\ BytesOfPart(parts[1]) = 2 + 2 * n
    BY <2>2 DEF StringDescriptor, BytesOfPart
  <2>4. BytesThere(key) = 2 + 2 * n
    BY <2>3, BytesOfDescriptor
  <2> QED BY <2>1, <2>3, <2>4 DEF BytesSent
<1> QED BY <1>1, <1>2, <1>3 DEF DescriptorKeys

----------------------------------------------------------------------------
(* What the host and the device know of each other.                         *)

\* An IN packet has gone out and was not served yet.
InPending == \E k \in 1 .. Len(fifo) : fifo[k][1] = "in"

\* The firmware arms one IN entry at a time, and is on it until it has served its transaction.
OneIn ==
  /\ in[Other(inNext)].own = "cpu"
  /\ \A k \in 1 .. Len(fifo) : fifo[k][1] = "in" => fifo[k][2] = inNext
  /\ \A k, l \in 1 .. Len(fifo) : fifo[k][1] = "in" /\ fifo[l][1] = "in" => k = l
  /\ IF InPending THEN in[inNext].own = "cpu" /\ active["in"] = Other(inNext)
     ELSE active["in"] = inNext

\* The entry that the last OUT or SETUP packet came in on does not wait for a status packet.
CurrentNotArmed == out[outCurrent].own # "armed"

InTransfer == phase \in {"setup", "data", "status"}

\* The device has seen the last bus reset.
Reached == "URSTIF" \notin U1IR /\ USBDeviceState \notin BeforeDefault

\* Until then the host has set up nothing, and what it sends is not served before the reset is.
Recovering ==
  /\ ~Reached => known = Fresh
  /\ USBDeviceState \in BeforeDefault =>
       ~InTransfer /\ fifo = <<>> /\ (phase = "attach" \/ "URSTIF" \in U1IR)
  /\ phase = "attach" => USBDeviceState \in BeforeDefault /\ "URSTIF" \notin U1IR
  /\ "URSTIF" \in U1IR /\ phase \in {"idle", "setup", "data", "status"} =>
       task \in {"activity", "reset"}
  /\ "URSTIF" \in U1IR /\ InTransfer => PKTDIS

\* The request that the device has is the host's, and one that the host may make.
Requested ==
  /\ SetupPkt = req
  /\ InTransfer =>
       /\ req.op = "SET_ADDRESS" => known.address = 0
       /\ req.op = "SET_CONFIGURATION" => known.address # 0
       /\ req.what = "ENDPOINT" /\ req.op \in {"SET_FEATURE", "CLEAR_FEATURE"} =>
            known.configuration \notin {0, Unknown}
  /\ addressing => req.op = "SET_ADDRESS" /\ known.address = 0
  /\ known.address # Unknown
  /\ known.address = 0 => known.configuration = 0
  /\ PKTDIS /\ InTransfer => phase \in {"setup", FirstStage(req)} /\ got = 0 /\ toggle = 1
  /\ PKTDIS /\ Reached => known = Doubted(req)
  /\ PKTDIS /\ req.op = "SET_ADDRESS" /\ Reached => InTransfer \/ addressing

\* What the host knows, whatever waits to be served.
KnownFits ==
  /\ Fits(USBActiveConfiguration, known.configuration)
  /\ known.configuration # Unknown =>
       (USBDeviceState = "CONFIGURED" <=> known.configuration # 0)
  /\ Fits(USBAlternateInterface, known.alternate)
  /\ Fits(IF RemoteWakeup THEN 1 ELSE 0, known.wakeup)

\* An address is pending from the SETUP packet until the empty packet of its status stage is
\* served; meanwhile no other request comes.
AddressFits ==
  /\ U1ADDR = known.address \/ (USBDeviceState = "ADR_PENDING" /\ InPending)
  /\ USBDeviceState = "ADR_PENDING" =>
       /\ req.op = "SET_ADDRESS" /\ U1ADDR = 0
       /\ IF InPending THEN ~PKTDIS /\ known.address = req.value /\ phase = "idle"
          ELSE known.address = 0 /\ (InTransfer \/ addressing)

Agreed == Reached => KnownFits /\ AddressFits

\* A bus reset has thrown the request away.
Forgotten ==
  /\ excused /\ got = 0 /\ fifo = <<>>
  /\ \A i \in Entries : in[i].own = "cpu"
  /\ phase = FirstStage(req)

\* The device refuses the request.
Refusing ==
  /\ ~Supported(req) /\ got = 0 /\ fifo = <<>>
  /\ in[inNext].own = "stall"
  /\ phase = FirstStage(req)

\* What a request has done when its status packet is armed.
Fulfilled ==
  /\ req.op = "SET_ADDRESS" => USBDeviceState = "ADR_PENDING"
  /\ req.op = "SET_CONFIGURATION" =>
       /\ USBActiveConfiguration = req.value /\ USBAlternateInterface = 0
       /\ (USBDeviceState = "CONFIGURED" <=> req.value # 0)
  /\ req.op = "SET_INTERFACE" => USBAlternateInterface = req.value
  /\ req.op \in {"SET_FEATURE", "CLEAR_FEATURE"} /\ req.what = "DEVICE" =>
       (RemoteWakeup <=> req.op = "SET_FEATURE")

\* The device has done it, and the empty packet that says so is armed.
Confirming ==
  /\ Supported(req) /\ StatusIn(req) /\ phase = "status" /\ fifo = <<>>
  /\ in[inNext].own = "armed" /\ in[inNext].dts = 1
  /\ Fulfilled

\* Bytes of the data stage.
Promised == Smaller(req.length, Offered(req))

\* The packet that is armed, or was the last one: short packets are followed by none.
PacketIsNext ==
  /\ inPipe.pos = got + in[inNext].cnt
  /\ in[inNext].own = "armed" /\ in[inNext].dts = toggle /\ fifo = <<>>
  /\ CtrlTrfData = <<inPipe.source, got>>
  /\ in[inNext].cnt < EP0_SIZE => inPipe.wCount = 0

PacketWasRead ==
  /\ inPipe.pos = got
  /\ in[inNext].dts = 1 - toggle
  /\ \/ fifo = <<>> /\ in[inNext].own = "armed"
     \/ fifo = <<<<"in", inNext>>>>
  /\ in[inNext].cnt = EP0_SIZE /\ got < req.length

\* The device sends what was asked for: packets come from where the host is, or the last one was
\* read and comes again or waits to be served.
Sending ==
  /\ Supported(req) /\ ~StatusIn(req) /\ phase = "data"
  /\ out[active["out"]].own = "armed"
  /\ controlTransferState = "CTRL_TRF_TX"
  /\ Genuine(req, inPipe.source)
  /\ inPipe.pos + inPipe.wCount = Promised
  /\ shortPacketStatus = IF in[inNext].cnt = EP0_SIZE THEN "NOT_USED" ELSE "PENDING"
  /\ PacketIsNext \/ PacketWasRead

\* The device waits for the status packet, or has it.
AwaitingStatus ==
  /\ Supported(req) /\ ~StatusIn(req) /\ phase = "status"
  /\ out[active["out"]].own = "armed" \/ excused

\* A stage that goes on.
StageFits ==
  phase \in {"data", "status"} /\ ~PKTDIS /\ Reached =>
    Forgotten \/ Refusing \/ Confirming \/ Sending \/ AwaitingStatus

HostFits == OneIn /\ CurrentNotArmed /\ Recovering /\ Requested /\ Agreed /\ StageFits

----------------------------------------------------------------------------
(* One IN entry at a time.                                                  *)

LEMMA SendTypes ==
  ASSUME UsbTypeOK
  PROVE  /\ inNext \in Entries /\ active["in"] \in Entries
         /\ in \in [Entries -> InEntries]
         /\ \A i \in Entries : in[i] \in InEntries /\ in[i].own \in Owners /\ in[i].dts \in {0, 1}
              /\ in[i].cnt \in Nat /\ in[i].cnt <= EP0_SIZE
         /\ Other(inNext) \in Entries /\ Other(inNext) # inNext /\ Other(Other(inNext)) = inNext
<1>1. inNext \in Entries /\ in \in [Entries -> InEntries]
  BY DEF UsbTypeOK
<1>2. active["in"] \in Entries
  BY ActiveType DEF Directions
<1>3. \A i \in Entries : in[i] \in InEntries
  BY <1>1
<1>4. \A x \in InEntries : x.own \in Owners /\ x.dts \in {0, 1} /\ x.cnt \in 0 .. EP0_SIZE
  BY DEF InEntries
<1>5. \A c \in 0 .. EP0_SIZE : c \in Nat /\ c <= EP0_SIZE
  BY DeviceAssumption
<1> QED BY <1>1, <1>2, <1>3, <1>4, <1>5, TwoEntries

sendVars == <<in, active, fifo, inNext>>

LEMMA SameSend == OneIn /\ UNCHANGED sendVars => OneIn' /\ (InPending' <=> InPending)
BY DEF OneIn, InPending, sendVars

\* The queue is empty, or all entries are where they were at the start.
LEMMA NothingIn ==
  ASSUME fifo' = <<>>, in'[Other(inNext')].own = "cpu", active'["in"] = inNext'
  PROVE  OneIn' /\ ~InPending'
<1>1. 1 .. Len(fifo') = {}
  OBVIOUS
<1> QED BY <1>1 DEF OneIn, InPending

LEMMA InServed ==
  ASSUME UsbTypeOK, OneIn, fifo # <<>>, fifo[1][1] = "in", fifo' = Tail(fifo),
         active'["in"] = active["in"], inNext' = Other(inNext), in'[inNext].own = "cpu"
  PROVE  OneIn' /\ ~InPending' /\ active["in"] = Other(inNext)
<1>0. /\ Len(fifo) \in Nat /\ Len(fifo) >= 1 /\ Len(fifo') = Len(fifo) - 1
      /\ \A k \in 1 .. Len(fifo') : fifo'[k] = fifo[k + 1] /\ k + 1 \in 1 .. Len(fifo)
  BY ReceiveTypes, TailItems
<1>1. 1 \in 1 .. Len(fifo)
  BY <1>0
<1>2. InPending /\ active["in"] = Other(inNext)
  BY <1>1 DEF InPending, OneIn
<1>3. \A k \in 1 .. Len(fifo') : fifo'[k][1] # "in"
  <2> SUFFICES ASSUME NEW k \in 1 .. Len(fifo'), fifo'[k][1] = "in" PROVE FALSE
    OBVIOUS
  <2>1. k + 1 \in 1 .. Len(fifo) /\ fifo[k + 1][1] = "in"
    BY <1>0
  <2>2. k + 1 = 1
    BY <1>1, <2>1 DEF OneIn
  <2> QED BY <1>0, <2>2
<1>4. ~InPending'
  BY <1>3 DEF InPending
<1>5. in'[Other(inNext')].own = "cpu" /\ active'["in"] = inNext'
  BY <1>2, SendTypes
<1> QED BY <1>2, <1>3, <1>4, <1>5 DEF OneIn

\* An OUT transaction is served, or one comes in.
LEMMA OutServedIn ==
  ASSUME UsbTypeOK, OneIn, fifo # <<>>, fifo[1][1] # "in", fifo' = Tail(fifo),
         UNCHANGED <<in, active, inNext>>
  PROVE  OneIn' /\ (InPending' <=> InPending)
<1>0. /\ Len(fifo) \in Nat /\ Len(fifo) >= 1 /\ Len(fifo') = Len(fifo) - 1
      /\ \A k \in 1 .. Len(fifo') : fifo'[k] = fifo[k + 1] /\ k + 1 \in 1 .. Len(fifo)
  BY ReceiveTypes, TailItems
<1>1. InPending' => InPending
  BY <1>0 DEF InPending
<1>2. ASSUME InPending PROVE InPending'
  <2>1. PICK k \in 1 .. Len(fifo) : fifo[k][1] = "in"
    BY <1>2 DEF InPending
  <2>2. k # 1 /\ k - 1 \in 1 .. Len(fifo') /\ fifo'[k - 1] = fifo[(k - 1) + 1] /\ (k - 1) + 1 = k
    BY <1>0, <2>1
  <2> QED BY <2>1, <2>2 DEF InPending
<1>3. \A k, l \in 1 .. Len(fifo') : fifo'[k][1] = "in" /\ fifo'[l][1] = "in" => k = l
  <2> SUFFICES ASSUME NEW k \in 1 .. Len(fifo'), NEW l \in 1 .. Len(fifo'),
                      fifo'[k][1] = "in", fifo'[l][1] = "in"
               PROVE  k = l
    OBVIOUS
  <2>1. k + 1 = l + 1
    BY <1>0 DEF OneIn
  <2> QED BY <1>0, <2>1
<1>4. \A k \in 1 .. Len(fifo') : fifo'[k][1] = "in" => fifo'[k][2] = inNext'
  BY <1>0 DEF OneIn
<1> QED BY <1>1, <1>2, <1>3, <1>4 DEF OneIn

LEMMA OutAppended ==
  ASSUME UsbTypeOK, OneIn, NEW e \in Entries, fifo' = Append(fifo, <<"out", e>>),
         active'["in"] = active["in"], UNCHANGED <<in, inNext>>
  PROVE  OneIn' /\ (InPending' <=> InPending)
<1>1. <<"out", e>> \in Transactions
  BY DEF Transactions, Directions
<1>2. /\ Len(fifo) \in Nat /\ Len(fifo') = Len(fifo) + 1
      /\ \A k \in 1 .. Len(fifo) : fifo'[k] = fifo[k] /\ k \in 1 .. Len(fifo')
      /\ fifo'[Len(fifo')] = <<"out", e>>
  BY <1>1, ReceiveTypes, AppendItems
<1>3. \A k \in 1 .. Len(fifo') : fifo'[k][1] = "in" => k \in 1 .. Len(fifo) /\ fifo'[k] = fifo[k]
  <2>1. \A k \in 1 .. Len(fifo') : k \in 1 .. Len(fifo) \/ k = Len(fifo')
    BY <1>2
  <2>2. fifo'[Len(fifo')][1] # "in"
    BY <1>2
  <2> QED BY <1>2, <2>1, <2>2
<1>4. InPending' <=> InPending
  BY <1>2, <1>3 DEF InPending
<1> QED BY <1>3, <1>4 DEF OneIn

\* A packet can only go out while none waits to be served.
LEMMA ArmedIsNext ==
  ASSUME UsbTypeOK, OneIn, in[active["in"]].own # "cpu"
  PROVE  ~InPending /\ active["in"] = inNext
BY DEF OneIn

LEMMA InAppended ==
  ASSUME UsbTypeOK, OneIn, NEW address, SieIn(address)
  PROVE  /\ OneIn' /\ InPending'
         /\ in' = [in EXCEPT ![inNext].own = "cpu"]
         /\ fifo' = Append(fifo, <<"in", inNext>>)
<1>0. ~InPending /\ active["in"] = inNext /\ inNext \in Entries
  BY ArmedIsNext, SendTypes DEF SieIn
<1>1. /\ in' = [in EXCEPT ![inNext].own = "cpu"]
      /\ active'["in"] = Other(inNext) /\ inNext' = inNext
      /\ fifo' = Append(fifo, <<"in", inNext>>)
  <2>1. active' = [active EXCEPT !["in"] = Other(inNext)]
    BY <1>0 DEF SieIn
  <2>2. active'["in"] = Other(inNext)
    BY <2>1 DEF UsbTypeOK, Directions
  <2> QED BY <1>0, <2>2 DEF SieIn, pointers
<1>2. <<"in", inNext>> \in Transactions
  BY <1>0 DEF Transactions, Directions
<1>3. /\ Len(fifo) \in Nat /\ Len(fifo') = Len(fifo) + 1
      /\ \A k \in 1 .. Len(fifo) : fifo'[k] = fifo[k] /\ k \in 1 .. Len(fifo')
      /\ fifo'[Len(fifo')] = <<"in", inNext>>
  BY <1>1, <1>2, ReceiveTypes, AppendItems
<1>4. \A k \in 1 .. Len(fifo') : fifo'[k][1] = "in" => k = Len(fifo')
  <2>1. \A k \in 1 .. Len(fifo') : k \in 1 .. Len(fifo) \/ k = Len(fifo')
    BY <1>3
  <2>2. \A k \in 1 .. Len(fifo) : fifo[k][1] # "in"
    BY <1>0 DEF InPending
  <2> QED BY <1>3, <2>1, <2>2
<1>5. InPending'
  <2>1. Len(fifo') \in 1 .. Len(fifo')
    BY <1>3
  <2> QED BY <1>3, <2>1 DEF InPending
<1>6. in'[inNext].own = "cpu" /\ in'[Other(inNext)].own = "cpu"
  <2>1. in'[inNext].own = "cpu"
    BY <1>0, <1>1, SendTypes DEF InEntries
  <2>2. in'[Other(inNext)] = in[Other(inNext)]
    BY <1>1, SendTypes
  <2> QED BY <2>1, <2>2 DEF OneIn
<1> QED BY <1>1, <1>3, <1>4, <1>5, <1>6 DEF OneIn

----------------------------------------------------------------------------
(* A SETUP packet is served.                                                *)

\* What the host knows and waits for while the firmware is at work.
HostStill == UNCHANGED <<phase, req, toggle, got, known, addressing>>

LEMMA RequestIsWellFormed ==
  ASSUME UsbTypeOK, req = SetupPkt
  PROVE  /\ req.in <=> req.op \in ReadRequests
         /\ ~req.in => req.length = 0
         /\ req.op = "SET_ADDRESS" => req.value # 0 /\ req.value % 128 = req.value
         /\ req.length \in Nat /\ req.value \in 0 .. 255 /\ req.value \in Nat
<1>1. SetupPkt \in Requests /\ SetupPkt.length \in Nat /\ SetupPkt.value \in 0 .. 255
  BY SetupType, RequestFields
<1>2. \A v \in 1 .. 127 : v # 0 /\ v % 128 = v
  OBVIOUS
<1>3. req.op = "SET_ADDRESS" => req.value \in 1 .. 127
  BY <1>1, RequestAssumption
<1>4. req.op = "SET_ADDRESS" => req.value # 0 /\ req.value % 128 = req.value
  BY <1>2, <1>3
<1> QED BY <1>1, <1>4, RequestAssumption

LEMMA SetupAlone ==
  ASSUME UsbTypeOK, Queued, OneIn, NEW e \in Entries, NEW ops, ServingSetup(e, ops),
         fifo' = Tail(fifo)
  PROVE  PKTDIS /\ ~InPending /\ active["in"] = inNext /\ fifo' = <<>> /\ out[e].own = "cpu"
<1>1. /\ fifo # <<>> /\ fifo[1] = <<"out", e>> /\ out[e].pid = "SETUP"
      /\ Len(fifo) \in Nat /\ Len(fifo) >= 1 /\ Len(fifo') = Len(fifo) - 1
  BY TailItems, ReceiveTypes DEF ServingSetup, Serving
<1>2. fifo' = <<>> /\ Len(fifo') = 0 /\ out[e].own = "cpu"
  BY SetupServed
<1>3. Len(fifo) = 1
  <2>1. \A a \in Nat : \A b : b = a - 1 /\ b = 0 => a = 1
    OBVIOUS
  <2> QED BY <1>1, <1>2, <2>1, Zenon
<1>4. PKTDIS
  <2>1. Pending(1, "SETUP") /\ 1 \in 1 .. Len(fifo)
    BY <1>1 DEF Pending
  <2> QED BY <2>1 DEF Queued
<1>5. ~InPending
  <2>1. \A k \in 1 .. Len(fifo) : k = 1
    BY <1>3
  <2>2. fifo[1][1] # "in"
    BY <1>1
  <2> QED BY <2>1, <2>2 DEF InPending
<1> QED BY <1>2, <1>4, <1>5 DEF OneIn

LEMMA PacketFieldValues ==
  \A dts, cnt : /\ InPacket(dts, cnt).own = "armed" /\ InPacket(dts, cnt).dts = dts
                /\ InPacket(dts, cnt).cnt = cnt
BY DEF InPacket

\* A request that leaves the pointers where they are.
LEMMA StageIn ==
  ASSUME UsbTypeOK, Queued, OneIn, NEW e \in Entries, NEW ops, ServingSetup(e, ops),
         SetupHandled(e), SamePointers(e),
         \/ Unclaimed(e)
         \/ \E source, size : ControlRead(e, source, size)
         \/ NoDataStage(out, ReclaimedIn, Other(e), inNext)
  PROVE  /\ OneIn' /\ CurrentNotArmed' /\ ~InPending'
         /\ PKTDIS /\ ~InPending /\ fifo' = <<>>
<1>1. fifo' = Tail(fifo) /\ outCurrent' = e /\ UNCHANGED <<inNext, active>>
  BY DEF SetupHandled, Served, SamePointers
<1>2. PKTDIS /\ ~InPending /\ active["in"] = inNext /\ fifo' = <<>> /\ out[e].own = "cpu"
  BY <1>1, SetupAlone
<1>3. in'[Other(inNext)].own = "cpu"
  <2>1. ReclaimedIn[Other(inNext)] = [own |-> "cpu", dts |-> 0, cnt |-> 0]
    BY SendTypes DEF ReclaimedIn, ClearedIn
  <2>2. in'[Other(inNext)] = ReclaimedIn[Other(inNext)]
    BY SendTypes, ClearedType DEF Unclaimed, ControlRead, NoDataStage, ReclaimedIn
  <2> QED BY <2>1, <2>2
<1>4. CurrentNotArmed'
  <2>1. Other(e) \in Entries /\ Other(e) # e /\ out \in [Entries -> OutEntries]
    BY TwoEntries DEF UsbTypeOK
  <2>2. out'[e] = out[e] \/ out'[e] = StallEntry
    BY <2>1 DEF Unclaimed, ControlRead, NoDataStage
  <2>3. StallEntry.own = "stall"
    BY DEF StallEntry
  <2> QED BY <1>1, <1>2, <2>2, <2>3 DEF CurrentNotArmed
<1> QED BY <1>1, <1>2, <1>3, <1>4, NothingIn

LEMMA RefusedStage ==
  ASSUME UsbTypeOK, NEW e \in Entries, Unclaimed(e), fifo' = <<>>, HostStill,
         inNext' = inNext, ~Supported(req), got = 0, phase = FirstStage(req)
  PROVE  Refusing'
<1>1. in'[inNext].own = "stall"
  <2>1. ReclaimedIn[inNext] \in InEntries /\ inNext \in DOMAIN ReclaimedIn
    BY SendTypes, ClearedType DEF ReclaimedIn
  <2> QED BY <2>1 DEF Unclaimed, InEntries
<1>2. ~Supported(req)' /\ FirstStage(req)' = FirstStage(req)
  BY DEF HostStill, Supported, Wanted, FirstStage, StatusIn
<1> QED BY <1>1, <1>2 DEF Refusing, HostStill

LEMMA ConfirmedStage ==
  ASSUME UsbTypeOK, NEW e \in Entries, NoDataStage(out, ReclaimedIn, Other(e), inNext),
         fifo' = <<>>, HostStill, inNext' = inNext, Supported(req), StatusIn(req),
         phase = "status", Fulfilled'
  PROVE  Confirming'
<1>1. in'[inNext] = InPacket(1, 0)
  BY SendTypes, ClearedType DEF NoDataStage, ReclaimedIn
<1>2. in'[inNext].own = "armed" /\ in'[inNext].dts = 1
  BY <1>1, PacketFieldValues
<1>3. Supported(req)' /\ StatusIn(req)'
  BY DEF HostStill, Supported, Wanted, StatusIn
<1> QED BY <1>2, <1>3 DEF Confirming, HostStill

LEMMA ReadStage ==
  ASSUME UsbTypeOK, NEW e \in Entries, NEW source \in Sources, NEW size \in Nat,
         ControlRead(e, source, size), active["out"] = Other(e),
         UNCHANGED <<active, inNext, SetupPkt>>, fifo' = <<>>,
         HostStill, req = SetupPkt, Supported(req), req.op \in ReadRequests,
         size = Offered(req), Genuine(req, source), got = 0, toggle = 1, phase = FirstStage(req)
  PROVE  Confirming' \/ Sending'
<1> DEFINE total == Smaller(SetupPkt.length, size)
           n == Smaller(EP0_SIZE, total)
           pipe == [source |-> source, pos |-> 0, wCount |-> total]
<1>0. total \in Nat /\ EP0_SIZE \in Nat /\ EP0_SIZE > 0 /\ SetupPkt.length \in Nat
  BY SetupType, DeviceAssumption DEF Smaller
<1>1. /\ in' = [ReclaimedIn EXCEPT ![inNext] = InPacket(1, n)]
      /\ CtrlTrfData' = <<source, 0>>
      /\ inPipe' = AfterPacket(pipe)
      /\ shortPacketStatus' = NextShortPacket("NOT_USED", total)
      /\ controlTransferState' = "CTRL_TRF_TX"
      /\ out' = [out EXCEPT ![e] = StallEntry, ![Other(e)] = StatusEntry]
  BY DEF ControlRead
<1>2. /\ AfterPacket(pipe).source = source /\ AfterPacket(pipe).pos = 0 + n
      /\ AfterPacket(pipe).wCount = total - n
  <2>1. AfterPacket(pipe) = [pipe EXCEPT !.pos = @ + n, !.wCount = @ - n]
    BY DEF AfterPacket
  <2> HIDE DEF n
  <2> QED BY <2>1
<1>3. /\ inPipe'.source = source /\ inPipe'.pos = n /\ inPipe'.wCount = total - n
      /\ n \in Nat /\ n <= EP0_SIZE /\ n <= total /\ (n < EP0_SIZE => n = total)
  BY <1>0, <1>1, <1>2 DEF Smaller
<1>4. in'[inNext] = InPacket(1, n)
  BY <1>1, SendTypes, ClearedType DEF ReclaimedIn
<1>5. in'[inNext].own = "armed" /\ in'[inNext].dts = 1 /\ in'[inNext].cnt = n
  BY <1>4, PacketFieldValues
<1>6. out'[active'["out"]].own = "armed"
  <2>1. Other(e) \in Entries /\ out \in [Entries -> OutEntries] /\ StatusEntry.own = "armed"
    BY TwoEntries DEF UsbTypeOK, StatusEntry
  <2>2. out'[Other(e)] = StatusEntry
    BY <1>1, <2>1
  <2> QED BY <2>1, <2>2
<1>7. shortPacketStatus' = IF n = EP0_SIZE THEN "NOT_USED" ELSE "PENDING"
  BY <1>0, <1>1 DEF NextShortPacket, Smaller
<1>8. Supported(req)' /\ StatusIn(req)' = StatusIn(req) /\ Promised' = total /\ Promised = total
  <2>1. Supported(req)' /\ StatusIn(req)' = StatusIn(req)
    BY DEF HostStill, Supported, Wanted, StatusIn
  <2>2. Offered(req)' = Offered(req)
    BY DEF HostStill, Offered, Wanted
  <2> QED BY <2>1, <2>2 DEF HostStill, Promised
<1>9. Genuine(req, inPipe.source)'
  BY <1>3 DEF HostStill, Genuine, Fits, Wanted
<1>10. UNCHANGED <<phase, req, toggle, got>>
  BY DEF HostStill
<1> HIDE DEF total, n, pipe
<1>11. CASE StatusIn(req)
  <2>1. phase = "status"
    BY <1>11 DEF FirstStage
  <2>2. Fulfilled'
    BY <1>10 DEF Fulfilled, ReadRequests
  <2> QED BY <1>5, <1>8, <1>10, <1>11, <2>1, <2>2 DEF Confirming
<1>12. CASE ~StatusIn(req)
  <2>1. phase = "data"
    BY <1>12 DEF FirstStage
  <2>2. PacketIsNext'
    <3>1. inPipe'.pos = got' + in'[inNext'].cnt
      BY <1>3, <1>5, <1>10
    <3>2. in'[inNext'].cnt < EP0_SIZE => inPipe'.wCount = 0
      BY <1>0, <1>3, <1>5
    <3> QED BY <1>1, <1>3, <1>5, <1>10, <3>1, <3>2 DEF PacketIsNext
  <2>3. inPipe'.pos + inPipe'.wCount = Promised'
    BY <1>0, <1>3, <1>8
  <2>4. shortPacketStatus' = IF in'[inNext'].cnt = EP0_SIZE THEN "NOT_USED" ELSE "PENDING"
    BY <1>5, <1>7
  <2> QED BY <1>1, <1>6, <1>8, <1>9, <1>10, <1>12, <2>1, <2>2, <2>3, <2>4 DEF Sending
<1> QED BY <1>11, <1>12

\* What the firmware makes of a request: what the host knows stays true, and the stage it waits
\* for goes on as it should.
WellServed ==
  /\ Reached => KnownFits' /\ AddressFits'
  /\ Reached /\ phase \in {"data", "status"} => Refusing' \/ Confirming' \/ Sending'

LEMMA SameAgreement ==
  ASSUME KnownFits, AddressFits, ~InPending, ~InPending', HostStill, UNCHANGED stateVars,
         UNCHANGED <<U1ADDR, SetupPkt>>, req.op # "SET_ADDRESS"
  PROVE  KnownFits' /\ AddressFits'
<1>1. KnownFits'
  BY DEF KnownFits, Fits, HostStill, stateVars
<1>2. USBDeviceState # "ADR_PENDING" /\ U1ADDR = known.address
  BY DEF AddressFits
<1> QED BY <1>1, <1>2 DEF AddressFits, HostStill, stateVars

\* What a SETUP packet waits with.
LEMMA SetupWaits ==
  ASSUME UsbTypeOK, Requested, PKTDIS
  PROVE  /\ req = SetupPkt
         /\ Reached => known = Doubted(req)
         /\ phase \in {"data", "status"} => phase = FirstStage(req) /\ got = 0 /\ toggle = 1
         /\ InTransfer /\ req.what = "ENDPOINT" /\ req.op \in {"SET_FEATURE", "CLEAR_FEATURE"} =>
              known.configuration \notin {0, Unknown}
         /\ Reached /\ req.op = "SET_ADDRESS" => known.address = 0 /\ known.configuration = 0
BY DEF Requested, InTransfer

ServesSetup(e, ops) == ServingSetup(e, ops) /\ SetupHandled(e) /\ SamePointers(e)

LEMMA ServesSetupFrame ==
  ASSUME UsbTypeOK, Queued, NEW e \in Entries, NEW ops, ServesSetup(e, ops)
  PROVE  /\ UNCHANGED <<active, inNext, SetupPkt, U1ADDR>> /\ PKTDIS' = FALSE
         /\ active["out"] = Other(e) /\ SetupPkt.op \in ops
<1>1. fifo' = Tail(fifo) /\ ServingSetup(e, ops)
  BY DEF ServesSetup, SetupHandled, Served
<1>2. active["out"] = Other(e)
  BY <1>1, SetupServed
<1> QED BY <1>2 DEF ServesSetup, SetupHandled, SamePointers, ServingSetup

\* A request that is read, and answered.
LEMMA ReadServed ==
  ASSUME UsbTypeOK, Queued, OneIn, Requested, Agreed, HostStill, NEW e \in Entries, NEW ops,
         ServesSetup(e, ops), NEW source \in Sources, NEW size \in Nat,
         ControlRead(e, source, size), UNCHANGED stateVars, req.op \in ReadRequests,
         Supported(req), size = Offered(req), Reached => Genuine(req, source)
  PROVE  OneIn' /\ CurrentNotArmed' /\ WellServed
<1>1. /\ OneIn' /\ CurrentNotArmed' /\ ~InPending' /\ PKTDIS /\ ~InPending /\ fifo' = <<>>
  BY StageIn DEF ServesSetup
<1>2. /\ UNCHANGED <<active, inNext, SetupPkt, U1ADDR>> /\ active["out"] = Other(e)
  BY ServesSetupFrame
<1>3. Reached => KnownFits' /\ AddressFits'
  BY <1>1, <1>2, SameAgreement DEF Agreed, ReadRequests
<1>4. Reached /\ phase \in {"data", "status"} => Confirming' \/ Sending'
  BY <1>1, <1>2, SetupWaits, ReadStage
<1> QED BY <1>1, <1>3, <1>4 DEF WellServed

\* A request that is refused.
LEMMA RefusalServed ==
  ASSUME UsbTypeOK, Queued, OneIn, Requested, Agreed, HostStill, NEW e \in Entries, NEW ops,
         ServesSetup(e, ops), Unclaimed(e), UNCHANGED stateVars, req.op # "SET_ADDRESS",
         Reached /\ phase \in {"data", "status"} => ~Supported(req)
  PROVE  OneIn' /\ CurrentNotArmed' /\ WellServed
<1>1. /\ OneIn' /\ CurrentNotArmed' /\ ~InPending' /\ PKTDIS /\ ~InPending /\ fifo' = <<>>
  BY StageIn DEF ServesSetup
<1>2. UNCHANGED <<active, inNext, SetupPkt, U1ADDR>>
  BY ServesSetupFrame
<1>3. Reached => KnownFits' /\ AddressFits'
  BY <1>1, <1>2, SameAgreement DEF Agreed
<1>4. Reached /\ phase \in {"data", "status"} => Refusing'
  BY <1>1, <1>2, SetupWaits, RefusedStage
<1> QED BY <1>1, <1>3, <1>4 DEF WellServed

\* A request that sets something, and is acknowledged.
LEMMA WriteServed ==
  ASSUME UsbTypeOK, Queued, OneIn, Requested, HostStill, NEW e \in Entries, NEW ops,
         ServesSetup(e, ops), Acknowledged(e), req.op \notin ReadRequests,
         Supported(req), Fulfilled', ~InPending' /\ PKTDIS /\ Reached => KnownFits' /\ AddressFits'
  PROVE  OneIn' /\ CurrentNotArmed' /\ WellServed
<1>1. ~req.in /\ req = SetupPkt
  BY RequestIsWellFormed DEF Requested
<1>2. NoDataStage(out, ReclaimedIn, Other(e), inNext)
  BY <1>1 DEF Acknowledged, Claimed
<1>3. /\ OneIn' /\ CurrentNotArmed' /\ ~InPending' /\ PKTDIS /\ ~InPending /\ fifo' = <<>>
  BY <1>2, StageIn DEF ServesSetup
<1>4. UNCHANGED <<active, inNext, SetupPkt, U1ADDR>>
  BY ServesSetupFrame
<1>5. phase \in {"data", "status"} => phase = "status" /\ StatusIn(req)
  BY <1>1, <1>3, SetupWaits DEF FirstStage, StatusIn
<1>6. Reached /\ phase \in {"data", "status"} => Confirming'
  BY <1>2, <1>3, <1>4, <1>5, ConfirmedStage
<1> QED BY <1>3, <1>6 DEF WellServed

\* What the host knows, field by field.
LEMMA DoubtedFields ==
  ASSUME known \in KnownType, NEW r
  PROVE  /\ Doubted(r).address = known.address
         /\ Doubted(r).configuration =
              IF r.op = "SET_CONFIGURATION" THEN Unknown ELSE known.configuration
         /\ Doubted(r).alternate =
              IF r.op \in {"SET_CONFIGURATION", "SET_INTERFACE"} THEN Unknown ELSE known.alternate
         /\ Doubted(r).wakeup =
              IF r.op \in {"SET_FEATURE", "CLEAR_FEATURE"} /\ r.what = "DEVICE" THEN Unknown
              ELSE known.wakeup
BY DEF Doubted, KnownType

LEMMA LearnedFields ==
  ASSUME known \in KnownType, NEW r
  PROVE  /\ Learned(r).address = IF r.op = "SET_ADDRESS" THEN r.value ELSE known.address
         /\ Learned(r).configuration =
              IF r.op = "SET_CONFIGURATION" THEN r.value ELSE known.configuration
         /\ Learned(r).alternate =
              IF r.op = "SET_CONFIGURATION" THEN 0
              ELSE IF r.op = "SET_INTERFACE" THEN r.value ELSE known.alternate
         /\ Learned(r).wakeup =
              IF r.op \in {"SET_FEATURE", "CLEAR_FEATURE"} /\ r.what = "DEVICE"
              THEN IF r.op = "SET_FEATURE" THEN 1 ELSE 0
              ELSE known.wakeup
BY DEF Learned, KnownType

LEMMA ConfigurationServed ==
  ASSUME UsbTypeOK, known \in KnownType, Queued, OneIn, Requested, Agreed, HostStill, NEW e \in Entries,
         SetConfiguration(e)
  PROVE  OneIn' /\ CurrentNotArmed' /\ WellServed
<1>1. /\ fifo' = Tail(fifo) /\ ServingSetup(e, {"SET_CONFIGURATION"})
      /\ SetupPkt.op = "SET_CONFIGURATION"
      /\ active' = [d \in Directions |-> 0] /\ PKTDIS' = FALSE
      /\ outCurrent' = 0 /\ inNext' = 0
      /\ NoDataStage([ClearedOut EXCEPT ![0].own = "cpu"], ClearedIn, 0, 0)
      /\ USBActiveConfiguration' = SetupPkt.value
      /\ USBDeviceState' = IF SetupPkt.value = 0 THEN "ADDRESS" ELSE "CONFIGURED"
      /\ USBAlternateInterface' = 0
      /\ UNCHANGED <<U1ADDR, SetupPkt, RemoteWakeup>>
  BY DEF SetConfiguration, ServingSetup, Served
<1>2. PKTDIS /\ ~InPending /\ fifo' = <<>>
  BY <1>1, SetupAlone
<1>3. 0 \in Entries /\ 1 \in Entries /\ Other(0) = 1 /\ "in" \in Directions
  BY DEF Entries, Other, Directions
<1>4. in'[0] = InPacket(1, 0) /\ in'[1] = ClearedIn[1]
  BY <1>1, <1>3, ClearedType DEF NoDataStage
<1>5. in'[0].own = "armed" /\ in'[0].dts = 1 /\ in'[1].own = "cpu"
  BY <1>3, <1>4, PacketFieldValues DEF ClearedIn
<1>6. OneIn' /\ ~InPending'
  BY <1>1, <1>2, <1>3, <1>5, NothingIn
<1>7. CurrentNotArmed'
  <2>1. out'[0] = StallEntry
    BY <1>1, <1>3, ClearedType DEF NoDataStage
  <2> QED BY <1>1, <2>1 DEF CurrentNotArmed, StallEntry
<1>8. req = SetupPkt /\ UNCHANGED <<phase, req, known>> /\ req.op = "SET_CONFIGURATION"
  BY <1>1, <1>2, SetupWaits DEF HostStill
<1>9. Reached => KnownFits' /\ AddressFits'
  <2> SUFFICES ASSUME Reached PROVE KnownFits' /\ AddressFits'
    OBVIOUS
  <2>1. known = Doubted(req) /\ KnownFits /\ AddressFits
    BY <1>2, SetupWaits DEF Agreed
  <2>2. known.configuration = Unknown /\ known.alternate = Unknown
    BY <1>8, <2>1, DoubtedFields
  <2>3. U1ADDR = known.address
    BY <1>2, <2>1 DEF AddressFits
  <2>4. KnownFits'
    BY <1>1, <1>8, <2>1, <2>2 DEF KnownFits, Fits
  <2>5. USBDeviceState' # "ADR_PENDING"
    BY <1>1
  <2> QED BY <1>1, <1>8, <2>3, <2>4, <2>5 DEF AddressFits
<1>10. phase \in {"data", "status"} => Confirming'
  <2> SUFFICES ASSUME phase \in {"data", "status"} PROVE Confirming'
    OBVIOUS
  <2>1. ~req.in
    BY <1>2, <1>8, RequestIsWellFormed DEF ReadRequests
  <2>2. phase = "status" /\ StatusIn(req)
    BY <1>2, <2>1, SetupWaits DEF FirstStage, StatusIn
  <2>3. Supported(req)' /\ StatusIn(req)'
    BY <1>8, <2>2 DEF Supported, StatusIn
  <2>4. Fulfilled'
    <3>1. req.value \in Nat
      BY <1>2, <1>8, RequestIsWellFormed
    <3>2. USBDeviceState' = "CONFIGURED" <=> req.value # 0
      BY <1>1, <1>8, <3>1
    <3> QED BY <1>1, <1>8, <3>2 DEF Fulfilled
  <2> QED BY <1>1, <1>2, <1>5, <1>8, <2>2, <2>3, <2>4 DEF Confirming
<1> QED BY <1>6, <1>7, <1>9, <1>10 DEF WellServed

LEMMA SetupFits ==
  ASSUME TypeOK, Queued, OneIn, Requested, Agreed, HostStill, USBCtrlTrfSetupHandler
  PROVE  OneIn' /\ CurrentNotArmed' /\ WellServed
<1>0. UsbTypeOK /\ known \in KnownType /\ req = SetupPkt
  BY TypeParts DEF TypeOK, Requested
<1> PICK e \in Entries :
      \/ SetAddress(e) \/ GetDescriptor(e) \/ SetConfiguration(e) \/ GetConfiguration(e)
      \/ GetStatus(e)  \/ Feature(e)       \/ GetInterface(e)     \/ SetInterface(e)
      \/ MassStorageRequest(e) \/ UnknownRequest(e)
  BY DEF USBCtrlTrfSetupHandler
<1>1. /\ req.in <=> req.op \in ReadRequests
      /\ ~req.in => req.length = 0
      /\ req.op = "SET_ADDRESS" => req.value # 0
      /\ req.length \in Nat /\ req.value \in Nat
  BY <1>0, RequestIsWellFormed
<1>2. Reached => KnownFits /\ AddressFits
  BY DEF Agreed
<1>3. UNCHANGED <<phase, req, toggle, got, known, addressing>>
  BY DEF HostStill
<1>4. CASE SetAddress(e)
  <2>1. ServesSetup(e, {"SET_ADDRESS"}) /\ Acknowledged(e) /\ req.op = "SET_ADDRESS"
    BY <1>0, <1>4 DEF SetAddress, ServesSetup, ServingSetup
  <2>2. /\ USBDeviceState' = "ADR_PENDING"
        /\ UNCHANGED <<USBActiveConfiguration, USBAlternateInterface, RemoteWakeup, U1ADDR>>
    BY <1>0, <1>4, <2>1, ServesSetupFrame DEF SetAddress
  <2>3. Supported(req) /\ Fulfilled' /\ req.op \notin ReadRequests
    BY <1>3, <2>1, <2>2 DEF Supported, Fulfilled, ReadRequests
  <2>4. ~InPending' /\ PKTDIS /\ Reached => KnownFits' /\ AddressFits'
    <3> SUFFICES ASSUME ~InPending', PKTDIS, Reached PROVE KnownFits' /\ AddressFits'
      OBVIOUS
    <3>1. known.address = 0 /\ known.configuration = 0 /\ (InTransfer \/ addressing)
      BY <1>0, <2>1, SetupWaits DEF Requested
    <3>2. U1ADDR = known.address
      BY <1>2, <3>1 DEF AddressFits
    <3>3. KnownFits'
      BY <1>2, <1>3, <2>2, <3>1 DEF KnownFits, Fits
    <3> QED BY <1>3, <2>1, <2>2, <3>1, <3>2, <3>3 DEF AddressFits, InTransfer
  <2> QED BY <1>0, <2>1, <2>3, <2>4, WriteServed
<1>5. CASE GetDescriptor(e)
  <2>1. /\ ServesSetup(e, {"GET_DESCRIPTOR"}) /\ req.op = "GET_DESCRIPTOR"
        /\ UNCHANGED stateVars
    BY <1>0, <1>5 DEF GetDescriptor, ServesSetup, ServingSetup
  <2>2. DescriptorKey = Wanted(req) /\ req.in /\ req.op \in ReadRequests
    BY <1>0, <1>1, <2>1 DEF DescriptorKey, Wanted, ReadRequests
  <2>3. Supported(req) <=> DescriptorKey \in DescriptorKeys
    BY <2>1, <2>2 DEF Supported
  <2>4. CASE DescriptorKey \in DescriptorKeys
    <3>1. ControlRead(e, DescriptorKey, BytesSent(DescriptorKey))
      BY <1>0, <1>5, <2>2, <2>4 DEF GetDescriptor
    <3>2. BytesSent(DescriptorKey) = Offered(req)
      BY <2>1, <2>2, <2>4, StatedLength DEF Offered
    <3>3. Genuine(req, DescriptorKey)
      BY <2>1, <2>2 DEF Genuine
    <3>4. DescriptorKey \in Sources /\ BytesSent(DescriptorKey) \in Nat
      BY <2>4, DescriptorLength
    <3> QED BY <1>0, <2>1, <2>2, <2>3, <2>4, <3>1, <3>2, <3>3, <3>4, ReadServed
  <2>5. CASE DescriptorKey \notin DescriptorKeys
    <3>1. Unclaimed(e)
      BY <1>5, <2>5 DEF GetDescriptor
    <3> QED BY <1>0, <2>1, <2>3, <2>5, <3>1, RefusalServed
  <2> QED BY <2>4, <2>5
<1>6. CASE SetConfiguration(e)
  BY <1>0, <1>6, ConfigurationServed
<1>7. CASE GetConfiguration(e)
  <2> DEFINE source == <<"CONFIGURATION", USBActiveConfiguration>>
  <2>1. /\ ServesSetup(e, {"GET_CONFIGURATION"}) /\ req.op = "GET_CONFIGURATION"
        /\ UNCHANGED stateVars /\ Claimed(e, source, 1)
    BY <1>0, <1>7 DEF GetConfiguration, ServesSetup, ServingSetup
  <2>2. req.op \in ReadRequests /\ Supported(req) /\ Offered(req) = 1
    BY <2>1 DEF ReadRequests, Supported, Offered
  <2>3. ControlRead(e, source, 1)
    BY <1>0, <1>1, <2>1, <2>2 DEF Claimed
  <2>4. Reached => Genuine(req, source)
    BY <1>2, <2>1 DEF Genuine, KnownFits
  <2>5. source \in Sources
    BY <1>0 DEF Sources, UsbTypeOK
  <2> QED BY <1>0, <2>1, <2>2, <2>3, <2>4, <2>5, ReadServed
<1>8. CASE GetStatus(e)
  <2>1. /\ ServesSetup(e, {"GET_STATUS"}) /\ req.op = "GET_STATUS" /\ UNCHANGED stateVars
    BY <1>0, <1>8 DEF GetStatus, ServesSetup, ServingSetup
  <2>2. PICK bits \in StatusBits : Claimed(e, <<"STATUS", bits>>, 2)
    BY <1>8 DEF GetStatus
  <2> DEFINE source == <<"STATUS", bits>>
  <2>3. req.op \in ReadRequests /\ Supported(req) /\ Offered(req) = 2
    BY <2>1 DEF ReadRequests, Supported, Offered
  <2>4. ControlRead(e, source, 2)
    BY <1>0, <1>1, <2>2, <2>3 DEF Claimed
  <2>5. Reached => Genuine(req, source)
    <3>1. req.what = "DEVICE" => bits = IF RemoteWakeup THEN 3 ELSE 1
      BY <1>0, <2>2 DEF StatusBits
    <3>2. Reached /\ known.wakeup # Unknown => known.wakeup = IF RemoteWakeup THEN 1 ELSE 0
      BY <1>2 DEF KnownFits, Fits
    <3>3. Reached /\ req.what = "DEVICE" /\ known.wakeup # Unknown => bits = 1 + 2 * known.wakeup
      BY <3>1, <3>2
    <3> QED BY <2>1, <3>3 DEF Genuine
  <2>6. source \in Sources
    <3>1. StatusBits \subseteq 0 .. 3
      BY DEF StatusBits
    <3> QED BY <3>1 DEF Sources
  <2> QED BY <1>0, <2>1, <2>3, <2>4, <2>5, <2>6, ReadServed
<1>9. CASE Feature(e)
  <2> DEFINE wakeup == SetupPkt.what = "DEVICE" /\ SetupPkt.value = 1
             halt == SetupPkt.what = "ENDPOINT" /\ SetupPkt.value = 0
                     /\ USBDeviceState = "CONFIGURED"
  <2>1. /\ ServesSetup(e, {"SET_FEATURE", "CLEAR_FEATURE"})
        /\ req.op \in {"SET_FEATURE", "CLEAR_FEATURE"}
        /\ UNCHANGED <<USBDeviceState, USBActiveConfiguration, USBAlternateInterface, U1ADDR>>
        /\ RemoteWakeup' = IF wakeup THEN SetupPkt.op = "SET_FEATURE" ELSE RemoteWakeup
        /\ IF wakeup \/ halt THEN Acknowledged(e) ELSE Unclaimed(e)
    <3>1. ServesSetup(e, {"SET_FEATURE", "CLEAR_FEATURE"})
      BY <1>9 DEF Feature, ServesSetup
    <3>2. UNCHANGED U1ADDR /\ req.op \in {"SET_FEATURE", "CLEAR_FEATURE"}
      BY <1>0, <3>1, ServesSetupFrame
    <3> QED BY <1>9, <3>1, <3>2 DEF Feature
  <2>2. Supported(req) <=> wakeup \/ (SetupPkt.what = "ENDPOINT" /\ SetupPkt.value = 0)
    BY <1>0, <2>1 DEF Supported
  <2>3. CASE wakeup \/ halt
    <3>1. Acknowledged(e) /\ Supported(req) /\ req.op \notin ReadRequests
      BY <2>1, <2>2, <2>3 DEF ReadRequests
    <3>2. Fulfilled'
      BY <1>0, <1>3, <2>1, <2>3 DEF Fulfilled
    <3>3. ~InPending' /\ PKTDIS /\ Reached => KnownFits' /\ AddressFits'
      <4> SUFFICES ASSUME ~InPending', PKTDIS, Reached PROVE KnownFits' /\ AddressFits'
        OBVIOUS
      <4>1. wakeup => known.wakeup = Unknown
        BY <1>0, <2>1, SetupWaits, DoubtedFields
      <4>2. KnownFits'
        BY <1>2, <1>3, <2>1, <4>1 DEF KnownFits, Fits
      <4>3. USBDeviceState # "ADR_PENDING" /\ U1ADDR = known.address
        BY <1>2, <2>1 DEF AddressFits
      <4> QED BY <1>3, <2>1, <4>2, <4>3 DEF AddressFits
    <3> QED BY <1>0, <2>1, <3>1, <3>2, <3>3, WriteServed
  <2>4. CASE ~(wakeup \/ halt)
    <3>1. Unclaimed(e) /\ UNCHANGED stateVars
      BY <2>1, <2>4 DEF stateVars
    <3>2. Reached /\ phase \in {"data", "status"} => ~Supported(req)
      <4> SUFFICES ASSUME Reached, phase \in {"data", "status"}, Supported(req) PROVE FALSE
        OBVIOUS
      <4>1. SetupPkt.what = "ENDPOINT" /\ USBDeviceState # "CONFIGURED"
        BY <2>2, <2>4
      <4>2. known.configuration \notin {0, Unknown}
        BY <1>0, <2>1, <4>1 DEF Requested, InTransfer
      <4> QED BY <1>2, <4>1, <4>2 DEF KnownFits
    <3> QED BY <1>0, <2>1, <3>1, <3>2, RefusalServed
  <2> QED BY <2>3, <2>4
<1>10. CASE GetInterface(e)
  <2> DEFINE source == <<"INTERFACE", USBAlternateInterface>>
  <2>1. /\ ServesSetup(e, {"GET_INTERFACE"}) /\ req.op = "GET_INTERFACE"
        /\ UNCHANGED stateVars /\ Claimed(e, source, 1)
    BY <1>0, <1>10 DEF GetInterface, ServesSetup, ServingSetup
  <2>2. req.op \in ReadRequests /\ Supported(req) /\ Offered(req) = 1
    BY <2>1 DEF ReadRequests, Supported, Offered
  <2>3. ControlRead(e, source, 1)
    BY <1>0, <1>1, <2>1, <2>2 DEF Claimed
  <2>4. Reached => Genuine(req, source)
    BY <1>2, <2>1 DEF Genuine, KnownFits
  <2>5. source \in Sources
    BY <1>0 DEF Sources, UsbTypeOK
  <2> QED BY <1>0, <2>1, <2>2, <2>3, <2>4, <2>5, ReadServed
<1>11. CASE SetInterface(e)
  <2>1. /\ ServesSetup(e, {"SET_INTERFACE"}) /\ Acknowledged(e) /\ req.op = "SET_INTERFACE"
    BY <1>0, <1>11 DEF SetInterface, ServesSetup, ServingSetup
  <2>2. /\ USBAlternateInterface' = req.value
        /\ UNCHANGED <<USBDeviceState, USBActiveConfiguration, RemoteWakeup, U1ADDR>>
    BY <1>0, <1>11, <2>1, ServesSetupFrame DEF SetInterface
  <2>3. Supported(req) /\ Fulfilled' /\ req.op \notin ReadRequests
    BY <1>3, <2>1, <2>2 DEF Supported, Fulfilled, ReadRequests
  <2>4. ~InPending' /\ PKTDIS /\ Reached => KnownFits' /\ AddressFits'
    <3> SUFFICES ASSUME ~InPending', PKTDIS, Reached PROVE KnownFits' /\ AddressFits'
      OBVIOUS
    <3>1. known.alternate = Unknown
      BY <1>0, <2>1, SetupWaits, DoubtedFields
    <3>2. KnownFits'
      BY <1>2, <1>3, <2>2, <3>1 DEF KnownFits, Fits
    <3>3. USBDeviceState # "ADR_PENDING" /\ U1ADDR = known.address
      BY <1>2, <2>1 DEF AddressFits
    <3> QED BY <1>3, <2>2, <3>2, <3>3 DEF AddressFits
  <2> QED BY <1>0, <2>1, <2>3, <2>4, WriteServed
<1>12. CASE MassStorageRequest(e)
  <2>1. /\ ServesSetup(e, {"MSD_RESET", "GET_MAX_LUN"})
        /\ req.op \in {"MSD_RESET", "GET_MAX_LUN"} /\ UNCHANGED stateVars
    BY <1>0, <1>12 DEF MassStorageRequest, ServesSetup, ServingSetup
  <2>2. Reached => KnownFits /\ U1ADDR = known.address /\ USBDeviceState # "ADR_PENDING"
    BY <1>2, <2>1 DEF AddressFits
  <2>3. CASE req.op = "MSD_RESET" /\ req.value = 0
    <3>1. Acknowledged(e)
      BY <1>0, <1>1, <1>12, <2>3 DEF MassStorageRequest, ReadRequests
    <3>2. Supported(req) /\ Fulfilled' /\ req.op \notin ReadRequests
      BY <1>3, <2>3 DEF Supported, Fulfilled, ReadRequests
    <3>3. ~InPending' /\ PKTDIS /\ Reached => KnownFits' /\ AddressFits'
      BY <1>3, <2>1, <2>2, <1>0, ServesSetupFrame DEF AddressFits, KnownFits, Fits, stateVars
    <3> QED BY <1>0, <2>1, <3>1, <3>2, <3>3, WriteServed
  <2>4. CASE req.op = "GET_MAX_LUN" /\ req.value = 0 /\ req.length = 1
    <3>1. req.op \in ReadRequests /\ Supported(req) /\ Offered(req) = 1
      BY <2>4 DEF ReadRequests, Supported, Offered
    <3>2. ControlRead(e, <<"MAX_LUN", 0>>, 1)
      BY <1>0, <1>1, <1>12, <2>4, <3>1 DEF MassStorageRequest, Claimed
    <3>3. Genuine(req, <<"MAX_LUN", 0>>)
      BY <2>4 DEF Genuine
    <3>4. <<"MAX_LUN", 0>> \in Sources
      BY DEF Sources
    <3> QED BY <1>0, <2>1, <3>1, <3>2, <3>3, <3>4, ReadServed
  <2>5. CASE ~(req.op = "MSD_RESET" /\ req.value = 0)
             /\ ~(req.op = "GET_MAX_LUN" /\ req.value = 0 /\ req.length = 1)
    <3>1. Unclaimed(e) /\ ~Supported(req) /\ req.op # "SET_ADDRESS"
      <4>1. Unclaimed(e)
        BY <1>0, <1>12, <2>5 DEF MassStorageRequest
      <4> QED BY <2>1, <2>5, <4>1 DEF Supported
    <3> QED BY <1>0, <2>1, <3>1, RefusalServed
  <2> QED BY <2>3, <2>4, <2>5
<1>13. CASE UnknownRequest(e)
  <2>1. /\ ServesSetup(e, {"SET_DESCRIPTOR", "SYNCH_FRAME"}) /\ Unclaimed(e)
        /\ req.op \in {"SET_DESCRIPTOR", "SYNCH_FRAME"} /\ UNCHANGED stateVars
    BY <1>0, <1>13 DEF UnknownRequest, ServesSetup, ServingSetup
  <2>2. ~Supported(req) /\ req.op # "SET_ADDRESS"
    BY <2>1 DEF Supported
  <2> QED BY <1>0, <2>1, <2>2, RefusalServed
<1> QED BY <1>4, <1>5, <1>6, <1>7, <1>8, <1>9, <1>10, <1>11, <1>12, <1>13

----------------------------------------------------------------------------
(* The other transactions are served.                                       *)

LEMMA OutHandlerFits ==
  ASSUME TypeOK, Queued, Ready, OneIn, Agreed, StageFits, HostStill, UNCHANGED excused,
         req = SetupPkt, USBCtrlTrfOutHandler
  PROVE  OneIn' /\ CurrentNotArmed' /\ Agreed' /\ StageFits' /\ (Reached' <=> Reached)
<1>0. UsbTypeOK
  BY TypeParts
<1> PICK e \in Entries :
      /\ Serving("out", e) /\ out[e].pid = "OUT" /\ Served
      /\ outCurrent' = e
      /\ out' = IF BothEP0OutUOWNsSet THEN out ELSE [out EXCEPT ![Other(e)] = StallEntry]
      /\ UNCHANGED <<in, PKTDIS, inNext, SetupPkt, stateVars>>
      /\ UNCHANGED <<active, U1ADDR, U1IR>>
  BY DEF USBCtrlTrfOutHandler, sieVars
<1>1. fifo # <<>> /\ fifo[1] = <<"out", e>> /\ 1 \in 1 .. Len(fifo) /\ fifo' = Tail(fifo)
  BY <1>0, TailItems, ReceiveTypes DEF Serving, Served
<1>2. Pending(1, "OUT")
  BY <1>1 DEF Pending
<1>3. out' = out
  BY <1>1, <1>2 DEF Ready
<1>4. OneIn' /\ (InPending' <=> InPending)
  <2>1. fifo[1][1] # "in"
    BY <1>1
  <2> QED BY <1>0, <1>1, <2>1, OutServedIn
<1>5. CurrentNotArmed'
  <2>1. out[e].own = "cpu"
    BY <1>1 DEF Queued
  <2> QED BY <1>3, <2>1 DEF CurrentNotArmed
<1>6. UNCHANGED <<USBDeviceState, USBActiveConfiguration, USBAlternateInterface, RemoteWakeup>>
      /\ UNCHANGED <<phase, req, toggle, got, known, addressing>>
  BY DEF stateVars, HostStill
<1>7. Reached' <=> Reached
  BY <1>6 DEF Reached
<1>8. Agreed'
  BY <1>4, <1>6, <1>7 DEF Agreed, KnownFits, Fits, AddressFits, InTransfer
<1>9. StageFits'
  <2> SUFFICES ASSUME phase \in {"data", "status"}, ~PKTDIS, Reached
               PROVE  AwaitingStatus'
    BY <1>6, <1>7 DEF StageFits
  <2>1. fifo # <<<<"in", inNext>>>>
    BY <1>1
  <2>2. AwaitingStatus
    BY <1>1, <2>1
       DEF StageFits, Forgotten, Refusing, Confirming, Sending, PacketIsNext, PacketWasRead
  <2>3. Supported(req)' /\ StatusIn(req)' = StatusIn(req)
    BY <1>6, <2>2 DEF AwaitingStatus, Supported, Wanted, StatusIn
  <2> QED BY <1>3, <1>6, <2>2, <2>3 DEF AwaitingStatus
<1> QED BY <1>4, <1>5, <1>7, <1>8, <1>9

\* The transaction of an IN packet; an address that is pending becomes the drive's.
LEMMA AddressTaken ==
  ASSUME UsbTypeOK, OneIn, Agreed, Requested, HostStill, fifo # <<>>, fifo[1][1] = "in",
         TakeAddress, ~InPending',
         UNCHANGED <<U1IR, SetupPkt, USBActiveConfiguration, USBAlternateInterface, RemoteWakeup>>
  PROVE  Agreed' /\ (Reached' <=> Reached) /\ (USBDeviceState' \in BeforeDefault => USBDeviceState' = USBDeviceState)
<1>0. InPending
  <2>1. 1 \in 1 .. Len(fifo)
    BY TailItems, ReceiveTypes
  <2> QED BY <2>1 DEF InPending
<1>1. req = SetupPkt /\ UNCHANGED <<phase, req, known, addressing>>
  BY DEF Requested, HostStill
<1>2. CASE USBDeviceState = "ADR_PENDING"
  <2>1. U1ADDR' = SetupPkt.value % 128 /\ USBDeviceState' \in {"DEFAULT", "ADDRESS"}
    BY <1>2 DEF TakeAddress
  <2>2. (Reached' <=> Reached) /\ USBDeviceState' \notin BeforeDefault
    BY <1>2, <2>1 DEF Reached, BeforeDefault
  <2>3. Reached => KnownFits' /\ AddressFits'
    <3> SUFFICES ASSUME Reached PROVE KnownFits' /\ AddressFits'
      OBVIOUS
    <3>1. KnownFits /\ AddressFits
      BY DEF Agreed
    <3>2. known.address = req.value
      BY <1>0, <1>2, <3>1 DEF AddressFits
    <3>3. KnownFits'
      BY <1>1, <1>2, <2>1, <3>1 DEF KnownFits, Fits
    <3>4. U1ADDR' = req.value
      BY <1>1, <1>2, <2>1, <3>1, RequestIsWellFormed DEF AddressFits
    <3> QED BY <1>1, <2>1, <3>2, <3>3, <3>4 DEF AddressFits
  <2> QED BY <2>2, <2>3 DEF Agreed
<1>3. CASE USBDeviceState # "ADR_PENDING"
  <2>1. UNCHANGED <<U1ADDR, USBDeviceState>>
    BY <1>3 DEF TakeAddress
  <2>2. Reached' <=> Reached
    BY <2>1 DEF Reached
  <2>3. Reached => KnownFits' /\ AddressFits'
    BY <1>1, <1>3, <2>1 DEF Agreed, KnownFits, Fits, AddressFits
  <2> QED BY <2>1, <2>2, <2>3 DEF Agreed
<1> QED BY <1>2, <1>3

\* The packet that goes on where the last one ended.
LEMMA NextPacketFits ==
  ASSUME UsbTypeOK, OneIn, Sending, HostStill, NextInPacket, fifo' = <<>>, fifo # <<>>,
         toggle \in {0, 1}, req = SetupPkt, in[inNext].own = "cpu"
  PROVE  Sending'
<1>1. /\ inNext' = Other(inNext) /\ CtrlTrfData' = <<inPipe.source, inPipe.pos>>
      /\ inPipe' = AfterPacket(inPipe)
      /\ shortPacketStatus' = NextShortPacket(shortPacketStatus, inPipe.wCount)
      /\ in' = [in EXCEPT ![Other(inNext)] =
                  IF shortPacketStatus' = "SENT" THEN [@ EXCEPT !.own = "stall", !.cnt = 0]
                  ELSE InPacket(1 - in[inNext].dts, Smaller(EP0_SIZE, inPipe.wCount))]
      /\ UNCHANGED <<out, active, controlTransferState, SetupPkt>>
  BY DEF NextInPacket, inFrame
<1>2. /\ inPipe.pos = got /\ in[inNext].dts = 1 - toggle
      /\ in[inNext].cnt = EP0_SIZE /\ got < req.length /\ shortPacketStatus = "NOT_USED"
  BY DEF Sending, PacketIsNext, PacketWasRead
<1>3. /\ inPipe \in Pipes /\ inPipe.wCount \in Nat /\ inPipe.pos \in Nat
      /\ EP0_SIZE \in Nat /\ EP0_SIZE > 0
  BY DeviceAssumption DEF UsbTypeOK, Pipes
<1> DEFINE n == Smaller(EP0_SIZE, inPipe.wCount)
<1>4. n \in Nat /\ n <= EP0_SIZE /\ n <= inPipe.wCount /\ (n < EP0_SIZE => n = inPipe.wCount)
  BY <1>3 DEF Smaller
<1>5. shortPacketStatus' = IF n = EP0_SIZE THEN "NOT_USED" ELSE "PENDING"
  BY <1>1, <1>2, <1>3 DEF NextShortPacket, Smaller
<1>6. in'[inNext'] = InPacket(toggle, n)
  <2>1. 1 - in[inNext].dts = toggle
    BY <1>2
  <2>2. in'[inNext'] = InPacket(1 - in[inNext].dts, n)
    <3>1. shortPacketStatus' # "SENT"
      BY <1>5
    <3> QED BY <1>1, <3>1, SendTypes
  <2> QED BY <2>1, <2>2
<1>7. in'[inNext'].own = "armed" /\ in'[inNext'].dts = toggle /\ in'[inNext'].cnt = n
  BY <1>6, PacketFieldValues
<1>8. /\ inPipe'.source = inPipe.source /\ inPipe'.pos = inPipe.pos + n
      /\ inPipe'.wCount = inPipe.wCount - n
  <2>1. AfterPacket(inPipe) = [inPipe EXCEPT !.pos = @ + n, !.wCount = @ - n]
    BY DEF AfterPacket
  <2> HIDE DEF n
  <2> QED BY <1>1, <1>3, <2>1 DEF Pipes
<1> HIDE DEF n
<1>9. UNCHANGED <<phase, req, toggle, got, known>>
  BY DEF HostStill
<1>10. Supported(req)' /\ ~StatusIn(req)' /\ Promised' = Promised
  <2>1. Supported(req)' /\ StatusIn(req)' = StatusIn(req)
    BY <1>9 DEF Sending, Supported, Wanted, StatusIn
  <2>2. Offered(req)' = Offered(req)
    BY <1>9 DEF Offered, Wanted
  <2> QED BY <1>9, <2>1, <2>2 DEF Sending, Promised
<1>11. Genuine(req, inPipe.source)'
  BY <1>8, <1>9 DEF Sending, Genuine, Fits, Wanted
<1>12. PacketIsNext'
  <2>1. inPipe'.pos = got' + in'[inNext'].cnt
    BY <1>2, <1>3, <1>7, <1>8, <1>9
  <2>2. CtrlTrfData' = <<inPipe'.source, got'>>
    BY <1>1, <1>2, <1>8, <1>9
  <2>3. in'[inNext'].cnt < EP0_SIZE => inPipe'.wCount = 0
    BY <1>3, <1>4, <1>7, <1>8
  <2> QED BY <1>7, <1>9, <2>1, <2>2, <2>3 DEF PacketIsNext
<1>13. inPipe'.pos + inPipe'.wCount = Promised'
  <2>1. inPipe'.pos + inPipe'.wCount = inPipe.pos + inPipe.wCount
    BY <1>3, <1>4, <1>8
  <2> QED BY <1>10, <2>1 DEF Sending
<1>14. shortPacketStatus' = IF in'[inNext'].cnt = EP0_SIZE THEN "NOT_USED" ELSE "PENDING"
  BY <1>5, <1>7
<1>15. phase = "data" /\ out[active["out"]].own = "armed" /\ controlTransferState = "CTRL_TRF_TX"
  BY DEF Sending
<1> QED BY <1>1, <1>9, <1>10, <1>11, <1>12, <1>13, <1>14, <1>15 DEF Sending

LEMMA InHandlerFits ==
  ASSUME TypeOK, OneIn, CurrentNotArmed, Requested, Agreed, StageFits, HostStill,
         UNCHANGED excused, NextInPacket \/ StatusInDone
  PROVE  /\ OneIn' /\ CurrentNotArmed' /\ Agreed' /\ StageFits' /\ (Reached' <=> Reached)
         /\ (USBDeviceState' \in BeforeDefault => USBDeviceState' = USBDeviceState)
<1>0. UsbTypeOK /\ req = SetupPkt /\ toggle \in {0, 1}
  BY TypeParts DEF TypeOK, Requested
<1>1. /\ fifo # <<>> /\ fifo[1][1] = "in" /\ fifo' = Tail(fifo) /\ inNext' = Other(inNext)
      /\ TakeAddress /\ UNCHANGED inFrame
      /\ controlTransferState = "CTRL_TRF_TX" => NextInPacket
  <2>1. PICK e \in Entries : Serving("in", e) /\ Served /\ inNext' = Other(inNext) /\ TakeAddress
                             /\ UNCHANGED inFrame
    BY DEF NextInPacket, StatusInDone
  <2>2. controlTransferState = "CTRL_TRF_TX" => NextInPacket
    BY DEF StatusInDone
  <2>3. fifo # <<>> /\ fifo[1] = <<"in", e>> /\ fifo' = Tail(fifo)
    BY <1>0, <2>1, TailItems DEF Serving, Served
  <2> QED BY <2>1, <2>2, <2>3
<1>2. InPending /\ in[inNext].own = "cpu"
  <2>1. 1 \in 1 .. Len(fifo)
    BY <1>0, <1>1, TailItems, ReceiveTypes
  <2> QED BY <1>1, <2>1 DEF InPending, OneIn
<1>3. in'[inNext].own = "cpu"
  BY <1>0, <1>2, SendTypes DEF NextInPacket, StatusInDone
<1>4. OneIn' /\ ~InPending'
  BY <1>0, <1>1, <1>3, InServed DEF inFrame
<1>5. /\ UNCHANGED <<out, active, PKTDIS, U1IR, outCurrent, SetupPkt, USBActiveConfiguration>>
      /\ UNCHANGED <<USBAlternateInterface, RemoteWakeup>>
      /\ UNCHANGED <<phase, req, toggle, got, known, addressing>>
  BY <1>1 DEF inFrame, HostStill
<1>6. Agreed' /\ (Reached' <=> Reached)
      /\ (USBDeviceState' \in BeforeDefault => USBDeviceState' = USBDeviceState)
  BY <1>0, <1>1, <1>4, <1>5, AddressTaken
<1>7. StageFits'
  <2> SUFFICES ASSUME phase \in {"data", "status"}, ~PKTDIS, Reached
               PROVE  Sending' \/ AwaitingStatus'
    BY <1>5, <1>6 DEF StageFits
  <2>1. Sending \/ AwaitingStatus
    BY <1>1 DEF StageFits, Forgotten, Refusing, Confirming
  <2>2. CASE Sending
    <3>1. NextInPacket
      BY <1>1, <2>2 DEF Sending
    <3>2. fifo' = <<>>
      <4>1. fifo = <<<<"in", inNext>>>>
        BY <1>1, <2>2 DEF Sending, PacketIsNext, PacketWasRead
      <4>2. Len(fifo) = 1
        BY <4>1
      <4> QED BY <1>0, <1>1, <4>2, TailItems
    <3> QED BY <1>0, <1>1, <1>2, <2>2, <3>1, <3>2, NextPacketFits
  <2>3. CASE AwaitingStatus
    <3>1. Supported(req)' /\ StatusIn(req)' = StatusIn(req)
      BY <1>5, <2>3 DEF AwaitingStatus, Supported, Wanted, StatusIn
    <3> QED BY <1>5, <2>3, <3>1 DEF AwaitingStatus
  <2> QED BY <2>1, <2>2, <2>3
<1>8. CurrentNotArmed'
  BY <1>5 DEF CurrentNotArmed
<1> QED BY <1>4, <1>6, <1>7, <1>8

----------------------------------------------------------------------------
(* The steps of the firmware.                                               *)

fitVars == <<in, out, active, fifo, PKTDIS, U1ADDR, outCurrent, inNext, controlTransferState,
             shortPacketStatus, inPipe, SetupPkt, CtrlTrfData, stateVars>>

LEMMA SameFits ==
  ASSUME HostFits, HostStill, UNCHANGED fitVars, excused => excused',
         "URSTIF" \in U1IR' <=> "URSTIF" \in U1IR,
         "URSTIF" \in U1IR /\ phase \in {"idle", "setup", "data", "status"} =>
           task' \in {"activity", "reset"}
  PROVE  HostFits'
<1>1. /\ UNCHANGED <<in, out, active, fifo, PKTDIS, U1ADDR, outCurrent, inNext>>
      /\ UNCHANGED <<controlTransferState, shortPacketStatus, inPipe, SetupPkt, CtrlTrfData>>
      /\ UNCHANGED <<USBDeviceState, USBActiveConfiguration, USBAlternateInterface, RemoteWakeup>>
      /\ UNCHANGED <<phase, req, toggle, got, known, addressing>>
  BY DEF fitVars, stateVars, HostStill
<1>2. (Reached' <=> Reached) /\ (InTransfer' <=> InTransfer)
  BY <1>1 DEF Reached, InTransfer
<1>3. OneIn' /\ (InPending' <=> InPending)
  BY <1>1, SameSend DEF HostFits, sendVars
<1>4. CurrentNotArmed'
  BY <1>1 DEF HostFits, CurrentNotArmed
<1>5. Recovering'
  BY <1>1, <1>2 DEF HostFits, Recovering
<1>6. Requested'
  BY <1>1, <1>2 DEF HostFits, Requested, FirstStage, StatusIn, Doubted
<1>7. Agreed'
  BY <1>1, <1>2, <1>3 DEF HostFits, Agreed, KnownFits, Fits, AddressFits
<1>8. StageFits'
  <2>1. Supported(req)' = Supported(req) /\ Promised' = Promised
    BY <1>1 DEF Supported, Wanted, Promised, Offered
  <2>2. Genuine(req, inPipe.source)' = Genuine(req, inPipe.source)
    BY <1>1 DEF Genuine, Wanted, Fits
  <2>3. StatusIn(req)' = StatusIn(req) /\ FirstStage(req)' = FirstStage(req)
    BY <1>1 DEF StatusIn, FirstStage
  <2>4. Fulfilled => Fulfilled'
    BY <1>1 DEF Fulfilled
  <2>5. Forgotten => Forgotten'
    BY <1>1, <2>3 DEF Forgotten
  <2>6. Refusing => Refusing'
    BY <1>1, <2>1, <2>3 DEF Refusing
  <2>7. Confirming => Confirming'
    BY <1>1, <2>1, <2>3, <2>4 DEF Confirming
  <2>8. Sending => Sending'
    <3>1. (PacketIsNext => PacketIsNext') /\ (PacketWasRead => PacketWasRead')
      BY <1>1 DEF PacketIsNext, PacketWasRead
    <3> QED BY <1>1, <2>1, <2>2, <2>3, <3>1 DEF Sending
  <2>9. AwaitingStatus => AwaitingStatus'
    BY <1>1, <2>1, <2>3 DEF AwaitingStatus
  <2> QED BY <1>1, <1>2, <2>5, <2>6, <2>7, <2>8, <2>9 DEF HostFits, StageFits
<1> QED BY <1>3, <1>4, <1>5, <1>6, <1>7, <1>8 DEF HostFits

\* A transaction is served: the device has seen the last reset, unless the host is still silent.
LEMMA ServedRecovers ==
  ASSUME Recovering, Requested, HostStill, task \in {"drain", "more"}, fifo # <<>>,
         UNCHANGED <<U1IR, SetupPkt>>, PKTDIS' => PKTDIS,
         USBDeviceState' \in BeforeDefault => USBDeviceState' = USBDeviceState
  PROVE  Recovering' /\ Requested' /\ (Reached' <=> Reached)
<1>1. UNCHANGED <<phase, req, toggle, got, known, addressing>>
  BY DEF HostStill
<1>2. USBDeviceState \notin BeforeDefault /\ USBDeviceState' \notin BeforeDefault
  BY DEF Recovering
<1>3. (Reached' <=> Reached) /\ (InTransfer' <=> InTransfer)
  BY <1>1, <1>2 DEF Reached, InTransfer
<1>4. phase # "attach" /\ ("URSTIF" \in U1IR => phase \notin {"idle", "setup", "data", "status"})
  BY <1>2 DEF Recovering
<1>5. Recovering'
  BY <1>1, <1>2, <1>3, <1>4 DEF Recovering, InTransfer
<1>6. Requested'
  BY <1>1, <1>3 DEF Requested, FirstStage, StatusIn, Doubted
<1> QED BY <1>3, <1>5, <1>6

LEMMA InitFits ==
  ASSUME TypeOK, HostFits, HostStill, USBDeviceInit, excused' = TRUE
  PROVE  HostFits'
<1>1. /\ "URSTIF" \in U1IR /\ U1IR' = {} /\ U1ADDR' = 0 /\ PKTDIS' = FALSE
      /\ out' = ClearedOut /\ in' = ClearedIn
      /\ active' = [d \in Directions |-> 0] /\ fifo' = <<>> /\ inNext' = 0
      /\ USBActiveConfiguration' = 0 /\ USBDeviceState' = "DEFAULT"
      /\ UNCHANGED <<outCurrent, SetupPkt>>
  BY DEF USBDeviceInit
<1>2. UNCHANGED <<phase, req, toggle, got, known, addressing>>
  BY DEF HostStill
<1>3. ~Reached /\ Reached' /\ known = Fresh
  BY <1>1 DEF Reached, BeforeDefault, HostFits, Recovering
<1>4. \A i \in Entries : in'[i].own = "cpu"
  BY <1>1 DEF ClearedIn
<1>5. OneIn' /\ ~InPending'
  <2>1. Other(0) \in Entries /\ "in" \in Directions
    BY DEF Entries, Other, Directions
  <2> QED BY <1>1, <1>4, <2>1, NothingIn
<1>6. CurrentNotArmed'
  <2>1. outCurrent \in Entries
    BY TypeParts DEF UsbTypeOK
  <2> QED BY <1>1, <2>1 DEF CurrentNotArmed, ClearedOut, StallEntry
<1>7. Recovering'
  <2>1. phase # "attach"
    BY <1>1 DEF HostFits, Recovering
  <2> QED BY <1>1, <1>2, <1>3, <2>1 DEF Recovering, BeforeDefault
<1>8. Requested'
  BY <1>1, <1>2 DEF HostFits, Requested, InTransfer
<1>9. Agreed'
  <2>1. /\ known'.address = 0 /\ known'.configuration = 0 /\ known'.alternate = Unknown
        /\ known'.wakeup = Unknown
    BY <1>2, <1>3 DEF Fresh
  <2> QED BY <1>1, <2>1 DEF Agreed, KnownFits, Fits, AddressFits
<1>10. StageFits'
  <2> SUFFICES ASSUME phase \in {"data", "status"} PROVE Forgotten'
    BY <1>2 DEF StageFits
  <2>1. PKTDIS
    BY <1>1 DEF HostFits, Recovering, InTransfer
  <2>2. phase = FirstStage(req) /\ got = 0
    BY <2>1 DEF HostFits, Requested, InTransfer
  <2> QED BY <1>1, <1>2, <1>4, <2>2 DEF Forgotten, FirstStage, StatusIn
<1> QED BY <1>5, <1>6, <1>7, <1>8, <1>9, <1>10 DEF HostFits

LEMMA AttachFits ==
  ASSUME TypeOK, Wakeable, HostFits, HostStill, Attach
  PROVE  HostFits'
<1>1. /\ UNCHANGED <<in, out, active, fifo, PKTDIS, outCurrent, inNext, SetupPkt>>
      /\ USBDeviceState \in {"DETACHED", "ATTACHED"} /\ USBDeviceState' \in {"ATTACHED", "POWERED"}
      /\ U1IR' \in {U1IR, {}}
  BY DEF Attach, pointers
<1>2. UNCHANGED <<phase, req, toggle, got, known, addressing>> /\ phase = "attach"
  BY <1>1 DEF HostStill, Wakeable
<1>3. ~Reached /\ ~Reached' /\ known = Fresh /\ ~InTransfer /\ ~InTransfer' /\ fifo = <<>>
  BY <1>1, <1>2 DEF Reached, BeforeDefault, InTransfer, HostFits, Recovering
<1>4. OneIn'
  BY <1>1, SameSend DEF HostFits, sendVars
<1>5. CurrentNotArmed'
  BY <1>1 DEF HostFits, CurrentNotArmed
<1>6. Recovering'
  <2>1. "URSTIF" \notin U1IR'
    BY <1>1, <1>2 DEF HostFits, Recovering
  <2> QED BY <1>1, <1>2, <1>3, <2>1 DEF Recovering, BeforeDefault
<1>7. Requested'
  BY <1>1, <1>2, <1>3 DEF HostFits, Requested
<1>8. Agreed' /\ StageFits'
  BY <1>3 DEF Agreed, StageFits
<1> QED BY <1>4, <1>5, <1>6, <1>7, <1>8 DEF HostFits

LEMMA SetupHandlerFits ==
  ASSUME TypeOK, Queued, HostFits, HostStill, USBCtrlTrfSetupHandler
  PROVE  HostFits'
<1>1. OneIn' /\ CurrentNotArmed' /\ WellServed
  BY SetupFits DEF HostFits
<1>2. /\ task \in {"drain", "more"} /\ fifo # <<>> /\ PKTDIS' = FALSE
      /\ UNCHANGED <<U1IR, SetupPkt>>
  BY DEF USBCtrlTrfSetupHandler, SetAddress, GetDescriptor, SetConfiguration, GetConfiguration,
         GetStatus, Feature, GetInterface, SetInterface, MassStorageRequest, UnknownRequest,
         ServingSetup, Serving, SetupHandled
<1>3. USBDeviceState' \in BeforeDefault => USBDeviceState' = USBDeviceState
  BY StateKept DEF BeforeDefault
<1>4. Recovering' /\ Requested' /\ (Reached' <=> Reached)
  BY <1>2, <1>3, ServedRecovers DEF HostFits
<1>5. Agreed' /\ StageFits'
  BY <1>1, <1>4 DEF WellServed, Agreed, StageFits, HostStill
<1> QED BY <1>1, <1>4, <1>5 DEF HostFits

LEMMA OtherHandlersFit ==
  ASSUME TypeOK, Queued, Ready, HostFits, HostStill, UNCHANGED excused,
         USBCtrlTrfOutHandler \/ NextInPacket \/ StatusInDone
  PROVE  HostFits'
<1>1. /\ task \in {"drain", "more"} /\ fifo # <<>> /\ PKTDIS' = PKTDIS
      /\ UNCHANGED <<U1IR, SetupPkt>>
  BY DEF USBCtrlTrfOutHandler, NextInPacket, StatusInDone, Serving, inFrame, sieVars
<1>2. OneIn' /\ CurrentNotArmed' /\ Agreed' /\ StageFits'
  BY OutHandlerFits, InHandlerFits DEF HostFits, Requested
<1>3. USBDeviceState' \in BeforeDefault => USBDeviceState' = USBDeviceState
  BY StateKept DEF BeforeDefault
<1>4. Recovering' /\ Requested'
  BY <1>1, <1>3, ServedRecovers DEF HostFits
<1> QED BY <1>2, <1>4 DEF HostFits

\* The steps of a call that only look at the flags.
LEMMA QuietStepsFit ==
  ASSUME HostFits, HostStill, UNCHANGED excused,
         \/ USBWakeFromSuspend \/ StayAwake \/ NoReset \/ USBSuspend \/ USBStallHandler \/ EndCall
  PROVE  HostFits'
<1>1. CurrentNotArmed /\ Recovering
  BY DEF HostFits
<1>2. UNCHANGED fitVars
  BY <1>1 DEF fitVars, USBWakeFromSuspend, StayAwake, NoReset, USBSuspend, USBStallHandler, EndCall,
         CurrentNotArmed, sieVars, pointers, stageVars
<1>3. "URSTIF" \in U1IR' <=> "URSTIF" \in U1IR
  BY DEF USBWakeFromSuspend, StayAwake, NoReset, USBSuspend, USBStallHandler, EndCall, sieVars
<1>4. "URSTIF" \in U1IR /\ phase \in {"idle", "setup", "data", "status"} =>
        task' \in {"activity", "reset"}
  BY <1>1 DEF Recovering, USBWakeFromSuspend, StayAwake, NoReset, USBSuspend, USBStallHandler,
              EndCall
<1> QED BY <1>2, <1>3, <1>4, SameFits

LEMMA DeviceFits ==
  ASSUME TypeOK, Wakeable, Queued, Ready, HostFits, DeviceStep
  PROVE  HostFits'
<1>1. HostStill /\ USBDeviceTasks
      /\ excused' = (excused \/ (task = "reset" /\ "URSTIF" \in U1IR))
  BY DEF DeviceStep, HostStill
<1>2. CASE Attach
  BY <1>1, <1>2, AttachFits
<1>3. CASE USBDeviceInit
  <2>1. excused' = TRUE
    BY <1>1, <1>3 DEF USBDeviceInit
  <2> QED BY <1>1, <1>3, <2>1, InitFits
<1>4. ASSUME ~(task = "reset" /\ "URSTIF" \in U1IR) PROVE UNCHANGED excused
  BY <1>1, <1>4 DEF TypeOK
<1>5. CASE \/ USBWakeFromSuspend \/ StayAwake \/ NoReset \/ USBSuspend \/ USBStallHandler
           \/ EndCall
  <2>1. ~(task = "reset" /\ "URSTIF" \in U1IR)
    BY <1>5 DEF USBWakeFromSuspend, StayAwake, NoReset, USBSuspend, USBStallHandler, EndCall
  <2> QED BY <1>1, <1>4, <1>5, <2>1, QuietStepsFit
<1>6. CASE USBCtrlTrfSetupHandler
  BY <1>1, <1>6, SetupHandlerFits
<1>7. CASE USBCtrlTrfOutHandler \/ NextInPacket \/ StatusInDone
  <2>1. task # "reset"
    BY <1>7 DEF USBCtrlTrfOutHandler, NextInPacket, StatusInDone, Serving
  <2> QED BY <1>1, <1>4, <1>7, <2>1, OtherHandlersFit
<1> QED BY <1>1, <1>2, <1>3, <1>5, <1>6, <1>7 DEF USBDeviceTasks

----------------------------------------------------------------------------
(* The steps of the host.                                                   *)

\* What the host asks for it may ask for, now or when it asked first.
LEMMA RequestAllowed ==
  ASSUME Cautious, TypeOK, HostFits, NEW r \in Requests, ~PKTDIS,
         (phase = "idle" /\ Allowed(r)) \/ (phase = "setup" /\ r = req)
  PROVE  /\ r.op = "SET_ADDRESS" => known.address = 0
         /\ r.op = "SET_CONFIGURATION" => known.address # 0
         /\ r.what = "ENDPOINT" /\ r.op \in {"SET_FEATURE", "CLEAR_FEATURE"} =>
              known.configuration \notin {0, Unknown}
         /\ addressing => r.op = "SET_ADDRESS" /\ known.address = 0
         /\ known.address # Unknown
         /\ known.address = 0 => known.configuration = 0
         /\ "URSTIF" \in U1IR => phase = "idle" /\ task \in {"activity", "reset"}
         /\ USBDeviceState = "ADR_PENDING" /\ Reached /\ U1ADDR = known.address =>
              ~InPending /\ U1ADDR = 0 /\ r.op = "SET_ADDRESS"
<1>1. Requested /\ Recovering /\ Agreed
  BY DEF HostFits
<1>2. "URSTIF" \in U1IR => phase = "idle" /\ task \in {"activity", "reset"}
  BY <1>1 DEF Recovering, InTransfer
<1>3. /\ r.op = "SET_ADDRESS" => known.address = 0
      /\ r.op = "SET_CONFIGURATION" => known.address # 0
      /\ r.what = "ENDPOINT" /\ r.op \in {"SET_FEATURE", "CLEAR_FEATURE"} =>
           known.configuration \notin {0, Unknown}
      /\ addressing => r.op = "SET_ADDRESS" /\ known.address = 0
  BY <1>1 DEF Requested, InTransfer, Allowed
<1>4. USBDeviceState = "ADR_PENDING" /\ Reached /\ U1ADDR = known.address =>
        ~InPending /\ U1ADDR = 0 /\ r.op = "SET_ADDRESS"
  <2> SUFFICES ASSUME USBDeviceState = "ADR_PENDING", Reached, U1ADDR = known.address
               PROVE  ~InPending /\ U1ADDR = 0 /\ r.op = "SET_ADDRESS"
    OBVIOUS
  <2>1. AddressFits /\ req = SetupPkt
    BY <1>1 DEF Agreed, Requested
  <2>2. req.op = "SET_ADDRESS" /\ U1ADDR = 0 /\ req.value # 0
    BY <2>1, TypeParts, RequestIsWellFormed DEF AddressFits
  <2>3. ~InPending /\ (InTransfer \/ addressing)
    BY <2>1, <2>2 DEF AddressFits
  <2> QED BY <1>3, <2>2, <2>3 DEF InTransfer
<1> QED BY <1>1, <1>2, <1>3, <1>4 DEF Requested

\* Nothing is lost by doubting the same twice.
LEMMA DoubtedOnce ==
  ASSUME known \in KnownType, NEW r, known' = Doubted(r)
  PROVE  known' = Doubted(r)'
<1>1. CASE r.op = "SET_CONFIGURATION"
  <2>1. known' = [known EXCEPT !.configuration = Unknown, !.alternate = Unknown]
    BY <1>1 DEF Doubted
  <2>2. [known' EXCEPT !.configuration = Unknown, !.alternate = Unknown] = known'
    BY <2>1 DEF KnownType
  <2> QED BY <1>1, <2>2 DEF Doubted
<1>2. CASE r.op = "SET_INTERFACE"
  <2>1. known' = [known EXCEPT !.alternate = Unknown]
    BY <1>2 DEF Doubted
  <2>2. [known' EXCEPT !.alternate = Unknown] = known'
    BY <2>1 DEF KnownType
  <2> QED BY <1>2, <2>2 DEF Doubted
<1>3. CASE r.op \in {"SET_FEATURE", "CLEAR_FEATURE"} /\ r.what = "DEVICE"
  <2>1. known' = [known EXCEPT !.wakeup = Unknown]
    BY <1>3 DEF Doubted
  <2>2. [known' EXCEPT !.wakeup = Unknown] = known'
    BY <2>1 DEF KnownType
  <2> QED BY <1>3, <2>2 DEF Doubted
<1>4. CASE /\ r.op \notin {"SET_CONFIGURATION", "SET_INTERFACE"}
           /\ ~(r.op \in {"SET_FEATURE", "CLEAR_FEATURE"} /\ r.what = "DEVICE")
  BY <1>4 DEF Doubted
<1> QED BY <1>1, <1>2, <1>3, <1>4

\* A drive that was just reset has nothing to doubt.
LEMMA FreshDoubted ==
  ASSUME NEW r, known = Fresh, r.op # "SET_CONFIGURATION"
  PROVE  Doubted(r) = Fresh
<1>1. [Fresh EXCEPT !.alternate = Unknown] = Fresh /\ [Fresh EXCEPT !.wakeup = Unknown] = Fresh
  BY DEF Fresh
<1> QED BY <1>1 DEF Doubted

LEMMA HostSetupFits ==
  ASSUME Cautious, TypeOK, HostFits, HostSetup
  PROVE  HostFits'
<1>0. UsbTypeOK /\ known \in KnownType
  BY TypeParts DEF TypeOK
<1> PICK r \in Requests :
      SendSetup(r) /\ ((phase = "idle" /\ Allowed(r)) \/ (phase = "setup" /\ r = req))
  BY DEF HostSetup, TypeOK
<1> DEFINE e == active["out"]
<1>1. /\ USBDeviceState \notin BeforeDefault /\ U1ADDR = known.address /\ ~PKTDIS
      /\ out' = [out EXCEPT ![e] = [own |-> "cpu", pid |-> "SETUP"]]
      /\ active' = [active EXCEPT !["out"] = Other(e)]
      /\ fifo' = Append(fifo, <<"out", e>>)
      /\ PKTDIS' = TRUE /\ SetupPkt' = r
      /\ UNCHANGED <<task, in, U1ADDR, U1IR, outCurrent, inNext>>
      /\ UNCHANGED <<USBDeviceState, USBActiveConfiguration, USBAlternateInterface, RemoteWakeup>>
      /\ req' = r /\ toggle' = 1 /\ got' = 0 /\ known' = Doubted(r)
      /\ phase' \in {FirstStage(r), "setup"} /\ addressing' = addressing
  BY DEF SendSetup, SieSetup, Listening, pointers, stateVars
<1>2. /\ r.op = "SET_ADDRESS" => known.address = 0
      /\ r.op = "SET_CONFIGURATION" => known.address # 0
      /\ r.what = "ENDPOINT" /\ r.op \in {"SET_FEATURE", "CLEAR_FEATURE"} =>
           known.configuration \notin {0, Unknown}
      /\ addressing => r.op = "SET_ADDRESS" /\ known.address = 0
      /\ known.address # Unknown
      /\ known.address = 0 => known.configuration = 0
      /\ "URSTIF" \in U1IR => phase = "idle" /\ task \in {"activity", "reset"}
      /\ USBDeviceState = "ADR_PENDING" /\ Reached /\ U1ADDR = known.address =>
           ~InPending /\ U1ADDR = 0 /\ r.op = "SET_ADDRESS"
  BY <1>1, RequestAllowed
<1>3. /\ known'.address = known.address
      /\ known'.configuration = IF r.op = "SET_CONFIGURATION" THEN Unknown ELSE known.configuration
      /\ known'.alternate = IF r.op \in {"SET_CONFIGURATION", "SET_INTERFACE"} THEN Unknown
                            ELSE known.alternate
      /\ known'.wakeup = IF r.op \in {"SET_FEATURE", "CLEAR_FEATURE"} /\ r.what = "DEVICE"
                         THEN Unknown ELSE known.wakeup
  BY <1>0, <1>1, DoubtedFields
<1>4. (Reached' <=> Reached) /\ phase' \in {"setup", "data", "status"} /\ InTransfer'
  BY <1>1 DEF Reached, InTransfer, FirstStage
<1>5. OneIn' /\ (InPending' <=> InPending)
  <2>1. active'["in"] = active["in"]
    BY <1>0, <1>1 DEF UsbTypeOK, Directions
  <2>2. e \in Entries
    BY <1>0, ActiveType DEF Directions
  <2> QED BY <1>0, <1>1, <2>1, <2>2, OutAppended DEF HostFits
<1>6. CurrentNotArmed'
  <2>1. outCurrent \in Entries /\ out \in [Entries -> OutEntries]
    BY <1>0 DEF UsbTypeOK
  <2> QED BY <1>1, <2>1 DEF HostFits, CurrentNotArmed
<1>7. Recovering'
  <2>1. ~Reached' => known' = Fresh
    <3> SUFFICES ASSUME ~Reached PROVE Doubted(r) = Fresh
      BY <1>1, <1>4
    <3>1. known = Fresh
      BY DEF HostFits, Recovering
    <3>2. r.op # "SET_CONFIGURATION"
      BY <1>2, <3>1 DEF Fresh
    <3> QED BY <3>1, <3>2, FreshDoubted
  <2> QED BY <1>1, <1>2, <1>4, <2>1 DEF Recovering
<1>8. Requested'
  <2>1. Doubted(req)' = Doubted(r)'
    BY <1>1
  <2>2. known' = Doubted(req)'
    BY <1>0, <1>1, <2>1, DoubtedOnce
  <2>3. FirstStage(req)' = FirstStage(r)
    BY <1>1 DEF FirstStage, StatusIn
  <2>4. known'.address = 0 => known'.configuration = 0
    BY <1>2, <1>3
  <2>5. r.what = "ENDPOINT" /\ r.op \in {"SET_FEATURE", "CLEAR_FEATURE"} =>
          known'.configuration \notin {0, Unknown}
    BY <1>2, <1>3
  <2> QED BY <1>1, <1>2, <1>3, <1>4, <2>2, <2>3, <2>4, <2>5 DEF Requested
<1>9. Agreed'
  <2> SUFFICES ASSUME Reached PROVE KnownFits' /\ AddressFits'
    BY <1>4 DEF Agreed
  <2>1. KnownFits
    BY DEF HostFits, Agreed
  <2>2. KnownFits'
    BY <1>1, <1>3, <2>1 DEF KnownFits, Fits
  <2>3. AddressFits'
    BY <1>1, <1>2, <1>3, <1>4, <1>5 DEF AddressFits
  <2> QED BY <2>2, <2>3
<1>10. StageFits'
  BY <1>1 DEF StageFits
<1> QED BY <1>5, <1>6, <1>7, <1>8, <1>9, <1>10 DEF HostFits

\* In a stage that the device takes part in, it has the request.
LEMMA StageListens ==
  ASSUME HostFits, phase \in {"data", "status"}, Listening(known.address)
  PROVE  /\ ~PKTDIS /\ Reached /\ InTransfer /\ U1ADDR = known.address
         /\ KnownFits /\ AddressFits
         /\ Forgotten \/ Refusing \/ Confirming \/ Sending \/ AwaitingStatus
<1>1. ~PKTDIS /\ InTransfer /\ USBDeviceState \notin BeforeDefault /\ U1ADDR = known.address
  BY DEF Listening, InTransfer
<1>2. Reached
  BY <1>1 DEF HostFits, Recovering, Reached
<1> QED BY <1>1, <1>2 DEF HostFits, Agreed, StageFits

\* A packet that goes on where the last one ended, or the last one again.
LEMMA PacketRead ==
  ASSUME TypeOK, HostFits, HostData
  PROVE  /\ Sending /\ (PacketIsNext \/ PacketWasRead)
         /\ in[inNext].own = "armed" /\ active["in"] = inNext /\ fifo = <<>> /\ ~InPending
         /\ DataStep(in[inNext].cnt, in[inNext].dts, CtrlTrfData)
<1>1. /\ phase = "data" /\ Listening(known.address) /\ in[active["in"]].own = "armed"
      /\ DataStep(in[active["in"]].cnt, in[active["in"]].dts, CtrlTrfData)
  BY DEF HostData, SieIn, SieInUnacknowledged
<1>2. ~InPending /\ active["in"] = inNext
  BY <1>1, TypeParts, ArmedIsNext DEF HostFits
<1>3. Sending
  <2>1. Forgotten \/ Refusing \/ Confirming \/ Sending \/ AwaitingStatus
    BY <1>1, StageListens
  <2>2. inNext \in Entries
    BY TypeParts, SendTypes
  <2> QED BY <1>1, <1>2, <2>1, <2>2 DEF Forgotten, Refusing, Confirming, AwaitingStatus
<1>4. fifo = <<>>
  <2>1. fifo # <<<<"in", inNext>>>>
    <3>1. ASSUME fifo = <<<<"in", inNext>>>> PROVE InPending
      <4>1. 1 \in 1 .. Len(fifo) /\ fifo[1][1] = "in"
        BY <3>1
      <4> QED BY <4>1 DEF InPending
    <3> QED BY <1>2, <3>1
  <2> QED BY <1>3, <2>1 DEF Sending, PacketIsNext, PacketWasRead
<1> QED BY <1>1, <1>2, <1>3, <1>4 DEF Sending

LEMMA SendingRequest ==
  ASSUME UsbTypeOK, req = SetupPkt, Supported(req), ~StatusIn(req)
  PROVE  req.in /\ req.op \in ReadRequests /\ Promised <= req.length /\ Promised \in Int
         /\ req.op # "SET_ADDRESS" /\ Learned(req) = known
<1>1. req.in /\ req.op \in ReadRequests /\ req.length \in Nat
  BY RequestIsWellFormed DEF StatusIn
<1>2. Offered(req) \in Int
  <2>1. CASE req.op = "GET_DESCRIPTOR"
    <3>1. Wanted(req) \in DescriptorKeys
      BY <2>1 DEF Supported
    <3>2. BytesThere(Wanted(req)) \in Nat
      BY <3>1, StatedLength, DescriptorLength
    <3> QED BY <2>1, <3>2 DEF Offered
  <2>2. CASE req.op # "GET_DESCRIPTOR"
    BY <2>2 DEF Offered
  <2> QED BY <2>1, <2>2
<1>3. Promised <= req.length /\ Promised \in Int
  BY <1>1, <1>2 DEF Promised, Smaller
<1>4. req.op # "SET_ADDRESS" /\ Learned(req) = known
  BY <1>1 DEF Learned, ReadRequests
<1> QED BY <1>1, <1>3, <1>4

\* What a data packet brings.
DataFits ==
  /\ intact' = intact
  /\ Sending' \/ AwaitingStatus'

LEMMA DataStepFits ==
  ASSUME TypeOK, HostFits, HostData,
         in'[inNext].cnt = in[inNext].cnt, in'[inNext].dts = in[inNext].dts,
         \/ fifo' = <<<<"in", inNext>>>>
         \/ fifo' = <<>> /\ in'[inNext].own = "armed"
  PROVE  DataFits
<1> DEFINE packet == in[inNext]
           all == got + packet.cnt
<1>0. UsbTypeOK /\ req = SetupPkt /\ toggle \in {0, 1} /\ got \in Nat /\ intact \in BOOLEAN
  BY TypeParts DEF TypeOK, HostFits, Requested
<1>1. /\ Sending /\ (PacketIsNext \/ PacketWasRead) /\ packet.own = "armed" /\ fifo = <<>>
      /\ DataStep(packet.cnt, packet.dts, CtrlTrfData)
  BY PacketRead
<1>2. /\ UNCHANGED <<out, inNext, controlTransferState, inPipe, shortPacketStatus, CtrlTrfData>>
      /\ UNCHANGED <<req, known>> /\ active'["out"] = active["out"]
  <2>1. CASE SieIn(known.address)
    <3>1. active'["out"] = active["out"]
      BY <1>0, <2>1 DEF SieIn, UsbTypeOK, Directions
    <3> QED BY <2>1, <3>1 DEF HostData, SieIn, pointers, stageVars
  <2>2. CASE UNCHANGED usbVars
    BY <2>2 DEF HostData, usbVars, sieVars, pointers, stageVars
  <2> QED BY <2>1, <2>2 DEF HostData, SieInUnacknowledged
<1>3. /\ packet.cnt \in Nat /\ packet.cnt <= EP0_SIZE /\ EP0_SIZE \in Nat
      /\ inPipe.wCount \in Nat /\ inPipe.pos \in Nat
  BY <1>0, SendTypes, DeviceAssumption DEF UsbTypeOK, Pipes
<1>4. /\ Promised <= req.length /\ Promised \in Int /\ req.length \in Nat
      /\ inPipe.pos + inPipe.wCount = Promised /\ Supported(req) /\ ~StatusIn(req)
      /\ Genuine(req, inPipe.source)
  BY <1>0, <1>1, SendingRequest, RequestIsWellFormed DEF Sending
<1>5. Supported(req)' /\ ~StatusIn(req)' /\ Promised' = Promised
  <2>1. Supported(req)' /\ StatusIn(req)' = StatusIn(req)
    BY <1>2, <1>4 DEF Supported, Wanted, StatusIn
  <2>2. Offered(req)' = Offered(req)
    BY <1>2 DEF Offered, Wanted
  <2> QED BY <1>2, <1>4, <2>1, <2>2 DEF Promised
<1>6. Genuine(req, inPipe.source)'
  BY <1>2, <1>4 DEF Genuine, Wanted, Fits
<1>7. ASSUME phase' = "data", PacketWasRead' PROVE Sending'
  <2>1. out[active["out"]].own = "armed" /\ controlTransferState = "CTRL_TRF_TX"
    BY <1>1 DEF Sending
  <2>2. shortPacketStatus' = IF in'[inNext'].cnt = EP0_SIZE THEN "NOT_USED" ELSE "PENDING"
    BY <1>1, <1>2 DEF Sending
  <2>3. inPipe'.pos + inPipe'.wCount = Promised'
    BY <1>2, <1>4, <1>5
  <2> QED BY <1>2, <1>5, <1>6, <1>7, <2>1, <2>2, <2>3 DEF Sending
<1>8. CASE PacketIsNext
  <2>1. /\ inPipe.pos = all /\ packet.dts = toggle /\ CtrlTrfData = <<inPipe.source, got>>
        /\ packet.cnt < EP0_SIZE => inPipe.wCount = 0
    BY <1>8 DEF PacketIsNext
  <2> DEFINE last == packet.cnt < EP0_SIZE \/ all >= req.length
  <2>2. /\ toggle' = 1 - toggle /\ got' = all /\ phase' = IF last THEN "status" ELSE "data"
        /\ intact' = (/\ intact /\ Supported(req)
                      /\ packet.cnt > 0 => Genuine(req, CtrlTrfData[1]) /\ CtrlTrfData[2] = got
                      /\ last => all = Smaller(req.length, Offered(req)))
    BY <1>1, <2>1 DEF DataStep
  <2>3. last => all = Promised
    BY <1>3, <1>4, <2>1
  <2>4. all = Promised <=> all = Smaller(req.length, Offered(req))
    BY DEF Promised
  <2>5. Genuine(req, CtrlTrfData[1]) /\ CtrlTrfData[2] = got
    BY <1>4, <2>1
  <2>6. intact' = intact
    BY <1>0, <1>4, <2>2, <2>3, <2>4, <2>5, Zenon
  <2>7. CASE last
    <3>1. out[active["out"]].own = "armed" /\ phase' = "status"
      BY <1>1, <2>2, <2>7 DEF Sending
    <3> QED BY <1>2, <1>5, <2>6, <3>1 DEF AwaitingStatus, DataFits
  <2>8. CASE ~last
    <3>1. packet.cnt = EP0_SIZE /\ got' < req'.length /\ phase' = "data"
      BY <1>0, <1>2, <1>3, <1>4, <2>2, <2>8
    <3>2. in'[inNext'].dts = 1 - toggle' /\ in'[inNext'].cnt = EP0_SIZE
      BY <1>0, <1>2, <2>1, <2>2, <3>1
    <3>3. inPipe'.pos = got'
      BY <1>2, <2>1, <2>2
    <3>4. PacketWasRead'
      BY <1>2, <3>1, <3>2, <3>3 DEF PacketWasRead
    <3> QED BY <1>7, <2>6, <3>1, <3>4 DEF DataFits
  <2> QED BY <2>7, <2>8
<1>9. CASE PacketWasRead
  <2>1. inPipe.pos = got /\ packet.dts = 1 - toggle /\ packet.cnt = EP0_SIZE /\ got < req.length
    BY <1>9 DEF PacketWasRead
  <2>2. UNCHANGED <<phase, toggle, got, intact>>
    <3>1. packet.dts # toggle
      BY <1>0, <2>1
    <3> QED BY <1>1, <3>1 DEF DataStep
  <2>3. phase' = "data"
    BY <1>1, <2>2 DEF Sending
  <2>4. PacketWasRead'
    BY <1>2, <2>1, <2>2 DEF PacketWasRead
  <2> QED BY <1>7, <2>2, <2>3, <2>4 DEF DataFits
<1> QED BY <1>1, <1>8, <1>9

\* While a stage goes on, the other parts of HostFits have little to lose.
LEMMA StageKeeps ==
  ASSUME HostFits, phase \in {"data", "status"}, Listening(known.address),
         phase' \in {"data", "status"}, UNCHANGED <<U1IR, U1ADDR, PKTDIS, SetupPkt, stateVars>>,
         UNCHANGED <<req, known, addressing>>, InPending => InPending'
  PROVE  /\ Recovering' /\ Requested'
         /\ req.op # "SET_ADDRESS" => Agreed'
<1>1. ~PKTDIS /\ Reached /\ InTransfer /\ U1ADDR = known.address /\ KnownFits /\ AddressFits
  BY StageListens
<1>2. UNCHANGED <<USBDeviceState, USBActiveConfiguration, USBAlternateInterface, RemoteWakeup>>
  BY DEF stateVars
<1>3. InTransfer' /\ Reached'
  BY <1>1, <1>2 DEF InTransfer, Reached
<1>4. Recovering'
  BY <1>1, <1>2, <1>3 DEF Recovering, Reached
<1>5. Requested'
  BY <1>1, <1>3 DEF HostFits, Requested, InTransfer
<1>6. req.op # "SET_ADDRESS" => Agreed'
  BY <1>1, <1>2 DEF Agreed, KnownFits, Fits, AddressFits
<1> QED BY <1>4, <1>5, <1>6

LEMMA HostDataFits ==
  ASSUME TypeOK, HostFits, HostData
  PROVE  HostFits' /\ intact' = intact
<1>0. UsbTypeOK /\ req = SetupPkt
  BY TypeParts DEF HostFits, Requested
<1>1. /\ Sending /\ in[inNext].own = "armed" /\ active["in"] = inNext /\ fifo = <<>> /\ ~InPending
  BY PacketRead
<1>2. /\ phase = "data" /\ Listening(known.address)
      /\ UNCHANGED <<req, known, addressing, out, PKTDIS, U1ADDR, U1IR, outCurrent, inNext, SetupPkt,
                     stateVars>>
      /\ SieIn(known.address) \/ UNCHANGED usbVars
  BY DEF HostData, SieIn, SieInUnacknowledged, usbVars, sieVars, pointers
<1>3. /\ OneIn' /\ in'[inNext].cnt = in[inNext].cnt /\ in'[inNext].dts = in[inNext].dts
      /\ \/ fifo' = <<<<"in", inNext>>>>
         \/ fifo' = <<>> /\ in'[inNext].own = "armed"
  <2>1. CASE SieIn(known.address)
    <3>1. /\ OneIn' /\ in' = [in EXCEPT ![inNext].own = "cpu"]
          /\ fifo' = Append(fifo, <<"in", inNext>>)
      BY <1>0, <2>1, InAppended DEF HostFits
    <3>2. fifo' = <<<<"in", inNext>>>>
      BY <1>1, <3>1
    <3>3. in'[inNext].cnt = in[inNext].cnt /\ in'[inNext].dts = in[inNext].dts
      BY <1>0, <3>1, SendTypes DEF InEntries
    <3> QED BY <3>1, <3>2, <3>3
  <2>2. CASE UNCHANGED usbVars
    <3>1. UNCHANGED <<in, active, fifo, inNext>>
      BY <2>2 DEF usbVars, sieVars, pointers
    <3> QED BY <1>1, <3>1, SameSend DEF HostFits, sendVars
  <2> QED BY <1>2, <2>1, <2>2
<1>4. DataFits
  BY <1>3, DataStepFits
<1>5. phase' \in {"data", "status"} /\ Supported(req) /\ ~StatusIn(req)
  BY <1>1, <1>4 DEF DataFits, Sending, AwaitingStatus
<1>6. Recovering' /\ Requested' /\ Agreed'
  BY <1>0, <1>1, <1>2, <1>5, StageKeeps, SendingRequest
<1>7. CurrentNotArmed' /\ StageFits'
  BY <1>2, <1>4 DEF HostFits, CurrentNotArmed, StageFits, DataFits
<1> QED BY <1>3, <1>4, <1>6, <1>7 DEF HostFits, DataFits

LEMMA HostEndsDataFits ==
  ASSUME TypeOK, HostFits, HostEndsData
  PROVE  HostFits'
<1>0. req = SetupPkt /\ got \in Nat /\ UsbTypeOK
  BY TypeParts DEF TypeOK, HostFits, Requested
<1>1. /\ phase = "data" /\ got > 0 /\ phase' = "status"
      /\ UNCHANGED <<in, out, active, fifo, PKTDIS, U1ADDR, U1IR, outCurrent, inNext, SetupPkt>>
      /\ UNCHANGED stateVars
      /\ UNCHANGED <<req, toggle, got, known, addressing, excused>>
  BY DEF HostEndsData, usbVars, sieVars, pointers
<1>2. ~PKTDIS
  BY <1>0, <1>1 DEF HostFits, Requested, InTransfer
<1>3. InTransfer /\ InTransfer' /\ "URSTIF" \notin U1IR /\ USBDeviceState \notin BeforeDefault
  BY <1>1, <1>2 DEF InTransfer, HostFits, Recovering
<1>4. UNCHANGED <<USBDeviceState, USBActiveConfiguration, USBAlternateInterface, RemoteWakeup>>
  BY <1>1 DEF stateVars
<1>5. Reached /\ Reached'
  BY <1>1, <1>3, <1>4 DEF Reached
<1>6. Sending
  BY <1>0, <1>1, <1>2, <1>5
     DEF HostFits, StageFits, Forgotten, Refusing, Confirming, AwaitingStatus
<1>7. OneIn' /\ (InPending' <=> InPending)
  BY <1>1, SameSend DEF HostFits, sendVars
<1>8. CurrentNotArmed' /\ Recovering'
  BY <1>1, <1>3, <1>4, <1>5 DEF HostFits, CurrentNotArmed, Recovering
<1>9. Requested'
  BY <1>1, <1>2, <1>3 DEF HostFits, Requested
<1>10. Agreed'
  <2>1. req.op # "SET_ADDRESS"
    BY <1>0, <1>6, SendingRequest DEF Sending
  <2> QED BY <1>1, <1>4, <1>5, <1>7, <2>1 DEF HostFits, Agreed, KnownFits, Fits, AddressFits
<1>11. StageFits'
  <2>1. Supported(req)' = Supported(req) /\ StatusIn(req)' = StatusIn(req)
    BY <1>1 DEF Supported, Wanted, StatusIn
  <2> QED BY <1>1, <1>6, <2>1 DEF StageFits, Sending, AwaitingStatus
<1> QED BY <1>7, <1>8, <1>9, <1>10, <1>11 DEF HostFits

\* The host believes that a request without a data stage is done, and it is.
LEMMA HostStatusInFits ==
  ASSUME TypeOK, HostFits, HostStatusIn
  PROVE  HostFits'
<1>0. UsbTypeOK /\ req = SetupPkt /\ known \in KnownType
  BY TypeParts DEF TypeOK, HostFits, Requested
<1>1. /\ phase = "status" /\ StatusIn(req) /\ in[active["in"]].own = "armed"
      /\ Listening(known.address)
      /\ phase' = "idle" /\ known' = Learned(req)
      /\ addressing' = (addressing /\ req.op # "SET_ADDRESS")
      /\ UNCHANGED <<req, out, PKTDIS, U1ADDR, U1IR, outCurrent, SetupPkt, stateVars>>
      /\ \/ SieIn(known.address)
         \/ req.op # "SET_ADDRESS" /\ UNCHANGED usbVars
  BY DEF HostStatusIn, Done, SieIn, SieInUnacknowledged, usbVars, sieVars, pointers
<1>2. /\ ~PKTDIS /\ Reached /\ InTransfer /\ U1ADDR = known.address /\ KnownFits /\ AddressFits
      /\ Forgotten \/ Refusing \/ Confirming \/ Sending \/ AwaitingStatus
  BY <1>1, StageListens
<1>3. ~InPending /\ active["in"] = inNext /\ inNext \in Entries
  BY <1>0, <1>1, ArmedIsNext, SendTypes DEF HostFits
<1>4. Fulfilled
  BY <1>1, <1>2, <1>3 DEF Forgotten, Refusing, Confirming, Sending, AwaitingStatus
<1>5. OneIn' /\ (req.op = "SET_ADDRESS" => InPending')
  <2>1. CASE SieIn(known.address)
    BY <1>0, <2>1, InAppended DEF HostFits
  <2>2. CASE req.op # "SET_ADDRESS" /\ UNCHANGED usbVars
    BY <2>2, SameSend DEF HostFits, sendVars, usbVars, sieVars, pointers
  <2> QED BY <1>1, <2>1, <2>2
<1>6. UNCHANGED <<USBDeviceState, USBActiveConfiguration, USBAlternateInterface, RemoteWakeup>>
  BY <1>1 DEF stateVars
<1>7. Reached' /\ ~InTransfer' /\ USBDeviceState \notin BeforeDefault /\ "URSTIF" \notin U1IR
  BY <1>1, <1>2, <1>6 DEF Reached, InTransfer
<1>8. /\ known'.address = IF req.op = "SET_ADDRESS" THEN req.value ELSE known.address
      /\ known'.configuration =
           IF req.op = "SET_CONFIGURATION" THEN req.value ELSE known.configuration
      /\ known'.alternate = IF req.op = "SET_CONFIGURATION" THEN 0
                            ELSE IF req.op = "SET_INTERFACE" THEN req.value ELSE known.alternate
      /\ known'.wakeup = IF req.op \in {"SET_FEATURE", "CLEAR_FEATURE"} /\ req.what = "DEVICE"
                         THEN IF req.op = "SET_FEATURE" THEN 1 ELSE 0
                         ELSE known.wakeup
  BY <1>0, <1>1, LearnedFields
<1>9. req.value \in Nat /\ (req.op = "SET_ADDRESS" => req.value # 0)
  BY <1>0, RequestIsWellFormed
<1>10. CurrentNotArmed' /\ Recovering' /\ StageFits'
  BY <1>1, <1>6, <1>7 DEF HostFits, CurrentNotArmed, Recovering, StageFits
<1>11. Requested'
  <2>1. Requested
    BY DEF HostFits
  <2>2. ~addressing'
    BY <1>1, <2>1 DEF Requested
  <2>3. known'.address # Unknown
    BY <1>8, <1>9, <2>1 DEF Requested, Unknown
  <2>4. known'.address = 0 => known'.configuration = 0
    BY <1>2, <1>8, <1>9, <2>1 DEF Requested
  <2> QED BY <1>0, <1>1, <1>2, <1>7, <2>2, <2>3, <2>4 DEF Requested
<1>12. Agreed'
  <2>1. KnownFits'
    BY <1>2, <1>4, <1>6, <1>8 DEF KnownFits, Fits, Fulfilled
  <2>2. AddressFits'
    <3>1. CASE req.op = "SET_ADDRESS"
      <4>1. USBDeviceState = "ADR_PENDING" /\ U1ADDR = 0
        BY <1>2, <1>4, <3>1 DEF Fulfilled, AddressFits
      <4> QED BY <1>1, <1>2, <1>5, <1>6, <1>8, <3>1, <4>1 DEF AddressFits
    <3>2. CASE req.op # "SET_ADDRESS"
      <4>1. USBDeviceState # "ADR_PENDING" /\ U1ADDR = known.address
        BY <1>2, <3>2 DEF AddressFits
      <4> QED BY <1>1, <1>6, <1>8, <3>2, <4>1 DEF AddressFits
    <3> QED BY <3>1, <3>2
  <2> QED BY <2>1, <2>2 DEF Agreed
<1> QED BY <1>5, <1>10, <1>11, <1>12 DEF HostFits

LEMMA HostStatusOutFits ==
  ASSUME TypeOK, HostFits, HostStatusOut
  PROVE  HostFits'
<1> DEFINE e == active["out"]
<1>0. UsbTypeOK /\ req = SetupPkt /\ out \in [Entries -> OutEntries] /\ e \in Entries
      /\ outCurrent \in Entries
  <2>1. UsbTypeOK
    BY TypeParts
  <2> QED BY <2>1, ActiveType DEF HostFits, Requested, UsbTypeOK, Directions
<1>1. /\ phase = "status" /\ ~StatusIn(req) /\ out[e].own = "armed" /\ Listening(known.address)
      /\ out' = [out EXCEPT ![e].own = "cpu"]
      /\ active' = [active EXCEPT !["out"] = Other(e)]
      /\ fifo' = Append(fifo, <<"out", e>>)
      /\ UNCHANGED <<in, PKTDIS, U1ADDR, U1IR, outCurrent, inNext, SetupPkt, stateVars, req>>
  BY DEF HostStatusOut, Done, SieOut, pointers
<1>2. /\ \/ /\ phase' = "idle" /\ known' = Learned(req)
            /\ addressing' = (addressing /\ req.op # "SET_ADDRESS")
         \/ excused' = TRUE /\ UNCHANGED <<phase, known, addressing>>
  BY DEF HostStatusOut, Done
<1>3. /\ ~PKTDIS /\ Reached /\ InTransfer /\ U1ADDR = known.address /\ KnownFits /\ AddressFits
      /\ Forgotten \/ Refusing \/ Confirming \/ Sending \/ AwaitingStatus
  BY <1>1, StageListens
<1>4. AwaitingStatus
  BY <1>1, <1>3 DEF Forgotten, Refusing, Confirming, Sending, FirstStage
<1>5. req.op # "SET_ADDRESS" /\ Learned(req) = known
  BY <1>0, <1>4, SendingRequest DEF AwaitingStatus
<1>6. OneIn' /\ (InPending' <=> InPending)
  <2>1. active'["in"] = active["in"]
    BY <1>0, <1>1 DEF UsbTypeOK, Directions
  <2> QED BY <1>0, <1>1, <2>1, OutAppended DEF HostFits
<1>7. CurrentNotArmed'
  BY <1>0, <1>1 DEF HostFits, CurrentNotArmed, OutEntries
<1>8. UNCHANGED <<USBDeviceState, USBActiveConfiguration, USBAlternateInterface, RemoteWakeup>>
      /\ known' = known
  BY <1>1, <1>2, <1>5 DEF stateVars
<1>9. Reached' /\ USBDeviceState \notin BeforeDefault /\ "URSTIF" \notin U1IR
  BY <1>1, <1>3, <1>8 DEF Reached
<1>10. Recovering' /\ Requested'
  <2>1. phase' \in {"idle", "status"}
    BY <1>1, <1>2
  <2>2. Recovering'
    BY <1>1, <1>8, <1>9, <2>1 DEF Recovering
  <2>3. addressing' => addressing
    BY <1>2
  <2> QED BY <1>1, <1>3, <1>8, <1>9, <2>2, <2>3 DEF HostFits, Requested
<1>11. Agreed'
  BY <1>1, <1>3, <1>5, <1>8 DEF Agreed, KnownFits, Fits, AddressFits
<1>12. StageFits'
  <2>1. Supported(req)' = Supported(req) /\ StatusIn(req)' = StatusIn(req)
    BY <1>1 DEF Supported, Wanted, StatusIn
  <2> QED BY <1>2, <1>4, <2>1 DEF StageFits, AwaitingStatus
<1> QED BY <1>6, <1>7, <1>10, <1>11, <1>12 DEF HostFits

LEMMA HostStalledFits ==
  ASSUME TypeOK, HostFits, HostStalled
  PROVE  HostFits'
<1>0. UsbTypeOK /\ req = SetupPkt
  BY TypeParts DEF HostFits, Requested
<1>1. /\ phase \in {"data", "status"} /\ AnswerEntry.own = "stall" /\ Listening(known.address)
      /\ U1IR' = U1IR \cup {"STALLIF"} /\ phase' = "idle"
      /\ UNCHANGED <<in, out, active, fifo, PKTDIS, U1ADDR, outCurrent, inNext, SetupPkt>>
      /\ UNCHANGED <<req, known, addressing, stateVars>>
  BY DEF HostStalled, Refused, SieStall, pointers
<1>2. /\ ~PKTDIS /\ Reached /\ InTransfer /\ U1ADDR = known.address /\ KnownFits /\ AddressFits
      /\ Forgotten \/ Refusing \/ Confirming \/ Sending \/ AwaitingStatus
  BY <1>1, StageListens
<1>3. req.op # "SET_ADDRESS"
  <2> SUFFICES ASSUME req.op = "SET_ADDRESS" PROVE FALSE
    OBVIOUS
  <2>1. Supported(req) /\ StatusIn(req)
    BY <1>0, RequestIsWellFormed DEF Supported, StatusIn, ReadRequests
  <2>2. in[active["in"]].own = "stall"
    BY <1>1, <2>1 DEF AnswerEntry
  <2>3. active["in"] = inNext /\ inNext \in Entries
    BY <1>0, <2>2, ArmedIsNext, SendTypes DEF HostFits
  <2> QED BY <1>2, <2>1, <2>2, <2>3 DEF Forgotten, Refusing, Confirming, Sending, AwaitingStatus
<1>4. UNCHANGED <<USBDeviceState, USBActiveConfiguration, USBAlternateInterface, RemoteWakeup>>
      /\ ("URSTIF" \in U1IR' <=> "URSTIF" \in U1IR)
  BY <1>1 DEF stateVars
<1>5. Reached' /\ ~InTransfer' /\ USBDeviceState \notin BeforeDefault /\ "URSTIF" \notin U1IR
  BY <1>1, <1>2, <1>4 DEF Reached, InTransfer
<1>6. OneIn' /\ (InPending' <=> InPending)
  BY <1>1, SameSend DEF HostFits, sendVars
<1>7. CurrentNotArmed' /\ Recovering' /\ StageFits'
  BY <1>1, <1>4, <1>5 DEF HostFits, CurrentNotArmed, Recovering, StageFits
<1>8. Requested'
  BY <1>1, <1>2, <1>5 DEF HostFits, Requested
<1>9. Agreed'
  BY <1>1, <1>2, <1>3, <1>4 DEF Agreed, KnownFits, Fits, AddressFits
<1> QED BY <1>6, <1>7, <1>8, <1>9 DEF HostFits

LEMMA HostGivesUpFits ==
  ASSUME TypeOK, HostFits, HostGivesUp
  PROVE  HostFits'
<1>1. /\ InTransfer /\ phase' = "idle" /\ addressing' = (addressing \/ req.op = "SET_ADDRESS")
      /\ UNCHANGED <<task, in, out, active, fifo, PKTDIS, U1ADDR, U1IR, outCurrent, inNext, SetupPkt>>
      /\ UNCHANGED <<req, known>>
      /\ UNCHANGED <<USBDeviceState, USBActiveConfiguration, USBAlternateInterface, RemoteWakeup>>
  BY DEF HostGivesUp, InTransfer, usbVars, sieVars, pointers, stateVars
<1>2. (Reached' <=> Reached) /\ ~InTransfer'
  BY <1>1 DEF Reached, InTransfer
<1>3. OneIn' /\ (InPending' <=> InPending)
  BY <1>1, SameSend DEF HostFits, sendVars
<1>4. CurrentNotArmed' /\ StageFits'
  BY <1>1 DEF HostFits, CurrentNotArmed, StageFits
<1>5. Recovering'
  BY <1>1, <1>2 DEF HostFits, Recovering, InTransfer
<1>6. Requested'
  <2>1. Doubted(req)' = Doubted(req)
    BY <1>1 DEF Doubted
  <2> QED BY <1>1, <1>2, <2>1 DEF HostFits, Requested
<1>7. Agreed'
  BY <1>1, <1>2, <1>3 DEF HostFits, Agreed, KnownFits, Fits, AddressFits, InTransfer
<1> QED BY <1>3, <1>4, <1>5, <1>6, <1>7 DEF HostFits

LEMMA ResetBusFits ==
  ASSUME TypeOK, HostFits, ResetBus
  PROVE  HostFits'
<1>1. /\ "URSTIF" \in U1IR' /\ phase' = "recovery" /\ known' = Fresh /\ addressing' = FALSE
      /\ UNCHANGED <<in, out, active, fifo, outCurrent, inNext, SetupPkt, req, USBDeviceState>>
  BY DEF ResetBus, SieFlags, pointers, stateVars
<1>2. ~Reached' /\ ~InTransfer'
  BY <1>1 DEF Reached, InTransfer
<1>3. OneIn' /\ CurrentNotArmed'
  BY <1>1, SameSend DEF HostFits, CurrentNotArmed, sendVars
<1>4. Recovering'
  BY <1>1, <1>2 DEF HostFits, Recovering
<1>5. Requested'
  <2>1. known'.address = 0 /\ known'.configuration = 0
    BY <1>1 DEF Fresh
  <2> QED BY <1>1, <1>2, <2>1 DEF HostFits, Requested, Unknown
<1>6. Agreed' /\ StageFits'
  BY <1>2 DEF Agreed, StageFits
<1> QED BY <1>3, <1>4, <1>5, <1>6 DEF HostFits

LEMMA HostRecoveredFits ==
  ASSUME TypeOK, HostFits, HostRecovered
  PROVE  HostFits'
<1>1. /\ phase = "recovery" /\ phase' = "idle" /\ ("URSTIF" \in U1IR => task \in {"activity", "reset"})
      /\ UNCHANGED <<task, in, out, active, fifo, PKTDIS, U1ADDR, U1IR, outCurrent, inNext, SetupPkt>>
      /\ UNCHANGED <<req, known, addressing>>
      /\ UNCHANGED <<USBDeviceState, USBActiveConfiguration, USBAlternateInterface, RemoteWakeup>>
  BY DEF HostRecovered, usbVars, sieVars, pointers, stateVars
<1>2. (Reached' <=> Reached) /\ ~InTransfer /\ ~InTransfer'
  BY <1>1 DEF Reached, InTransfer
<1>3. OneIn' /\ (InPending' <=> InPending)
  BY <1>1, SameSend DEF HostFits, sendVars
<1>4. CurrentNotArmed' /\ StageFits'
  BY <1>1 DEF HostFits, CurrentNotArmed, StageFits
<1>5. Recovering'
  BY <1>1, <1>2 DEF HostFits, Recovering
<1>6. Requested'
  <2>1. Doubted(req)' = Doubted(req)
    BY <1>1 DEF Doubted
  <2> QED BY <1>1, <1>2, <2>1 DEF HostFits, Requested
<1>7. Agreed'
  BY <1>1, <1>2, <1>3 DEF HostFits, Agreed, KnownFits, Fits, AddressFits
<1> QED BY <1>3, <1>4, <1>5, <1>6, <1>7 DEF HostFits

LEMMA SuspendFits ==
  ASSUME HostFits, SuspendBus \/ ResumeBus
  PROVE  HostFits'
<1>1. UNCHANGED fitVars /\ UNCHANGED <<task, excused>> /\ HostStill
      /\ ("URSTIF" \in U1IR' <=> "URSTIF" \in U1IR)
  BY DEF SuspendBus, ResumeBus, SieFlags, fitVars, HostStill, pointers, stageVars
<1> QED BY <1>1, SameFits DEF HostFits, Recovering

LEMMA StartFits ==
  ASSUME Init
  PROVE  HostFits /\ intact
<1>1. /\ out = ClearedOut /\ in = ClearedIn /\ active = [d \in Directions |-> 0] /\ fifo = <<>>
      /\ PKTDIS = FALSE /\ U1IR = {} /\ outCurrent = 0 /\ inNext = 0
      /\ USBDeviceState = "DETACHED" /\ phase = "attach" /\ req = SetupPkt
      /\ known = Fresh /\ addressing = FALSE /\ intact = TRUE
  BY DEF Init, UsbInit
<1>2. 0 \in Entries /\ 1 \in Entries /\ Other(0) = 1 /\ "in" \in Directions
  BY DEF Entries, Other, Directions
<1>3. ~InPending /\ 1 .. Len(fifo) = {}
  BY <1>1 DEF InPending
<1>4. OneIn
  BY <1>1, <1>2, <1>3 DEF OneIn, ClearedIn
<1>5. CurrentNotArmed
  BY <1>1, <1>2 DEF CurrentNotArmed, ClearedOut, StallEntry
<1>6. ~Reached /\ ~InTransfer
  BY <1>1 DEF Reached, BeforeDefault, InTransfer
<1>7. Recovering
  BY <1>1, <1>6 DEF Recovering, BeforeDefault
<1>8. Requested
  BY <1>1, <1>6 DEF Requested, Fresh, Unknown
<1>9. Agreed /\ StageFits
  BY <1>6 DEF Agreed, StageFits
<1> QED BY <1>1, <1>4, <1>5, <1>7, <1>8, <1>9 DEF HostFits

LEMMA NextFits ==
  ASSUME Cautious, TypeOK, Wakeable, Queued, Ready, HostFits, intact, [Next]_vars
  PROVE  HostFits' /\ intact'
<1>1. CASE DeviceStep
  BY <1>1, DeviceFits DEF DeviceStep
<1>2. CASE HostData
  BY <1>2, HostDataFits
<1>3. CASE HostSetup
  <2>1. intact' = intact
    BY <1>3 DEF HostSetup, SendSetup
  <2> QED BY <1>3, <2>1, HostSetupFits
<1>4. CASE HostStatusIn
  BY <1>4, HostStatusInFits DEF HostStatusIn, Done
<1>5. CASE HostStatusOut
  <2>1. intact' = intact
    BY <1>5 DEF HostStatusOut, Done
  <2> QED BY <1>5, <2>1, HostStatusOutFits
<1>6. CASE HostStalled
  BY <1>6, HostStalledFits DEF HostStalled
<1>7. CASE HostGivesUp
  BY <1>7, HostGivesUpFits DEF HostGivesUp
<1>8. CASE HostEndsData
  BY <1>8, HostEndsDataFits DEF HostEndsData
<1>9. CASE ResetBus
  BY <1>9, ResetBusFits DEF ResetBus
<1>10. CASE HostRecovered
  BY <1>10, HostRecoveredFits DEF HostRecovered
<1>11. CASE SuspendBus \/ ResumeBus
  BY <1>11, SuspendFits DEF SuspendBus, ResumeBus
<1>12. CASE UNCHANGED vars
  <2>1. UNCHANGED fitVars /\ UNCHANGED <<task, excused, U1IR, intact>> /\ HostStill
    BY <1>12 DEF vars, usbVars, hostVars, sieVars, pointers, stageVars, fitVars, HostStill
  <2>2. "URSTIF" \in U1IR /\ phase \in {"idle", "setup", "data", "status"} =>
          task \in {"activity", "reset"}
    BY DEF HostFits, Recovering
  <2> QED BY <2>1, <2>2, SameFits
<1> QED BY <1>1, <1>2, <1>3, <1>4, <1>5, <1>6, <1>7, <1>8, <1>9, <1>10, <1>11, <1>12
        DEF Next, HostStep

LEMMA HostInvariant ==
  ASSUME Cautious
  PROVE  Spec => [](HostFits /\ intact)
<1>1. Init => HostFits /\ intact
  BY StartFits
<1>2. TypeOK /\ Wakeable /\ Queued /\ Ready /\ HostFits /\ intact /\ [Next]_vars =>
        HostFits' /\ intact'
  BY NextFits
<1> QED BY <1>1, <1>2, TypeCorrect, WakeableInvariant, RoomInvariant, PTL DEF Spec

----------------------------------------------------------------------------
(* What a cautious host sees of the drive.                                  *)

\* What is read is what was asked for, in order, each byte once and all of them: from
\* USBCtrlTrfTxService, which copies the next packet while the last one waits to be served
\* (usb_device.c:1772), to the values that the host has set (usb_device.c:2000).
THEOREM ControlReadsAreIntact ==
  ASSUME Cautious
  PROVE  Spec => []ReadIntact
BY HostInvariant, PTL DEF ReadIntact

\* An entry that is armed is not refused.
LEMMA StageAnswer ==
  ASSUME TypeOK, HostFits, phase \in {"data", "status"}, ~PKTDIS, "URSTIF" \notin U1IR, ~excused
  PROVE  /\ AnswerEntry.own = "stall" => ~Supported(req)
         /\ fifo = <<>> => AnswerEntry.own = IF Supported(req) THEN "armed" ELSE "stall"
<1>0. inNext \in Entries /\ UsbTypeOK
  BY TypeParts, SendTypes
<1>1. Refusing \/ Confirming \/ Sending \/ AwaitingStatus
  <2>1. Reached
    BY DEF HostFits, Recovering, InTransfer, Reached
  <2> QED BY <2>1 DEF HostFits, StageFits, Forgotten
<1>2. fifo = <<>> => ~InPending /\ active["in"] = inNext
  <2>1. fifo = <<>> => 1 .. Len(fifo) = {}
    OBVIOUS
  <2> QED BY <2>1 DEF InPending, HostFits, OneIn
<1>3. CASE Refusing
  <2>1. phase = "status" => StatusIn(req)
    BY <1>3 DEF Refusing, FirstStage
  <2> QED BY <1>2, <1>3, <2>1 DEF Refusing, AnswerEntry
<1>4. CASE Confirming
  BY <1>2, <1>4 DEF Confirming, AnswerEntry
<1>5. CASE Sending
  <2>1. AnswerEntry = in[active["in"]] /\ Supported(req)
    BY <1>5 DEF Sending, AnswerEntry
  <2>2. CASE fifo = <<>>
    <3>1. in[inNext].own = "armed"
      BY <1>5, <2>2 DEF Sending, PacketIsNext, PacketWasRead
    <3> QED BY <1>2, <2>1, <2>2, <3>1
  <2>3. CASE fifo = <<<<"in", inNext>>>>
    <3>1. InPending
      <4>1. 1 \in 1 .. Len(fifo) /\ fifo[1][1] = "in"
        BY <2>3
      <4> QED BY <4>1 DEF InPending
    <3>2. in[active["in"]].own = "cpu"
      BY <3>1 DEF HostFits, OneIn
    <3> QED BY <2>1, <2>3, <3>2
  <2> QED BY <1>5, <2>2, <2>3 DEF Sending, PacketIsNext, PacketWasRead
<1>6. CASE AwaitingStatus
  BY <1>6 DEF AwaitingStatus, AnswerEntry
<1> QED BY <1>1, <1>3, <1>4, <1>5, <1>6

\* A request of the drive's is never refused: what the SIE finds while the firmware is behind is
\* an entry that NAKs, never one that was left to stall (usb_device.c:1441, 2624).
THEOREM RequestsAreNotRefused ==
  ASSUME Cautious
  PROVE  Spec => []NoFalseStall
<1>1. TypeOK /\ HostFits => NoFalseStall
  <2> SUFFICES ASSUME TypeOK, HostFits, Refused, ~PKTDIS, "URSTIF" \notin U1IR, ~excused
               PROVE  ~Supported(req)
    BY DEF NoFalseStall
  <2> QED BY StageAnswer DEF Refused
<1> QED BY <1>1, HostInvariant, TypeCorrect, PTL

\* Once the firmware has served what there is, the stage that the host waits for goes on, or is
\* refused if the request is not one of the drive's (usb_device.c:1622, 738).
THEOREM EveryStageIsAnswered ==
  ASSUME Cautious
  PROVE  Spec => []StagesAreAnswered
<1>1. TypeOK /\ HostFits => StagesAreAnswered
  <2> SUFFICES ASSUME TypeOK, HostFits, Settled, phase \in {"data", "status"}, ~excused
               PROVE  AnswerEntry.own = IF Supported(req) THEN "armed" ELSE "stall"
    BY DEF StagesAreAnswered
  <2> QED BY StageAnswer DEF Settled
<1> QED BY <1>1, HostInvariant, TypeCorrect, PTL

\* What the host has set up and what a bus reset takes back is what the device goes by, whatever
\* was given up, repeated or reset on the way (usb_device.c:2000, 2603).
THEOREM DeviceIsAsTheHostKnowsIt ==
  ASSUME Cautious
  PROVE  Spec => []HostKnowsDevice
<1>1. HostFits => HostKnowsDevice
  <2> SUFFICES ASSUME HostFits, Settled
               PROVE  KnownFits /\ U1ADDR = known.address
    BY DEF HostKnowsDevice, KnownFits
  <2>1. Reached /\ 1 .. Len(fifo) = {}
    BY DEF Settled, Reached
  <2>2. ~InPending
    BY <2>1 DEF InPending
  <2> QED BY <2>1, <2>2 DEF HostFits, Agreed, AddressFits
<1> QED BY <1>1, HostInvariant, PTL

\* An address is pending from a SET_ADDRESS only, or the device is about to see a bus reset.
PendingFits ==
  USBDeviceState = "ADR_PENDING" =>
    SetupPkt.op = "SET_ADDRESS" \/ ("URSTIF" \in U1IR /\ task \in {"activity", "reset"})

\* Where a request can take the device's state.
LEMMA RequestsPend ==
  ASSUME USBCtrlTrfSetupHandler
  PROVE  /\ U1ADDR' = U1ADDR /\ SetupPkt' = SetupPkt /\ U1IR' = U1IR /\ task \in {"drain", "more"}
         /\ USBDeviceState' = "ADR_PENDING" =>
              SetupPkt.op = "SET_ADDRESS" \/ USBDeviceState = "ADR_PENDING"
<1> PICK e \in Entries :
      \/ SetAddress(e) \/ GetDescriptor(e) \/ SetConfiguration(e) \/ GetConfiguration(e)
      \/ GetStatus(e)  \/ Feature(e)       \/ GetInterface(e)     \/ SetInterface(e)
      \/ MassStorageRequest(e) \/ UnknownRequest(e)
  BY DEF USBCtrlTrfSetupHandler
<1>1. U1ADDR' = U1ADDR /\ SetupPkt' = SetupPkt /\ U1IR' = U1IR /\ task \in {"drain", "more"}
  BY DEF SetAddress, GetDescriptor, SetConfiguration, GetConfiguration, GetStatus, Feature,
         GetInterface, SetInterface, MassStorageRequest, UnknownRequest, ServingSetup, Serving,
         SetupHandled
<1>2. USBDeviceState' = "ADR_PENDING" =>
        SetupPkt.op = "SET_ADDRESS" \/ USBDeviceState = "ADR_PENDING"
  BY DEF SetAddress, GetDescriptor, SetConfiguration, GetConfiguration, GetStatus, Feature,
         GetInterface, SetInterface, MassStorageRequest, UnknownRequest, ServingSetup, stateVars
<1> QED BY <1>1, <1>2

LEMMA DevicePends ==
  ASSUME TypeOK, PendingFits, DeviceStep
  PROVE  /\ PendingFits'
         /\ U1ADDR' # U1ADDR /\ U1ADDR' # 0 => SetupPkt.op = "SET_ADDRESS"
<1>0. USBDeviceTasks
  BY DEF DeviceStep
<1>1. CASE Attach
  BY <1>1 DEF Attach, PendingFits
<1>2. CASE USBDeviceInit
  BY <1>2 DEF USBDeviceInit, PendingFits
<1>3. CASE USBWakeFromSuspend
  BY <1>3 DEF USBWakeFromSuspend, PendingFits, stateVars
<1>4. CASE StayAwake
  BY <1>4 DEF StayAwake, PendingFits, stateVars, sieVars
<1>5. CASE NoReset
  BY <1>5 DEF NoReset, PendingFits, stateVars, sieVars
<1>6. CASE USBSuspend
  BY <1>6 DEF USBSuspend, PendingFits, stateVars
<1>7. CASE USBStallHandler
  BY <1>7 DEF USBStallHandler, PendingFits, stateVars
<1>8. CASE EndCall
  BY <1>8 DEF EndCall, PendingFits, stateVars, sieVars
<1>9. CASE USBCtrlTrfSetupHandler
  BY <1>9, RequestsPend DEF PendingFits
<1>10. CASE USBCtrlTrfOutHandler
  BY <1>10 DEF USBCtrlTrfOutHandler, Serving, PendingFits, stateVars, sieVars
<1>11. CASE NextInPacket \/ StatusInDone
  <2>1. TakeAddress /\ UNCHANGED SetupPkt /\ task \in {"drain", "more"}
    BY <1>11 DEF NextInPacket, StatusInDone, inFrame, Serving
  <2>2. USBDeviceState' # "ADR_PENDING"
    BY <2>1 DEF TakeAddress
  <2>3. U1ADDR' # U1ADDR => SetupPkt.op = "SET_ADDRESS"
    BY <2>1 DEF TakeAddress, PendingFits
  <2> QED BY <2>2, <2>3 DEF PendingFits
<1> QED BY <1>0, <1>1, <1>2, <1>3, <1>4, <1>5, <1>6, <1>7, <1>8, <1>9, <1>10, <1>11
        DEF USBDeviceTasks

LEMMA HostPends ==
  ASSUME Cautious, TypeOK, HostFits, PendingFits, [Next]_vars, ~DeviceStep
  PROVE  PendingFits' /\ (U1ADDR' = U1ADDR \/ U1ADDR' = 0)
<1>1. CASE HostSetup
  <2> PICK r \in Requests :
        SendSetup(r) /\ ((phase = "idle" /\ Allowed(r)) \/ (phase = "setup" /\ r = req))
    BY <1>1 DEF HostSetup, TypeOK
  <2>1. /\ USBDeviceState \notin BeforeDefault /\ U1ADDR = known.address /\ ~PKTDIS
        /\ SetupPkt' = r /\ UNCHANGED <<task, U1ADDR, U1IR, USBDeviceState>>
    BY DEF SendSetup, SieSetup, Listening, stateVars
  <2>2. USBDeviceState = "ADR_PENDING" /\ Reached => r.op = "SET_ADDRESS"
    BY <2>1, RequestAllowed
  <2>3. "URSTIF" \in U1IR => task \in {"activity", "reset"}
    BY <2>1, RequestAllowed
  <2> QED BY <2>1, <2>2, <2>3 DEF PendingFits, Reached
<1>2. CASE HostData \/ HostStatusIn
  BY <1>2 DEF HostData, HostStatusIn, SieIn, SieInUnacknowledged, PendingFits, usbVars, sieVars,
              stateVars
<1>3. CASE HostStatusOut
  BY <1>3 DEF HostStatusOut, SieOut, PendingFits, stateVars
<1>4. CASE HostStalled
  BY <1>4 DEF HostStalled, SieStall, PendingFits, stateVars
<1>5. CASE ResetBus \/ SuspendBus \/ ResumeBus
  BY <1>5 DEF ResetBus, SuspendBus, ResumeBus, SieFlags, PendingFits, stateVars
<1>6. CASE HostGivesUp \/ HostEndsData \/ HostRecovered \/ UNCHANGED vars
  BY <1>6 DEF HostGivesUp, HostEndsData, HostRecovered, vars, usbVars, sieVars, stateVars,
              PendingFits
<1> QED BY <1>1, <1>2, <1>3, <1>4, <1>5, <1>6 DEF Next, HostStep

\* usb_device.c:2580 promises that the address changes with the completion of its SET_ADDRESS.
\* The code takes it from whatever SETUP packet came last (usb_device.c:2601); a host that goes
\* on after a SET_ADDRESS it gave up with another one or a bus reset does not see that.
THEOREM AddressComesFromItsRequest ==
  ASSUME Cautious
  PROVE  Spec => AddressSetByItsRequest
<1>1. Init => PendingFits
  BY DEF Init, UsbInit, PendingFits
<1>2. TypeOK /\ HostFits /\ PendingFits /\ [Next]_vars =>
        /\ PendingFits'
        /\ U1ADDR' # U1ADDR /\ U1ADDR' # 0 => SetupPkt.op = "SET_ADDRESS"
  BY DevicePends, HostPends
<1>3. TypeOK /\ HostFits /\ PendingFits /\ [Next]_vars =>
        [U1ADDR' # U1ADDR /\ U1ADDR' # 0 => SetupPkt.op = "SET_ADDRESS"]_vars
  BY <1>2
<1> QED BY <1>1, <1>2, <1>3, HostInvariant, TypeCorrect, PTL DEF Spec, AddressSetByItsRequest
=============================================================================
