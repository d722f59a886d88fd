------------------------------- MODULE UsbHost -------------------------------
(***************************************************************************)
(* The device of UsbDevice with a host on the other end of the bus.  The   *)
(* host resets the bus, gives the device an address, configures it and     *)
(* asks for what it likes, one control transfer at a time: a SETUP packet, *)
(* the data stage, the status stage.  It may give a transfer up or end its *)
(* data stage early, and start the next one; it suspends the bus between   *)
(* any two packets, wakes it, and resets it; handshakes get lost.          *)
(*                                                                         *)
(* The host keeps to the USB specification.  It configures only a device   *)
(* with an address, it is silent after a reset at least until the call of  *)
(* USBDeviceTasks that the reset fell into is over, and if it is cautious  *)
(* it goes on after a SET_ADDRESS that it gave up only with another one or *)
(* with a bus reset.  The acknowledgement of a new address is not lost:    *)
(* the device would keep the old one, and the host would have to find out. *)
(***************************************************************************)
EXTENDS UsbDevice

CONSTANTS
  MaxDisturbances,  \* handshakes lost, transfers given up and bus resets in a behaviour
  MaxSuspends,      \* suspends in a behaviour
  Cautious

ASSUME HostAssumption ==
  MaxDisturbances \in Nat /\ MaxSuspends \in Nat /\ Cautious \in BOOLEAN

\* The direction goes with the request; no request of this drive takes data; the host gives
\* addresses that a device can have.
ReadRequests == {"GET_STATUS", "GET_DESCRIPTOR", "GET_CONFIGURATION", "GET_INTERFACE",
                 "SYNCH_FRAME", "GET_MAX_LUN"}

ASSUME RequestAssumption ==
  \A r \in Requests :
    /\ r.in <=> r.op \in ReadRequests
    /\ ~r.in => r.length = 0
    /\ r.op = "SET_ADDRESS" => r.value \in 1 .. 127

VARIABLES
  phase,         \* the stage of the host's transfer
  req,           \* the request of this transfer, or of the last one
  toggle,        \* the data toggle it expects next
  got,           \* bytes of the data stage it has
  intact,        \* every data stage gave what it should
  known,         \* what the host knows it has set up, or Unknown
  addressing,    \* a SET_ADDRESS was given up
  excused,       \* a handshake or the whole transfer was lost: it may fail
  busActive,     \* the bus is not suspended
  disturbances, suspends

hostVars == <<phase, req, toggle, got, intact, known, addressing, excused, busActive,
              disturbances, suspends>>
vars == <<usbVars, hostVars>>

Unknown == -1

KnownType == [address : Values \cup {Unknown}, configuration : Values \cup {Unknown},
              alternate : Values \cup {Unknown}, wakeup : {0, 1, Unknown}]

Fresh == [address |-> 0, configuration |-> 0, alternate |-> Unknown, wakeup |-> Unknown]

TypeOK ==
  /\ UsbTypeOK
  /\ phase \in {"attach", "recovery", "idle", "setup", "data", "status"}
  /\ req \in Requests
  /\ toggle \in {0, 1} /\ got \in Nat
  /\ intact \in BOOLEAN /\ addressing \in BOOLEAN /\ excused \in BOOLEAN
  /\ known \in KnownType
  /\ busActive \in BOOLEAN
  /\ disturbances \in 0 .. MaxDisturbances /\ suspends \in 0 .. MaxSuspends

Disturb == disturbances < MaxDisturbances /\ disturbances' = disturbances + 1

----------------------------------------------------------------------------
(* What the host may ask, and what it should get.                           *)

\* Requests that need an address or a configuration are not made without; a device that has an
\* address gets no other.
Allowed(r) ==
  /\ r.op = "SET_CONFIGURATION" => known.address \notin {0, Unknown}
  /\ r.what \in {"ENDPOINT", "INTERFACE"} => known.configuration \notin {0, Unknown}
  /\ r.op = "SET_ADDRESS" => known.address = 0
  /\ Cautious /\ addressing => r.op = "SET_ADDRESS"

\* The descriptor that is asked for.
Wanted(r) == IF r.what = "DEVICE" THEN <<"DEVICE", 0>> ELSE <<r.what, r.value>>

\* What a device must understand of this, and what it must refuse: of the features it has the
\* remote wakeup and the halt of an endpoint, and one logical unit.
Supported(r) ==
  CASE r.op = "GET_DESCRIPTOR" -> Wanted(r) \in DescriptorKeys
    [] r.op \in {"SYNCH_FRAME", "SET_DESCRIPTOR"} -> FALSE
    [] r.op \in {"SET_FEATURE", "CLEAR_FEATURE"} ->
         <<r.what, r.value>> \in {<<"DEVICE", 1>>, <<"ENDPOINT", 0>>}
    [] r.op = "MSD_RESET" -> r.value = 0
    [] r.op = "GET_MAX_LUN" -> r.value = 0 /\ r.length = 1
    [] OTHER -> TRUE

\* Bytes that a control read brings, and the values they may have.
Offered(r) ==
  CASE r.op = "GET_DESCRIPTOR" -> BytesThere(Wanted(r))
    [] r.op = "GET_STATUS" -> 2
    [] OTHER -> 1

Fits(value, belief) == belief = Unknown \/ value = belief

Genuine(r, source) ==
  CASE r.op = "GET_DESCRIPTOR" -> source = Wanted(r)
    [] r.op = "GET_CONFIGURATION" ->
         source[1] = "CONFIGURATION" /\ Fits(source[2], known.configuration)
    [] r.op = "GET_INTERFACE" -> source[1] = "INTERFACE" /\ Fits(source[2], known.alternate)
    [] r.op = "GET_STATUS" ->
         /\ source[1] = "STATUS"
         /\ r.what = "DEVICE" /\ known.wakeup # Unknown => source[2] = 1 + 2 * known.wakeup
    [] OTHER -> source[1] = "MAX_LUN"

\* What the host knows after request r is done.
Learned(r) ==
  CASE r.op = "SET_ADDRESS" -> [known EXCEPT !.address = r.value]
    [] r.op = "SET_CONFIGURATION" -> [known EXCEPT !.configuration = r.value, !.alternate = 0]
    [] r.op = "SET_INTERFACE" -> [known EXCEPT !.alternate = r.value]
    [] r.op \in {"SET_FEATURE", "CLEAR_FEATURE"} /\ r.what = "DEVICE" ->
         [known EXCEPT !.wakeup = IF r.op = "SET_FEATURE" THEN 1 ELSE 0]
    [] OTHER -> known

\* ... and after it sent it and cannot tell whether it was done.
Doubted(r) ==
  CASE r.op = "SET_CONFIGURATION" -> [known EXCEPT !.configuration = Unknown, !.alternate = Unknown]
    [] r.op = "SET_INTERFACE" -> [known EXCEPT !.alternate = Unknown]
    [] r.op \in {"SET_FEATURE", "CLEAR_FEATURE"} /\ r.what = "DEVICE" ->
         [known EXCEPT !.wakeup = Unknown]
    [] OTHER -> known

----------------------------------------------------------------------------
(* A control transfer.                                                      *)

\* Where the status stage goes.
StatusIn(r) == ~r.in \/ r.length = 0

FirstStage(r) == IF StatusIn(r) THEN "status" ELSE "data"

\* The SETUP packet of request r, acknowledged or not; without an acknowledgement it is sent again.
SendSetup(r) ==
  /\ SieSetup(known.address, r)
  /\ req' = r /\ toggle' = 1 /\ got' = 0 /\ excused' = FALSE
  /\ known' = Doubted(r)
  /\ \/ phase' = FirstStage(r) /\ UNCHANGED disturbances
     \/ phase' = "setup" /\ Disturb
  /\ UNCHANGED <<intact, addressing, busActive, suspends>>

HostSetup ==
  /\ busActive
  /\ \/ phase = "idle" /\ \E r \in Requests : Allowed(r) /\ SendSetup(r)
     \/ phase = "setup" /\ SendSetup(req)

\* A data packet that comes in; one with the toggle of the last packet is a repetition.
DataStep(cnt, dts, data) ==
  LET all == got + cnt
      last == cnt < EP0_SIZE \/ all >= req.length
  IN IF dts # toggle THEN UNCHANGED <<phase, toggle, got, intact>>
     ELSE /\ toggle' = 1 - toggle /\ got' = all
          /\ phase' = IF last THEN "status" ELSE "data"
          /\ intact' = (/\ intact /\ Supported(req)
                        /\ cnt > 0 => Genuine(req, data[1]) /\ data[2] = got
                        /\ last => all = Smaller(req.length, Offered(req)))

HostData ==
  /\ busActive /\ phase = "data"
  /\ \/ SieIn(known.address) /\ UNCHANGED disturbances
     \/ SieInUnacknowledged(known.address) /\ Disturb
  /\ LET packet == in[active["in"]]
     IN DataStep(packet.cnt, packet.dts, CtrlTrfData)
  /\ UNCHANGED <<req, known, addressing, excused, busActive, suspends>>

\* The host has got what it wanted, though the device has more.
HostEndsData ==
  /\ busActive /\ phase = "data" /\ got > 0 /\ Disturb
  /\ phase' = "status"
  /\ UNCHANGED <<usbVars, req, toggle, got, intact, known, addressing, excused, busActive, suspends>>

\* The transfer is done, as far as the host can tell.
Done ==
  /\ phase' = "idle" /\ known' = Learned(req)
  /\ addressing' = (addressing /\ req.op # "SET_ADDRESS")
  /\ toggle' = 1 /\ got' = 0
  /\ UNCHANGED <<req, intact, excused, busActive, suspends>>

\* The host reads the empty packet that says the request is done.
HostStatusIn ==
  /\ busActive /\ phase = "status" /\ StatusIn(req) /\ in[active["in"]].dts = 1
  /\ \/ SieIn(known.address) /\ UNCHANGED disturbances
     \/ req.op # "SET_ADDRESS" /\ SieInUnacknowledged(known.address) /\ Disturb
  /\ Done

\* The status packet of a control read; if its acknowledgement is lost the host sends it again.
HostStatusOut ==
  /\ busActive /\ phase = "status" /\ ~StatusIn(req)
  /\ SieOut(known.address)
  /\ \/ Done /\ UNCHANGED disturbances
     \/ Disturb /\ excused' = TRUE
        /\ UNCHANGED <<phase, req, toggle, got, intact, known, addressing, busActive, suspends>>

\* The entry that the device would answer with.
AnswerEntry ==
  IF phase = "status" /\ ~StatusIn(req) THEN out[active["out"]] ELSE in[active["in"]]

Refused == phase \in {"data", "status"} /\ AnswerEntry.own = "stall"

HostStalled ==
  /\ busActive /\ Refused /\ SieStall(known.address, AnswerEntry.own)
  /\ phase' = "idle" /\ excused' = FALSE /\ toggle' = 1 /\ got' = 0
  /\ UNCHANGED <<req, intact, known, addressing, busActive, disturbances, suspends>>

\* The host gives up: out of patience, or for good reason.
HostGivesUp ==
  /\ busActive /\ phase \in {"setup", "data", "status"}
  /\ \/ Disturb
     \/ excused /\ UNCHANGED disturbances
  /\ phase' = "idle" /\ excused' = FALSE /\ toggle' = 1 /\ got' = 0
  /\ addressing' = (addressing \/ req.op = "SET_ADDRESS")
  /\ UNCHANGED <<usbVars, req, intact, known, busActive, suspends>>

----------------------------------------------------------------------------
(* The bus.                                                                 *)

\* A bus reset ends a suspend.  It is free at the start, and after an address was not accepted.
ResetBus ==
  /\ USBDeviceState \notin {"DETACHED", "ATTACHED"}
  /\ \/ phase = "attach" /\ UNCHANGED disturbances
     \/ phase = "idle" /\ addressing /\ UNCHANGED disturbances
     \/ phase # "attach" /\ Disturb
  /\ SieFlags({"URSTIF"} \cup (IF busActive THEN {} ELSE {"ACTVIF"}), 0)
  /\ phase' = "recovery" /\ busActive' = TRUE
  /\ known' = Fresh /\ addressing' = FALSE /\ excused' = FALSE /\ toggle' = 1 /\ got' = 0
  /\ UNCHANGED <<req, intact, suspends>>

\* The call of USBDeviceTasks that the reset fell into is over, if it had looked for a reset.
HostRecovered ==
  /\ phase = "recovery" /\ ("URSTIF" \in U1IR => task \in {"activity", "reset"})
  /\ phase' = "idle"
  /\ UNCHANGED <<usbVars, req, toggle, got, intact, known, addressing, excused, busActive,
                 disturbances, suspends>>

\* Nothing happens on the bus for 3 ms.  The bus is not suspended again before the device has
\* woken up from the last time: else the second wake-up call would be lost in the first.
SuspendBus ==
  /\ busActive /\ ~SUSPND /\ phase \notin {"attach", "recovery"}
  /\ suspends < MaxSuspends /\ suspends' = suspends + 1
  /\ busActive' = FALSE
  /\ SieFlags({"IDLEIF"}, U1ADDR)
  /\ UNCHANGED <<phase, req, toggle, got, intact, known, addressing, excused, disturbances>>

ResumeBus ==
  /\ ~busActive /\ busActive' = TRUE
  /\ SieFlags({"ACTVIF"}, U1ADDR)
  /\ UNCHANGED <<phase, req, toggle, got, intact, known, addressing, excused, disturbances,
                 suspends>>

----------------------------------------------------------------------------

Init ==
  /\ UsbInit
  /\ phase = "attach" /\ req = SetupPkt
  /\ toggle = 1 /\ got = 0 /\ intact = TRUE
  /\ known = Fresh /\ addressing = FALSE /\ excused = FALSE
  /\ busActive = TRUE /\ disturbances = 0 /\ suspends = 0

\* USBDeviceInit throws away what came in since the reset.
DeviceStep ==
  /\ USBDeviceTasks
  /\ excused' = (excused \/ (task = "reset" /\ "URSTIF" \in U1IR))
  /\ UNCHANGED <<phase, req, toggle, got, intact, known, addressing, busActive, disturbances,
                 suspends>>

HostStep ==
  \/ HostSetup \/ HostData \/ HostStatusIn \/ HostStatusOut \/ HostStalled
  \/ ResetBus \/ HostRecovered \/ ResumeBus

Next == DeviceStep \/ HostStep \/ HostEndsData \/ HostGivesUp \/ SuspendBus

Spec == Init /\ [][Next]_vars

\* The main loop calls USBDeviceTasks for ever, and the data lines come up in the end; the host
\* goes on with its transfers, has some patience only, and does not leave the bus suspended.
Fairness ==
  /\ SF_vars(Attach /\ USBDeviceState' = "POWERED" /\ UNCHANGED hostVars)
  /\ WF_vars(DeviceStep)
  /\ WF_vars(HostStep)
  /\ WF_vars(excused /\ HostGivesUp)

FairSpec == Spec /\ Fairness

----------------------------------------------------------------------------
(* Properties.                                                              *)

\* The device can always take a SETUP packet once it has served the last one: whatever was given
\* up, ended early, repeated or reset, the entry that the SIE is on is armed.  After a control read
\* that is the one armed beside the entry of the status packet (usb_device.c:1434-1448), which
\* USBCtrlTrfOutHandler then leaves as it is (usb_device.c:2547-2552).
SetupAccepted ==
  USBDeviceState \notin BeforeDefault /\ ~PKTDIS /\ "URSTIF" \notin U1IR =>
    out[active["out"]].own # "cpu"

\* A data stage brings the bytes asked for, in order, each once, and as many as there are: a
\* packet is not overwritten by the next one in the same buffer, a descriptor that ends with a
\* full packet is ended by an empty one if the host expects more (usb_device.c:1772), and what is
\* read back is what the host has set.
ReadIntact == intact

\* The device has nothing left to serve.
Settled ==
  fifo = <<>> /\ ~PKTDIS /\ "URSTIF" \notin U1IR /\ USBDeviceState \notin BeforeDefault

\* The host's next packet is never left without an answer for ever, and it is the right one: the
\* stage goes on if the request is one of the drive's, and is refused if not (usb_device.c:1622,
\* 738).
StagesAreAnswered ==
  Settled /\ phase \in {"data", "status"} /\ ~excused =>
    AnswerEntry.own = IF Supported(req) THEN "armed" ELSE "stall"

\* A request of the drive's is never refused, not even while the firmware is behind with what
\* the SIE has done (usb_device.c:1441, 2624).
NoFalseStall ==
  Refused /\ ~PKTDIS /\ "URSTIF" \notin U1IR /\ ~excused => ~Supported(req)

\* What the host has set up, and what a bus reset takes back, is what the device goes by
\* (usb_device.c:2000, 2603).
HostKnowsDevice ==
  Settled =>
    /\ U1ADDR = known.address
    /\ Fits(USBActiveConfiguration, known.configuration)
    /\ known.configuration # Unknown =>
         (USBDeviceState = "CONFIGURED" <=> known.configuration # 0)
    /\ Fits(USBAlternateInterface, known.alternate)
    /\ Fits(IF RemoteWakeup THEN 1 ELSE 0, known.wakeup)

\* A device that sleeps on a bus that is awake has its wake-up call waiting: "If the ACTIVIF is
\* cleared here, [...] it can never get out of the suspend mode" (usb_device.c:2260).
WakeUpPending == SUSPND /\ busActive => "ACTVIF" \in U1IR /\ ACTVIE

\* Every transfer ends and the next one begins, for ever.
TransfersEnd == []<>(phase = "idle") /\ []<>(phase # "idle")

\* A device that was put to sleep wakes up, even if that came in the middle of a transfer
\* (usb_device.c:692).
WakesUp == SUSPND ~> ~SUSPND

\* usb_device.c:2580 says of SET_ADDRESS: it "must not change the acutal address of the device
\* until the completion of the control transfer".  So no other transfer changes the address.
AddressSetByItsRequest ==
  [][U1ADDR' # U1ADDR /\ U1ADDR' # 0 => SetupPkt.op = "SET_ADDRESS"]_vars
=============================================================================
