----------------------------- MODULE MsdTransport -----------------------------
(***************************************************************************)
(* The drive of MsdBot with a host on the other end of the bus.  The host  *)
(* follows the bulk-only transport: it sends a CBW, moves the data it has  *)
(* announced, clears the halt of an endpoint that answers STALL, and reads *)
(* the CSW; on a phase error, a CSW that is not for its command, a second  *)
(* STALL or a timeout it does the reset recovery: mass storage reset, clear *)
(* halt on IN, clear halt on OUT.  It may also reset the whole bus or,     *)
(* between two commands, halt an endpoint itself.                          *)
(*                                                                         *)
(* The host works on one thing at a time: no packet moves on the bulk      *)
(* endpoints while a request on endpoint 0 waits for the drive.            *)
(***************************************************************************)
EXTENDS MsdBot, FiniteSets

CONSTANTS
  Commands,    \* the commands of the host; it chooses the tag anew each time
  MaxAborts    \* timeouts, halts and bus resets in a behaviour (bounds the model)

ASSUME HostAssumption == Commands \subseteq CBW /\ MaxAborts \in Nat

\* Data holds what the host may write: packet p of a command with tag t.
ASSUME DataAssumption ==
  /\ Blank \in Data
  /\ \A c \in Commands, t \in Tags : \A p \in 0 .. c.length :
       p * EP_SIZE < c.length => <<t, p>> \in Data

VARIABLES
  host,     \* what the host does next
  cmd,      \* its command
  moved,    \* bytes of the data stage that have moved
  intact,   \* every packet that came in held what it should
  toggle,   \* the data toggle it sends or expects next
  aborts

hostVars == <<host, cmd, moved, intact, toggle, aborts>>
vars == <<deviceVars, hostVars>>

TypeOK ==
  /\ MsdTypeOK
  /\ host \in {"ready", "data", "status", "retry", "recover", "clear in", "clear out",
               "configure"}
  /\ cmd \in CBW
  /\ moved \in Nat /\ intact \in BOOLEAN
  /\ toggle \in [Directions -> {0, 1}]
  /\ aborts \in 0 .. MaxAborts

----------------------------------------------------------------------------
(* The bus: what the SIE answers to the host, and what it moves.            *)

\* The entry of direction d that the SIE is working on has the given owner.
Answers(d, own) == setup = "none" /\ configured /\ Active(usb[d]).own = own

Flip(d) == toggle' = [toggle EXCEPT ![d] = 1 - @]

\* A packet of the host goes to the buffer of the active entry: cbw if that is msd_cbw, else
\* the chunk of data.
Send(cbw, chunk, cnt) ==
  LET target == Active(usb.out).data
  IN /\ usb' = [usb EXCEPT !.out = Complete(@, cnt)]
     /\ msd_cbw' = IF target = CbwBuffer THEN cbw ELSE msd_cbw
     /\ msd_buffer' = IF target = CbwBuffer THEN msd_buffer
                      ELSE [msd_buffer EXCEPT ![target[2]] = chunk]
     /\ Flip("out")
     /\ UNCHANGED <<controlVars, machineVars, gblCBW, msd_csw, lengthVars, sense, ptrNextData,
                    mediaVars>>

\* The packet of the active entry goes to the host.
Receive ==
  /\ usb' = [usb EXCEPT !.in = Complete(@, @.entry[@.active].cnt)]
  /\ Flip("in")
  /\ UNCHANGED <<controlVars, machineVars, gblCBW, msd_csw, lengthVars, sense, bufferVars,
                 mediaVars>>

\* The host starts a request on endpoint 0.
Request(r) ==
  /\ setup' = r
  /\ UNCHANGED <<usb, configured, MSDCBWValid, MSDHostNoData, machineVars, gblCBW, msd_csw,
                 lengthVars, sense, bufferVars, mediaVars>>

\* Clearing a halt starts the endpoint's data toggle anew.
RequestClearHalt(d) ==
  /\ Request(IF d = "in" THEN "CLEAR_HALT_IN" ELSE "CLEAR_HALT_OUT")
  /\ toggle' = [toggle EXCEPT ![d] = 0]

----------------------------------------------------------------------------
(* The host.                                                                *)

\* What the host writes: data of this command, at this place of its data stage.
Written(position) == <<cmd.tag, position>>

SendCBW ==
  /\ host = "ready" /\ Answers("out", "armed")
  /\ \E c \in Commands, t \in Tags \ {cmd.tag} :
       LET cbw == [c EXCEPT !.tag = t]
       IN /\ cmd' = cbw
          /\ Send(cbw, Zeros, CBW_SIZE)
          /\ host' = IF cbw.length = 0 THEN "status" ELSE "data"
  /\ moved' = 0 /\ intact' = TRUE
  /\ UNCHANGED aborts

\* A data packet that lands in msd_cbw is no CBW.
SendData ==
  /\ host = "data" /\ ~cmd.in /\ Answers("out", "armed")
  /\ LET len == Least(EP_SIZE, cmd.length - moved)
     IN /\ Send(NoCommand(cmd.tag), Written(moved \div EP_SIZE), len)
        /\ moved' = moved + len
        /\ host' = IF moved + len = cmd.length THEN "status" ELSE "data"
  /\ UNCHANGED <<cmd, intact, aborts>>

\* What the packet at hand should hold.
Expected(position) ==
  LET s == cmd.lba + position \div BLOCKLEN
  IN CASE cmd.op = "READ_10" /\ s \in Sectors -> store[s][(position % BLOCKLEN) \div EP_SIZE]
       [] cmd.op # "READ_10" /\ position = 0 -> Answer
       [] OTHER -> Zeros

\* A short packet, a CSW too, ends the data stage.
ReceiveData ==
  /\ host = "data" /\ cmd.in /\ Answers("in", "armed")
  /\ Receive
  /\ LET packet == Active(usb.in)
         isData == packet.data # CswBuffer
     IN /\ moved' = IF isData THEN moved + packet.cnt ELSE moved
        /\ intact' = (intact /\ isData /\ packet.cnt <= cmd.length - moved
                             /\ msd_buffer[packet.data[2]] = Expected(moved))
        /\ host' = IF packet.cnt < EP_SIZE \/ moved + packet.cnt >= cmd.length
                   THEN "status" ELSE "data"
  /\ UNCHANGED <<cmd, aborts>>

StallInData ==
  /\ host = "data"
  /\ LET d == IF cmd.in THEN "in" ELSE "out"
     IN Answers(d, "stall") /\ RequestClearHalt(d)
  /\ host' = "status"
  /\ UNCHANGED <<cmd, moved, intact, aborts>>

\* A CSW that is meant for the command.
StatusArrives == Active(usb.in).data = CswBuffer /\ msd_csw.tag = cmd.tag

ReceiveStatus ==
  /\ host \in {"status", "retry"} /\ Answers("in", "armed")
  /\ Receive
  /\ host' = IF StatusArrives /\ msd_csw.status # "PHASE_ERROR" THEN "ready" ELSE "recover"
  /\ UNCHANGED <<cmd, moved, intact, aborts>>

StallInStatus ==
  /\ host = "status" /\ Answers("in", "stall")
  /\ RequestClearHalt("in")
  /\ host' = "retry"
  /\ UNCHANGED <<cmd, moved, intact, aborts>>

\* A STALL that clearing the halt did not cure, or one in answer to a CBW; and the timeout
\* of a CBW that the drive need not answer.
GiveUp ==
  /\ \/ host = "retry" /\ Answers("in", "stall")
     \/ host = "ready" /\ Answers("out", "stall")
     \/ host \in {"data", "status", "retry"} /\ cmd.form # "meaningful" /\ setup = "none"
  /\ host' = "recover"
  /\ UNCHANGED <<deviceVars, cmd, moved, intact, toggle, aborts>>

\* The three requests of the reset recovery.
RecoverReset ==
  /\ host = "recover" /\ setup = "none"
  /\ Request("MSD_RESET")
  /\ host' = "clear in"
  /\ UNCHANGED <<cmd, moved, intact, toggle, aborts>>

RecoverClear ==
  /\ setup = "none"
  /\ \/ host = "clear in" /\ RequestClearHalt("in") /\ host' = "clear out"
     \/ host = "clear out" /\ RequestClearHalt("out") /\ host' = "ready"
  /\ UNCHANGED <<cmd, moved, intact, aborts>>

Timeout ==
  /\ host \in {"ready", "data", "status", "retry"} /\ setup = "none"
  /\ aborts < MaxAborts /\ aborts' = aborts + 1
  /\ host' = "recover"
  /\ UNCHANGED <<deviceVars, cmd, moved, intact, toggle>>

\* Between two commands the host may halt an endpoint itself, and clear the halts again.
HaltEndpoint ==
  /\ host = "ready" /\ setup = "none"
  /\ aborts < MaxAborts /\ aborts' = aborts + 1
  /\ \/ Request("SET_HALT_IN")  /\ host' = "clear in"
     \/ Request("SET_HALT_OUT") /\ host' = "clear out"
  /\ UNCHANGED <<cmd, moved, intact, toggle>>

\* The host may reset the bus at any time, even with a request under way.
ResetBus ==
  /\ aborts < MaxAborts /\ aborts' = aborts + 1
  /\ Request("BUS_RESET")
  /\ toggle' = [d \in Directions |-> 0]
  /\ host' = "configure"
  /\ UNCHANGED <<cmd, moved, intact>>

Configure ==
  /\ host = "configure" /\ setup = "none"
  /\ Request("SET_CONFIGURATION")
  /\ host' = "ready"
  /\ UNCHANGED <<cmd, moved, intact, toggle, aborts>>

HostStep ==
  \/ SendCBW       \/ SendData      \/ ReceiveData  \/ StallInData \/ ReceiveStatus
  \/ StallInStatus \/ GiveUp        \/ RecoverReset \/ RecoverClear \/ Configure

----------------------------------------------------------------------------
(* The whole.                                                               *)

Init ==
  \E t \in Tags :
    /\ MsdInit(t)
    /\ host = "ready" /\ cmd = NoCommand(t)
    /\ moved = 0 /\ intact = TRUE
    /\ toggle = [e \in Directions |-> 0]
    /\ aborts = 0

DriveStep == (MSDTasks \/ USBDeviceTasks) /\ UNCHANGED hostVars

Next ==
  \/ DriveStep \/ HostStep \/ Timeout \/ HaltEndpoint \/ ResetBus
  \/ SetReadOnly /\ UNCHANGED hostVars

Spec == Init /\ [][Next]_vars

\* The main loop calls both tasks for ever, and the host does not stop in the middle.
Fairness == WF_vars(DriveStep) /\ WF_vars(HostStep)

FairSpec == Spec /\ Fairness

----------------------------------------------------------------------------
(* Properties.                                                              *)

\* Whatever was stalled, cleared, reset or timed out: a packet that is armed has the data
\* toggle that the host uses next; a packet with the other one would be taken for a repeated
\* one and dropped.  Clear halt starts with DATA0 at the entry the SIE is on (usb_device.c:2905),
\* a mass storage reset leaves the toggles alone (usb_device_msd.c:252).
TogglesAgree ==
  setup = "none" /\ configured =>
    \A d \in Directions : Active(usb[d]).own = "armed" => Active(usb[d]).toggle = toggle[d]

\* Where the host's next CBW goes is msd_cbw, and MSDTasks is waiting for it on the very handle
\* that completes: not in the sector buffer of a write that was aborted, and not on an entry
\* that was armed twice (usb_device_msd.c:266, app.c:282).
CommandHasItsBuffer ==
  host = "ready" /\ Answers("out", "armed") =>
    Active(usb.out).data = CbwBuffer /\ usb.outHandle = usb.out.active /\ MSD_State = "WAIT"

\* "Both MSD bulk IN and OUT endpoints should not be busy when these error cases are
\* detected" (usb_device_msd.c:1592): a command that is in error is always found so with idle
\* handles.  Otherwise a read would pass without data, and any other command would be checked
\* for ever.
ErrorsFindIdleHandles ==
  (\E op \in {"READ_10", "WRITE_10", "TEST_UNIT_READY"} : Starting(op) /\ ~NoErrorCase)
  \/ Starting("UNSUPPORTED") \/ (Starting("INQUIRY") /\ ~MSDHostNoData /\ ~NoErrorCase)
    => ~InBusy /\ ~OutBusy

\* After a CBW that was not valid both endpoints answer STALL, and go on to do so however often
\* the host clears the halt, until it resets the class or the bus (app.c:270,
\* usb_device_msd.c:476).
PersistentStall ==
  configured /\ setup \notin {"BUS_RESET", "SET_CONFIGURATION"} /\ ~MSDCBWValid =>
    \A d \in Directions : Active(usb[d]).own = "stall"

\* The host is about to read the CSW of its command.
StatusAtHand == host \in {"status", "retry"} /\ Answers("in", "armed") /\ StatusArrives

SectorOf(s) == [k \in Chunks |-> Written((s - cmd.lba) * Cardinality(Chunks) + k)]

Span == cmd.lba .. cmd.lba + cmd.count - 1

\* A command that is reported as passed was done: what came in is what was asked for, what
\* went out is on the medium, and the residue is what did not move (usb_device_msd.c:1004,
\* 1133, 1319).
PassedIsDone ==
  StatusAtHand /\ msd_csw.status = "PASSED" =>
    /\ intact
    /\ cmd.op = "WRITE_10" => Span \subseteq Sectors /\ \A s \in Span : store[s] = SectorOf(s)
    /\ cmd.op \in {"READ_10", "WRITE_10"} => moved = cmd.count * BLOCKLEN
    /\ cmd.op \in Responses =>
         moved = cmd.length /\ msd_csw.residue = cmd.length - Least(ResponseSize[cmd.op], cmd.length)

\* What the packets on IN would carry if they went out now.
Content == [i \in Entries |->
  LET p == usb.in.entry[i].data
  IN CASE p = CswBuffer -> <<msd_csw>>
       [] p = NoBuffer -> <<>>
       [] OTHER -> <<msd_buffer[p[2]]>>]

\* A packet that the SIE has to send is not changed under its hands, by the next sector of a
\* read (usb_device_msd.c:1086), the next answer, or the CSW of the next command.
NoOverwriteInFlight ==
  [][\A i \in Entries : usb.in.entry[i].own = "armed" /\ usb'.in.entry[i] = usb.in.entry[i]
       => Content'[i] = Content[i]]_vars

\* The medium changes only by a write of the command that the host is waiting for, at its
\* place in it: an aborted write never goes on with packets of the next command
\* (usb_device_msd.c:1313).
WritesAreTheHosts ==
  [][\A s \in Sectors : store'[s] # store[s] =>
       cmd.op = "WRITE_10" /\ s \in Span /\ store'[s] = SectorOf(s)
       /\ host # "ready"]_vars

\* The drive answers every command, or makes the host recover, and then takes the next one,
\* for ever (usb_device_msd.c:346).
CommandsAreAnswered == []<>(host = "ready") /\ []<>(host # "ready")

\* The host announces what the drive expects, and reads nothing that is not there.
Orderly(c) ==
  /\ c.form = "meaningful"
  /\ CASE c.op = "READ_10" ->
            c.in /\ c.length = c.count * BLOCKLEN /\ c.lba + c.count <= Capacity
       [] c.op = "WRITE_10" -> ~c.in /\ c.length = c.count * BLOCKLEN
       [] c.op \in Responses -> c.in /\ c.length >= c.count
       [] OTHER -> c.length = 0

\* After the last timeout and the last reset, no orderly command needs a recovery again, though
\* others go before it that fail and need one: host and drive are in step for good
\* (usb_device_msd.c:254).
RecoveryWorks == <>[](host = "recover" => ~Orderly(cmd))

\* usb_device_msd.c:263 says of a mass storage reset that finds the OUT endpoint armed: "If it
\* is already armed, don't need to do anything, since we can already receive the next CBW".
\* So there is never a second entry armed.
OneReceiver == \E i \in Entries : usb.out.entry[i].own # "armed"

\* usb_device_msd.c:428 says of the sense key of a command that fails: the handler "should
\* update the sense keys to reflect the type of error detected, prior to sending the CSW".
FailureExplained == StatusAtHand /\ msd_csw.status = "FAILED" => sense # "NO_SENSE"
=============================================================================
