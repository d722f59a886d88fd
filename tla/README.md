# Verification of the TmpUsb firmware

TmpUsb is a USB drive on a PIC18 microcontroller that erases itself when it loses power for too
long. This directory holds TLA+ models of its firmware (`src/firmware/src/`), the TLC
configurations that check them on small instances, and proofs for every value of the constants.

Paths such as app.c:19 below are under `src/firmware/src/`; README.md:34 is the repository's own
README.

## The system

| Component | State | Operations | Talks to |
|---|---|---|---|
| Life cycle: `main` (app.c:14-187) | place in `main`, blink counters, `timingCharge`, `indexer`, `oldChargeLimit` | boot decision, label commands, main loop with online commands, 5 V path, self-reset | calls everything below |
| Settings (settings.c) | a flash block (`SettingsRomBlock`) and a RAM copy (`SettingsBuffer`) | `settings_init`, three setters, `settings_reset`, `settings_write` (erase, then program) | the LED during a write |
| Disk image, labels, LED (io.c, fat12.h, Microchip/files.c) | 22 flash sectors, LED latch | `io_disk_erase`, `io_disk_isValid`, `io_disk_hasLabel`, `io_led_*`, `io_5v_isOn` | read and written by `main` and by the flash driver |
| Timing (timing.c) | a capacitor on pin B3 | `timing_getCharge`, `timing_charge` | hardware |
| Configuration (config.c) | clock, ports | `init`, `reset`, `wait_short` | hardware |
| Flash disk driver (Microchip/internal_flash.c) | `file_buffer` | sector read and write, page erase, capacity | mass storage class above, the settings' read-only flag |
| Mass storage class (Microchip/usb_device_msd.c) | command, read and write state machines, sense data, CBW and CSW | bulk-only transport, SCSI commands, error handling | USB stack below, flash driver through a table of functions |
| Mass storage glue (Microchip/app_device_msd.c) | none | the table, init, tasks | the two above |
| USB device stack (Microchip/usb_device.c, usb_device_local.h, usb_hal_pic18.h) | buffer descriptors with ping-pong, device state, control transfer state, status-stage timer | enumeration, EP0 transfers, stall and clear, suspend, resume, bus reset | USB hardware, event handler |
| USB event handler (app.c:218-291) | none | dispatches configured, EP0 request and transfer-terminated events | USB stack, mass storage class |
| Descriptors (Microchip/usb_descriptors.c) | constants | | read by GET_DESCRIPTOR |
| app_usb.c | | not part of the build: no project file compiles it | |
| Packaging, hardware files | | a script that patches serial numbers, drawings | |

Everything runs in one thread (`USB_POLLING`): there is no preemption, and the concurrency is with
the world. The host writes sectors and labels, resets the bus and retries; the user pulls the plug;
the capacitor charges and discharges; the microcontroller runs on for an unknown time after the
5 V line has gone and then stops between any two flash operations. What survives is the flash, and
it was being rewritten.

### What is hard

* **Crash recovery.** An erase takes 11 page erases and 22 sector programmings, a settings write an
  erase and a programming, and `main` strings up to four of them together. A power failure may cut
  any of them short, and the next boot has only the flash and the capacitor's charge to go by.
* **Ordering.** Some sequences are safe only because of their order: the page with the master boot
  record is erased first (io.c:111), the limit is raised to `TIMING_CEILING` before the 5 V erase
  and restored before the drive is disarmed (app.c:171-174), the flag is cleared after the erase
  (app.c:22) -- but `Calibrate` disarms before it erases (app.c:87).
* **Two copies.** The code decides on the RAM copy, the next boot on the flash.
* **Liveness.** The ReadOnly command resets the processor from the main loop while the label that
  commanded it stays where it is (app.c:161); the online check hangs on an 8-bit counter wrapping
  around (app.c:150).
* **Protocols.** The USB stack and the mass storage class are a set of state machines that answer a
  host which may stall, clear, reset and retry at any point.
* **Three clocks on endpoint 0.** The host goes on to the next stage, the SIE queues up to four
  finished transactions, and the firmware serves them later: a status packet or the next SETUP can
  be there before the last data packet has been looked at. A suspend falls between any two of these.
* **Two numberings.** The SIE, a macro, a bit flipped in a pointer and the USTAT register all say
  which buffer descriptor is meant; the linker, the boot record, io.c and the flash driver all say
  where the disk is.

### What makes each component correct

| Component | Properties |
|---|---|
| Life cycle | condemned data is never served again; armed data never becomes unarmed data; after power returns for good the drive settles; commands in labels are obeyed |
| Settings | never read-only without armed; a torn write reads as armed with the largest limit |
| Disk image | an erase that was begun is finished before the drive serves; the erase covers the volume and nothing else; the label read is the one the host shows, and commands at most one thing |
| LED | in use, it tells whether the drive is armed |
| Flash driver | it is an array of sectors: a write changes its sector and no other, and an interrupted one loses at most its page |
| Mass storage | every command gets exactly one status; no status says passed for a command that failed; the endpoint is armed exactly when the transport waits |
| USB stack | the next SETUP is always taken; a data stage is whole; what the drive can do it never refuses; host and drive agree on address, configuration and features; a suspended drive wakes up; firmware and SIE mean the same buffer descriptor |

## The modules

| Module | Models |
|---|---|
| `Timing` | the capacitor as an ADC reading, the 5 V line, who drives B3 |
| `Settings` | flash block and RAM copy, the setters, the two halves of `settings_write`, what getters make of an erased block |
| `Disk` | sectors by where their bytes come from and which label they carry, the validation, the choice of the label, the erase of a page |
| `TmpUsb` | `main` over the three above: the life of a drive |
| `SelfErasePromise` | the abstract specification: what the drive promises its owner |
| `MC_TmpUsb` | a small drive for TLC, and `SteadySpec`, a drive without bad luck |
| `MC_Calibration` | `MC_TmpUsb` with a history variable: the limit that the last Calibrate found, until ArmMax or Reset |
| `UsbEndpoint` | one direction of a bulk endpoint: two buffer descriptors in ping-pong between firmware and serial interface engine (SIE), as operators on a record |
| `MsdBot` | the mass storage class on an endpoint pair: `MSDTasks` with every command handler, and the requests on endpoint 0 that touch it |
| `MsdTransport` | `MsdBot` with the SIE's packets and a host that follows the bulk-only transport, times out, recovers and resets the bus |
| `MC_MsdTransport` | a small medium and three sets of commands for TLC |
| `UsbDescriptors` | the descriptors: which there are, how long each is, what the configuration announces |
| `UsbDevice` | endpoint 0 and the bus from the drive's side: `USBDeviceTasks` step by step, every standard request, and the SIE |
| `UsbHost` | `UsbDevice` with a host that enumerates it, asks, gives up, resets, suspends and wakes the bus |
| `MC_UsbHost` | two sets of requests, and the shipped memory configuration |
| `UsbMemory` | the buffer descriptor table in each ping-pong mode, the status byte of an entry, the layout of the buffers, the masks of the flags |
| `FlashDisk` | `FILEIO_InternalFlash_SectorRead` and `_SectorWrite` with a power failure within each flash operation |
| `BlockStore` | the abstract specification of `FlashDisk`: an array of sectors |
| `MC_FlashDisk` | a small disk for TLC |
| `Volume` | the layout of the volume, the addresses of erase and programming, the comparison of labels, the root directory under a host's operations |
| `Image` | the two boot records as programmed, what the validation compares, what a host reads from them |
| `TmpUsb_proof` | the inductive invariant and the safety theorems |
| `TmpUsb_refinement` | the proof that `TmpUsb` implements `SelfErasePromise` |
| `FlashDisk_proof`, `MsdTransport_proof`, `MsdCommand_proof`, `UsbHost_proof`, `Volume_proof`, `UsbMemory_proof` | the theorems about those modules |

`TmpUsb` EXTENDS `Settings` (which EXTENDS `Timing`) and `Disk`, and instantiates
`SelfErasePromise` with the refinement mapping; `FlashDisk` does the same with `BlockStore`.
`MsdTransport` EXTENDS `MsdBot`, which EXTENDS `UsbEndpoint`; `UsbHost` EXTENDS `UsbDevice`, which
EXTENDS `UsbEndpoint` and `UsbDescriptors`. `Volume`, `Image` and `UsbMemory` are about values and
have no steps: what the models with steps take from them (which sector holds what, that labels can be
compared as wholes, that an endpoint has two entries) is checked by the ASSUMEs of `MC_TmpUsb` and
`MC_UsbHost` and by theorems.

`MsdTransport` sees of endpoint 0 the requests in the order in which they are served, `UsbHost` sees
of the bulk endpoints nothing: the two share the device state, and a mass storage request or
SET_CONFIGURATION is in both, once for what it does to the class and once for its stages. The life
cycle and the transport meet in one place: the writes that the life cycle admits in `media`
(`HostReceive`, `HostWrite`) are what the mass storage class does in `SectorReceived` and
`WriteSector`; they are checked apart because together they would be beyond TLC, and because the
only state they share is the medium and `settings_getIsReadOnly()`.

### How `TmpUsb` corresponds to the code

`pc` names the place in `main`. A step of `main` is an action: its guard is the code's condition
with all earlier `else if` conditions, its effect what the branch assigns. A call of a flash
routine sets `op` and the place to go on at; the routine then takes a step per flash operation
(`WriteSettingsEnd`, `ErasePage`, `FormatSector`, `ProgramPage`) and `main` waits until `op` is
`"none"`. The processor stalls during a flash operation (io.c:117), so nothing comes between; the
power can fail before, between and after (`PowerFail` is enabled in every powered state once the
5 V line is off).

| Places | Code |
|---|---|
| boot, judge, disarm, relimit, blink3 | app.c:15-34 |
| charge, check, disarmInvalid, resetSettings, setReadOnly, setCeiling, calibrate, rawErase, blink | app.c:36-125 |
| wait | app.c:128-130 |
| command, reset | app.c:142-165, config.c:74 |
| supply, wipe, restore, release, halt | app.c:166-179 |
| media | app.c:182-186 |

The host is the environment of `media`. A sector that has come in is accepted unless the medium is
write-protected (`HostReceive`, usb_device_msd.c:1277), and written in a later iteration without a
second look at the protection (`HostWrite`), as the flash driver does it: page to `file_buffer`,
page erased, page programmed (internal_flash.c:501-673). A write to the root or boot sector carries
any label.

Two history variables record what the properties are about. `condemned` is the host data on the
disk that has been there since a moment when the power was off and the charge at or below the
limit of armed settings in flash, or since an erase had begun. `guarded` is the host data that has
been there since the settings in flash were armed. Both only ever shrink by the data going away:
the firmware cannot forget in the model what it has forgotten in RAM.

### Abstractions

* A sector's contents are where they come from (erased, as programmed at the factory or by an
  erase, written by the host and still accepted by `io_disk_isValid`, written and not accepted)
  and the label they carry. Letters, case and padding of labels, the digits after `Raw`, and the
  walk of `io_disk_hasLabel` over the directory entries are in `Volume`.
* A flash operation is atomic in the life cycle (in `FlashDisk` it may be cut short), and the
  sixteen programmings of a settings block are one, of which only the first carries data.
* The converter's 10-bit readings are the constant `Readings`. The capacitor charges to any higher
  reading while B3 is driven, and discharges to any lower one otherwise.
* The outage is what the capacitor says it is: a capacitor that discharges during a boot counts as
  an outage, as it does for the code.
* The LED is its latch. Blinks are counted, not timed. (README.md:45 tells of five blinks after a
  validation error; the code's loop has seven, app.c:48. No property is about that number.)
* USB is reduced to when the host's writes can come in; `MsdTransport` has the rest.

### How `MsdBot` and `MsdTransport` correspond to the code

The variables of `MsdBot` have the names of the code's: `MSD_State`, `MSDCommandState`,
`MSDReadState`, `MSDWriteState`, `gblCBW`, `msd_csw`, `TransferLength`, `LBA`, `MSDRetryAttempt`,
`msd_cbw`, `msd_buffer`, `ptrNextData`. `usb` is the endpoint pair with the two handles that the
class keeps; `setup` is a request on endpoint 0 that the drive has not served.

An action is one call of `MSDTasks` from its entry to its return, so a `switch` that falls through
from one state to the next is one action (`FetchSector` goes from the start of a block to its first
packet), and a handler that returns to wait is two. `USBDeviceTasks` serves one request or bus
reset per action: `MassStorageReset`, `ClearHaltIn` and `ClearHaltOut` with the call of the event
handler that re-arms or stalls (`TransferTerminated`, app.c:251-285), `BusReset`,
`SetConfiguration`. `MsdTransport` adds what happens between two calls: the SIE takes or gives a
packet on the entry it works on, at any time.

| Actions | Code (usb_device_msd.c unless named) |
|---|---|
| `AcceptCBW`, `RejectCBW`, `SendCSW` | 346-538 |
| `FailCheckedCommand`, `FailUnsupported` | 1445-1656, 964-972 |
| `NoAnswerWanted`, `TestUnitReady`, `PreventAllowMediumRemoval`, `VerifyOrStopStart`, `PrepareResponse`, `SendResponse` | 712-972, 1004-1023 |
| `ReadStart` ... `TransmitPacket` | 1045-1165 |
| `WriteProtected`, `WriteStart` ... `SkipSector` | 1195-1350 |
| `MassStorageReset` | 229-270 |
| `ClearHalt`, `TransferTerminated` | usb_device.c:2806-2975, app.c:251-285 |
| `BusReset`, `SetConfiguration` | usb_device.c:292-379, 1962-2018 |

The host is assumed to work on one thing at a time: while a request on endpoint 0 waits for the
drive, it moves nothing on the bulk endpoints, though it may reset the bus. It goes by the
bulk-only transport: clear halt on a STALL, one more try for the status, then the reset recovery of
three requests. It uses a new tag for each command. What it announces need not be what the drive
expects; it moves what it has announced.

Left out: the bytes of the answers (a packet holds "an answer", padding or a chunk of a sector),
the LUN, media that are absent or changed (this drive's `MediaDetect` and `MediaInitialize` cannot
fail), OUT packets shorter than announced, and endpoint 0 but for the order in which its requests
are served. A host that sets a halt itself (SET_FEATURE) does so between two commands only: in the
middle of one, a CBW that has come in and was not served survives the mass storage reset, for the
entry after it is stalled and counts as busy (usb_device_msd.c:266), and `CommandHasItsBuffer` and
`ErrorsFindIdleHandles` do not hold. `ping_pong_state`, the firmware's idea of the entry the
SIE works on, is that entry: it is advanced for each finished transaction in the order of the
SIE's FIFO (usb_device.c:777-817), which is emptied before a later SETUP is looked at.

### How `UsbDevice` and `UsbHost` correspond to the code

A call of `USBDeviceTasks` (usb_device.c:483-821) is a walk over places, and the SIE and the host act
between any two of them. `task` is the place:

| Place | Code | Actions |
|---|---|---|
| activity | 571-650, 2296-2340: attach, wake-up, the return of a suspended drive | `Attach`, `USBWakeFromSuspend`, `StayAwake` |
| reset | 662-681, 292-379 | `USBDeviceInit`, `NoReset` |
| idle | 686-772, 2196-2279: suspend, stall handler | `USBSuspend`, `USBStallHandler` |
| drain, more | 777-821, 2363-2421: the oldest transaction of the FIFO | the handlers below, `EndCall` |

| Actions | Code (usb_device.c unless named) |
|---|---|
| `SetAddress`, `GetConfiguration`, `GetInterface`, `SetInterface`, `UnknownRequest` | 2683-2730 |
| `GetDescriptor`, `SetConfiguration`, `GetStatus`, `Feature` | 2037-2106, 1962-2018, 2123-2178, 2795-2814 |
| `Unclaimed`, `Claimed`, `Acknowledged`: the stages they open | 1410-1512, 1610-1742, 1771-1819 |
| `MassStorageRequest` | usb_device_msd.c:229-290 |
| `USBCtrlTrfOutHandler`, `NextInPacket`, `StatusInDone` | 2535-2664 |
| `SieSetup`, `SieOut`, `SieIn`, `SieStall`, `SieFlags` | the SIE |

The short-packet state is as the code has it (1771-1819), and a data stage is
described by where its bytes come from and how many have been copied, so that a packet that is built
over one in flight, one that is sent twice or one that is missing shows. `out` and `in` are the
entries of endpoint 0, `outCurrent`, `outNext` and `inNext` the firmware's three pointers.

The host of `UsbHost` makes one control transfer at a time, and
* it follows the specification: it configures only a drive that has an address, and gives an address
  to a drive without one only; it is silent after a reset at least until the call that the reset fell
  into is over;
* it may lose handshakes, give a transfer up, end a data stage early and reset the bus (all of these
  count as disturbances), and suspend the bus between any two packets; the bus is not suspended again
  before the drive has woken up, for the second wake-up would fall into the first;
* the acknowledgement of the status stage of SET_ADDRESS is not lost: the drive would keep the old
  address, and the host would have to find out;
* a request goes in the direction its kind has, none of those to the drive brings data, and an
  address it gives is one of 1 .. 127 (`RequestAssumption`);
* it is `Cautious` in the run usb: after a SET_ADDRESS that it gave up it sends another one or resets
  the bus. The run usb_address does without, see the divergences.

What a host knows of the alternate setting and of remote wake-up is forgotten with a bus reset,
which leaves both as they were in the drive. What is no step of its own in the model does not touch
what runs beside it: `USBCtrlEPServiceComplete` and the handler before it are one step, for the SIE
takes nothing while a SETUP packet waits (`PKTDIS`). Nobody defers a stage on this drive and no request
has an OUT data stage: `USBCtrlTrfRxService` is unreachable, and the status stage timeout (706-746)
finds its work done.

### How `FlashDisk` corresponds to the code

`SectorRead` and `WriteOutside` are one call each (internal_flash.c:247-266, 515-520). A write that the
comparison finds superfluous is `SkipWrite`; otherwise `BeginWrite` fills `file_buffer` with the page
and the new sector (546-588), `EraseBlock` and each `ProgramBlock` are one flash operation, and
`PowerFail` may leave garbage in what the operation was changing. The comparison runs over 1024 bytes
although the host's buffer holds 512 (internal_flash.c:529-544): it reads what happens to be behind the
buffer, so a write of the same data may be skipped or not. The model leaves that open; a skipped
write always has the data it should.

### What `Volume`, `Image` and `UsbMemory` translate

`Volume` has the arithmetic of the addresses (io.c:99-153, with its 16-bit int), the layout macros
(internal_flash.h, fileio_config.h, fat12.h, files.c), the comparison of labels (io.c:45-97), the label
that Raw writes (app.c:84-110), and a host's operations on a root directory. A host is assumed to put
a new label in the first free entry, with the attribute 0x08 and nothing else. A command that is only
in the label of the boot record is not read as long as a deleted label entry is in the directory.
`Image` has the fields of both boot records and the bytes that the validation leaves out.

`UsbMemory` has the entries of the table in the four ping-pong modes (usb_device_local.h), the macro
`EP` and the pointer arithmetic of usb_device.c, the bits of BDnSTAT under the operations that change
them, the buffers at their addresses (usb_hal_pic18.h:221-240) and the masks of the flags. In the
mode that shares endpoint 0 (`ALL_BUT_EP0`, not selected) the macro gives endpoint 0 IN the entry of
endpoint 1; nothing evaluates it for endpoint 0. The CBW is armed for 64 bytes at an object of 31;
the 33 bytes behind it are kept free by the address of the CSW only. The comments beside two masks
(usb_hal_pic18.h:96 and 106) name other bits than the masks clear; the masks are right.

## The abstract specifications

`SelfErasePromise` knows data, what of it is condemned or was held armed, whether the drive is
armed and whether it serves. Serving, a drive may take and lose data and may become armed but not
disarmed. Dark, it may do anything but gain data or forget what is condemned or held armed. To
serve again, it must hold no condemned data, and if unarmed nothing it held armed. `TmpUsb`
implements it under the mapping "serving is the main loop, armed is the flag in flash, data is the
sectors the host wrote".

`BlockStore` knows the content of each sector, which sectors a power failure may take, and whether an
operation is under way. `FlashDisk` implements it under the mapping "the content of a sector is what
`file_buffer` has of the page that is rewritten, and what the flash has of any other; at risk is
that page".

## The runs

| Run | Configuration | Checks | Result |
|---|---|---|---|
| safety | `MC_TmpUsb.cfg` | `TypeOK`, `CondemnedNeverServed`, `ArmedDataStaysArmed`, `ReadOnlyIsArmed`, `LedTellsArmed`, `KeepsPromise` | holds, 4.2 million states |
| live | `MC_TmpUsb_live.cfg` | `PoweredDriveSettles`, `ArmedLabelArms` under `FairSpec` | holds, 180 000 states |
| arm | `MC_TmpUsb_arm.cfg` | `ArmToleratesShortOutage` (README.md:60) under `SteadySpec` | violated, see below |
| calibration | `MC_Calibration.cfg` | `CalibrationLasts` (README.md:89) under `CalibrationSpec` | violated, see below |
| msd_transfers | `MC_MsdTransport.cfg` | `TypeOK`, `TogglesAgree`, `CommandHasItsBuffer`, `PassedIsDone`, `NoOverwriteInFlight`, `WritesAreTheHosts` | holds, 3.1 million states |
| msd_errors | `MC_MsdTransport_errors.cfg` | `ErrorsFindIdleHandles`, `PassedIsDone`, `RecoveryWorks`, `CommandsAreAnswered` under `FairSpec` | holds, 1.2 million states |
| msd_answers | `MC_MsdTransport_answers.cfg` | `PersistentStall`, `PassedIsDone` | holds, 1.7 million states |
| msd_reset | `MC_MsdTransport_reset.cfg` | `OneReceiver` (usb_device_msd.c:263) | violated, see below |
| msd_sense | `MC_MsdTransport_sense.cfg` | `FailureExplained` (usb_device_msd.c:428) | violated, see below |
| usb | `MC_UsbHost.cfg` | `TypeOK`, `SetupAccepted`, `ReadIntact`, `StagesAreAnswered`, `NoFalseStall`, `HostKnowsDevice`, `WakeUpPending`, `AddressSetByItsRequest`, `TransfersEnd`, `WakesUp` under `FairSpec` | holds, 1.3 million states |
| usb_address | `MC_UsbHost_address.cfg` | `AddressSetByItsRequest` (usb_device.c:2580) | violated, see below |
| flash | `MC_FlashDisk.cfg` | `TypeOK`, `PageUnderWay`, `ImplementsBlockStore` | holds, 230 000 states |

* **safety** shows that neither the labels nor the host's writes nor power failures between any
  two flash operations lead to condemned data being served, to a drive that gives up being armed
  with its data still there, to a read-only drive that is not armed, or to an LED that lies. Every
  property has a mutant of the code that breaks it: a charge exactly at the limit that passes;
  pages erased from the last to the first; a disarming that keeps the read-only flag; an online
  command that sets the flag in RAM only.
* **live** shows that a drive whose supply stays ends up serving (or in the blink loop that follows
  a 5 V erase, app.c:175), so that the self-reset does not repeat, and that the label `Armed` is
  noticed by the online check.
* **arm** and **calibration** are two places where the code does something else than the repository's
  README says. Both leave out power failures that the divergence does not need: in `arm` the power
  fails only while the drive serves or blinks after a 5 V erase, never during a flash operation
  (`SteadyPower`); in `calibration` it fails anywhere but in a write of the settings block
  (`WholeSettings`).
* **msd_transfers** has reads and writes of two sectors, a short answer and a command without data,
  with two timeouts, halts or bus resets at any point, also in the middle of a recovery. Host and
  drive stay in step: the toggles agree, the next CBW arrives in `msd_cbw` on the handle the drive
  waits for, the sector buffer is not refilled under the SIE's hands, an aborted write does not go
  on, and a command that is reported as passed was done. Mutants that break it: a clear halt that
  keeps the toggle, or treats the active entry first; a sector fetched while the last packet is still
  there; a packet counted before it has arrived; an LBA that is not advanced.
* **msd_errors** has the commands whose announced transfer does not fit the command (the thirteen
  cases of the bulk-only transport) and sectors out of range, among good reads and writes. Every
  error is found with idle handles, so that the early return of `MSDErrorHandler`
  (usb_device_msd.c:1594) is never taken; no failure passes; every command ends in a status or a
  recovery; and after the last disturbance good commands need no recovery.
* **msd_answers** has the other SCSI commands, with answers shorter and longer than asked for, and
  CBWs that are invalid or have no meaning. A WRITE_10 of no sector to a read-only drive is left out
  of the runs with liveness: the drive stalls OUT for it with no data stage, so that the command
  after it needs a recovery.
* **usb** has every request that the drive answers and one that it refuses, with a lost handshake, a
  transfer that is given up or ended early or a bus reset, and a suspend, each between any two steps
  of `USBDeviceTasks`. The next SETUP is always taken, data stages are whole, each stage is answered
  and rightly so, the host's picture of the drive is right, an address comes from its own request, and
  the drive wakes up. The configuration
  descriptor has 32 bytes, four full packets, so the empty packet after it is among the cases. Mutants
  that break it: a reset that keeps the configuration; a suspend that clears the activity flag; a
  data stage that starts over with each packet; no empty packet after a full one; a status packet
  with DATA0; a control read that arms one OUT entry only; an address taken over without one pending.
* **flash** shows that the driver is an array of sectors. Mutants: the page of the next sector
  erased; one write block programmed too many; a comparison that stops at the first write block.
* **msd_reset**, **msd_sense** and **usb_address** are three places where the code does something
  else than its own comments say.

The modules without steps are checked by the ASSUMEs of the MC modules, which TLC evaluates in the
runs safety, live and usb, and by the theorems below.

### Bounds

| Constant | In the runs | In the code | Why it is enough |
|---|---|---|---|
| `Pages` | 3 (6 sectors) | 11 (22 sectors) | a page with the sectors that the validation reads, a page with FAT and root directory, a page of plain data: the code treats no others differently. The theorems hold for every number of at least two |
| `Readings` | 42, 500, 1020 | 0 .. 1023 | at the default limit, below the largest limit that tolerates a reset, above the charge main waits for; the calibrated limits they give are among them |
| `HostLabels` | all commands (`arm`: Arm, ArmMax, Forgetful; `calibration`: Armed, ArmMax, Calibrate, Reset) | any | labels that are no command behave like none; the two spellings of ArmMax are one |
| `HostSectors` | boot, root and one data sector (`live`, `arm`, `calibration`: root) | any | a label can be in the first two; overwriting the MBR is covered by an invalid boot sector. The theorems allow any set |
| `IndexerPeriod` | 2 | 256 | iterations with and without the online check; the theorems allow any |

Nothing else is bounded in the life cycle: outages, power failures, resets and commands may come
any number of times.

| Constant | In the runs | In the code | Why it is enough |
|---|---|---|---|
| `Capacity` | 2 | 22 | a command for two sectors goes through "next sector" and "last sector"; the second may be out of range |
| `BLOCKLEN`, `EP_SIZE` | 128, 64 | 512, 64 | two packets in a sector, so both entries of an endpoint are in use within one |
| `MaxAttempts` | 1 | 100 | a retry that is allowed and one that is not |
| `Tags` | 2, symmetric | 32 bits | the host only avoids the tag of the command before; a stale CSW has the other one. msd_errors, which has liveness, does without the symmetry |
| `Commands` | 4, 11 and 15 | any | see `MC_MsdTransport`; a behaviour has any number of them |
| `MaxAborts` | 2 or 1 | any | timeouts, halts set by the host and bus resets in a behaviour: a disturbance, and in msd_transfers one more in the recovery from it |

| Constant | In the runs | In the code | Why it is enough |
|---|---|---|---|
| `EP0_SIZE` | 8 | 8 | the descriptors have their real lengths: 18, 32, 4, 26, 14 and 16 bytes, so data stages of one packet, of many, and of a full last one |
| `Requests` | 11 (usb_address: 3) | any | every handler, one request that is refused; a behaviour has any number of them |
| `MaxDisturbances` | 1 | any | the state that a broken transfer leaves is met by every next request. All but the liveness properties are proved for any number |
| `MaxSuspends` | 1 (usb_address: 0) | any | a suspend at any point; the same |
| `USB_PING_PONG_MODE`, `USB_EP0_BUFF_SIZE`, `USB_MAX_EP_NUMBER` | 2, 8, 1 | 2, 8, 1 | as shipped; the theorems have all four modes, all four sizes, and up to 15 endpoints |
| `Pages`, `SectorBlocks` (flash) | 2, 2 | 11, 8 | a page beside the one that is rewritten; first, middle and last block of a page. The theorems have any |
| `Bytes` (flash) | 2 | 2^512 | data that differs and an erased block |
| `FilesAddress`, `DriveCapacity`, `RootEntries` | 0x2000, 16, 48 | the same | as shipped; the theorems have every layout that the comments of fileio_config.h allow up to 64 sectors, beyond which a product of io.c overflows its 16 bits |

### Fairness

`FairSpec` adds weak fairness of two things. The processor takes steps as long as it has power and
starts when it gets it: `WF_vars(Flash \/ Booting \/ MainLoop \/ PowerUp)`; the code polls, waits
for nothing but the capacitor, and has no sleep mode. The capacitor charges while its pin is driven:
`WF_vars(Charge)`. Nothing is assumed of the host or the user: both liveness properties begin with
"if the supply stays on from some time on", and the second with "and the label stays".

For the transport, `FairSpec` adds `WF_vars(DriveStep)`, for the main loop calls `USBDeviceTasks` and
`MSDTasks` again and again and every action of them is a call, and `WF_vars(HostStep)`: the host does
not stop in the middle of a command. Timeouts, bus resets and the online ReadOnly have no fairness.

For endpoint 0, `FairSpec` of `UsbHost` has `WF_vars(DeviceStep)`, for the same reason: every step of
the drive is a call the main loop makes again and again; strong fairness of the data lines coming up
while the drive attaches, for the loop tests them in each call and they are up in the end; `WF_vars(HostStep)`, a host that goes on with its transfer
and does not leave the bus suspended; and that a host gives up a transfer in which a handshake was
lost and no answer can come. Other disturbances and suspends have no fairness.

### The divergences

* **ArmMax survives a 5 V erase (`arm`).** On the loss of the 5 V line the code erases the disk,
  writes the old limit back (app.c:173) and disarms. If the drive was armed by ArmMax, that limit
  is `TIMING_CEILING`; the ordinary self-erase resets it (app.c:23, "reset timings if it was
  ArmMax"), this path does not. A later Arm arms the drive with it, and it then erases after any
  power loss, against README.md:60. The run shows it with no power failure
  but while the drive serves or blinks. A power failure between app.c:22 and app.c:23, which the run
  leaves out, has the same effect.
* **A 5 V erase can lose a calibrated limit (`calibration`).** README.md:89-91 says that the value
  found by Calibrate is used until ArmMax or Reset are given. The 5 V path replaces the limit by
  `TIMING_CEILING` while it erases (app.c:171), so that the next boot erases should the power fail
  before the end. That boot does so, but takes the limit for ArmMax's and sets it to `TIMING_DEFAULT`
  (app.c:23): the drive serves with a limit of 42 where Calibrate had found 768. The value that
  line 173 would have written back was in RAM only. A write of the settings that is cut off loses the
  limit too (the block then reads as 65535); the run leaves that out.
* **A reset arms the OUT endpoint twice (`msd_reset`).** A mass storage reset arms OUT if the next
  handle is free (usb_device_msd.c:266). With ping-pong buffers the next handle is the entry after
  the armed one: a drive that already waits for a CBW gets a second entry armed, both for
  `msd_cbw`, where the comment says it need not do anything. The clear halt that a host sends next
  takes both back and arms one again (`CommandHasItsBuffer`), so a host that does the whole recovery
  sees nothing of it.
* **An address of another request (`usb_address`).** While a SET_ADDRESS is pending the drive takes its
  new address on the completion of any IN transaction, and from whatever SETUP packet came last
  (usb_device.c:2601-2612). If the host gave the SET_ADDRESS up and asks for something else first, the
  first data packet moves the drive to the low seven bits of that request's wValue. The comment at
  usb_device.c:2580 says that the address must not change until the completion of its transfer. A host
  that goes by the specification's advice and resets the drive, or repeats the SET_ADDRESS, sees
  nothing of it (run usb, and for every set of requests theorem `AddressComesFromItsRequest`).
* **Failures without a reason (`msd_sense`).** The error cases 4, 5, 9 and 11 end as failed with
  the sense key that was set when the command came in: no sense. The comment at
  usb_device_msd.c:428 promises a key.

## What is proved

The listed theorems hold for every value of the constants that the modules' ASSUMEs allow.

| Module | Theorem | States |
|---|---|---|
| `TmpUsb_proof` | `TypeCorrect` | `Spec => []TypeOK` |
| | `NeverServed` | `Spec => []CondemnedNeverServed` |
| | `StaysArmed` | `Spec => []ArmedDataStaysArmed` |
| | `ReadOnlyArmed` | `Spec => []ReadOnlyIsArmed` |
| `TmpUsb_refinement` | `LedIsHonest` | `Spec => []LedTellsArmed` |
| | `FirmwareKeepsPromise` | `Spec => KeepsPromise` (the refinement) |
| `FlashDisk_proof` | `TypeCorrect` | `Spec => []TypeOK` |
| | `NothingIsProgrammedOver` | `Spec => []PageUnderWay` |
| | `DriverIsABlockStore` | `Spec => ImplementsBlockStore` (the refinement) |
| `MsdTransport_proof` | `NoPacketDropped` | `Spec => []TogglesAgree` |
| | `InvalidCommandLocks` | `Spec => []PersistentStall` |
| `MsdCommand_proof` | `TypesHold` | `Spec => []TypeOK` |
| | `CommandFindsItsBuffer` | `Spec => []CommandHasItsBuffer` |
| | `PassedCommandsAreDone` | `Spec => []PassedIsDone` |
| | `ErrorsAreReported` | `Spec => []ErrorsFindIdleHandles` |
| | `PacketsGoOutUnchanged` | `Spec => NoOverwriteInFlight` |
| | `OnlyTheHostWrites` | `Spec => WritesAreTheHosts` |
| `UsbHost_proof` | `TypeCorrect` | `Spec => []TypeOK` |
| | `NeverAsleepForEver` | `Spec => []WakeUpPending` |
| | `AlwaysRoomForSetup` | `Spec => []SetupAccepted` |
| | `ControlReadsAreIntact` | `Cautious` implies `Spec => []ReadIntact` |
| | `RequestsAreNotRefused` | `Cautious` implies `Spec => []NoFalseStall` |
| | `EveryStageIsAnswered` | `Cautious` implies `Spec => []StagesAreAnswered` |
| | `DeviceIsAsTheHostKnowsIt` | `Cautious` implies `Spec => []HostKnowsDevice` |
| | `AddressComesFromItsRequest` | `Cautious` implies `Spec => AddressSetByItsRequest` |
| `Volume_proof` | `LayoutAgrees`, `ImageTilesDisk` | boot record, linker, io.c and flash driver agree on where things are, and every sector of the volume is in the image once |
| | `ErasesTheVolume`, `ProgramsInPlace` | the loops of `io_disk_erase` reach all of the volume and nothing else |
| | `MatchIgnoresCase`, `ErasedLabelIsRead`, `OneCommand`, `RawTellsReading` | what the comparison of labels compares; at most one command is in a label; the digits of Raw |
| | `ErasedDirectoryIsOrdered`, `HostKeepsLabelFirst`, `LiveLabelIsRead`, `DeletedLabelCommandsNothing` | the label that is read is the one the host shows, although deleted entries are not skipped |
| `UsbMemory_proof` | `MacroFindsTheEntry`, `EntriesAreDistinct`, `TableIsLargeEnough`, `AdvanceFollowsTheSie`, `OddAndEvenAreThePair`, `UstatFindsTheEntry` | firmware and SIE mean the same entry, in each mode |
| | `BuffersAreApart` | nothing that the SIE may touch overlaps |
| | `EndpointModelIsExact`, `ArmedForOnePacket` | whatever bits the SIE or a STALL left, the operations on the status byte are those of `UsbEndpoint` |
| | `ConfiguredStartsAnew`, `HaltClearedStartsAnew` | the first packet after a configuration or a cleared halt is DATA0, the next DATA1, with a pair of entries and without |

### The life cycle

None of the invariants is inductive. `IndInv` joins, in layers that each rest on the ones before:

1. `TypeInv`: types, and a blink loop is entered with blinks left.
2. `ControlInv`: where `main` can be while a flash routine is at work; nothing charges the
   capacitor before the boot decision has been carried out; the decision is made on what is in
   flash.
3. `EraseInv`: the pages before the loop index are erased, so the programming starts on an empty
   disk and `main` goes on with one.
4. `UnarmedWrite`: unarmed settings are only ever written to an empty disk, or to one whose label
   is Calibrate.
5. `ReadOnlyInv`, `HistoryInv`: the read-only flag in both copies; the histories hold host data.
6. `CondemnedInv`: condemned data is on its way to an erase. Either the disk is invalid, and `main`
   is before its validation or erases; or the charge is still at or below the armed limit in flash,
   and `main` is before its judgement, has judged so, or erases. The step that matters is the first
   page of an erase: it removes the reason "armed and below the limit" from what is needed, for it
   destroys the boot record (`ErasedMbr`). A torn settings write counts as armed with the largest
   limit, so it never removes the second reason.
7. `GuardedInv`: data held armed on a drive that is not armed any more is on a disk that is invalid
   or says Calibrate, with `main` before its commands or at the erase. This is what makes Calibrate
   safe although it disarms first: the label is repeated at every boot until the first page is
   gone.

`ServingInv` (in `TmpUsb_refinement`) adds that RAM and flash agree between two writes and that no
write of a serving drive disarms it. Every step is then of one of three shapes: it stays serving
without disarming, it ends dark with no new data, or it starts to serve what it has; these are the
three actions of `SelfErasePromise`.

### The flash driver

`IndInv` is `TypeOK`, `PageUnderWay`, that no block is counted as written outside a programming, and
that a call under way will answer with success. `PageUnderWay` is the heart: the flash is
`file_buffer` up to the block that is next, and blank behind. The last block then leaves the page
equal to `file_buffer`, so that switching the mapping from one to the other changes no content; a
power failure changes the page under way only, which is what is at risk.

### The transport

`TogglesAgree` speaks of the active entry when no request waits. `IndInv` speaks of both entries of
each endpoint at all times (`InStep`): the active one has the host's toggle and the other the opposite
one, except while a request waits that sets them anew; and there (`StartsAnew`) the host has begun with
DATA0 itself. A packet flips the host's toggle and moves the SIE to the other entry; a clear halt, which
goes through both entries and perhaps the event handler, gives each its toggle. `Locked` has that after
an invalid CBW every entry stalls and `MSDTasks` waits for a CBW, and that what clears a halt stalls
both endpoints again.

On it rest two more layers, in `MsdCommand_proof`.

`ControlInv` says where the drive can be while the host is where it is. An endpoint has one of a few
shapes: IN is idle, has data, the CSW, or the last data and the CSW behind it; OUT waits for a packet
or has taken one; either is stalled, or halted by the host. `WhileServing`, `WhileReporting` and
`WhileWaiting` say which shapes go with which state of `MSDTasks`, and `WithHost` what the host knows: once it
has reset the class, or has the status of its command, the drive is `Quiet`, with OUT armed or a CBW
that is none. That a mass storage reset leaves OUT armed in the middle of a sector, or arms it
twice, is in it (`Settled`): the clear halt that follows is what puts OUT back to `msd_cbw`. From it
follow `CommandHasItsBuffer`, `ErrorsFindIdleHandles` and `NoOverwriteInFlight`.

`DataInv` ties numbers to one another. In the drive, what is left of the command is what is left of its
sectors plus the residue of the one under way (`WhenReading`, `WhenWriting`), and the chunks before
`ptrNextData` are those of the command. Between drive and host, the bytes that have moved, with those
in the packet that is armed, are those that the drive has counted (`WhileHostWaits`); and that packet
holds what the host expects next. It speaks of the host only while it is in its command: after a
timeout the drive goes on by itself, and what is then true of `moved` is of no use to anybody. A
write goes on only as long as the host sends the packets of this command, so that its sectors are
right even then. `WhenReporting` is what `PassedIsDone` needs of a CSW that is on its way.

Two assumptions on the constants came with it. `ResponseAssumption`: an answer is no longer than a
packet, which the code relies on when it prepares an answer in one buffer. `DataAssumption`: `Data` has
the packets that the commands write; it gives a name to what the host may send and restricts nothing.

### Endpoint 0

`TypeOK` is inductive with a bound on what is left of a data stage. `Wakeable` makes `WakeUpPending`
inductive: the SIE sleeps exactly while its wake-up is unmasked and never while a bus reset is served,
where all flags are thrown away. `Queued` and `Ready` make `SetupAccepted` inductive: a SETUP packet
that waits is the last of the queue and the SIE waits for it; of the status packets of control reads at
most one is in the queue; where the SIE's entry would take a status packet the other one is ready for a
SETUP, and the firmware knows that both are armed as long as that packet may come.

The other five theorems are about what host and drive know of each other, and rest on `HostFits`:

1. `OneIn`, `CurrentNotArmed`: the firmware arms one IN entry at a time and is on it until it has
   served its transaction; the OUT entry of the last SETUP is the firmware's.
2. `Recovering`: a bus reset that the drive has not seen yet. Whatever the host sends meanwhile waits
   behind it and is thrown away with the FIFO, and nothing is set up.
3. `Requested`: the request that the drive has is the one the host is in, and one that it may make.
4. `Agreed`: what the host knows is what the drive has, also while transactions wait. An address is
   pending from its SETUP packet until the empty packet of its status stage is served, and the host
   begins nothing else before, or repeats it; the address is the one thing of which the host knows more
   than the drive has done. Here `Cautious` is needed: without it the run usb_address has a
   counterexample.
5. `StageFits`: while a stage of the host's is open and its SETUP packet is served, the drive is in one
   of five states. The request was thrown away by a reset (`Forgotten`); it refuses it (`Refusing`);
   it has done it and has its empty packet armed (`Confirming`); it sends (`Sending`), where what was
   copied is what the host has, with the packet that is armed, or the last one was read and comes again
   or waits to be served (`PacketIsNext`, `PacketWasRead`), and what is left to copy is left of the descriptor; or it awaits
   the status packet of a read (`AwaitingStatus`).

Of each of the five, lemma `StageAnswer` says what the host finds, from which `NoFalseStall` and `StagesAreAnswered` follow. `intact` is kept because a
packet that arrives is the next one of the right source, and because a data stage ends with a packet
that is not full or with all that was asked for. `PendingFits` is what the action property
needs: a pending address has its request beside it, or a reset is about to take it away.

### Values

`Volume_proof` and `UsbMemory_proof` have no steps. Their lemmas are about divisions and remainders, a
mode of the SIE at a time. `LiveLabelIsRead` rests on an order that a host's operations keep: a live
label entry comes before every deleted one, since a host has one label, puts a new one in the first
free entry, and deletes by overwriting the first byte.

### Only model-checked

Liveness (`PoweredDriveSettles`, `ArmedLabelArms`, `RecoveryWorks`, `CommandsAreAnswered`,
`TransfersEnd`, `WakesUp`) is out of the prover's reach; every safety property of the passing runs is
proved, those about data and stages of endpoint 0 for a `Cautious` host. The bytes of the boot records
(`Image`) and the masks of the flags are evaluated for their one value. The divergences are
counterexamples of TLC.

## Hazards

`PROJECT.json` lists what is hard to test in this code, each with its line and with the properties
that would catch it, or a note. Five have no property. For four of them neither code nor
documents promise anything: an interrupted Reset that is not repeated (app.c:58); a disk without FAT
and root directory after an interrupted Reset, Forgetful or erase of an invalid disk (io.c:121; the
self-erase after an outage, of which README.md:34 speaks, is repeated until it is through); the blink
loop after a 5 V erase, which `PoweredDriveSettles` names as an end (app.c:175); and a sector that
comes in just before an online ReadOnly (usb_device_msd.c:1277). The fifth, a power failure between
the disarming and the reset of ArmMax's limit (app.c:22), ends where `arm` ends without it.

## Not modelled

* Absent and changed media (usb_device_msd.c:563-610, 646-697): `MediaDetect` of this drive returns
  true and its initialization cannot fail. The `default` branches of the command, read and write
  machines: no state leads there.
* The data stage of control writes (`USBCtrlTrfRxService`), deferred stages and `USBCancelIO`: no
  request of this drive and no caller uses them. The interrupt-driven build, OTG and the branches for
  other processors are not compiled; nor is app_usb.c.
* The bytes of SCSI answers and the letters of the string descriptors, which no step reads.
* The oscillator, the ports but for the LED's latch, and the registers of the converter.
* Bulk endpoints and endpoint 0 in one model: their product is beyond TLC, and what they share is
  the device state (see above).
* The script that patches serial numbers, and the hardware files.

The headers of the stack (usb_device.h, usb_hal.h, fileio.h and others) are documentation and
declarations for the most part; what of them the drive uses is mapped.
