------------------------------- MODULE TmpUsb -------------------------------
(***************************************************************************)
(* The life of a drive: power comes and goes, main boots, reads how long   *)
(* the power was gone, erases the disk if that was too long, obeys the     *)
(* command in the volume label, attaches to USB and then serves the host,  *)
(* watching for online commands and for the loss of the 5 V supply (app.c, *)
(* with settings.c, io.c, timing.c and config.c under it).                 *)
(*                                                                         *)
(* pc names the place in main.  A flash routine that main calls runs in    *)
(* steps of one flash operation each, with op naming the routine; main     *)
(* goes on at pc when op is "none" again.  The power can fail between any  *)
(* two steps; a flash operation itself is atomic.                          *)
(***************************************************************************)
EXTENDS Settings, Disk

CONSTANT IndexerPeriod   \* iterations of the main loop per online check: 256 in the code

ASSUME IndexerAssumption == IndexerPeriod \in Nat \ {0}

VARIABLES
  pc,        \* where main is; "off" without power
  blinks,    \* blinks left of main's blink loop
  timingCharge, oldChargeLimit, indexer, \* main's locals
  accepted,  \* a sector of the host is in RAM, and was found not to be write-protected
  op,        \* the flash routine at work, or "none"
  idx,       \* the loop index of io_disk_erase
  newLabel,  \* the label io_disk_erase was called with
  image,     \* the disk as the sector write at work will leave it (from file_buffer)
  led,       \* the latch of the LED pin
  condemned, \* history: data that must never be served again (see Doomed)
  guarded    \* history: data that was on the disk while the drive was armed

localVars   == <<blinks, timingCharge, oldChargeLimit, indexer, accepted>>
flashVars   == <<op, idx, newLabel, image>>
historyVars == <<condemned, guarded>>
firmwareVars == <<settingsVars, disk, pc, localVars, flashVars, led>>
vars == <<timingVars, firmwareVars, historyVars>>

Places ==
  {"off", "boot", "judge", "disarm", "relimit", "blink3", "charge", "check",
   "disarmInvalid", "resetSettings", "setReadOnly", "setCeiling", "calibrate", "rawErase",
   "blink", "wait", "command", "reset", "supply", "media", "wipe", "restore", "release",
   "halt"}

\* The main loop: the drive is attached to USB and answers the host.
Serving == pc \in {"command", "supply", "media"}

FactoryDisk == [s \in Sectors |-> FactorySector(s, "Not Armed")]

LocalsTypeOK ==
  /\ blinks \in 0 .. 7
  /\ timingCharge \in 0 .. TIMING_CEILING - 1
  /\ oldChargeLimit \in Limits
  /\ indexer \in 0 .. IndexerPeriod - 1
  /\ accepted \in BOOLEAN

FlashTypeOK ==
  /\ op \in {"none", "settings", "pages", "sectors", "program"}
  /\ idx \in Nat
  /\ op = "pages" => idx < Pages
  /\ op = "sectors" => idx < 2 * Pages
  /\ newLabel \in Labels
  /\ image \in [Sectors -> Contents]

HistoryTypeOK == condemned \subseteq Sectors /\ guarded \subseteq Sectors

TypeOK ==
  /\ TimingTypeOK /\ SettingsTypeOK /\ DiskTypeOK
  /\ LocalsTypeOK /\ FlashTypeOK /\ HistoryTypeOK
  /\ pc \in Places
  /\ led \in BOOLEAN

Init ==
  /\ TimingInit /\ SettingsInit /\ DiskInit
  /\ pc = "off"
  /\ blinks = 0 /\ timingCharge = 0 /\ oldChargeLimit = 0 /\ indexer = 0 /\ accepted = FALSE
  /\ op = "none" /\ idx = 0 /\ newLabel = NoLabel /\ image = FactoryDisk
  /\ led = FALSE
  /\ condemned = {} /\ guarded = {}

----------------------------------------------------------------------------
(* The flash routines and the LED.                                          *)

\* Main is at place p and no flash routine is at work.
At(p) == pc = p /\ op = "none"

\* A step of main that calls no flash routine.
Goto(p) == pc' = p /\ UNCHANGED <<disk, flashVars>>

\* Of the oscillator and the ports that are set up, the latch of the LED pin is cleared.
init == led' = FALSE

\* io_led_inactive(): the LED is on while the drive is not armed.
LedInactive == led' = ~ram.isArmed

\* io_led_active(), of the settings s: the other way round.
LedActive(s) == led' = s.isArmed

\* settings_write: the LED goes active and the block is erased; WriteSettingsEnd does the rest.
WriteSettings(buffer, next) ==
  /\ EraseSettings(buffer)
  /\ LedActive(buffer)
  /\ op' = "settings" /\ pc' = next
  /\ UNCHANGED <<timingVars, disk, idx, newLabel, image>>

WriteSettingsEnd ==
  /\ op = "settings"
  /\ ProgramSettings
  /\ led' = ~led                        \* io_led_toggle()
  /\ op' = "none"
  /\ UNCHANGED <<timingVars, disk, pc, localVars, idx, newLabel, image>>

\* io_disk_erase(label): all pages are erased first, then all sectors programmed.
EraseDisk(label, next) ==
  /\ op' = "pages" /\ idx' = 0 /\ newLabel' = label
  /\ pc' = next
  /\ UNCHANGED <<timingVars, settingsVars, disk, image, led>>

\* Mutant: the pages are erased from the last to the first.
ErasePageDescending ==
  /\ op = "pages"
  /\ disk' = ErasePageOf(disk, Pages - 1 - idx)
  /\ IF idx + 1 < Pages
       THEN idx' = idx + 1 /\ op' = op
       ELSE idx' = 0 /\ op' = "sectors"
  /\ UNCHANGED <<timingVars, settingsVars, pc, localVars, newLabel, image, led>>

ErasePage ==
  /\ op = "pages"
  /\ disk' = ErasePageOf(disk, idx)
  /\ IF idx + 1 < Pages
       THEN idx' = idx + 1 /\ op' = op
       ELSE idx' = 0 /\ op' = "sectors"
  /\ UNCHANGED <<timingVars, settingsVars, pc, localVars, newLabel, image, led>>

\* Mutant: the loop runs one sector too far.
FormatSectorTooFar ==
  /\ op = "sectors"
  /\ disk' = [disk EXCEPT ![idx] = FactorySector(idx, newLabel)]
  /\ IF idx + 1 <= 2 * Pages
       THEN idx' = idx + 1 /\ UNCHANGED <<op, newLabel>>
       ELSE idx' = 0 /\ op' = "none" /\ newLabel' = NoLabel
  /\ UNCHANGED <<timingVars, settingsVars, pc, localVars, image, led>>

FormatSector ==
  /\ op = "sectors"
  /\ disk' = [disk EXCEPT ![idx] = FactorySector(idx, newLabel)]
  /\ IF idx + 1 < 2 * Pages
       THEN idx' = idx + 1 /\ UNCHANGED <<op, newLabel>>
       ELSE idx' = 0 /\ op' = "none" /\ newLabel' = NoLabel
  /\ UNCHANGED <<timingVars, settingsVars, pc, localVars, image, led>>

\* The second half of a sector write: the erased page is programmed from file_buffer.
ProgramPage ==
  /\ op = "program"
  /\ disk' = image
  /\ image' = FactoryDisk               \* file_buffer is dead now
  /\ op' = "none"
  /\ UNCHANGED <<timingVars, settingsVars, pc, localVars, idx, newLabel, led>>

\* The locals are dead, except indexer, which starts at 0, and no sector has come in.
ResetLocals ==
  blinks' = 0 /\ timingCharge' = 0 /\ oldChargeLimit' = 0 /\ indexer' = 0 /\ accepted' = FALSE

\* A blink loop is entered.
SetBlinks(n) == blinks' = n /\ UNCHANGED <<timingCharge, oldChargeLimit, indexer, accepted>>

\* One step of a blink loop; each blink ends with the LED inactive.
Blink(p, next) ==
  /\ At(p)
  /\ LedInactive
  /\ blinks' = blinks - 1
  /\ Goto(IF blinks = 1 THEN next ELSE p)
  /\ UNCHANGED <<timingVars, settingsVars, timingCharge, oldChargeLimit, indexer, accepted>>

----------------------------------------------------------------------------
(* main before it attaches to USB.                                          *)

ReadCharge ==
  /\ At("boot")
  /\ timingCharge' = timing_getCharge
  /\ settings_init
  /\ Goto("judge")
  /\ UNCHANGED <<timingVars, led, blinks, oldChargeLimit, indexer, accepted>>

\* Mutant: a charge that is exactly the limit passes.
OutageTooLongStrict == ram.isArmed /\ timingCharge < ram.limit

OutageTooLong == ram.isArmed /\ timingCharge <= ram.limit

SelfErase ==
  /\ At("judge") /\ OutageTooLong
  /\ EraseDisk("Not Armed", "disarm")
  /\ UNCHANGED localVars

SkipErase ==
  /\ At("judge") /\ ~OutageTooLong
  /\ init
  /\ Goto("charge")
  /\ UNCHANGED <<timingVars, settingsVars, localVars>>

Disarm ==
  /\ At("disarm")
  /\ WriteSettings(SetIsArmed(FALSE), "relimit")
  /\ SetBlinks(3)

\* A limit above TIMING_LIMIT is taken to be ArmMax's. The init() that follows clears the LED
\* pin, which the first blink sets anyway.
ResetLimit ==
  /\ At("relimit") /\ ram.limit > TIMING_LIMIT
  /\ WriteSettings(SetLimit(TIMING_DEFAULT), "blink3")
  /\ UNCHANGED localVars

KeepLimit ==
  /\ At("relimit") /\ ram.limit <= TIMING_LIMIT
  /\ init
  /\ Goto("blink3")
  /\ UNCHANGED <<timingVars, settingsVars, localVars>>

StartCharging ==
  /\ At("charge")
  /\ timing_charge
  /\ Goto("check")
  /\ UNCHANGED <<vbus, charge, settingsVars, localVars, led>>

CheckInvalid ==
  /\ At("check") /\ ~io_disk_isValid
  /\ EraseDisk("Not Armed", "disarmInvalid")
  /\ UNCHANGED localVars

DisarmInvalid ==
  /\ At("disarmInvalid")
  /\ WriteSettings(SetIsArmed(FALSE), "blink")
  /\ SetBlinks(7)

\* The disk is valid and its label is a command.
Commanded(label) == At("check") /\ io_disk_isValid /\ io_disk_hasLabel(label)

CheckReset ==
  /\ Commanded("Reset")
  /\ EraseDisk("Not Armed", "resetSettings")
  /\ UNCHANGED localVars

ResetSettings ==
  /\ At("resetSettings")
  /\ WriteSettings(DefaultSetting, "blink")
  /\ SetBlinks(3)

CheckArm ==
  /\ Commanded("Arm") /\ ~ram.isArmed
  /\ WriteSettings(SetIsArmed(TRUE), "wait")
  /\ UNCHANGED localVars

CheckReadOnly ==
  /\ Commanded("ReadOnly") /\ ~ram.isReadOnly
  /\ WriteSettings(SetIsArmed(TRUE), "setReadOnly")
  /\ UNCHANGED localVars

SetReadOnly ==
  /\ At("setReadOnly")
  /\ WriteSettings(SetIsReadOnly(TRUE), "wait")
  /\ UNCHANGED localVars

CheckArmMax ==
  /\ Commanded("ArmMax")
  /\ WriteSettings(SetIsArmed(TRUE), "setCeiling")
  /\ UNCHANGED localVars

SetCeiling ==
  /\ At("setCeiling")
  /\ WriteSettings(SetLimit(TIMING_CEILING), "wait")
  /\ UNCHANGED localVars

CheckCalibrate ==
  /\ Commanded("Calibrate")
  /\ WriteSettings(DefaultSetting, "calibrate")
  /\ UNCHANGED localVars

Calibrate ==
  /\ At("calibrate")
  /\ LET limit == IF timingCharge < TIMING_LIMIT THEN timingCharge ELSE TIMING_LIMIT
     IN  WriteSettings(SetLimit(limit), "rawErase")
  /\ UNCHANGED localVars

RawErase ==
  /\ At("rawErase")
  /\ EraseDisk("Raw", "blink")
  /\ SetBlinks(3)

CheckForgetful ==
  /\ Commanded("Forgetful")
  /\ EraseDisk("Forgetful", "wait")
  /\ UNCHANGED localVars

\* The label is no command, or commands what is already so.
CheckNothing ==
  /\ At("check") /\ io_disk_isValid
  /\ VolumeLabel \notin {"Reset", "ArmMax", "Calibrate", "Forgetful"}
  /\ VolumeLabel = "Arm" => ram.isArmed
  /\ VolumeLabel = "ReadOnly" => ram.isReadOnly
  /\ Goto("wait")
  /\ UNCHANGED <<timingVars, settingsVars, localVars, led>>

\* The LED is active while main polls the ADC; then the drive attaches to USB.
WaitForCharge ==
  /\ At("wait") /\ timing_getCharge < TIMING_STARTUP
  /\ LedActive(ram)
  /\ Goto("wait")
  /\ UNCHANGED <<timingVars, settingsVars, localVars>>

Attach ==
  /\ At("wait") /\ timing_getCharge >= TIMING_STARTUP
  /\ LedInactive
  /\ ResetLocals
  /\ Goto("command")
  /\ UNCHANGED <<timingVars, settingsVars>>

----------------------------------------------------------------------------
(* The main loop.                                                           *)

\* Mutant: the counter stops at its largest value instead of wrapping around.
NextIndexSaturating ==
  IF indexer + 1 < IndexerPeriod THEN indexer + 1 ELSE indexer

NextIndex == (indexer + 1) % IndexerPeriod

CountIteration ==
  /\ indexer' = NextIndex
  /\ UNCHANGED <<blinks, timingCharge, oldChargeLimit, accepted>>

\* No online check in this iteration, or nothing for it to do.
CommandNone ==
  /\ At("command")
  /\ CountIteration
  /\ \/ NextIndex # 0
     \/ ~ram.isArmed /\ ~io_disk_hasLabel("Armed")
     \/ ram.isArmed /\ (ram.isReadOnly \/ ~io_disk_hasLabel("ReadOnly"))
  /\ Goto("supply")
  /\ UNCHANGED <<timingVars, settingsVars, led>>

\* Mutant: the flag is set in RAM only.
CommandArmedInRam ==
  /\ At("command")
  /\ CountIteration /\ NextIndex = 0
  /\ ~ram.isArmed /\ io_disk_hasLabel("Armed")
  /\ ram' = SetIsArmed(TRUE) /\ LedInactive
  /\ Goto("supply")
  /\ UNCHANGED <<timingVars, rom>>

CommandArmed ==
  /\ At("command")
  /\ CountIteration /\ NextIndex = 0
  /\ ~ram.isArmed /\ io_disk_hasLabel("Armed")
  /\ WriteSettings(SetIsArmed(TRUE), "supply")

\* Mutant: the label counts although the drive is read-only already.
CommandReadOnlyAgain ==
  /\ At("command")
  /\ CountIteration /\ NextIndex = 0
  /\ ram.isArmed /\ io_disk_hasLabel("ReadOnly")
  /\ WriteSettings(SetIsReadOnly(TRUE), IF ram.limit <= TIMING_LIMIT THEN "reset" ELSE "supply")

\* With a limit that a reset survives, the drive resets itself, so that the host sees a
\* write-protected medium.
CommandReadOnly ==
  /\ At("command")
  /\ CountIteration /\ NextIndex = 0
  /\ ram.isArmed /\ ~ram.isReadOnly /\ io_disk_hasLabel("ReadOnly")
  /\ WriteSettings(SetIsReadOnly(TRUE), IF ram.limit <= TIMING_LIMIT THEN "reset" ELSE "supply")

\* reset(): the pins become inputs again; RAM is overwritten from flash at boot.
SoftReset ==
  /\ At("reset")
  /\ charging' = FALSE
  /\ Goto("boot")
  /\ UNCHANGED <<vbus, charge, settingsVars, localVars, led>>

SupplyFine ==
  /\ At("supply")
  /\ io_5v_isOn \/ ~ram.isArmed
  /\ LedInactive
  /\ Goto("media")
  /\ UNCHANGED <<timingVars, settingsVars, localVars>>

\* The 5 V line is off and the microcontroller still runs: until the erase is through, the
\* limit in flash is one that no charge exceeds.
SupplyLost ==
  /\ At("supply")
  /\ ~io_5v_isOn /\ ram.isArmed
  /\ oldChargeLimit' = ram.limit
  /\ UNCHANGED <<blinks, timingCharge, indexer, accepted>>
  /\ WriteSettings(SetLimit(TIMING_CEILING), "wipe")

Wipe ==
  /\ At("wipe")
  /\ EraseDisk("Not Armed", "restore")
  /\ UNCHANGED localVars

RestoreLimit ==
  /\ At("restore")
  /\ WriteSettings(SetLimit(oldChargeLimit), "release")
  /\ UNCHANGED localVars

Release ==
  /\ At("release")
  /\ WriteSettings(SetIsArmed(FALSE), "halt")
  /\ UNCHANGED localVars

Halt ==
  /\ At("halt")
  /\ led' = ~led
  /\ Goto("halt")
  /\ UNCHANGED <<timingVars, settingsVars, localVars>>

\* The USB stack and the mass storage tasks run, and leave the disk alone.  A sector that came
\* in is kept for a later iteration, unless a reset of the bus or of the class drops it.
MediaIdle ==
  /\ At("media")
  /\ accepted' \in {accepted, FALSE}
  /\ Goto("command")
  /\ UNCHANGED <<timingVars, settingsVars, blinks, timingCharge, oldChargeLimit, indexer, led>>

\* All of a sector has come in, and LUNWriteProtectState() lets it through.
HostReceive ==
  /\ At("media") /\ ~ram.isReadOnly
  /\ accepted' = TRUE
  /\ Goto("command")
  /\ UNCHANGED <<timingVars, settingsVars, blinks, timingCharge, oldChargeLimit, indexer, led>>

\* An iteration later it is written, whatever became of the protection: the LED goes active,
\* the page goes to file_buffer and is erased; ProgramPage does the rest.
HostWrite ==
  /\ At("media") /\ accepted
  /\ accepted' = FALSE
  /\ \E s \in HostSectors : \E c \in HostContents(s) : \E p \in 0 .. Pages - 1 :
       /\ s \in Page(p)
       /\ image' = [disk EXCEPT ![s] = c]
       /\ disk' = ErasePageOf(disk, p)
  /\ LedActive(ram)
  /\ op' = "program" /\ pc' = "command"
  /\ UNCHANGED <<timingVars, settingsVars, blinks, timingCharge, oldChargeLimit, indexer, idx,
                 newLabel>>

----------------------------------------------------------------------------
(* Power, and the whole drive.                                              *)

PowerUp ==
  /\ pc = "off" /\ vbus
  /\ Goto("boot")
  /\ UNCHANGED <<timingVars, settingsVars, localVars, led>>

\* Without 5 V the microcontroller stops sooner or later, in the middle of whatever it does.
\* RAM and registers are lost: nothing they hold is read before it is written again.
PowerFail ==
  /\ pc # "off" /\ ~vbus
  /\ pc' = "off" /\ ResetLocals
  /\ op' = "none" /\ idx' = 0 /\ newLabel' = NoLabel /\ image' = FactoryDisk
  /\ ram' = DefaultSetting /\ led' = FALSE
  /\ charging' = FALSE
  /\ UNCHANGED <<vbus, charge, rom, disk>>

\* What is on the disk now must never be served again: the power is gone and the charge is
\* no more than the settings in flash tolerate, or an erase has begun.
Doomed ==
  \/ pc = "off" /\ rom.isArmed /\ charge <= rom.limit
  \/ op = "pages" /\ idx > 0
  \/ op = "sectors"

\* The host data now on the disk that has been there ever since a state in which it was
\* doomed, and ever since one in which the settings in flash were armed.
RecordHistory ==
  /\ condemned' = HostData' \cap (IF Doomed' THEN Sectors ELSE condemned)
  /\ guarded'   = HostData' \cap (IF rom'.isArmed THEN Sectors ELSE guarded)

Recorded(A) == A /\ RecordHistory

Flash ==
  \/ Recorded(WriteSettingsEnd) \/ Recorded(ErasePage)
  \/ Recorded(FormatSector)     \/ Recorded(ProgramPage)

Booting ==
  \/ Recorded(ReadCharge)       \/ Recorded(SelfErase)     \/ Recorded(SkipErase)
  \/ Recorded(Disarm)           \/ Recorded(ResetLimit)    \/ Recorded(KeepLimit)
  \/ Recorded(Blink("blink3", "charge"))                   \/ Recorded(StartCharging)
  \/ Recorded(CheckInvalid)     \/ Recorded(DisarmInvalid)
  \/ Recorded(CheckReset)       \/ Recorded(ResetSettings)
  \/ Recorded(CheckArm)
  \/ Recorded(CheckReadOnly)    \/ Recorded(SetReadOnly)
  \/ Recorded(CheckArmMax)      \/ Recorded(SetCeiling)
  \/ Recorded(CheckCalibrate)   \/ Recorded(Calibrate)     \/ Recorded(RawErase)
  \/ Recorded(CheckForgetful)   \/ Recorded(CheckNothing)
  \/ Recorded(Blink("blink", "wait"))
  \/ Recorded(WaitForCharge)    \/ Recorded(Attach)

MainLoop ==
  \/ Recorded(CommandNone)      \/ Recorded(CommandArmed)
  \/ Recorded(CommandReadOnly)  \/ Recorded(SoftReset)
  \/ Recorded(SupplyFine)       \/ Recorded(SupplyLost)
  \/ Recorded(Wipe)             \/ Recorded(RestoreLimit)
  \/ Recorded(Release)          \/ Recorded(Halt)
  \/ Recorded(MediaIdle)        \/ Recorded(HostReceive)
  \/ Recorded(HostWrite)

Power ==
  \/ Recorded(Plug /\ UNCHANGED firmwareVars)
  \/ Recorded(Unplug /\ UNCHANGED firmwareVars)
  \/ Recorded(Charge /\ UNCHANGED firmwareVars)
  \/ Recorded(Discharge /\ UNCHANGED firmwareVars)
  \/ Recorded(PowerUp)
  \/ Recorded(PowerFail)

Next == Flash \/ Booting \/ MainLoop \/ Power

\* The processor starts and runs while it has power; the capacitor charges while it is driven.
Fairness ==
  /\ WF_vars(Flash \/ Booting \/ MainLoop \/ Recorded(PowerUp))
  /\ WF_vars(Recorded(Charge /\ UNCHANGED firmwareVars))

Spec == Init /\ [][Next]_vars

FairSpec == Spec /\ Fairness

----------------------------------------------------------------------------
(* Properties.                                                              *)

\* The promise of the drive: data that was on an armed drive during an outage longer than
\* its limit tolerates, or whose erase had begun before the power failed, is gone before the
\* drive attaches to USB, whatever power losses cut the erase short (app.c:19, io.c:106).
CondemnedNeverServed == Serving => condemned = {}

\* There is no way from armed to not armed with the data still there, not even through
\* Calibrate, which disarms before it erases, and a power loss between the two (app.c:87,
\* app.c:111): an unarmed drive serves nothing that an armed one held.
ArmedDataStaysArmed == Serving /\ ~rom.isArmed => guarded = {}

\* A read-only drive is armed: otherwise nothing could ever change its disk again, for the
\* host cannot write a command and no outage would erase it (settings.c:96).
ReadOnlyIsArmed == rom.isReadOnly => rom.isArmed

\* The drive as its owner sees it.
Promise == INSTANCE SelfErasePromise WITH
  Item <- Sectors, serving <- Serving, armed <- rom.isArmed, data <- HostData

\* The firmware keeps the promise: dark, the drive never gains data nor forgets that some is
\* condemned or was held armed; serving, it never stops being armed (app.c:14).
KeepsPromise == Promise!Spec

\* Whenever the drive serves the host, the LED tells what the settings in flash, which
\* decide at the next boot, say: it is on exactly when the drive is not armed (README.md:40).
LedTellsArmed == At("media") => led = ~rom.isArmed

\* With the supply up for good, the drive ends up serving, or in the blink loop after a 5 V
\* erase; in particular the self-reset for ReadOnly does not repeat (app.c:161).
PoweredDriveSettles == <>[]vbus => <>[](Serving \/ pc = "halt")

\* The online command is noticed: with the label left at Armed and the supply up, the drive
\* is armed for good (app.c:153).
ArmedLabelArms ==
  <>[](vbus /\ io_disk_isValid /\ io_disk_hasLabel("Armed")) => <>[]rom.isArmed

\* README.md:60 says that a drive armed by Arm tolerates a short power loss: its limit is
\* not ArmMax's.
ArmToleratesShortOutage == [][CheckArm => ram'.limit <= TIMING_LIMIT]_vars
=============================================================================
