---------------------------- MODULE TmpUsb_proof ----------------------------
(***************************************************************************)
(* Proofs about the life of a drive, for every number of pages, every set  *)
(* of host labels, every set of ADC readings and every period of the       *)
(* online check.  The inductive invariant comes in layers, each proved     *)
(* from the ones before it: types, where a flash routine can be at work,   *)
(* what an erase has done so far, which settings may be written to which   *)
(* disk, the read-only flag, condemned data, and data held while armed.    *)
(***************************************************************************)
EXTENDS TmpUsb, TLAPS

----------------------------------------------------------------------------
(* The inductive invariant.                                                 *)

\* A blink loop that is entered has a blink left.
BlinksLeft == pc \in {"relimit", "blink3", "blink"} => blinks > 0

TypeInv == TypeOK /\ BlinksLeft

\* Where main waits while a routine is at work: the place it goes on at.
RoutinePlace ==
  /\ op = "settings" => pc \in {"relimit", "blink3", "blink", "wait", "setReadOnly", "setCeiling",
                                "calibrate", "rawErase", "supply", "reset", "wipe", "release",
                                "halt"}
  /\ op \in {"pages", "sectors"} => pc \in {"disarm", "disarmInvalid", "resetSettings", "blink",
                                            "wait", "restore"}
  /\ op = "program" => pc = "command"

\* Until the boot decision is carried out nothing charges the capacitor.
NotCharging == pc \in {"off", "boot", "judge", "disarm", "relimit", "blink3", "charge"} => ~charging

\* The boot decision looks at what is in flash.
FreshSettings == pc = "judge" => ram = rom

\* The pages before idx are erased; the programming starts on an empty disk.
EraseProgress ==
  /\ op = "pages" => \A s \in Sectors : s < 2 * idx => disk[s].data = "erased"
  /\ op = "sectors" => HostData = {}

\* Main goes on after an erase with no host data on the disk.
Emptied ==
  /\ pc \in {"disarm", "relimit", "blink3", "disarmInvalid", "resetSettings", "restore",
             "release", "halt"}
  /\ op # "pages"
  => HostData = {}

EraseInv == EraseProgress /\ Emptied

\* A write of unarmed settings finds an empty disk, except while Calibrate is carried out.
UnarmedWrite ==
  /\ pc \in {"setReadOnly", "setCeiling"} => ram.isArmed
  /\ op = "settings" /\ ~ram.isArmed => HostData = {} \/ pc \in {"calibrate", "rawErase"}
  /\ pc \in {"calibrate", "rawErase"} => VolumeLabel = "Calibrate"

ControlInv == RoutinePlace /\ NotCharging /\ FreshSettings

HistoryInv == condemned \subseteq HostData /\ guarded \subseteq HostData

ReadOnlyInv == ReadOnlyIsArmed /\ (ram.isReadOnly => ram.isArmed)

\* What is in flash makes the next boot erase the disk.
Expired == rom.isArmed /\ charge <= rom.limit

\* Condemned data is on its way to an erase: the disk is invalid and main has not judged that
\* yet or erases, or the outage was too long and main has not judged that yet or erases.
CondemnedInv ==
  condemned # {} =>
    \/ /\ ~io_disk_isValid
       /\ pc \in {"off", "boot", "judge", "charge", "check"} \/ op = "pages"
    \/ /\ Expired
       /\ \/ pc \in {"off", "boot"}
          \/ pc = "judge" /\ OutageTooLong
          \/ pc = "disarm" /\ op = "pages"

\* So is data held armed on a drive that is not: the disk is invalid or says Calibrate.
GuardedInv ==
  guarded # {} /\ ~rom.isArmed =>
    /\ ~io_disk_isValid \/ VolumeLabel = "Calibrate"
    /\ pc \in {"off", "boot", "judge", "charge", "check", "calibrate", "rawErase"} \/ op = "pages"

----------------------------------------------------------------------------
(* Types.                                                                   *)

\* Two bytes hold every limit that is stored, and what setTimingChargeLimit keeps of a larger
\* one (settings.c:83-87).
LEMMA LimitFacts ==
  /\ Limits \subseteq Nat
  /\ 0 \in Limits /\ TIMING_DEFAULT \in Limits /\ LIMIT_RANGE - 1 \in Limits
  /\ \A v \in Nat : v % LIMIT_RANGE \in Limits
<1>1. LIMIT_RANGE \in Nat /\ TIMING_DEFAULT \in Nat /\ TIMING_DEFAULT < LIMIT_RANGE
  BY DEF LIMIT_RANGE, TIMING_DEFAULT
<1>2. \A v \in Nat : v % LIMIT_RANGE \in Nat /\ v % LIMIT_RANGE < LIMIT_RANGE
  BY DEF LIMIT_RANGE
<1> QED
  BY <1>1, <1>2 DEF Limits

\* The setters give settings, whatever they are called with (settings.c:83-108).
LEMMA SettersType ==
  ASSUME ram \in Setting, NEW b \in BOOLEAN, NEW v \in Nat
  PROVE  /\ SetLimit(v) \in Setting
         /\ SetIsArmed(b) \in Setting
         /\ SetIsReadOnly(b) \in Setting
         /\ DefaultSetting \in Setting
         /\ ErasedSetting \in Setting
<1>1. v % LIMIT_RANGE \in Limits
  BY LimitFacts
<1>2. SetLimit(v) \in Setting
  BY SMT, <1>1 DEF Setting, SetLimit
<1>3. SetIsArmed(b) \in Setting
  BY Zenon DEF Setting, SetIsArmed
<1>4. SetIsReadOnly(b) \in Setting
  BY SMT DEF Setting, SetIsReadOnly
<1>5. DefaultSetting \in Setting /\ ErasedSetting \in Setting
  BY SMT, LimitFacts DEF Setting, DefaultSetting, ErasedSetting
<1> QED
  BY <1>2, <1>3, <1>4, <1>5

\* What the setters make of the two flags: only setIsArmed(false) and settings_reset disarm, and
\* both clear the read-only flag (settings.c:96).
LEMMA SettersFlags ==
  ASSUME ram \in Setting
  PROVE  /\ \A v : (SetLimit(v).isArmed <=> ram.isArmed)
                 /\ (SetLimit(v).isReadOnly <=> ram.isReadOnly)
         /\ SetIsArmed(TRUE).isArmed /\ (SetIsArmed(TRUE).isReadOnly <=> ram.isReadOnly)
         /\ ~SetIsArmed(FALSE).isArmed /\ ~SetIsArmed(FALSE).isReadOnly
         /\ (SetIsReadOnly(TRUE).isArmed <=> ram.isArmed)
         /\ ~DefaultSetting.isArmed /\ ~DefaultSetting.isReadOnly
         /\ ErasedSetting.isArmed
<1>1. ASSUME NEW v
      PROVE  (SetLimit(v).isArmed <=> ram.isArmed) /\ (SetLimit(v).isReadOnly <=> ram.isReadOnly)
  BY SMT DEF Setting, SetLimit
<1>2. SetIsArmed(TRUE).isArmed /\ (SetIsArmed(TRUE).isReadOnly <=> ram.isReadOnly)
  BY Zenon DEF Setting, SetIsArmed
<1>3. ~SetIsArmed(FALSE).isArmed /\ ~SetIsArmed(FALSE).isReadOnly
  BY Zenon DEF Setting, SetIsArmed
<1>4. SetIsReadOnly(TRUE).isArmed <=> ram.isArmed
  BY Zenon DEF Setting, SetIsReadOnly
<1>5. ~DefaultSetting.isArmed /\ ~DefaultSetting.isReadOnly /\ ErasedSetting.isArmed
  BY SMT DEF DefaultSetting, ErasedSetting
<1> QED
  BY <1>1, <1>2, <1>3, <1>4, <1>5

\* What the erase and the host write into a sector is a sector's contents (io.c:122).
LEMMA SectorsType ==
  /\ ErasedSector \in Contents
  /\ \A s \in Sectors, label \in Labels : FactorySector(s, label) \in Contents
  /\ \A s \in Sectors : HostContents(s) \subseteq Contents
  /\ FactoryDisk \in [Sectors -> Contents]
  BY DEF ErasedSector, Contents, FactorySector, HostContents, FactoryDisk, Labels, NoLabel

\* Erasing a page gives a disk.
LEMMA ErasePageType ==
  ASSUME NEW d \in [Sectors -> Contents], NEW p
  PROVE  ErasePageOf(d, p) \in [Sectors -> Contents]
  BY SectorsType DEF ErasePageOf

\* The first half of settings_write keeps the types, if main's locals keep theirs.
LEMMA WriteSettingsType ==
  ASSUME TypeOK, NEW buffer \in Setting, NEW next \in Places, WriteSettings(buffer, next),
         LocalsTypeOK', HistoryTypeOK'
  PROVE  TypeOK'
<1>1. TimingTypeOK' /\ DiskTypeOK'
  BY DEF TypeOK, TimingTypeOK, DiskTypeOK, WriteSettings, timingVars
<1>2. SettingsTypeOK'
  BY SettersType DEF TypeOK, SettingsTypeOK, WriteSettings, EraseSettings
<1>3. FlashTypeOK' /\ pc' \in Places
  BY DEF TypeOK, FlashTypeOK, WriteSettings
<1>4. led' \in BOOLEAN
  BY DEF WriteSettings, LedActive, Setting
<1> QED
  BY <1>1, <1>2, <1>3, <1>4 DEF TypeOK

\* So does the call of io_disk_erase.
LEMMA EraseDiskType ==
  ASSUME TypeOK, NEW label \in Labels, NEW next \in Places, EraseDisk(label, next),
         LocalsTypeOK', HistoryTypeOK'
  PROVE  TypeOK'
<1>1. TimingTypeOK' /\ SettingsTypeOK' /\ DiskTypeOK'
  BY DEF TypeOK, TimingTypeOK, SettingsTypeOK, DiskTypeOK, EraseDisk, timingVars, settingsVars
<1>2. FlashTypeOK' /\ pc' \in Places /\ led' \in BOOLEAN
  BY DiskAssumption DEF TypeOK, FlashTypeOK, EraseDisk
<1> QED
  BY <1>1, <1>2 DEF TypeOK

\* So does a step of main that calls no flash routine.
LEMMA GotoType ==
  ASSUME TypeOK, NEW next \in Places, Goto(next), UNCHANGED rom,
         TimingTypeOK', ram' \in Setting, LocalsTypeOK', led' \in BOOLEAN, HistoryTypeOK'
  PROVE  TypeOK'
<1>1. SettingsTypeOK' /\ DiskTypeOK'
  BY DEF TypeOK, SettingsTypeOK, DiskTypeOK, Goto
<1>2. FlashTypeOK' /\ pc' \in Places
  BY DEF TypeOK, FlashTypeOK, Goto, flashVars
<1> QED
  BY <1>1, <1>2 DEF TypeOK

\* One step of the drive keeps the types and leaves an entered blink loop a blink.
LEMMA TypeStep ==
  ASSUME TypeInv, Next
  PROVE  TypeInv'
<1>1. HistoryTypeOK'
  BY DEF Next, Flash, Booting, MainLoop, Power, Recorded, RecordHistory, HostData, HistoryTypeOK
<1>2. TypeOK
  BY DEF TypeInv
<1>0. ASSUME UNCHANGED firmwareVars, TimingTypeOK' PROVE TypeInv'
  <2>1. SettingsTypeOK' /\ DiskTypeOK' /\ LocalsTypeOK' /\ BlinksLeft'
    BY <1>0, <1>2 DEF TypeInv, TypeOK, SettingsTypeOK, DiskTypeOK, LocalsTypeOK, BlinksLeft,
       firmwareVars, settingsVars, localVars
  <2>2. FlashTypeOK' /\ pc' \in Places /\ led' \in BOOLEAN
    BY <1>0, <1>2 DEF TypeOK, FlashTypeOK, firmwareVars, flashVars
  <2> QED
    BY <1>0, <1>1, <2>1, <2>2 DEF TypeInv, TypeOK
<1>3. ASSUME WriteSettingsEnd PROVE TypeInv'
  <2>1. TimingTypeOK' /\ DiskTypeOK' /\ LocalsTypeOK' /\ BlinksLeft' /\ pc' \in Places
    BY <1>3, <1>2 DEF WriteSettingsEnd, TypeInv, TypeOK, TimingTypeOK, DiskTypeOK, LocalsTypeOK,
       BlinksLeft, timingVars, localVars
  <2>2. SettingsTypeOK' /\ FlashTypeOK' /\ led' \in BOOLEAN
    BY <1>3, <1>2 DEF WriteSettingsEnd, ProgramSettings, TypeOK, SettingsTypeOK, FlashTypeOK
  <2> QED
    BY <1>1, <2>1, <2>2 DEF TypeInv, TypeOK
<1>4. ASSUME ErasePage PROVE TypeInv'
  <2>1. TimingTypeOK' /\ SettingsTypeOK' /\ LocalsTypeOK' /\ BlinksLeft' /\ pc' \in Places
        /\ led' \in BOOLEAN
    BY <1>4, <1>2 DEF ErasePage, TypeInv, TypeOK, TimingTypeOK, SettingsTypeOK, LocalsTypeOK,
       BlinksLeft, timingVars, settingsVars, localVars
  <2>2. DiskTypeOK'
    BY <1>4, <1>2, ErasePageType DEF ErasePage, TypeOK, DiskTypeOK
  <2>3. FlashTypeOK'
    BY <1>4, <1>2, DiskAssumption DEF ErasePage, TypeOK, FlashTypeOK
  <2> QED
    BY <1>1, <2>1, <2>2, <2>3 DEF TypeInv, TypeOK
<1>5. ASSUME FormatSector PROVE TypeInv'
  <2>1. TimingTypeOK' /\ SettingsTypeOK' /\ LocalsTypeOK' /\ BlinksLeft' /\ pc' \in Places
        /\ led' \in BOOLEAN
    BY <1>5, <1>2 DEF FormatSector, TypeInv, TypeOK, TimingTypeOK, SettingsTypeOK, LocalsTypeOK,
       BlinksLeft, timingVars, settingsVars, localVars
  <2>2. FactorySector(idx, newLabel) \in Contents
    BY <1>5, <1>2, SectorsType, DiskAssumption DEF FormatSector, TypeOK, FlashTypeOK, Sectors
  <2>3. DiskTypeOK'
    BY <1>5, <1>2, <2>2 DEF FormatSector, TypeOK, DiskTypeOK
  <2>4. NoLabel \in Labels
    BY DEF Labels
  <2>5. FlashTypeOK'
    <3>1. CASE idx + 1 < 2 * Pages
      BY <1>5, <1>2, <2>4, <3>1 DEF FormatSector, TypeOK, FlashTypeOK
    <3>2. CASE ~(idx + 1 < 2 * Pages)
      BY <1>5, <1>2, <2>4, <3>2 DEF FormatSector, TypeOK, FlashTypeOK
    <3> QED
      BY <3>1, <3>2
  <2> QED
    BY <1>1, <2>1, <2>3, <2>5 DEF TypeInv, TypeOK
<1>6. ASSUME ProgramPage PROVE TypeInv'
  <2>1. TimingTypeOK' /\ SettingsTypeOK' /\ LocalsTypeOK' /\ BlinksLeft' /\ pc' \in Places
        /\ led' \in BOOLEAN
    BY <1>6, <1>2 DEF ProgramPage, TypeInv, TypeOK, TimingTypeOK, SettingsTypeOK, LocalsTypeOK,
       BlinksLeft, timingVars, settingsVars, localVars
  <2>2. DiskTypeOK' /\ FlashTypeOK'
    BY <1>6, <1>2, SectorsType DEF ProgramPage, TypeOK, DiskTypeOK, FlashTypeOK
  <2> QED
    BY <1>1, <2>1, <2>2 DEF TypeInv, TypeOK
<1>7. ASSUME ReadCharge PROVE TypeInv'
  <2>1. LocalsTypeOK' /\ BlinksLeft'
    BY <1>7, <1>2, ReadingsAssumption DEF ReadCharge, timing_getCharge, settings_init, At, Goto,
       TypeInv, BlinksLeft, LocalsTypeOK, TypeOK, localVars, TIMING_CEILING, TimingTypeOK
  <2>2. TimingTypeOK' /\ ram' \in Setting /\ UNCHANGED rom /\ led' \in BOOLEAN
    BY <1>7, <1>2 DEF ReadCharge, settings_init, TypeOK, TimingTypeOK, SettingsTypeOK,
       timingVars, settingsVars, LedInactive, LedActive, Setting
  <2> QED
    BY <1>7, <1>1, <1>2, <2>1, <2>2, GotoType DEF ReadCharge, TypeInv, Places
<1>8. ASSUME SelfErase PROVE TypeInv'
  <2>1. LocalsTypeOK' /\ BlinksLeft'
    BY <1>8, <1>2 DEF SelfErase, At, EraseDisk, TypeInv, BlinksLeft, LocalsTypeOK, TypeOK,
       localVars
  <2> QED
    BY <1>8, <1>1, <1>2, <2>1, EraseDiskType DEF SelfErase, TypeInv, Labels, Places
<1>9. ASSUME SkipErase PROVE TypeInv'
  <2>1. LocalsTypeOK' /\ BlinksLeft'
    BY <1>9, <1>2 DEF SkipErase, At, Goto, TypeInv, BlinksLeft, LocalsTypeOK, TypeOK,
       localVars
  <2>2. TimingTypeOK' /\ ram' \in Setting /\ UNCHANGED rom /\ led' \in BOOLEAN
    BY <1>9, <1>2 DEF SkipErase, init, TypeOK, TimingTypeOK, SettingsTypeOK, timingVars,
       settingsVars, LedInactive, LedActive, Setting
  <2> QED
    BY <1>9, <1>1, <1>2, <2>1, <2>2, GotoType DEF SkipErase, TypeInv, Places
<1>10. ASSUME Disarm PROVE TypeInv'
  <2>1. LocalsTypeOK' /\ BlinksLeft'
    BY <1>10, <1>2 DEF Disarm, At, SetBlinks, WriteSettings, TypeInv, BlinksLeft,
       LocalsTypeOK, TypeOK, localVars, SettingsTypeOK, Setting
  <2> QED
    BY <1>10, <1>1, <1>2, <2>1, SettersType, WriteSettingsType DEF Disarm, TypeInv, TypeOK,
       SettingsTypeOK, Places
<1>11. ASSUME ResetLimit PROVE TypeInv'
  <2>1. LocalsTypeOK' /\ BlinksLeft'
    BY <1>11, <1>2 DEF ResetLimit, At, WriteSettings, TypeInv, BlinksLeft, LocalsTypeOK,
       TypeOK, localVars, SettingsTypeOK, Setting
  <2> QED
    BY <1>11, <1>1, <1>2, <2>1, SettersType, WriteSettingsType DEF ResetLimit, TypeInv,
       TypeOK, SettingsTypeOK, Places, TIMING_DEFAULT
<1>12. ASSUME KeepLimit PROVE TypeInv'
  <2>1. LocalsTypeOK' /\ BlinksLeft'
    BY <1>12, <1>2 DEF KeepLimit, At, Goto, TypeInv, BlinksLeft, LocalsTypeOK, TypeOK,
       localVars
  <2>2. TimingTypeOK' /\ ram' \in Setting /\ UNCHANGED rom /\ led' \in BOOLEAN
    BY <1>12, <1>2 DEF KeepLimit, init, TypeOK, TimingTypeOK, SettingsTypeOK, timingVars,
       settingsVars, LedInactive, LedActive, Setting
  <2> QED
    BY <1>12, <1>1, <1>2, <2>1, <2>2, GotoType DEF KeepLimit, TypeInv, Places
<1>13. ASSUME Blink("blink3", "charge") PROVE TypeInv'
  <2>1. LocalsTypeOK' /\ BlinksLeft'
    BY <1>13, <1>2 DEF Blink, At, Goto, TypeInv, BlinksLeft, LocalsTypeOK, TypeOK,
       localVars
  <2>2. TimingTypeOK' /\ ram' \in Setting /\ UNCHANGED rom /\ led' \in BOOLEAN
    BY <1>13, <1>2 DEF Blink, TypeOK, TimingTypeOK, SettingsTypeOK, timingVars,
       settingsVars, LedInactive, LedActive, Setting
  <2> QED
    BY <1>13, <1>1, <1>2, <2>1, <2>2, GotoType DEF Blink, TypeInv, Places
<1>14. ASSUME StartCharging PROVE TypeInv'
  <2>1. LocalsTypeOK' /\ BlinksLeft'
    BY <1>14, <1>2 DEF StartCharging, timing_charge, At, Goto, TypeInv, BlinksLeft,
       LocalsTypeOK, TypeOK, localVars
  <2>2. TimingTypeOK' /\ ram' \in Setting /\ UNCHANGED rom /\ led' \in BOOLEAN
    BY <1>14, <1>2 DEF StartCharging, timing_charge, TypeOK, TimingTypeOK, SettingsTypeOK,
       timingVars, settingsVars, LedInactive, LedActive, Setting
  <2> QED
    BY <1>14, <1>1, <1>2, <2>1, <2>2, GotoType DEF StartCharging, TypeInv, Places
<1>15. ASSUME CheckInvalid PROVE TypeInv'
  <2>1. LocalsTypeOK' /\ BlinksLeft'
    BY <1>15, <1>2 DEF CheckInvalid, At, EraseDisk, TypeInv, BlinksLeft, LocalsTypeOK,
       TypeOK, localVars
  <2> QED
    BY <1>15, <1>1, <1>2, <2>1, EraseDiskType DEF CheckInvalid, TypeInv, Labels, Places
<1>16. ASSUME DisarmInvalid PROVE TypeInv'
  <2>1. LocalsTypeOK' /\ BlinksLeft'
    BY <1>16, <1>2 DEF DisarmInvalid, At, SetBlinks, WriteSettings, TypeInv, BlinksLeft,
       LocalsTypeOK, TypeOK, localVars, SettingsTypeOK, Setting
  <2> QED
    BY <1>16, <1>1, <1>2, <2>1, SettersType, WriteSettingsType DEF DisarmInvalid, TypeInv,
       TypeOK, SettingsTypeOK, Places
<1>17. ASSUME CheckReset PROVE TypeInv'
  <2>1. LocalsTypeOK' /\ BlinksLeft'
    BY <1>17, <1>2 DEF CheckReset, At, EraseDisk, TypeInv, BlinksLeft, LocalsTypeOK,
       TypeOK, localVars
  <2> QED
    BY <1>17, <1>1, <1>2, <2>1, EraseDiskType DEF CheckReset, TypeInv, Labels, Places
<1>18. ASSUME ResetSettings PROVE TypeInv'
  <2>1. LocalsTypeOK' /\ BlinksLeft'
    BY <1>18, <1>2 DEF ResetSettings, At, SetBlinks, WriteSettings, TypeInv, BlinksLeft,
       LocalsTypeOK, TypeOK, localVars, SettingsTypeOK, Setting
  <2> QED
    BY <1>18, <1>1, <1>2, <2>1, SettersType, WriteSettingsType DEF ResetSettings, TypeInv,
       TypeOK, SettingsTypeOK, Places
<1>19. ASSUME CheckArm PROVE TypeInv'
  <2>1. LocalsTypeOK' /\ BlinksLeft'
    BY <1>19, <1>2 DEF CheckArm, At, WriteSettings, TypeInv, BlinksLeft, LocalsTypeOK,
       TypeOK, localVars, SettingsTypeOK, Setting
  <2> QED
    BY <1>19, <1>1, <1>2, <2>1, SettersType, WriteSettingsType DEF CheckArm, TypeInv,
       TypeOK, SettingsTypeOK, Places
<1>20. ASSUME CheckReadOnly PROVE TypeInv'
  <2>1. LocalsTypeOK' /\ BlinksLeft'
    BY <1>20, <1>2 DEF CheckReadOnly, At, WriteSettings, TypeInv, BlinksLeft, LocalsTypeOK,
       TypeOK, localVars, SettingsTypeOK, Setting
  <2> QED
    BY <1>20, <1>1, <1>2, <2>1, SettersType, WriteSettingsType DEF CheckReadOnly, TypeInv,
       TypeOK, SettingsTypeOK, Places
<1>21. ASSUME SetReadOnly PROVE TypeInv'
  <2>1. LocalsTypeOK' /\ BlinksLeft'
    BY <1>21, <1>2 DEF SetReadOnly, At, WriteSettings, TypeInv, BlinksLeft, LocalsTypeOK,
       TypeOK, localVars, SettingsTypeOK, Setting
  <2> QED
    BY <1>21, <1>1, <1>2, <2>1, SettersType, WriteSettingsType DEF SetReadOnly, TypeInv,
       TypeOK, SettingsTypeOK, Places
<1>22. ASSUME CheckArmMax PROVE TypeInv'
  <2>1. LocalsTypeOK' /\ BlinksLeft'
    BY <1>22, <1>2 DEF CheckArmMax, At, WriteSettings, TypeInv, BlinksLeft, LocalsTypeOK,
       TypeOK, localVars, SettingsTypeOK, Setting
  <2> QED
    BY <1>22, <1>1, <1>2, <2>1, SettersType, WriteSettingsType DEF CheckArmMax, TypeInv,
       TypeOK, SettingsTypeOK, Places
<1>23. ASSUME SetCeiling PROVE TypeInv'
  <2>1. LocalsTypeOK' /\ BlinksLeft'
    BY <1>23, <1>2 DEF SetCeiling, At, WriteSettings, TypeInv, BlinksLeft, LocalsTypeOK,
       TypeOK, localVars, SettingsTypeOK, Setting
  <2> QED
    BY <1>23, <1>1, <1>2, <2>1, SettersType, WriteSettingsType DEF SetCeiling, TypeInv,
       TypeOK, SettingsTypeOK, Places, TIMING_CEILING
<1>24. ASSUME CheckCalibrate PROVE TypeInv'
  <2>1. LocalsTypeOK' /\ BlinksLeft'
    BY <1>24, <1>2 DEF CheckCalibrate, At, WriteSettings, TypeInv, BlinksLeft,
       LocalsTypeOK, TypeOK, localVars, SettingsTypeOK, Setting
  <2> QED
    BY <1>24, <1>1, <1>2, <2>1, SettersType, WriteSettingsType DEF CheckCalibrate, TypeInv,
       TypeOK, SettingsTypeOK, Places
<1>25. ASSUME Calibrate PROVE TypeInv'
  <2>1. LocalsTypeOK' /\ BlinksLeft'
    BY <1>25, <1>2 DEF Calibrate, At, WriteSettings, TypeInv, BlinksLeft, LocalsTypeOK,
       TypeOK, localVars, SettingsTypeOK, Setting
  <2> DEFINE limit == IF timingCharge < TIMING_LIMIT THEN timingCharge ELSE TIMING_LIMIT
  <2>2. limit \in Nat
    BY <1>2 DEF TypeOK, LocalsTypeOK, TIMING_LIMIT, TIMING_CEILING
  <2>3. SetLimit(limit) \in Setting
    BY <1>2, <2>2, SettersType DEF TypeOK, SettingsTypeOK
  <2>4. WriteSettings(SetLimit(limit), "rawErase")
    BY <1>25 DEF Calibrate
  <2> HIDE DEF limit
  <2> QED
    BY <1>1, <1>2, <2>1, <2>3, <2>4, WriteSettingsType DEF TypeInv, Places
<1>26. ASSUME RawErase PROVE TypeInv'
  <2>1. LocalsTypeOK' /\ BlinksLeft'
    BY <1>26, <1>2 DEF RawErase, At, SetBlinks, EraseDisk, TypeInv, BlinksLeft,
       LocalsTypeOK, TypeOK, localVars
  <2> QED
    BY <1>26, <1>1, <1>2, <2>1, EraseDiskType DEF RawErase, TypeInv, Labels, Places
<1>27. ASSUME CheckForgetful PROVE TypeInv'
  <2>1. LocalsTypeOK' /\ BlinksLeft'
    BY <1>27, <1>2 DEF CheckForgetful, At, EraseDisk, TypeInv, BlinksLeft, LocalsTypeOK,
       TypeOK, localVars
  <2> QED
    BY <1>27, <1>1, <1>2, <2>1, EraseDiskType DEF CheckForgetful, TypeInv, Labels, Places
<1>28. ASSUME CheckNothing PROVE TypeInv'
  <2>1. LocalsTypeOK' /\ BlinksLeft'
    BY <1>28, <1>2 DEF CheckNothing, At, Goto, TypeInv, BlinksLeft, LocalsTypeOK, TypeOK,
       localVars
  <2>2. TimingTypeOK' /\ ram' \in Setting /\ UNCHANGED rom /\ led' \in BOOLEAN
    BY <1>28, <1>2 DEF CheckNothing, TypeOK, TimingTypeOK, SettingsTypeOK, timingVars,
       settingsVars, LedInactive, LedActive, Setting
  <2> QED
    BY <1>28, <1>1, <1>2, <2>1, <2>2, GotoType DEF CheckNothing, TypeInv, Places
<1>29. ASSUME Blink("blink", "wait") PROVE TypeInv'
  <2>1. LocalsTypeOK' /\ BlinksLeft'
    BY <1>29, <1>2 DEF Blink, At, Goto, TypeInv, BlinksLeft, LocalsTypeOK, TypeOK,
       localVars
  <2>2. TimingTypeOK' /\ ram' \in Setting /\ UNCHANGED rom /\ led' \in BOOLEAN
    BY <1>29, <1>2 DEF Blink, TypeOK, TimingTypeOK, SettingsTypeOK, timingVars,
       settingsVars, LedInactive, LedActive, Setting
  <2> QED
    BY <1>29, <1>1, <1>2, <2>1, <2>2, GotoType DEF Blink, TypeInv, Places
<1>30. ASSUME WaitForCharge PROVE TypeInv'
  <2>1. LocalsTypeOK' /\ BlinksLeft'
    BY <1>30, <1>2 DEF WaitForCharge, At, Goto, TypeInv, BlinksLeft, LocalsTypeOK, TypeOK,
       localVars
  <2>2. ram \in Setting
    BY DEF TypeInv, TypeOK, SettingsTypeOK
  <2>3. led' \in BOOLEAN
    BY <1>30, <2>2 DEF WaitForCharge, LedActive, Setting
  <2>4. TimingTypeOK' /\ ram' \in Setting /\ UNCHANGED rom
    BY <1>30, <2>2, <1>2 DEF WaitForCharge, TypeOK, TimingTypeOK, timingVars, settingsVars
  <2> QED
    BY <1>30, <1>1, <1>2, <2>1, <2>3, <2>4, GotoType DEF WaitForCharge, TypeInv, Places
<1>31. ASSUME Attach PROVE TypeInv'
  <2>3. /\ 0 \in 0 .. 7 /\ 0 \in 0 .. TIMING_CEILING - 1
        /\ 0 \in Limits /\ 0 \in 0 .. IndexerPeriod - 1
    BY IndexerAssumption, LimitFacts DEF TIMING_CEILING
  <2>1. LocalsTypeOK' /\ BlinksLeft'
    BY <1>31, <2>3 DEF Attach, ResetLocals, Goto, BlinksLeft, LocalsTypeOK
  <2>2. TimingTypeOK' /\ ram' \in Setting /\ UNCHANGED rom /\ led' \in BOOLEAN
    BY <1>31, <1>2 DEF Attach, ResetLocals, TypeOK, TimingTypeOK, SettingsTypeOK,
       timingVars, settingsVars, LedInactive, LedActive, Setting
  <2> QED
    BY <1>31, <1>1, <1>2, <2>1, <2>2, GotoType DEF Attach, TypeInv, Places
<1>32. ASSUME CommandNone PROVE TypeInv'
  <2>1. LocalsTypeOK' /\ BlinksLeft'
    BY <1>32, <1>2, IndexerAssumption DEF CommandNone, CountIteration, At, Goto, TypeInv,
       BlinksLeft, LocalsTypeOK, TypeOK, localVars, NextIndex
  <2>2. TimingTypeOK' /\ ram' \in Setting /\ UNCHANGED rom /\ led' \in BOOLEAN
    BY <1>32, <1>2 DEF CommandNone, CountIteration, TypeOK, TimingTypeOK, SettingsTypeOK,
       timingVars, settingsVars, LedInactive, LedActive, Setting
  <2> QED
    BY <1>32, <1>1, <1>2, <2>1, <2>2, GotoType DEF CommandNone, TypeInv, Places
<1>33. ASSUME CommandArmed PROVE TypeInv'
  <2>1. LocalsTypeOK' /\ BlinksLeft'
    BY <1>33, <1>2, IndexerAssumption DEF CommandArmed, CountIteration, At, WriteSettings,
       TypeInv, BlinksLeft, LocalsTypeOK, TypeOK, localVars, SettingsTypeOK, Setting,
       NextIndex
  <2> QED
    BY <1>33, <1>1, <1>2, <2>1, SettersType, WriteSettingsType DEF CommandArmed, TypeInv,
       TypeOK, SettingsTypeOK, Places
<1>34. ASSUME CommandReadOnly PROVE TypeInv'
  <2>1. LocalsTypeOK' /\ BlinksLeft'
    BY <1>34, <1>2, IndexerAssumption DEF CommandReadOnly, CountIteration, At,
       WriteSettings, TypeInv, BlinksLeft, LocalsTypeOK, TypeOK, localVars, SettingsTypeOK,
       Setting, NextIndex
  <2> QED
    BY <1>34, <1>1, <1>2, <2>1, SettersType, WriteSettingsType DEF CommandReadOnly,
       TypeInv, TypeOK, SettingsTypeOK, Places
<1>35. ASSUME SoftReset PROVE TypeInv'
  <2>1. TimingTypeOK' /\ ram' \in Setting /\ UNCHANGED rom /\ led' \in BOOLEAN
    BY <1>35, <1>2 DEF SoftReset, TypeOK, TimingTypeOK, SettingsTypeOK, settingsVars
  <2>2. LocalsTypeOK' /\ BlinksLeft'
    BY <1>35, <1>2 DEF SoftReset, Goto, TypeOK, LocalsTypeOK, BlinksLeft, localVars
  <2> QED
    BY <1>35, <1>1, <1>2, <2>1, <2>2, GotoType DEF SoftReset, TypeInv, Places
<1>36. ASSUME SupplyFine PROVE TypeInv'
  <2>1. LocalsTypeOK' /\ BlinksLeft'
    BY <1>36, <1>2 DEF SupplyFine, At, Goto, TypeInv, BlinksLeft, LocalsTypeOK, TypeOK,
       localVars
  <2>2. TimingTypeOK' /\ ram' \in Setting /\ UNCHANGED rom /\ led' \in BOOLEAN
    BY <1>36, <1>2 DEF SupplyFine, TypeOK, TimingTypeOK, SettingsTypeOK, timingVars,
       settingsVars, LedInactive, LedActive, Setting
  <2> QED
    BY <1>36, <1>1, <1>2, <2>1, <2>2, GotoType DEF SupplyFine, TypeInv, Places
<1>37. ASSUME SupplyLost PROVE TypeInv'
  <2>1. LocalsTypeOK' /\ BlinksLeft'
    BY <1>37, <1>2 DEF SupplyLost, At, WriteSettings, TypeInv, BlinksLeft, LocalsTypeOK,
       TypeOK, localVars, SettingsTypeOK, Setting
  <2> QED
    BY <1>37, <1>1, <1>2, <2>1, SettersType, WriteSettingsType DEF SupplyLost, TypeInv,
       TypeOK, SettingsTypeOK, Places, TIMING_CEILING
<1>38. ASSUME Wipe PROVE TypeInv'
  <2>1. LocalsTypeOK' /\ BlinksLeft'
    BY <1>38, <1>2 DEF Wipe, At, EraseDisk, TypeInv, BlinksLeft, LocalsTypeOK, TypeOK,
       localVars
  <2> QED
    BY <1>38, <1>1, <1>2, <2>1, EraseDiskType DEF Wipe, TypeInv, Labels, Places
<1>39. ASSUME RestoreLimit PROVE TypeInv'
  <2>1. LocalsTypeOK' /\ BlinksLeft'
    BY <1>39, <1>2 DEF RestoreLimit, At, WriteSettings, TypeInv, BlinksLeft, LocalsTypeOK,
       TypeOK, localVars, SettingsTypeOK, Setting
  <2>2. SetLimit(oldChargeLimit) \in Setting
    <3>1. oldChargeLimit \in Limits /\ Limits \subseteq Nat
      BY <1>2, LimitFacts DEF TypeOK, LocalsTypeOK
    <3> QED
      BY <1>2, <3>1, SettersType DEF TypeOK, SettingsTypeOK
  <2> QED
    BY <1>39, <1>1, <1>2, <2>1, <2>2, WriteSettingsType DEF RestoreLimit, TypeInv, Places
<1>40. ASSUME Release PROVE TypeInv'
  <2>1. LocalsTypeOK' /\ BlinksLeft'
    BY <1>40, <1>2 DEF Release, At, WriteSettings, TypeInv, BlinksLeft, LocalsTypeOK,
       TypeOK, localVars, SettingsTypeOK, Setting
  <2> QED
    BY <1>40, <1>1, <1>2, <2>1, SettersType, WriteSettingsType DEF Release, TypeInv,
       TypeOK, SettingsTypeOK, Places
<1>41. ASSUME Halt PROVE TypeInv'
  <2>1. LocalsTypeOK' /\ BlinksLeft'
    BY <1>41, <1>2 DEF Halt, At, Goto, TypeInv, BlinksLeft, LocalsTypeOK, TypeOK, localVars
  <2>2. TimingTypeOK' /\ ram' \in Setting /\ UNCHANGED rom /\ led' \in BOOLEAN
    BY <1>41, <1>2 DEF Halt, TypeOK, TimingTypeOK, SettingsTypeOK, timingVars,
       settingsVars, LedInactive, LedActive, Setting
  <2> QED
    BY <1>41, <1>1, <1>2, <2>1, <2>2, GotoType DEF Halt, TypeInv, Places
<1>42. ASSUME MediaIdle PROVE TypeInv'
  <2>1. LocalsTypeOK' /\ BlinksLeft'
    BY <1>42, <1>2 DEF MediaIdle, At, Goto, TypeInv, BlinksLeft, LocalsTypeOK, TypeOK,
       localVars
  <2>2. TimingTypeOK' /\ ram' \in Setting /\ UNCHANGED rom /\ led' \in BOOLEAN
    BY <1>42, <1>2 DEF MediaIdle, TypeOK, TimingTypeOK, SettingsTypeOK, timingVars,
       settingsVars, LedInactive, LedActive, Setting
  <2> QED
    BY <1>42, <1>1, <1>2, <2>1, <2>2, GotoType DEF MediaIdle, TypeInv, Places
<1>r. ASSUME HostReceive PROVE TypeInv'
  <2>1. LocalsTypeOK' /\ BlinksLeft'
    BY <1>r, <1>2 DEF HostReceive, At, Goto, TypeInv, BlinksLeft, LocalsTypeOK, TypeOK,
       localVars
  <2>2. TimingTypeOK' /\ ram' \in Setting /\ UNCHANGED rom /\ led' \in BOOLEAN
    BY <1>r, <1>2 DEF HostReceive, TypeOK, TimingTypeOK, SettingsTypeOK, timingVars,
       settingsVars, LedInactive, LedActive, Setting
  <2> QED
    BY <1>r, <1>1, <1>2, <2>1, <2>2, GotoType DEF HostReceive, TypeInv, Places
<1>43. ASSUME HostWrite PROVE TypeInv'
  <2>1. TimingTypeOK' /\ SettingsTypeOK' /\ LocalsTypeOK' /\ BlinksLeft' /\ pc' \in Places
        /\ led' \in BOOLEAN
    BY <1>43, <1>2 DEF HostWrite, TypeInv, TypeOK, TimingTypeOK, SettingsTypeOK, LocalsTypeOK,
       BlinksLeft, Places, LedActive, Setting, timingVars, settingsVars, localVars
  <2>2. PICK w \in HostSectors : \E c \in HostContents(w), p \in 0 .. Pages - 1 :
          image' = [disk EXCEPT ![w] = c] /\ disk' = ErasePageOf(disk, p)
    BY <1>43 DEF HostWrite
  <2>3. DiskTypeOK'
    BY <1>2, <2>2, ErasePageType DEF TypeOK, DiskTypeOK
  <2>4. HostContents(w) \subseteq Contents
    BY SectorsType, DiskAssumption
  <2>5. image' \in [Sectors -> Contents]
    BY <1>2, <2>2, <2>4 DEF TypeOK, DiskTypeOK
  <2>6. FlashTypeOK'
    BY <1>43, <1>2, <2>5 DEF HostWrite, TypeOK, FlashTypeOK
  <2> QED
    BY <1>1, <2>1, <2>3, <2>6 DEF TypeInv, TypeOK
<1>44. ASSUME Plug /\ UNCHANGED firmwareVars PROVE TypeInv'
  <2>1. TimingTypeOK'
    BY <1>44, <1>2 DEF Plug, TypeOK, TimingTypeOK
  <2> QED
    BY <1>44, <1>1, <1>2, <1>0, <2>1
<1>45. ASSUME Unplug /\ UNCHANGED firmwareVars PROVE TypeInv'
  <2>1. TimingTypeOK'
    BY <1>45, <1>2 DEF Unplug, TypeOK, TimingTypeOK
  <2> QED
    BY <1>45, <1>1, <1>2, <1>0, <2>1
<1>46. ASSUME Charge /\ UNCHANGED firmwareVars PROVE TypeInv'
  <2>1. TimingTypeOK'
    BY <1>46, <1>2 DEF Charge, TypeOK, TimingTypeOK
  <2> QED
    BY <1>46, <1>1, <1>2, <1>0, <2>1
<1>47. ASSUME Discharge /\ UNCHANGED firmwareVars PROVE TypeInv'
  <2>1. TimingTypeOK'
    BY <1>47, <1>2 DEF Discharge, TypeOK, TimingTypeOK
  <2> QED
    BY <1>47, <1>1, <1>2, <1>0, <2>1
<1>48. ASSUME PowerUp PROVE TypeInv'
  <2>1. LocalsTypeOK' /\ BlinksLeft'
    BY <1>48, <1>2 DEF PowerUp, At, Goto, TypeInv, BlinksLeft, LocalsTypeOK, TypeOK,
       localVars
  <2>2. TimingTypeOK' /\ ram' \in Setting /\ UNCHANGED rom /\ led' \in BOOLEAN
    BY <1>48, <1>2 DEF PowerUp, TypeOK, TimingTypeOK, SettingsTypeOK, timingVars,
       settingsVars, LedInactive, LedActive, Setting
  <2> QED
    BY <1>48, <1>1, <1>2, <2>1, <2>2, GotoType DEF PowerUp, TypeInv, Places
<1>49. ASSUME PowerFail PROVE TypeInv'
  <2>1. TimingTypeOK' /\ SettingsTypeOK' /\ DiskTypeOK'
    BY <1>49, <1>2, SettersType DEF PowerFail, TypeOK, TimingTypeOK, SettingsTypeOK, DiskTypeOK
  <2>2. LocalsTypeOK' /\ BlinksLeft'
    <3>1. /\ 0 \in 0 .. 7 /\ 0 \in 0 .. TIMING_CEILING - 1
          /\ 0 \in Limits /\ 0 \in 0 .. IndexerPeriod - 1
      BY IndexerAssumption, LimitFacts DEF TIMING_CEILING
    <3> QED
      BY <1>49, <3>1 DEF PowerFail, ResetLocals, LocalsTypeOK, BlinksLeft
  <2>3. FlashTypeOK' /\ pc' \in Places /\ led' \in BOOLEAN
    BY <1>49, SectorsType DEF PowerFail, FlashTypeOK, Labels, Places
  <2> QED
    BY <1>1, <2>1, <2>2, <2>3 DEF TypeInv, TypeOK
<1> QED
  BY <1>r, <1>1, <1>3, <1>4, <1>5, <1>6, <1>7, <1>8, <1>9, <1>10, <1>11, <1>12, <1>13, <1>14,
     <1>15, <1>16, <1>17, <1>18, <1>19, <1>20, <1>21, <1>22, <1>23, <1>24, <1>25, <1>26,
     <1>27, <1>28, <1>29, <1>30, <1>31, <1>32, <1>33, <1>34, <1>35, <1>36, <1>37, <1>38,
     <1>39, <1>40, <1>41, <1>42, <1>43, <1>44, <1>45, <1>46, <1>47, <1>48, <1>49 DEF Next,
     Flash, Booting, MainLoop, Power, Recorded

----------------------------------------------------------------------------
(* Control.                                                                 *)

\* One step keeps where the routines, the charging and the fresh settings are.
LEMMA ControlStep ==
  ASSUME ControlInv, Next
  PROVE  ControlInv'
<1>1. ASSUME WriteSettingsEnd PROVE ControlInv'
  BY <1>1 DEF WriteSettingsEnd, ProgramSettings, ControlInv, RoutinePlace, NotCharging,
     FreshSettings, timingVars, settingsVars, flashVars
<1>2. ASSUME ErasePage PROVE ControlInv'
  BY <1>2 DEF ErasePage, ControlInv, RoutinePlace, NotCharging, FreshSettings, timingVars,
     settingsVars, flashVars
<1>3. ASSUME FormatSector PROVE ControlInv'
  BY <1>3 DEF FormatSector, ControlInv, RoutinePlace, NotCharging, FreshSettings, timingVars,
     settingsVars, flashVars
<1>4. ASSUME ProgramPage PROVE ControlInv'
  BY <1>4 DEF ProgramPage, ControlInv, RoutinePlace, NotCharging, FreshSettings, timingVars,
     settingsVars, flashVars
<1>5. ASSUME ReadCharge PROVE ControlInv'
  BY <1>5 DEF ReadCharge, settings_init, At, Goto, ControlInv, RoutinePlace, NotCharging,
     FreshSettings, timingVars, settingsVars, flashVars
<1>6. ASSUME SelfErase PROVE ControlInv'
  BY <1>6 DEF SelfErase, At, EraseDisk, ControlInv, RoutinePlace, NotCharging, FreshSettings,
     timingVars, settingsVars, flashVars
<1>7. ASSUME SkipErase PROVE ControlInv'
  BY <1>7 DEF SkipErase, At, Goto, ControlInv, RoutinePlace, NotCharging, FreshSettings,
     timingVars, settingsVars, flashVars
<1>8. ASSUME Disarm PROVE ControlInv'
  BY <1>8 DEF Disarm, At, SetBlinks, WriteSettings, EraseSettings, ControlInv, RoutinePlace,
     NotCharging, FreshSettings, timingVars, settingsVars, flashVars
<1>9. ASSUME ResetLimit PROVE ControlInv'
  BY <1>9 DEF ResetLimit, At, WriteSettings, EraseSettings, ControlInv, RoutinePlace,
     NotCharging, FreshSettings, timingVars, settingsVars, flashVars
<1>10. ASSUME KeepLimit PROVE ControlInv'
  BY <1>10 DEF KeepLimit, At, Goto, ControlInv, RoutinePlace, NotCharging, FreshSettings,
     timingVars, settingsVars, flashVars
<1>11. ASSUME Blink("blink3", "charge") PROVE ControlInv'
  BY <1>11 DEF Blink, At, Goto, ControlInv, RoutinePlace, NotCharging, FreshSettings,
     timingVars, settingsVars, flashVars
<1>12. ASSUME StartCharging PROVE ControlInv'
  BY <1>12 DEF StartCharging, timing_charge, At, Goto, ControlInv, RoutinePlace, NotCharging,
     FreshSettings, timingVars, settingsVars, flashVars
<1>13. ASSUME CheckInvalid PROVE ControlInv'
  BY <1>13 DEF CheckInvalid, At, EraseDisk, ControlInv, RoutinePlace, NotCharging,
     FreshSettings, timingVars, settingsVars, flashVars
<1>14. ASSUME DisarmInvalid PROVE ControlInv'
  BY <1>14 DEF DisarmInvalid, At, SetBlinks, WriteSettings, EraseSettings, ControlInv,
     RoutinePlace, NotCharging, FreshSettings, timingVars, settingsVars, flashVars
<1>15. ASSUME CheckReset PROVE ControlInv'
  BY <1>15 DEF CheckReset, Commanded, At, EraseDisk, ControlInv, RoutinePlace, NotCharging,
     FreshSettings, timingVars, settingsVars, flashVars
<1>16. ASSUME ResetSettings PROVE ControlInv'
  BY <1>16 DEF ResetSettings, At, SetBlinks, WriteSettings, EraseSettings, ControlInv,
     RoutinePlace, NotCharging, FreshSettings, timingVars, settingsVars, flashVars
<1>17. ASSUME CheckArm PROVE ControlInv'
  BY <1>17 DEF CheckArm, Commanded, At, WriteSettings, EraseSettings, ControlInv, RoutinePlace,
     NotCharging, FreshSettings, timingVars, settingsVars, flashVars
<1>18. ASSUME CheckReadOnly PROVE ControlInv'
  BY <1>18 DEF CheckReadOnly, Commanded, At, WriteSettings, EraseSettings, ControlInv,
     RoutinePlace, NotCharging, FreshSettings, timingVars, settingsVars, flashVars
<1>19. ASSUME SetReadOnly PROVE ControlInv'
  BY <1>19 DEF SetReadOnly, At, WriteSettings, EraseSettings, ControlInv, RoutinePlace,
     NotCharging, FreshSettings, timingVars, settingsVars, flashVars
<1>20. ASSUME CheckArmMax PROVE ControlInv'
  BY <1>20 DEF CheckArmMax, Commanded, At, WriteSettings, EraseSettings, ControlInv,
     RoutinePlace, NotCharging, FreshSettings, timingVars, settingsVars, flashVars
<1>21. ASSUME SetCeiling PROVE ControlInv'
  BY <1>21 DEF SetCeiling, At, WriteSettings, EraseSettings, ControlInv, RoutinePlace,
     NotCharging, FreshSettings, timingVars, settingsVars, flashVars
<1>22. ASSUME CheckCalibrate PROVE ControlInv'
  BY <1>22 DEF CheckCalibrate, Commanded, At, WriteSettings, EraseSettings, ControlInv,
     RoutinePlace, NotCharging, FreshSettings, timingVars, settingsVars, flashVars
<1>23. ASSUME Calibrate PROVE ControlInv'
  BY <1>23 DEF Calibrate, At, WriteSettings, EraseSettings, ControlInv, RoutinePlace,
     NotCharging, FreshSettings, timingVars, settingsVars, flashVars
<1>24. ASSUME RawErase PROVE ControlInv'
  BY <1>24 DEF RawErase, At, SetBlinks, EraseDisk, ControlInv, RoutinePlace, NotCharging,
     FreshSettings, timingVars, settingsVars, flashVars
<1>25. ASSUME CheckForgetful PROVE ControlInv'
  BY <1>25 DEF CheckForgetful, Commanded, At, EraseDisk, ControlInv, RoutinePlace, NotCharging,
     FreshSettings, timingVars, settingsVars, flashVars
<1>26. ASSUME CheckNothing PROVE ControlInv'
  BY <1>26 DEF CheckNothing, At, Goto, ControlInv, RoutinePlace, NotCharging, FreshSettings,
     timingVars, settingsVars, flashVars
<1>27. ASSUME Blink("blink", "wait") PROVE ControlInv'
  BY <1>27 DEF Blink, At, Goto, ControlInv, RoutinePlace, NotCharging, FreshSettings,
     timingVars, settingsVars, flashVars
<1>28. ASSUME WaitForCharge PROVE ControlInv'
  BY <1>28 DEF WaitForCharge, At, Goto, ControlInv, RoutinePlace, NotCharging, FreshSettings,
     timingVars, settingsVars, flashVars
<1>29. ASSUME Attach PROVE ControlInv'
  BY <1>29 DEF Attach, ResetLocals, At, Goto, ControlInv, RoutinePlace, NotCharging,
     FreshSettings, timingVars, settingsVars, flashVars
<1>30. ASSUME CommandNone PROVE ControlInv'
  BY <1>30 DEF CommandNone, CountIteration, At, Goto, ControlInv, RoutinePlace, NotCharging,
     FreshSettings, timingVars, settingsVars, flashVars
<1>31. ASSUME CommandArmed PROVE ControlInv'
  BY <1>31 DEF CommandArmed, CountIteration, At, WriteSettings, EraseSettings, ControlInv,
     RoutinePlace, NotCharging, FreshSettings, timingVars, settingsVars, flashVars
<1>32. ASSUME CommandReadOnly PROVE ControlInv'
  BY <1>32 DEF CommandReadOnly, CountIteration, At, WriteSettings, EraseSettings, ControlInv,
     RoutinePlace, NotCharging, FreshSettings, timingVars, settingsVars, flashVars
<1>33. ASSUME SoftReset PROVE ControlInv'
  BY <1>33 DEF SoftReset, At, Goto, ControlInv, RoutinePlace, NotCharging, FreshSettings,
     timingVars, settingsVars, flashVars
<1>34. ASSUME SupplyFine PROVE ControlInv'
  BY <1>34 DEF SupplyFine, At, Goto, ControlInv, RoutinePlace, NotCharging, FreshSettings,
     timingVars, settingsVars, flashVars
<1>35. ASSUME SupplyLost PROVE ControlInv'
  BY <1>35 DEF SupplyLost, At, WriteSettings, EraseSettings, ControlInv, RoutinePlace,
     NotCharging, FreshSettings, timingVars, settingsVars, flashVars
<1>36. ASSUME Wipe PROVE ControlInv'
  BY <1>36 DEF Wipe, At, EraseDisk, ControlInv, RoutinePlace, NotCharging, FreshSettings,
     timingVars, settingsVars, flashVars
<1>37. ASSUME RestoreLimit PROVE ControlInv'
  BY <1>37 DEF RestoreLimit, At, WriteSettings, EraseSettings, ControlInv, RoutinePlace,
     NotCharging, FreshSettings, timingVars, settingsVars, flashVars
<1>38. ASSUME Release PROVE ControlInv'
  BY <1>38 DEF Release, At, WriteSettings, EraseSettings, ControlInv, RoutinePlace,
     NotCharging, FreshSettings, timingVars, settingsVars, flashVars
<1>39. ASSUME Halt PROVE ControlInv'
  BY <1>39 DEF Halt, At, Goto, ControlInv, RoutinePlace, NotCharging, FreshSettings,
     timingVars, settingsVars, flashVars
<1>40. ASSUME MediaIdle PROVE ControlInv'
  BY <1>40 DEF MediaIdle, At, Goto, ControlInv, RoutinePlace, NotCharging, FreshSettings,
     timingVars, settingsVars, flashVars
<1>r. ASSUME HostReceive PROVE ControlInv'
  BY <1>r DEF HostReceive, At, Goto, ControlInv, RoutinePlace, NotCharging, FreshSettings,
     timingVars, settingsVars, flashVars
<1>41. ASSUME HostWrite PROVE ControlInv'
  BY <1>41 DEF HostWrite, At, ControlInv, RoutinePlace, NotCharging, FreshSettings, timingVars,
     settingsVars, flashVars
<1>42. ASSUME Plug /\ UNCHANGED firmwareVars PROVE ControlInv'
  BY <1>42 DEF Plug, firmwareVars, ControlInv, RoutinePlace, NotCharging, FreshSettings,
     timingVars, settingsVars, flashVars
<1>43. ASSUME Unplug /\ UNCHANGED firmwareVars PROVE ControlInv'
  BY <1>43 DEF Unplug, firmwareVars, ControlInv, RoutinePlace, NotCharging, FreshSettings,
     timingVars, settingsVars, flashVars
<1>44. ASSUME Charge /\ UNCHANGED firmwareVars PROVE ControlInv'
  BY <1>44 DEF Charge, firmwareVars, ControlInv, RoutinePlace, NotCharging, FreshSettings,
     timingVars, settingsVars, flashVars
<1>45. ASSUME Discharge /\ UNCHANGED firmwareVars PROVE ControlInv'
  BY <1>45 DEF Discharge, firmwareVars, ControlInv, RoutinePlace, NotCharging, FreshSettings,
     timingVars, settingsVars, flashVars
<1>46. ASSUME PowerUp PROVE ControlInv'
  BY <1>46 DEF PowerUp, Goto, ControlInv, RoutinePlace, NotCharging, FreshSettings, timingVars,
     settingsVars, flashVars
<1>47. ASSUME PowerFail PROVE ControlInv'
  BY <1>47 DEF PowerFail, ResetLocals, ControlInv, RoutinePlace, NotCharging, FreshSettings,
     timingVars, settingsVars, flashVars
<1> QED
  BY <1>r, <1>1, <1>2, <1>3, <1>4, <1>5, <1>6, <1>7, <1>8, <1>9, <1>10, <1>11, <1>12, <1>13, <1>14,
     <1>15, <1>16, <1>17, <1>18, <1>19, <1>20, <1>21, <1>22, <1>23, <1>24, <1>25, <1>26, <1>27,
     <1>28, <1>29, <1>30, <1>31, <1>32, <1>33, <1>34, <1>35, <1>36, <1>37, <1>38, <1>39, <1>40,
     <1>41, <1>42, <1>43, <1>44, <1>45, <1>46, <1>47 DEF Next, Flash, Booting, MainLoop, Power,
     Recorded

----------------------------------------------------------------------------
(* The erase.                                                               *)

\* One step keeps what an erase has done so far and that the disk is empty after it.
LEMMA EraseStep ==
  ASSUME TypeInv, ControlInv, EraseInv, Next
  PROVE  EraseInv'
<1>d. UNCHANGED disk => UNCHANGED HostData
  BY DEF HostData
<1>e. ASSUME NEW label, NEW next, EraseDisk(label, next) PROVE EraseInv'
  BY <1>e, DiskAssumption DEF EraseDisk, EraseInv, EraseProgress, Emptied, Sectors
<1>1. ASSUME WriteSettingsEnd PROVE EraseInv'
  BY <1>1, <1>d DEF WriteSettingsEnd, ProgramSettings, EraseInv, EraseProgress, Emptied,
     timingVars, settingsVars, flashVars
<1>2. ASSUME ErasePage PROVE EraseInv'
  <2>1. idx \in Nat /\ idx < Pages /\ Pages \in Nat
    BY <1>2, DiskAssumption DEF ErasePage, TypeInv, TypeOK, FlashTypeOK
  <2>2. \A s \in Sectors : s < 2 * (idx + 1) => disk'[s].data = "erased"
    <3> SUFFICES ASSUME NEW s \in Sectors, s < 2 * (idx + 1)
                 PROVE  disk'[s].data = "erased"
      OBVIOUS
    <3>1. disk'[s] = IF s \in Page(idx) THEN ErasedSector ELSE disk[s]
      BY <1>2 DEF ErasePage, ErasePageOf
    <3>2. CASE s \in Page(idx)
      BY <3>1, <3>2 DEF ErasedSector
    <3>3. CASE s \notin Page(idx)
      <4>1. s \in Nat
        BY <2>1 DEF Sectors
      <4>2. s < 2 * idx
        BY <2>1, <3>3, <4>1 DEF Page
      <4>3. disk[s].data = "erased"
        BY <1>2, <4>2 DEF ErasePage, EraseInv, EraseProgress
      <4> QED
        BY <3>1, <3>3, <4>3
    <3> QED
      BY <3>2, <3>3
  <2>3. CASE idx + 1 < Pages
    BY <1>2, <2>2, <2>3 DEF ErasePage, EraseInv, EraseProgress, Emptied
  <2>4. CASE ~(idx + 1 < Pages)
    <3>1. idx + 1 = Pages
      BY <2>1, <2>4
    <3>2. \A s \in Sectors : disk'[s].data = "erased"
      BY <2>1, <2>2, <3>1 DEF Sectors
    <3>3. HostData' = {}
      BY <3>2 DEF HostData, HostMade
    <3> QED
      BY <1>2, <2>4, <3>3 DEF ErasePage, EraseInv, EraseProgress, Emptied
  <2> QED
    BY <2>3, <2>4
<1>3. ASSUME FormatSector PROVE EraseInv'
  <2>1. HostData = {} /\ op = "sectors"
    BY <1>3 DEF FormatSector, EraseInv, EraseProgress
  <2>2. FactorySector(idx, newLabel).data = "factory"
    BY DEF FactorySector
  <2>3. HostData' = {}
    BY <1>3, <2>1, <2>2 DEF FormatSector, HostData, HostMade, TypeInv, TypeOK, DiskTypeOK
  <2> QED
    BY <1>3, <2>1, <2>3 DEF FormatSector, EraseInv, EraseProgress, Emptied
<1>4. ASSUME ProgramPage PROVE EraseInv'
  BY <1>4 DEF ProgramPage, ControlInv, RoutinePlace, EraseInv, EraseProgress, Emptied
<1>5. ASSUME ReadCharge PROVE EraseInv'
  BY <1>5, <1>d DEF ReadCharge, settings_init, At, Goto, EraseInv, EraseProgress, Emptied,
     timingVars, settingsVars, flashVars
<1>6. ASSUME SelfErase PROVE EraseInv'
  BY <1>6, <1>e DEF SelfErase
<1>7. ASSUME SkipErase PROVE EraseInv'
  BY <1>7, <1>d DEF SkipErase, At, Goto, EraseInv, EraseProgress, Emptied, timingVars,
     settingsVars, flashVars
<1>8. ASSUME Disarm PROVE EraseInv'
  BY <1>8, <1>d DEF Disarm, At, SetBlinks, WriteSettings, EraseSettings, EraseInv,
     EraseProgress, Emptied, timingVars, settingsVars, flashVars
<1>9. ASSUME ResetLimit PROVE EraseInv'
  BY <1>9, <1>d DEF ResetLimit, At, WriteSettings, EraseSettings, EraseInv, EraseProgress,
     Emptied, timingVars, settingsVars, flashVars
<1>10. ASSUME KeepLimit PROVE EraseInv'
  BY <1>10, <1>d DEF KeepLimit, At, Goto, EraseInv, EraseProgress, Emptied, timingVars,
     settingsVars, flashVars
<1>11. ASSUME Blink("blink3", "charge") PROVE EraseInv'
  BY <1>11, <1>d DEF Blink, At, Goto, EraseInv, EraseProgress, Emptied, timingVars,
     settingsVars, flashVars
<1>12. ASSUME StartCharging PROVE EraseInv'
  BY <1>12, <1>d DEF StartCharging, timing_charge, At, Goto, EraseInv, EraseProgress, Emptied,
     timingVars, settingsVars, flashVars
<1>13. ASSUME CheckInvalid PROVE EraseInv'
  BY <1>13, <1>e DEF CheckInvalid
<1>14. ASSUME DisarmInvalid PROVE EraseInv'
  BY <1>14, <1>d DEF DisarmInvalid, At, SetBlinks, WriteSettings, EraseSettings, EraseInv,
     EraseProgress, Emptied, timingVars, settingsVars, flashVars
<1>15. ASSUME CheckReset PROVE EraseInv'
  BY <1>15, <1>e DEF CheckReset
<1>16. ASSUME ResetSettings PROVE EraseInv'
  BY <1>16, <1>d DEF ResetSettings, At, SetBlinks, WriteSettings, EraseSettings, EraseInv,
     EraseProgress, Emptied, timingVars, settingsVars, flashVars
<1>17. ASSUME CheckArm PROVE EraseInv'
  BY <1>17, <1>d DEF CheckArm, Commanded, At, WriteSettings, EraseSettings, EraseInv,
     EraseProgress, Emptied, timingVars, settingsVars, flashVars
<1>18. ASSUME CheckReadOnly PROVE EraseInv'
  BY <1>18, <1>d DEF CheckReadOnly, Commanded, At, WriteSettings, EraseSettings, EraseInv,
     EraseProgress, Emptied, timingVars, settingsVars, flashVars
<1>19. ASSUME SetReadOnly PROVE EraseInv'
  BY <1>19, <1>d DEF SetReadOnly, At, WriteSettings, EraseSettings, EraseInv, EraseProgress,
     Emptied, timingVars, settingsVars, flashVars
<1>20. ASSUME CheckArmMax PROVE EraseInv'
  BY <1>20, <1>d DEF CheckArmMax, Commanded, At, WriteSettings, EraseSettings, EraseInv,
     EraseProgress, Emptied, timingVars, settingsVars, flashVars
<1>21. ASSUME SetCeiling PROVE EraseInv'
  BY <1>21, <1>d DEF SetCeiling, At, WriteSettings, EraseSettings, EraseInv, EraseProgress,
     Emptied, timingVars, settingsVars, flashVars
<1>22. ASSUME CheckCalibrate PROVE EraseInv'
  BY <1>22, <1>d DEF CheckCalibrate, Commanded, At, WriteSettings, EraseSettings, EraseInv,
     EraseProgress, Emptied, timingVars, settingsVars, flashVars
<1>23. ASSUME Calibrate PROVE EraseInv'
  BY <1>23, <1>d DEF Calibrate, At, WriteSettings, EraseSettings, EraseInv, EraseProgress,
     Emptied, timingVars, settingsVars, flashVars
<1>24. ASSUME RawErase PROVE EraseInv'
  BY <1>24, <1>e DEF RawErase
<1>25. ASSUME CheckForgetful PROVE EraseInv'
  BY <1>25, <1>e DEF CheckForgetful
<1>26. ASSUME CheckNothing PROVE EraseInv'
  BY <1>26, <1>d DEF CheckNothing, At, Goto, EraseInv, EraseProgress, Emptied, timingVars,
     settingsVars, flashVars
<1>27. ASSUME Blink("blink", "wait") PROVE EraseInv'
  BY <1>27, <1>d DEF Blink, At, Goto, EraseInv, EraseProgress, Emptied, timingVars,
     settingsVars, flashVars
<1>28. ASSUME WaitForCharge PROVE EraseInv'
  BY <1>28, <1>d DEF WaitForCharge, At, Goto, EraseInv, EraseProgress, Emptied, timingVars,
     settingsVars, flashVars
<1>29. ASSUME Attach PROVE EraseInv'
  BY <1>29, <1>d DEF Attach, ResetLocals, At, Goto, EraseInv, EraseProgress, Emptied,
     timingVars, settingsVars, flashVars
<1>30. ASSUME CommandNone PROVE EraseInv'
  BY <1>30, <1>d DEF CommandNone, CountIteration, At, Goto, EraseInv, EraseProgress, Emptied,
     timingVars, settingsVars, flashVars
<1>31. ASSUME CommandArmed PROVE EraseInv'
  BY <1>31, <1>d DEF CommandArmed, CountIteration, At, WriteSettings, EraseSettings, EraseInv,
     EraseProgress, Emptied, timingVars, settingsVars, flashVars
<1>32. ASSUME CommandReadOnly PROVE EraseInv'
  BY <1>32, <1>d DEF CommandReadOnly, CountIteration, At, WriteSettings, EraseSettings,
     EraseInv, EraseProgress, Emptied, timingVars, settingsVars, flashVars
<1>33. ASSUME SoftReset PROVE EraseInv'
  BY <1>33, <1>d DEF SoftReset, At, Goto, EraseInv, EraseProgress, Emptied, timingVars,
     settingsVars, flashVars
<1>34. ASSUME SupplyFine PROVE EraseInv'
  BY <1>34, <1>d DEF SupplyFine, At, Goto, EraseInv, EraseProgress, Emptied, timingVars,
     settingsVars, flashVars
<1>35. ASSUME SupplyLost PROVE EraseInv'
  BY <1>35, <1>d DEF SupplyLost, At, WriteSettings, EraseSettings, EraseInv, EraseProgress,
     Emptied, timingVars, settingsVars, flashVars
<1>36. ASSUME Wipe PROVE EraseInv'
  BY <1>36, <1>e DEF Wipe
<1>37. ASSUME RestoreLimit PROVE EraseInv'
  BY <1>37, <1>d DEF RestoreLimit, At, WriteSettings, EraseSettings, EraseInv, EraseProgress,
     Emptied, timingVars, settingsVars, flashVars
<1>38. ASSUME Release PROVE EraseInv'
  BY <1>38, <1>d DEF Release, At, WriteSettings, EraseSettings, EraseInv, EraseProgress,
     Emptied, timingVars, settingsVars, flashVars
<1>39. ASSUME Halt PROVE EraseInv'
  BY <1>39, <1>d DEF Halt, At, Goto, EraseInv, EraseProgress, Emptied, timingVars,
     settingsVars, flashVars
<1>40. ASSUME MediaIdle PROVE EraseInv'
  BY <1>40, <1>d DEF MediaIdle, At, Goto, EraseInv, EraseProgress, Emptied, timingVars,
     settingsVars, flashVars
<1>r. ASSUME HostReceive PROVE EraseInv'
  BY <1>r, <1>d DEF HostReceive, At, Goto, EraseInv, EraseProgress, Emptied, timingVars,
     settingsVars, flashVars
<1>41. ASSUME HostWrite PROVE EraseInv'
  BY <1>41 DEF HostWrite, EraseInv, EraseProgress, Emptied
<1>42. ASSUME Plug /\ UNCHANGED firmwareVars PROVE EraseInv'
  BY <1>42, <1>d DEF Plug, firmwareVars, EraseInv, EraseProgress, Emptied, timingVars,
     settingsVars, flashVars
<1>43. ASSUME Unplug /\ UNCHANGED firmwareVars PROVE EraseInv'
  BY <1>43, <1>d DEF Unplug, firmwareVars, EraseInv, EraseProgress, Emptied, timingVars,
     settingsVars, flashVars
<1>44. ASSUME Charge /\ UNCHANGED firmwareVars PROVE EraseInv'
  BY <1>44, <1>d DEF Charge, firmwareVars, EraseInv, EraseProgress, Emptied, timingVars,
     settingsVars, flashVars
<1>45. ASSUME Discharge /\ UNCHANGED firmwareVars PROVE EraseInv'
  BY <1>45, <1>d DEF Discharge, firmwareVars, EraseInv, EraseProgress, Emptied, timingVars,
     settingsVars, flashVars
<1>46. ASSUME PowerUp PROVE EraseInv'
  BY <1>46, <1>d DEF PowerUp, Goto, EraseInv, EraseProgress, Emptied, timingVars, settingsVars,
     flashVars
<1>47. ASSUME PowerFail PROVE EraseInv'
  BY <1>47, <1>d DEF PowerFail, ResetLocals, EraseInv, EraseProgress, Emptied, timingVars,
     settingsVars, flashVars
<1> QED
  BY <1>r, <1>1, <1>2, <1>3, <1>4, <1>5, <1>6, <1>7, <1>8, <1>9, <1>10, <1>11, <1>12, <1>13, <1>14,
     <1>15, <1>16, <1>17, <1>18, <1>19, <1>20, <1>21, <1>22, <1>23, <1>24, <1>25, <1>26, <1>27,
     <1>28, <1>29, <1>30, <1>31, <1>32, <1>33, <1>34, <1>35, <1>36, <1>37, <1>38, <1>39, <1>40,
     <1>41, <1>42, <1>43, <1>44, <1>45, <1>46, <1>47 DEF Next, Flash, Booting, MainLoop, Power,
     Recorded

----------------------------------------------------------------------------
(* Writes of the settings.                                                  *)

\* One step keeps that unarmed settings are written to a drive with an empty disk, or to one
\* whose label is Calibrate.
LEMMA UnarmedStep ==
  ASSUME TypeInv, ControlInv, EraseInv, UnarmedWrite, Next
  PROVE  UnarmedWrite'
<1>a. UNCHANGED disk => UNCHANGED HostData /\ UNCHANGED VolumeLabel
  BY DEF HostData, VolumeLabel
<1>b. ram \in Setting
  BY DEF TypeInv, TypeOK, SettingsTypeOK
<1>1. ASSUME WriteSettingsEnd PROVE UnarmedWrite'
  BY <1>1, <1>a, <1>b DEF WriteSettingsEnd, ProgramSettings, UnarmedWrite, timingVars,
     settingsVars, flashVars
<1>2. ASSUME ErasePage PROVE UnarmedWrite'
  BY <1>2, <1>a, <1>b DEF ControlInv, RoutinePlace, ErasePage, UnarmedWrite, timingVars,
     settingsVars, flashVars
<1>3. ASSUME FormatSector PROVE UnarmedWrite'
  BY <1>3, <1>a, <1>b DEF ControlInv, RoutinePlace, FormatSector, UnarmedWrite, timingVars,
     settingsVars, flashVars
<1>4. ASSUME ProgramPage PROVE UnarmedWrite'
  BY <1>4, <1>a, <1>b DEF ControlInv, RoutinePlace, ProgramPage, UnarmedWrite, timingVars,
     settingsVars, flashVars
<1>5. ASSUME ReadCharge PROVE UnarmedWrite'
  BY <1>5, <1>a, <1>b DEF ReadCharge, settings_init, At, Goto, UnarmedWrite, timingVars,
     settingsVars, flashVars
<1>6. ASSUME SelfErase PROVE UnarmedWrite'
  BY <1>6, <1>a, <1>b DEF SelfErase, At, EraseDisk, UnarmedWrite, timingVars, settingsVars,
     flashVars
<1>7. ASSUME SkipErase PROVE UnarmedWrite'
  BY <1>7, <1>a, <1>b DEF SkipErase, At, Goto, UnarmedWrite, timingVars, settingsVars,
     flashVars
<1>8. ASSUME Disarm PROVE UnarmedWrite'
  BY <1>8, <1>a, <1>b, SettersFlags DEF EraseInv, Emptied, Disarm, At, SetBlinks, WriteSettings,
     EraseSettings, UnarmedWrite, timingVars, settingsVars, flashVars
<1>9. ASSUME ResetLimit PROVE UnarmedWrite'
  BY <1>9, <1>a, <1>b, SettersFlags DEF EraseInv, Emptied, ResetLimit, At, WriteSettings,
     EraseSettings, UnarmedWrite, timingVars, settingsVars, flashVars
<1>10. ASSUME KeepLimit PROVE UnarmedWrite'
  BY <1>10, <1>a, <1>b DEF KeepLimit, At, Goto, UnarmedWrite, timingVars, settingsVars,
     flashVars
<1>11. ASSUME Blink("blink3", "charge") PROVE UnarmedWrite'
  BY <1>11, <1>a, <1>b DEF Blink, At, Goto, UnarmedWrite, timingVars, settingsVars, flashVars
<1>12. ASSUME StartCharging PROVE UnarmedWrite'
  BY <1>12, <1>a, <1>b DEF StartCharging, timing_charge, At, Goto, UnarmedWrite, timingVars,
     settingsVars, flashVars
<1>13. ASSUME CheckInvalid PROVE UnarmedWrite'
  BY <1>13, <1>a, <1>b DEF CheckInvalid, At, EraseDisk, UnarmedWrite, timingVars, settingsVars,
     flashVars
<1>14. ASSUME DisarmInvalid PROVE UnarmedWrite'
  BY <1>14, <1>a, <1>b, SettersFlags DEF EraseInv, Emptied, DisarmInvalid, At, SetBlinks,
     WriteSettings, EraseSettings, UnarmedWrite, timingVars, settingsVars, flashVars
<1>15. ASSUME CheckReset PROVE UnarmedWrite'
  BY <1>15, <1>a, <1>b DEF CheckReset, Commanded, At, EraseDisk, UnarmedWrite, timingVars,
     settingsVars, flashVars
<1>16. ASSUME ResetSettings PROVE UnarmedWrite'
  BY <1>16, <1>a, <1>b, SettersFlags DEF EraseInv, Emptied, ResetSettings, At, SetBlinks,
     WriteSettings, EraseSettings, UnarmedWrite, timingVars, settingsVars, flashVars
<1>17. ASSUME CheckArm PROVE UnarmedWrite'
  BY <1>17, <1>a, <1>b, SettersFlags DEF CheckArm, Commanded, At, WriteSettings, EraseSettings,
     UnarmedWrite, timingVars, settingsVars, flashVars
<1>18. ASSUME CheckReadOnly PROVE UnarmedWrite'
  BY <1>18, <1>a, <1>b, SettersFlags DEF CheckReadOnly, Commanded, At, WriteSettings,
     EraseSettings, UnarmedWrite, timingVars, settingsVars, flashVars
<1>19. ASSUME SetReadOnly PROVE UnarmedWrite'
  BY <1>19, <1>a, <1>b, SettersFlags DEF SetReadOnly, At, WriteSettings, EraseSettings,
     UnarmedWrite, timingVars, settingsVars, flashVars
<1>20. ASSUME CheckArmMax PROVE UnarmedWrite'
  BY <1>20, <1>a, <1>b, SettersFlags DEF CheckArmMax, Commanded, At, WriteSettings,
     EraseSettings, UnarmedWrite, timingVars, settingsVars, flashVars
<1>21. ASSUME SetCeiling PROVE UnarmedWrite'
  BY <1>21, <1>a, <1>b, SettersFlags DEF SetCeiling, At, WriteSettings, EraseSettings,
     UnarmedWrite, timingVars, settingsVars, flashVars
<1>22. ASSUME CheckCalibrate PROVE UnarmedWrite'
  BY <1>22, <1>a, <1>b, SettersFlags DEF CheckCalibrate, Commanded, io_disk_hasLabel, At,
     WriteSettings, EraseSettings, UnarmedWrite, timingVars, settingsVars, flashVars
<1>23. ASSUME Calibrate PROVE UnarmedWrite'
  BY <1>23, <1>a, <1>b, SettersFlags DEF Calibrate, At, WriteSettings, EraseSettings,
     UnarmedWrite, timingVars, settingsVars, flashVars
<1>24. ASSUME RawErase PROVE UnarmedWrite'
  BY <1>24, <1>a, <1>b DEF RawErase, At, SetBlinks, EraseDisk, UnarmedWrite, timingVars,
     settingsVars, flashVars
<1>25. ASSUME CheckForgetful PROVE UnarmedWrite'
  BY <1>25, <1>a, <1>b DEF CheckForgetful, Commanded, At, EraseDisk, UnarmedWrite, timingVars,
     settingsVars, flashVars
<1>26. ASSUME CheckNothing PROVE UnarmedWrite'
  BY <1>26, <1>a, <1>b DEF CheckNothing, At, Goto, UnarmedWrite, timingVars, settingsVars,
     flashVars
<1>27. ASSUME Blink("blink", "wait") PROVE UnarmedWrite'
  BY <1>27, <1>a, <1>b DEF Blink, At, Goto, UnarmedWrite, timingVars, settingsVars, flashVars
<1>28. ASSUME WaitForCharge PROVE UnarmedWrite'
  BY <1>28, <1>a, <1>b DEF WaitForCharge, At, Goto, UnarmedWrite, timingVars, settingsVars,
     flashVars
<1>29. ASSUME Attach PROVE UnarmedWrite'
  BY <1>29, <1>a, <1>b DEF Attach, ResetLocals, At, Goto, UnarmedWrite, timingVars,
     settingsVars, flashVars
<1>30. ASSUME CommandNone PROVE UnarmedWrite'
  BY <1>30, <1>a, <1>b DEF CommandNone, CountIteration, At, Goto, UnarmedWrite, timingVars,
     settingsVars, flashVars
<1>31. ASSUME CommandArmed PROVE UnarmedWrite'
  BY <1>31, <1>a, <1>b, SettersFlags DEF CommandArmed, CountIteration, At, WriteSettings,
     EraseSettings, UnarmedWrite, timingVars, settingsVars, flashVars
<1>32. ASSUME CommandReadOnly PROVE UnarmedWrite'
  BY <1>32, <1>a, <1>b, SettersFlags DEF CommandReadOnly, CountIteration, At, WriteSettings,
     EraseSettings, UnarmedWrite, timingVars, settingsVars, flashVars
<1>33. ASSUME SoftReset PROVE UnarmedWrite'
  BY <1>33, <1>a, <1>b DEF SoftReset, At, Goto, UnarmedWrite, timingVars, settingsVars,
     flashVars
<1>34. ASSUME SupplyFine PROVE UnarmedWrite'
  BY <1>34, <1>a, <1>b DEF SupplyFine, At, Goto, UnarmedWrite, timingVars, settingsVars,
     flashVars
<1>35. ASSUME SupplyLost PROVE UnarmedWrite'
  BY <1>35, <1>a, <1>b, SettersFlags DEF SupplyLost, At, WriteSettings, EraseSettings,
     UnarmedWrite, timingVars, settingsVars, flashVars
<1>36. ASSUME Wipe PROVE UnarmedWrite'
  BY <1>36, <1>a, <1>b DEF Wipe, At, EraseDisk, UnarmedWrite, timingVars, settingsVars,
     flashVars
<1>37. ASSUME RestoreLimit PROVE UnarmedWrite'
  BY <1>37, <1>a, <1>b, SettersFlags DEF EraseInv, Emptied, RestoreLimit, At, WriteSettings,
     EraseSettings, UnarmedWrite, timingVars, settingsVars, flashVars
<1>38. ASSUME Release PROVE UnarmedWrite'
  BY <1>38, <1>a, <1>b, SettersFlags DEF EraseInv, Emptied, Release, At, WriteSettings,
     EraseSettings, UnarmedWrite, timingVars, settingsVars, flashVars
<1>39. ASSUME Halt PROVE UnarmedWrite'
  BY <1>39, <1>a, <1>b DEF Halt, At, Goto, UnarmedWrite, timingVars, settingsVars, flashVars
<1>40. ASSUME MediaIdle PROVE UnarmedWrite'
  BY <1>40, <1>a, <1>b DEF MediaIdle, At, Goto, UnarmedWrite, timingVars, settingsVars,
     flashVars
<1>r. ASSUME HostReceive PROVE UnarmedWrite'
  BY <1>r, <1>a, <1>b DEF HostReceive, At, Goto, UnarmedWrite, timingVars, settingsVars,
     flashVars
<1>41. ASSUME HostWrite PROVE UnarmedWrite'
  BY <1>41, <1>a, <1>b DEF HostWrite, At, UnarmedWrite, timingVars, settingsVars, flashVars
<1>42. ASSUME Plug /\ UNCHANGED firmwareVars PROVE UnarmedWrite'
  BY <1>42, <1>a, <1>b DEF Plug, firmwareVars, UnarmedWrite, timingVars, settingsVars,
     flashVars
<1>43. ASSUME Unplug /\ UNCHANGED firmwareVars PROVE UnarmedWrite'
  BY <1>43, <1>a, <1>b DEF Unplug, firmwareVars, UnarmedWrite, timingVars, settingsVars,
     flashVars
<1>44. ASSUME Charge /\ UNCHANGED firmwareVars PROVE UnarmedWrite'
  BY <1>44, <1>a, <1>b DEF Charge, firmwareVars, UnarmedWrite, timingVars, settingsVars,
     flashVars
<1>45. ASSUME Discharge /\ UNCHANGED firmwareVars PROVE UnarmedWrite'
  BY <1>45, <1>a, <1>b DEF Discharge, firmwareVars, UnarmedWrite, timingVars, settingsVars,
     flashVars
<1>46. ASSUME PowerUp PROVE UnarmedWrite'
  BY <1>46, <1>a, <1>b DEF PowerUp, Goto, UnarmedWrite, timingVars, settingsVars, flashVars
<1>47. ASSUME PowerFail PROVE UnarmedWrite'
  BY <1>47, <1>a, <1>b DEF PowerFail, ResetLocals, UnarmedWrite, timingVars, settingsVars,
     flashVars
<1> QED
  BY <1>r, <1>1, <1>2, <1>3, <1>4, <1>5, <1>6, <1>7, <1>8, <1>9, <1>10, <1>11, <1>12, <1>13, <1>14,
     <1>15, <1>16, <1>17, <1>18, <1>19, <1>20, <1>21, <1>22, <1>23, <1>24, <1>25, <1>26, <1>27,
     <1>28, <1>29, <1>30, <1>31, <1>32, <1>33, <1>34, <1>35, <1>36, <1>37, <1>38, <1>39, <1>40,
     <1>41, <1>42, <1>43, <1>44, <1>45, <1>46, <1>47 DEF Next, Flash, Booting, MainLoop, Power,
     Recorded

----------------------------------------------------------------------------
(* The read-only flag.                                                      *)

\* One step keeps that read-only settings are armed ones, in flash and in RAM.
LEMMA ReadOnlyStep ==
  ASSUME TypeInv, UnarmedWrite, ReadOnlyInv, Next
  PROVE  ReadOnlyInv'
<1>a. ram \in Setting
  BY DEF TypeInv, TypeOK, SettingsTypeOK
<1>1. ASSUME WriteSettingsEnd PROVE ReadOnlyInv'
  BY <1>1, <1>a DEF WriteSettingsEnd, ProgramSettings, ReadOnlyInv, ReadOnlyIsArmed,
     timingVars, settingsVars, flashVars
<1>2. ASSUME ErasePage PROVE ReadOnlyInv'
  BY <1>2, <1>a DEF ErasePage, ReadOnlyInv, ReadOnlyIsArmed, timingVars, settingsVars,
     flashVars
<1>3. ASSUME FormatSector PROVE ReadOnlyInv'
  BY <1>3, <1>a DEF FormatSector, ReadOnlyInv, ReadOnlyIsArmed, timingVars, settingsVars,
     flashVars
<1>4. ASSUME ProgramPage PROVE ReadOnlyInv'
  BY <1>4, <1>a DEF ProgramPage, ReadOnlyInv, ReadOnlyIsArmed, timingVars, settingsVars,
     flashVars
<1>5. ASSUME ReadCharge PROVE ReadOnlyInv'
  BY <1>5, <1>a DEF ReadCharge, settings_init, At, Goto, ReadOnlyInv, ReadOnlyIsArmed,
     timingVars, settingsVars, flashVars
<1>6. ASSUME SelfErase PROVE ReadOnlyInv'
  BY <1>6, <1>a DEF SelfErase, At, EraseDisk, ReadOnlyInv, ReadOnlyIsArmed, timingVars,
     settingsVars, flashVars
<1>7. ASSUME SkipErase PROVE ReadOnlyInv'
  BY <1>7, <1>a DEF SkipErase, At, Goto, ReadOnlyInv, ReadOnlyIsArmed, timingVars,
     settingsVars, flashVars
<1>8. ASSUME Disarm PROVE ReadOnlyInv'
  BY <1>8, <1>a, SettersFlags DEF Disarm, At, SetBlinks, WriteSettings, EraseSettings,
     ReadOnlyInv, ReadOnlyIsArmed, timingVars, settingsVars, flashVars
<1>9. ASSUME ResetLimit PROVE ReadOnlyInv'
  BY <1>9, <1>a, SettersFlags DEF ResetLimit, At, WriteSettings, EraseSettings, ReadOnlyInv,
     ReadOnlyIsArmed, timingVars, settingsVars, flashVars
<1>10. ASSUME KeepLimit PROVE ReadOnlyInv'
  BY <1>10, <1>a DEF KeepLimit, At, Goto, ReadOnlyInv, ReadOnlyIsArmed, timingVars,
     settingsVars, flashVars
<1>11. ASSUME Blink("blink3", "charge") PROVE ReadOnlyInv'
  BY <1>11, <1>a DEF Blink, At, Goto, ReadOnlyInv, ReadOnlyIsArmed, timingVars, settingsVars,
     flashVars
<1>12. ASSUME StartCharging PROVE ReadOnlyInv'
  BY <1>12, <1>a DEF StartCharging, timing_charge, At, Goto, ReadOnlyInv, ReadOnlyIsArmed,
     timingVars, settingsVars, flashVars
<1>13. ASSUME CheckInvalid PROVE ReadOnlyInv'
  BY <1>13, <1>a DEF CheckInvalid, At, EraseDisk, ReadOnlyInv, ReadOnlyIsArmed, timingVars,
     settingsVars, flashVars
<1>14. ASSUME DisarmInvalid PROVE ReadOnlyInv'
  BY <1>14, <1>a, SettersFlags DEF DisarmInvalid, At, SetBlinks, WriteSettings, EraseSettings,
     ReadOnlyInv, ReadOnlyIsArmed, timingVars, settingsVars, flashVars
<1>15. ASSUME CheckReset PROVE ReadOnlyInv'
  BY <1>15, <1>a DEF CheckReset, Commanded, At, EraseDisk, ReadOnlyInv, ReadOnlyIsArmed,
     timingVars, settingsVars, flashVars
<1>16. ASSUME ResetSettings PROVE ReadOnlyInv'
  BY <1>16, <1>a, SettersFlags DEF ResetSettings, At, SetBlinks, WriteSettings, EraseSettings,
     ReadOnlyInv, ReadOnlyIsArmed, timingVars, settingsVars, flashVars
<1>17. ASSUME CheckArm PROVE ReadOnlyInv'
  BY <1>17, <1>a, SettersFlags DEF CheckArm, Commanded, At, WriteSettings, EraseSettings,
     ReadOnlyInv, ReadOnlyIsArmed, timingVars, settingsVars, flashVars
<1>18. ASSUME CheckReadOnly PROVE ReadOnlyInv'
  BY <1>18, <1>a, SettersFlags DEF CheckReadOnly, Commanded, At, WriteSettings, EraseSettings,
     ReadOnlyInv, ReadOnlyIsArmed, timingVars, settingsVars, flashVars
<1>19. ASSUME SetReadOnly PROVE ReadOnlyInv'
  BY <1>19, <1>a, SettersFlags DEF UnarmedWrite, SetReadOnly, At, WriteSettings, EraseSettings,
     ReadOnlyInv, ReadOnlyIsArmed, timingVars, settingsVars, flashVars
<1>20. ASSUME CheckArmMax PROVE ReadOnlyInv'
  BY <1>20, <1>a, SettersFlags DEF CheckArmMax, Commanded, At, WriteSettings, EraseSettings,
     ReadOnlyInv, ReadOnlyIsArmed, timingVars, settingsVars, flashVars
<1>21. ASSUME SetCeiling PROVE ReadOnlyInv'
  BY <1>21, <1>a, SettersFlags DEF SetCeiling, At, WriteSettings, EraseSettings, ReadOnlyInv,
     ReadOnlyIsArmed, timingVars, settingsVars, flashVars
<1>22. ASSUME CheckCalibrate PROVE ReadOnlyInv'
  BY <1>22, <1>a, SettersFlags DEF CheckCalibrate, Commanded, At, WriteSettings, EraseSettings,
     ReadOnlyInv, ReadOnlyIsArmed, timingVars, settingsVars, flashVars
<1>23. ASSUME Calibrate PROVE ReadOnlyInv'
  BY <1>23, <1>a, SettersFlags DEF Calibrate, At, WriteSettings, EraseSettings, ReadOnlyInv,
     ReadOnlyIsArmed, timingVars, settingsVars, flashVars
<1>24. ASSUME RawErase PROVE ReadOnlyInv'
  BY <1>24, <1>a DEF RawErase, At, SetBlinks, EraseDisk, ReadOnlyInv, ReadOnlyIsArmed,
     timingVars, settingsVars, flashVars
<1>25. ASSUME CheckForgetful PROVE ReadOnlyInv'
  BY <1>25, <1>a DEF CheckForgetful, Commanded, At, EraseDisk, ReadOnlyInv, ReadOnlyIsArmed,
     timingVars, settingsVars, flashVars
<1>26. ASSUME CheckNothing PROVE ReadOnlyInv'
  BY <1>26, <1>a DEF CheckNothing, At, Goto, ReadOnlyInv, ReadOnlyIsArmed, timingVars,
     settingsVars, flashVars
<1>27. ASSUME Blink("blink", "wait") PROVE ReadOnlyInv'
  BY <1>27, <1>a DEF Blink, At, Goto, ReadOnlyInv, ReadOnlyIsArmed, timingVars, settingsVars,
     flashVars
<1>28. ASSUME WaitForCharge PROVE ReadOnlyInv'
  BY <1>28, <1>a DEF WaitForCharge, At, Goto, ReadOnlyInv, ReadOnlyIsArmed, timingVars,
     settingsVars, flashVars
<1>29. ASSUME Attach PROVE ReadOnlyInv'
  BY <1>29, <1>a DEF Attach, ResetLocals, At, Goto, ReadOnlyInv, ReadOnlyIsArmed, timingVars,
     settingsVars, flashVars
<1>30. ASSUME CommandNone PROVE ReadOnlyInv'
  BY <1>30, <1>a DEF CommandNone, CountIteration, At, Goto, ReadOnlyInv, ReadOnlyIsArmed,
     timingVars, settingsVars, flashVars
<1>31. ASSUME CommandArmed PROVE ReadOnlyInv'
  BY <1>31, <1>a, SettersFlags DEF CommandArmed, CountIteration, At, WriteSettings,
     EraseSettings, ReadOnlyInv, ReadOnlyIsArmed, timingVars, settingsVars, flashVars
<1>32. ASSUME CommandReadOnly PROVE ReadOnlyInv'
  BY <1>32, <1>a, SettersFlags DEF CommandReadOnly, CountIteration, At, WriteSettings,
     EraseSettings, ReadOnlyInv, ReadOnlyIsArmed, timingVars, settingsVars, flashVars
<1>33. ASSUME SoftReset PROVE ReadOnlyInv'
  BY <1>33, <1>a DEF SoftReset, At, Goto, ReadOnlyInv, ReadOnlyIsArmed, timingVars,
     settingsVars, flashVars
<1>34. ASSUME SupplyFine PROVE ReadOnlyInv'
  BY <1>34, <1>a DEF SupplyFine, At, Goto, ReadOnlyInv, ReadOnlyIsArmed, timingVars,
     settingsVars, flashVars
<1>35. ASSUME SupplyLost PROVE ReadOnlyInv'
  BY <1>35, <1>a, SettersFlags DEF SupplyLost, At, WriteSettings, EraseSettings, ReadOnlyInv,
     ReadOnlyIsArmed, timingVars, settingsVars, flashVars
<1>36. ASSUME Wipe PROVE ReadOnlyInv'
  BY <1>36, <1>a DEF Wipe, At, EraseDisk, ReadOnlyInv, ReadOnlyIsArmed, timingVars,
     settingsVars, flashVars
<1>37. ASSUME RestoreLimit PROVE ReadOnlyInv'
  BY <1>37, <1>a, SettersFlags DEF RestoreLimit, At, WriteSettings, EraseSettings, ReadOnlyInv,
     ReadOnlyIsArmed, timingVars, settingsVars, flashVars
<1>38. ASSUME Release PROVE ReadOnlyInv'
  BY <1>38, <1>a, SettersFlags DEF Release, At, WriteSettings, EraseSettings, ReadOnlyInv,
     ReadOnlyIsArmed, timingVars, settingsVars, flashVars
<1>39. ASSUME Halt PROVE ReadOnlyInv'
  BY <1>39, <1>a DEF Halt, At, Goto, ReadOnlyInv, ReadOnlyIsArmed, timingVars, settingsVars,
     flashVars
<1>40. ASSUME MediaIdle PROVE ReadOnlyInv'
  BY <1>40, <1>a DEF MediaIdle, At, Goto, ReadOnlyInv, ReadOnlyIsArmed, timingVars,
     settingsVars, flashVars
<1>r. ASSUME HostReceive PROVE ReadOnlyInv'
  BY <1>r, <1>a DEF HostReceive, At, Goto, ReadOnlyInv, ReadOnlyIsArmed, timingVars,
     settingsVars, flashVars
<1>41. ASSUME HostWrite PROVE ReadOnlyInv'
  BY <1>41, <1>a DEF HostWrite, At, ReadOnlyInv, ReadOnlyIsArmed, timingVars, settingsVars,
     flashVars
<1>42. ASSUME Plug /\ UNCHANGED firmwareVars PROVE ReadOnlyInv'
  BY <1>42, <1>a DEF Plug, firmwareVars, ReadOnlyInv, ReadOnlyIsArmed, timingVars,
     settingsVars, flashVars
<1>43. ASSUME Unplug /\ UNCHANGED firmwareVars PROVE ReadOnlyInv'
  BY <1>43, <1>a DEF Unplug, firmwareVars, ReadOnlyInv, ReadOnlyIsArmed, timingVars,
     settingsVars, flashVars
<1>44. ASSUME Charge /\ UNCHANGED firmwareVars PROVE ReadOnlyInv'
  BY <1>44, <1>a DEF Charge, firmwareVars, ReadOnlyInv, ReadOnlyIsArmed, timingVars,
     settingsVars, flashVars
<1>45. ASSUME Discharge /\ UNCHANGED firmwareVars PROVE ReadOnlyInv'
  BY <1>45, <1>a DEF Discharge, firmwareVars, ReadOnlyInv, ReadOnlyIsArmed, timingVars,
     settingsVars, flashVars
<1>46. ASSUME PowerUp PROVE ReadOnlyInv'
  BY <1>46, <1>a DEF PowerUp, Goto, ReadOnlyInv, ReadOnlyIsArmed, timingVars, settingsVars,
     flashVars
<1>47. ASSUME PowerFail PROVE ReadOnlyInv'
  BY <1>47, <1>a, SettersFlags DEF PowerFail, ResetLocals, ReadOnlyInv, ReadOnlyIsArmed,
     timingVars, settingsVars, flashVars
<1> QED
  BY <1>r, <1>1, <1>2, <1>3, <1>4, <1>5, <1>6, <1>7, <1>8, <1>9, <1>10, <1>11, <1>12, <1>13, <1>14,
     <1>15, <1>16, <1>17, <1>18, <1>19, <1>20, <1>21, <1>22, <1>23, <1>24, <1>25, <1>26, <1>27,
     <1>28, <1>29, <1>30, <1>31, <1>32, <1>33, <1>34, <1>35, <1>36, <1>37, <1>38, <1>39, <1>40,
     <1>41, <1>42, <1>43, <1>44, <1>45, <1>46, <1>47 DEF Next, Flash, Booting, MainLoop, Power,
     Recorded

----------------------------------------------------------------------------
(* The history variables.                                                   *)

\* The history variables hold sectors with host data only.
LEMMA HistoryStep ==
  ASSUME Next
  PROVE  HistoryInv'
  BY DEF Next, Flash, Booting, MainLoop, Power, Recorded, RecordHistory, HistoryInv

\* An erase that has begun has destroyed the master boot record (io.c:111): the disk is not
\* valid, whatever happens next.
LEMMA ErasedMbr ==
  ASSUME TypeInv, EraseInv
  PROVE  /\ op = "pages" /\ idx > 0 => ~io_disk_isValid
         /\ ErasePage => ~io_disk_isValid'
<1>1. MBR \in Sectors /\ (op = "pages" => idx \in Nat)
  BY DiskAssumption DEF Sectors, MBR, TypeInv, TypeOK, FlashTypeOK
<1>2. op = "pages" /\ idx > 0 => disk[MBR].data = "erased"
  BY <1>1 DEF EraseInv, EraseProgress, MBR
<1>3. ASSUME ErasePage PROVE disk'[MBR].data = "erased"
  <2>1. disk' = ErasePageOf(disk, idx) /\ op = "pages"
    BY <1>3 DEF ErasePage
  <2>2. CASE idx = 0
    BY <1>1, <2>1, <2>2 DEF ErasePageOf, Page, MBR, ErasedSector
  <2>3. CASE idx > 0
    BY <1>1, <1>2, <2>1, <2>3 DEF ErasePageOf, ErasedSector
  <2> QED
    BY <1>1, <2>1, <2>2, <2>3
<1> QED
  BY <1>2, <1>3 DEF io_disk_isValid

----------------------------------------------------------------------------
(* Condemned data.                                                          *)

\* One step keeps condemned data on its way to an erase.
LEMMA CondemnedStep ==
  ASSUME TypeInv, ControlInv, EraseInv, HistoryInv, CondemnedInv, Next, EraseInv'
  PROVE  CondemnedInv'
<1>h. RecordHistory
  BY DEF Next, Flash, Booting, MainLoop, Power, Recorded
<1>a. condemned' # {} => Doomed' \/ condemned # {}
  BY <1>h DEF RecordHistory
<1>b. condemned' # {} => HostData' # {}
  BY <1>h DEF RecordHistory
<1>c. UNCHANGED disk => UNCHANGED io_disk_isValid /\ UNCHANGED HostData
  BY DEF io_disk_isValid, HostData
<1>d. (op = "sectors" => HostData = {}) /\ (op' = "sectors" => HostData' = {})
  BY DEF EraseInv, EraseProgress
<1>e. op = "pages" /\ idx > 0 => ~io_disk_isValid
  BY ErasedMbr
<1>f. Readings \subseteq Nat /\ charge \in Nat /\ rom.limit \in Nat
  <2>1. Readings \subseteq Nat
    BY ReadingsAssumption DEF TIMING_CEILING
  <2>2. charge \in Readings /\ rom \in Setting
    BY DEF TypeInv, TypeOK, TimingTypeOK, SettingsTypeOK
  <2>3. rom.limit \in Limits
    BY <2>2 DEF Setting
  <2>4. charge \in Nat
    BY <2>1, <2>2
  <2> QED
    BY <2>1, <2>3, <2>4, LimitFacts
<1>g. ASSUME NEW label, NEW next, EraseDisk(label, next), next # "off"
      PROVE  /\ op' = "pages" /\ pc' = next /\ ~Doomed'
             /\ (Expired' <=> Expired) /\ (io_disk_isValid' <=> io_disk_isValid)
  BY <1>c, <1>g DEF EraseDisk, Doomed, Expired, timingVars, settingsVars
<1>1. ASSUME WriteSettingsEnd PROVE CondemnedInv'
  BY <1>1, <1>a, <1>c DEF ControlInv, RoutinePlace, WriteSettingsEnd, ProgramSettings,
     CondemnedInv, Doomed, Expired, OutageTooLong, timingVars, settingsVars, flashVars
<1>2. ASSUME ErasePage PROVE CondemnedInv'
  <2>1. ~io_disk_isValid'
    BY <1>2, ErasedMbr
  <2>2. op' \in {"pages", "sectors"}
    BY <1>2 DEF ErasePage
  <2> QED
    BY <1>b, <1>d, <2>1, <2>2 DEF CondemnedInv
<1>3. ASSUME FormatSector PROVE CondemnedInv'
  <2>1. condemned = {}
    BY <1>3, <1>d DEF FormatSector, HistoryInv
  <2> QED
    BY <1>3, <1>a, <1>b, <1>d, <2>1 DEF FormatSector, CondemnedInv, Doomed, ControlInv,
       RoutinePlace
<1>4. ASSUME ProgramPage PROVE CondemnedInv'
  BY <1>4, <1>a, <1>c DEF ControlInv, RoutinePlace, ProgramPage, CondemnedInv, Doomed, Expired,
     OutageTooLong, timingVars, settingsVars, flashVars
<1>5. ASSUME ReadCharge PROVE CondemnedInv'
  BY <1>5, <1>a, <1>c DEF ReadCharge, timing_getCharge, settings_init, At, Goto, CondemnedInv,
     Doomed, Expired, OutageTooLong, timingVars, settingsVars, flashVars
<1>6. ASSUME SelfErase PROVE CondemnedInv'
  <2>1. EraseDisk("Not Armed", "disarm") /\ pc = "judge" /\ OutageTooLong /\ op = "none"
    BY <1>6 DEF SelfErase, At
  <2>2. CASE condemned = {}
    BY <1>a, <1>g, <2>1, <2>2 DEF CondemnedInv
  <2>3. CASE condemned # {}
    BY <1>g, <2>1, <2>3 DEF CondemnedInv
  <2> QED
    BY <2>2, <2>3
<1>7. ASSUME SkipErase PROVE CondemnedInv'
  BY <1>7, <1>a, <1>c DEF SkipErase, At, Goto, CondemnedInv, Doomed, Expired, OutageTooLong,
     timingVars, settingsVars, flashVars
<1>8. ASSUME Disarm PROVE CondemnedInv'
  BY <1>8, <1>a, <1>c DEF Disarm, At, SetBlinks, WriteSettings, EraseSettings, CondemnedInv,
     Doomed, Expired, OutageTooLong, timingVars, settingsVars, flashVars
<1>9. ASSUME ResetLimit PROVE CondemnedInv'
  BY <1>9, <1>a, <1>c DEF ResetLimit, At, WriteSettings, EraseSettings, CondemnedInv, Doomed,
     Expired, OutageTooLong, timingVars, settingsVars, flashVars
<1>10. ASSUME KeepLimit PROVE CondemnedInv'
  BY <1>10, <1>a, <1>c DEF KeepLimit, At, Goto, CondemnedInv, Doomed, Expired, OutageTooLong,
     timingVars, settingsVars, flashVars
<1>11. ASSUME Blink("blink3", "charge") PROVE CondemnedInv'
  BY <1>11, <1>a, <1>c DEF Blink, At, Goto, CondemnedInv, Doomed, Expired, OutageTooLong,
     timingVars, settingsVars, flashVars
<1>12. ASSUME StartCharging PROVE CondemnedInv'
  BY <1>12, <1>a, <1>c DEF StartCharging, timing_charge, At, Goto, CondemnedInv, Doomed,
     Expired, OutageTooLong, timingVars, settingsVars, flashVars
<1>13. ASSUME CheckInvalid PROVE CondemnedInv'
  BY <1>13, <1>a, <1>c DEF CheckInvalid, At, EraseDisk, CondemnedInv, Doomed, Expired,
     OutageTooLong, timingVars, settingsVars, flashVars
<1>14. ASSUME DisarmInvalid PROVE CondemnedInv'
  BY <1>14, <1>a, <1>c DEF DisarmInvalid, At, SetBlinks, WriteSettings, EraseSettings,
     CondemnedInv, Doomed, Expired, OutageTooLong, timingVars, settingsVars, flashVars
<1>15. ASSUME CheckReset PROVE CondemnedInv'
  <2>1. EraseDisk("Not Armed", "resetSettings") /\ condemned = {}
    BY <1>15 DEF CheckReset, Commanded, At, CondemnedInv
  <2> QED
    BY <1>a, <1>g, <2>1 DEF CondemnedInv
<1>16. ASSUME ResetSettings PROVE CondemnedInv'
  BY <1>16, <1>a, <1>c DEF ResetSettings, At, SetBlinks, WriteSettings, EraseSettings,
     CondemnedInv, Doomed, Expired, OutageTooLong, timingVars, settingsVars, flashVars
<1>17. ASSUME CheckArm PROVE CondemnedInv'
  BY <1>17, <1>a, <1>c DEF CheckArm, Commanded, At, WriteSettings, EraseSettings, CondemnedInv,
     Doomed, Expired, OutageTooLong, timingVars, settingsVars, flashVars
<1>18. ASSUME CheckReadOnly PROVE CondemnedInv'
  BY <1>18, <1>a, <1>c DEF CheckReadOnly, Commanded, At, WriteSettings, EraseSettings,
     CondemnedInv, Doomed, Expired, OutageTooLong, timingVars, settingsVars, flashVars
<1>19. ASSUME SetReadOnly PROVE CondemnedInv'
  BY <1>19, <1>a, <1>c DEF SetReadOnly, At, WriteSettings, EraseSettings, CondemnedInv, Doomed,
     Expired, OutageTooLong, timingVars, settingsVars, flashVars
<1>20. ASSUME CheckArmMax PROVE CondemnedInv'
  BY <1>20, <1>a, <1>c DEF CheckArmMax, Commanded, At, WriteSettings, EraseSettings,
     CondemnedInv, Doomed, Expired, OutageTooLong, timingVars, settingsVars, flashVars
<1>21. ASSUME SetCeiling PROVE CondemnedInv'
  BY <1>21, <1>a, <1>c DEF SetCeiling, At, WriteSettings, EraseSettings, CondemnedInv, Doomed,
     Expired, OutageTooLong, timingVars, settingsVars, flashVars
<1>22. ASSUME CheckCalibrate PROVE CondemnedInv'
  BY <1>22, <1>a, <1>c DEF CheckCalibrate, Commanded, At, WriteSettings, EraseSettings,
     CondemnedInv, Doomed, Expired, OutageTooLong, timingVars, settingsVars, flashVars
<1>23. ASSUME Calibrate PROVE CondemnedInv'
  BY <1>23, <1>a, <1>c DEF Calibrate, At, WriteSettings, EraseSettings, CondemnedInv, Doomed,
     Expired, OutageTooLong, timingVars, settingsVars, flashVars
<1>24. ASSUME RawErase PROVE CondemnedInv'
  <2>1. EraseDisk("Raw", "blink") /\ condemned = {}
    BY <1>24 DEF RawErase, At, CondemnedInv
  <2> QED
    BY <1>a, <1>g, <2>1 DEF CondemnedInv
<1>25. ASSUME CheckForgetful PROVE CondemnedInv'
  <2>1. EraseDisk("Forgetful", "wait") /\ condemned = {}
    BY <1>25 DEF CheckForgetful, Commanded, At, CondemnedInv
  <2> QED
    BY <1>a, <1>g, <2>1 DEF CondemnedInv
<1>26. ASSUME CheckNothing PROVE CondemnedInv'
  BY <1>26, <1>a, <1>c DEF CheckNothing, At, Goto, CondemnedInv, Doomed, Expired,
     OutageTooLong, timingVars, settingsVars, flashVars
<1>27. ASSUME Blink("blink", "wait") PROVE CondemnedInv'
  BY <1>27, <1>a, <1>c DEF Blink, At, Goto, CondemnedInv, Doomed, Expired, OutageTooLong,
     timingVars, settingsVars, flashVars
<1>28. ASSUME WaitForCharge PROVE CondemnedInv'
  BY <1>28, <1>a, <1>c DEF WaitForCharge, At, Goto, CondemnedInv, Doomed, Expired,
     OutageTooLong, timingVars, settingsVars, flashVars
<1>29. ASSUME Attach PROVE CondemnedInv'
  BY <1>29, <1>a, <1>c DEF Attach, ResetLocals, At, Goto, CondemnedInv, Doomed, Expired,
     OutageTooLong, timingVars, settingsVars, flashVars
<1>30. ASSUME CommandNone PROVE CondemnedInv'
  BY <1>30, <1>a, <1>c DEF CommandNone, CountIteration, At, Goto, CondemnedInv, Doomed,
     Expired, OutageTooLong, timingVars, settingsVars, flashVars
<1>31. ASSUME CommandArmed PROVE CondemnedInv'
  BY <1>31, <1>a, <1>c DEF CommandArmed, CountIteration, At, WriteSettings, EraseSettings,
     CondemnedInv, Doomed, Expired, OutageTooLong, timingVars, settingsVars, flashVars
<1>32. ASSUME CommandReadOnly PROVE CondemnedInv'
  BY <1>32, <1>a, <1>c DEF CommandReadOnly, CountIteration, At, WriteSettings, EraseSettings,
     CondemnedInv, Doomed, Expired, OutageTooLong, timingVars, settingsVars, flashVars
<1>33. ASSUME SoftReset PROVE CondemnedInv'
  BY <1>33, <1>a, <1>c DEF SoftReset, At, Goto, CondemnedInv, Doomed, Expired, OutageTooLong,
     timingVars, settingsVars, flashVars
<1>34. ASSUME SupplyFine PROVE CondemnedInv'
  BY <1>34, <1>a, <1>c DEF SupplyFine, At, Goto, CondemnedInv, Doomed, Expired, OutageTooLong,
     timingVars, settingsVars, flashVars
<1>35. ASSUME SupplyLost PROVE CondemnedInv'
  BY <1>35, <1>a, <1>c DEF SupplyLost, At, WriteSettings, EraseSettings, CondemnedInv, Doomed,
     Expired, OutageTooLong, timingVars, settingsVars, flashVars
<1>36. ASSUME Wipe PROVE CondemnedInv'
  <2>1. EraseDisk("Not Armed", "restore") /\ condemned = {}
    BY <1>36 DEF Wipe, At, CondemnedInv
  <2> QED
    BY <1>a, <1>g, <2>1 DEF CondemnedInv
<1>37. ASSUME RestoreLimit PROVE CondemnedInv'
  BY <1>37, <1>a, <1>c DEF RestoreLimit, At, WriteSettings, EraseSettings, CondemnedInv,
     Doomed, Expired, OutageTooLong, timingVars, settingsVars, flashVars
<1>38. ASSUME Release PROVE CondemnedInv'
  BY <1>38, <1>a, <1>c DEF Release, At, WriteSettings, EraseSettings, CondemnedInv, Doomed,
     Expired, OutageTooLong, timingVars, settingsVars, flashVars
<1>39. ASSUME Halt PROVE CondemnedInv'
  BY <1>39, <1>a, <1>c DEF Halt, At, Goto, CondemnedInv, Doomed, Expired, OutageTooLong,
     timingVars, settingsVars, flashVars
<1>40. ASSUME MediaIdle PROVE CondemnedInv'
  BY <1>40, <1>a, <1>c DEF MediaIdle, At, Goto, CondemnedInv, Doomed, Expired, OutageTooLong,
     timingVars, settingsVars, flashVars
<1>r. ASSUME HostReceive PROVE CondemnedInv'
  BY <1>r, <1>a, <1>c DEF HostReceive, At, Goto, CondemnedInv, Doomed, Expired, OutageTooLong,
     timingVars, settingsVars, flashVars
<1>41. ASSUME HostWrite PROVE CondemnedInv'
  BY <1>41, <1>a, <1>c DEF HostWrite, At, CondemnedInv, Doomed, Expired, OutageTooLong,
     timingVars, settingsVars, flashVars
<1>42. ASSUME Plug /\ UNCHANGED firmwareVars PROVE CondemnedInv'
  <2>1. UNCHANGED <<rom, ram, disk, pc, op, idx, timingCharge>>
    BY <1>42 DEF firmwareVars, settingsVars, flashVars, localVars
  <2>2. Expired /\ ~charging => Expired'
    BY <1>42, <2>1 DEF Plug, Expired
  <2>3. pc \in {"off", "boot", "judge", "disarm"} => ~charging
    BY DEF ControlInv, NotCharging
  <2>4. ASSUME Doomed', condemned' # {} PROVE CondemnedInv'
    BY <1>b, <1>c, <1>d, <1>e, <2>1, <2>4 DEF CondemnedInv, Doomed, Expired
  <2>5. ASSUME condemned # {} PROVE CondemnedInv'
    BY <1>c, <2>1, <2>2, <2>3, <2>5 DEF CondemnedInv, OutageTooLong
  <2> QED
    BY <1>a, <2>4, <2>5 DEF CondemnedInv
<1>43. ASSUME Unplug /\ UNCHANGED firmwareVars PROVE CondemnedInv'
  <2>1. UNCHANGED <<rom, ram, disk, pc, op, idx, timingCharge>>
    BY <1>43 DEF firmwareVars, settingsVars, flashVars, localVars
  <2>2. Expired /\ ~charging => Expired'
    BY <1>43, <2>1 DEF Unplug, Expired
  <2>3. pc \in {"off", "boot", "judge", "disarm"} => ~charging
    BY DEF ControlInv, NotCharging
  <2>4. ASSUME Doomed', condemned' # {} PROVE CondemnedInv'
    BY <1>b, <1>c, <1>d, <1>e, <2>1, <2>4 DEF CondemnedInv, Doomed, Expired
  <2>5. ASSUME condemned # {} PROVE CondemnedInv'
    BY <1>c, <2>1, <2>2, <2>3, <2>5 DEF CondemnedInv, OutageTooLong
  <2> QED
    BY <1>a, <2>4, <2>5 DEF CondemnedInv
<1>44. ASSUME Charge /\ UNCHANGED firmwareVars PROVE CondemnedInv'
  <2>1. UNCHANGED <<rom, ram, disk, pc, op, idx, timingCharge>>
    BY <1>44 DEF firmwareVars, settingsVars, flashVars, localVars
  <2>2. Expired /\ ~charging => Expired'
    BY <1>44, <2>1 DEF Charge, Expired
  <2>3. pc \in {"off", "boot", "judge", "disarm"} => ~charging
    BY DEF ControlInv, NotCharging
  <2>4. ASSUME Doomed', condemned' # {} PROVE CondemnedInv'
    BY <1>b, <1>c, <1>d, <1>e, <2>1, <2>4 DEF CondemnedInv, Doomed, Expired
  <2>5. ASSUME condemned # {} PROVE CondemnedInv'
    BY <1>c, <2>1, <2>2, <2>3, <2>5 DEF CondemnedInv, OutageTooLong
  <2> QED
    BY <1>a, <2>4, <2>5 DEF CondemnedInv
<1>45. ASSUME Discharge /\ UNCHANGED firmwareVars PROVE CondemnedInv'
  <2>1. UNCHANGED <<rom, ram, disk, pc, op, idx, timingCharge>>
    BY <1>45 DEF firmwareVars, settingsVars, flashVars, localVars
  <2>2. Expired /\ ~charging => Expired'
    BY <1>45, <2>1, <1>f DEF Discharge, Expired
  <2>3. pc \in {"off", "boot", "judge", "disarm"} => ~charging
    BY DEF ControlInv, NotCharging
  <2>4. ASSUME Doomed', condemned' # {} PROVE CondemnedInv'
    BY <1>b, <1>c, <1>d, <1>e, <2>1, <2>4 DEF CondemnedInv, Doomed, Expired
  <2>5. ASSUME condemned # {} PROVE CondemnedInv'
    BY <1>c, <2>1, <2>2, <2>3, <2>5 DEF CondemnedInv, OutageTooLong
  <2> QED
    BY <1>a, <2>4, <2>5 DEF CondemnedInv
<1>46. ASSUME PowerUp PROVE CondemnedInv'
  BY <1>46, <1>a, <1>c DEF ControlInv, RoutinePlace, PowerUp, Goto, CondemnedInv, Doomed,
     Expired, OutageTooLong, timingVars, settingsVars, flashVars
<1>47. ASSUME PowerFail PROVE CondemnedInv'
  BY <1>47, <1>a, <1>c DEF PowerFail, ResetLocals, CondemnedInv, Doomed, Expired,
     OutageTooLong, timingVars, settingsVars, flashVars
<1> QED
  BY <1>r, <1>1, <1>2, <1>3, <1>4, <1>5, <1>6, <1>7, <1>8, <1>9, <1>10, <1>11, <1>12, <1>13, <1>14,
     <1>15, <1>16, <1>17, <1>18, <1>19, <1>20, <1>21, <1>22, <1>23, <1>24, <1>25, <1>26, <1>27,
     <1>28, <1>29, <1>30, <1>31, <1>32, <1>33, <1>34, <1>35, <1>36, <1>37, <1>38, <1>39, <1>40,
     <1>41, <1>42, <1>43, <1>44, <1>45, <1>46, <1>47 DEF Next, Flash, Booting, MainLoop, Power,
     Recorded

----------------------------------------------------------------------------
(* Data that was held while armed.                                          *)

\* One step keeps data held while armed on an armed drive or on its way to an erase.
LEMMA GuardedStep ==
  ASSUME TypeInv, ControlInv, EraseInv, UnarmedWrite, HistoryInv, GuardedInv, Next, EraseInv'
  PROVE  GuardedInv'
<1>h. RecordHistory
  BY DEF Next, Flash, Booting, MainLoop, Power, Recorded
<1>a. guarded' # {} => rom'.isArmed \/ guarded # {}
  BY <1>h DEF RecordHistory
<1>b. guarded' # {} => HostData' # {}
  BY <1>h DEF RecordHistory
<1>c. UNCHANGED disk => UNCHANGED io_disk_isValid /\ UNCHANGED HostData /\ UNCHANGED VolumeLabel
  BY DEF io_disk_isValid, HostData, VolumeLabel
<1>d. (op = "sectors" => HostData = {}) /\ (op' = "sectors" => HostData' = {})
  BY DEF EraseInv, EraseProgress
<1>e. ErasedSetting.isArmed
  BY SettersFlags DEF TypeInv, TypeOK, SettingsTypeOK
<1>1. ASSUME WriteSettingsEnd PROVE GuardedInv'
  <2>1. rom' = ram /\ pc' = pc /\ disk' = disk /\ op = "settings"
    BY <1>1 DEF WriteSettingsEnd, ProgramSettings
  <2> QED
    BY <1>b, <1>c, <2>1 DEF GuardedInv, UnarmedWrite
<1>2. ASSUME ErasePage PROVE GuardedInv'
  <2>1. ~io_disk_isValid'
    BY <1>2, ErasedMbr
  <2>2. op' \in {"pages", "sectors"}
    BY <1>2 DEF ErasePage
  <2> QED
    BY <1>b, <1>d, <2>1, <2>2 DEF GuardedInv
<1>3. ASSUME FormatSector PROVE GuardedInv'
  <2>1. guarded = {}
    BY <1>3, <1>d DEF FormatSector, HistoryInv
  <2> QED
    BY <1>a, <2>1 DEF GuardedInv
<1>4. ASSUME ProgramPage PROVE GuardedInv'
  BY <1>4, <1>a, <1>c DEF ControlInv, RoutinePlace, ProgramPage, GuardedInv, timingVars,
     settingsVars, flashVars
<1>5. ASSUME ReadCharge PROVE GuardedInv'
  BY <1>5, <1>a, <1>c DEF ReadCharge, settings_init, At, Goto, GuardedInv, timingVars,
     settingsVars, flashVars
<1>6. ASSUME SelfErase PROVE GuardedInv'
  BY <1>6, <1>a, <1>c DEF SelfErase, At, EraseDisk, GuardedInv, timingVars, settingsVars,
     flashVars
<1>7. ASSUME SkipErase PROVE GuardedInv'
  BY <1>7, <1>a, <1>c DEF SkipErase, At, Goto, GuardedInv, timingVars, settingsVars, flashVars
<1>8. ASSUME Disarm PROVE GuardedInv'
  BY <1>8, <1>a, <1>c, <1>e DEF Disarm, At, SetBlinks, WriteSettings, EraseSettings,
     GuardedInv, timingVars, settingsVars, flashVars
<1>9. ASSUME ResetLimit PROVE GuardedInv'
  BY <1>9, <1>a, <1>c, <1>e DEF ResetLimit, At, WriteSettings, EraseSettings, GuardedInv,
     timingVars, settingsVars, flashVars
<1>10. ASSUME KeepLimit PROVE GuardedInv'
  BY <1>10, <1>a, <1>c DEF KeepLimit, At, Goto, GuardedInv, timingVars, settingsVars, flashVars
<1>11. ASSUME Blink("blink3", "charge") PROVE GuardedInv'
  BY <1>11, <1>a, <1>c DEF Blink, At, Goto, GuardedInv, timingVars, settingsVars, flashVars
<1>12. ASSUME StartCharging PROVE GuardedInv'
  BY <1>12, <1>a, <1>c DEF StartCharging, timing_charge, At, Goto, GuardedInv, timingVars,
     settingsVars, flashVars
<1>13. ASSUME CheckInvalid PROVE GuardedInv'
  BY <1>13, <1>a, <1>c DEF CheckInvalid, At, EraseDisk, GuardedInv, timingVars, settingsVars,
     flashVars
<1>14. ASSUME DisarmInvalid PROVE GuardedInv'
  BY <1>14, <1>a, <1>c, <1>e DEF DisarmInvalid, At, SetBlinks, WriteSettings, EraseSettings,
     GuardedInv, timingVars, settingsVars, flashVars
<1>15. ASSUME CheckReset PROVE GuardedInv'
  BY <1>15, <1>a, <1>c DEF CheckReset, Commanded, io_disk_hasLabel, At, EraseDisk, GuardedInv,
     timingVars, settingsVars, flashVars
<1>16. ASSUME ResetSettings PROVE GuardedInv'
  BY <1>16, <1>a, <1>c, <1>e DEF ResetSettings, At, SetBlinks, WriteSettings, EraseSettings,
     GuardedInv, timingVars, settingsVars, flashVars
<1>17. ASSUME CheckArm PROVE GuardedInv'
  BY <1>17, <1>a, <1>c, <1>e DEF CheckArm, Commanded, io_disk_hasLabel, At, WriteSettings,
     EraseSettings, GuardedInv, timingVars, settingsVars, flashVars
<1>18. ASSUME CheckReadOnly PROVE GuardedInv'
  BY <1>18, <1>a, <1>c, <1>e DEF CheckReadOnly, Commanded, io_disk_hasLabel, At, WriteSettings,
     EraseSettings, GuardedInv, timingVars, settingsVars, flashVars
<1>19. ASSUME SetReadOnly PROVE GuardedInv'
  BY <1>19, <1>a, <1>c, <1>e DEF SetReadOnly, At, WriteSettings, EraseSettings, GuardedInv,
     timingVars, settingsVars, flashVars
<1>20. ASSUME CheckArmMax PROVE GuardedInv'
  BY <1>20, <1>a, <1>c, <1>e DEF CheckArmMax, Commanded, io_disk_hasLabel, At, WriteSettings,
     EraseSettings, GuardedInv, timingVars, settingsVars, flashVars
<1>21. ASSUME SetCeiling PROVE GuardedInv'
  BY <1>21, <1>a, <1>c, <1>e DEF SetCeiling, At, WriteSettings, EraseSettings, GuardedInv,
     timingVars, settingsVars, flashVars
<1>22. ASSUME CheckCalibrate PROVE GuardedInv'
  BY <1>22, <1>a, <1>c, <1>e DEF CheckCalibrate, Commanded, io_disk_hasLabel, At, WriteSettings,
     EraseSettings, GuardedInv, timingVars, settingsVars, flashVars
<1>23. ASSUME Calibrate PROVE GuardedInv'
  BY <1>23, <1>a, <1>c, <1>e DEF Calibrate, At, WriteSettings, EraseSettings, GuardedInv,
     timingVars, settingsVars, flashVars
<1>24. ASSUME RawErase PROVE GuardedInv'
  BY <1>24, <1>a, <1>c DEF RawErase, At, SetBlinks, EraseDisk, GuardedInv, timingVars,
     settingsVars, flashVars
<1>25. ASSUME CheckForgetful PROVE GuardedInv'
  BY <1>25, <1>a, <1>c DEF CheckForgetful, Commanded, io_disk_hasLabel, At, EraseDisk,
     GuardedInv, timingVars, settingsVars, flashVars
<1>26. ASSUME CheckNothing PROVE GuardedInv'
  BY <1>26, <1>a, <1>c DEF CheckNothing, At, Goto, GuardedInv, timingVars, settingsVars,
     flashVars
<1>27. ASSUME Blink("blink", "wait") PROVE GuardedInv'
  BY <1>27, <1>a, <1>c DEF Blink, At, Goto, GuardedInv, timingVars, settingsVars, flashVars
<1>28. ASSUME WaitForCharge PROVE GuardedInv'
  BY <1>28, <1>a, <1>c DEF WaitForCharge, At, Goto, GuardedInv, timingVars, settingsVars,
     flashVars
<1>29. ASSUME Attach PROVE GuardedInv'
  BY <1>29, <1>a, <1>c DEF Attach, ResetLocals, At, Goto, GuardedInv, timingVars, settingsVars,
     flashVars
<1>30. ASSUME CommandNone PROVE GuardedInv'
  BY <1>30, <1>a, <1>c DEF CommandNone, CountIteration, At, Goto, GuardedInv, timingVars,
     settingsVars, flashVars
<1>31. ASSUME CommandArmed PROVE GuardedInv'
  BY <1>31, <1>a, <1>c, <1>e DEF CommandArmed, CountIteration, At, WriteSettings,
     EraseSettings, GuardedInv, timingVars, settingsVars, flashVars
<1>32. ASSUME CommandReadOnly PROVE GuardedInv'
  BY <1>32, <1>a, <1>c, <1>e DEF CommandReadOnly, CountIteration, At, WriteSettings,
     EraseSettings, GuardedInv, timingVars, settingsVars, flashVars
<1>33. ASSUME SoftReset PROVE GuardedInv'
  BY <1>33, <1>a, <1>c DEF SoftReset, At, Goto, GuardedInv, timingVars, settingsVars, flashVars
<1>34. ASSUME SupplyFine PROVE GuardedInv'
  BY <1>34, <1>a, <1>c DEF SupplyFine, At, Goto, GuardedInv, timingVars, settingsVars,
     flashVars
<1>35. ASSUME SupplyLost PROVE GuardedInv'
  BY <1>35, <1>a, <1>c, <1>e DEF SupplyLost, At, WriteSettings, EraseSettings, GuardedInv,
     timingVars, settingsVars, flashVars
<1>36. ASSUME Wipe PROVE GuardedInv'
  BY <1>36, <1>a, <1>c DEF Wipe, At, EraseDisk, GuardedInv, timingVars, settingsVars, flashVars
<1>37. ASSUME RestoreLimit PROVE GuardedInv'
  BY <1>37, <1>a, <1>c, <1>e DEF RestoreLimit, At, WriteSettings, EraseSettings, GuardedInv,
     timingVars, settingsVars, flashVars
<1>38. ASSUME Release PROVE GuardedInv'
  BY <1>38, <1>a, <1>c, <1>e DEF Release, At, WriteSettings, EraseSettings, GuardedInv,
     timingVars, settingsVars, flashVars
<1>39. ASSUME Halt PROVE GuardedInv'
  BY <1>39, <1>a, <1>c DEF Halt, At, Goto, GuardedInv, timingVars, settingsVars, flashVars
<1>40. ASSUME MediaIdle PROVE GuardedInv'
  BY <1>40, <1>a, <1>c DEF MediaIdle, At, Goto, GuardedInv, timingVars, settingsVars, flashVars
<1>r. ASSUME HostReceive PROVE GuardedInv'
  BY <1>r, <1>a, <1>c DEF HostReceive, At, Goto, GuardedInv, timingVars, settingsVars, flashVars
<1>41. ASSUME HostWrite PROVE GuardedInv'
  BY <1>41, <1>a, <1>c DEF HostWrite, At, GuardedInv, timingVars, settingsVars, flashVars
<1>42. ASSUME Plug /\ UNCHANGED firmwareVars PROVE GuardedInv'
  BY <1>42, <1>a, <1>c DEF Plug, firmwareVars, GuardedInv, timingVars, settingsVars, flashVars
<1>43. ASSUME Unplug /\ UNCHANGED firmwareVars PROVE GuardedInv'
  BY <1>43, <1>a, <1>c DEF Unplug, firmwareVars, GuardedInv, timingVars, settingsVars,
     flashVars
<1>44. ASSUME Charge /\ UNCHANGED firmwareVars PROVE GuardedInv'
  BY <1>44, <1>a, <1>c DEF Charge, firmwareVars, GuardedInv, timingVars, settingsVars,
     flashVars
<1>45. ASSUME Discharge /\ UNCHANGED firmwareVars PROVE GuardedInv'
  BY <1>45, <1>a, <1>c DEF Discharge, firmwareVars, GuardedInv, timingVars, settingsVars,
     flashVars
<1>46. ASSUME PowerUp PROVE GuardedInv'
  BY <1>46, <1>a, <1>c DEF PowerUp, Goto, GuardedInv, timingVars, settingsVars, flashVars
<1>47. ASSUME PowerFail PROVE GuardedInv'
  BY <1>47, <1>a, <1>c DEF PowerFail, ResetLocals, GuardedInv, timingVars, settingsVars,
     flashVars
<1> QED
  BY <1>r, <1>1, <1>2, <1>3, <1>4, <1>5, <1>6, <1>7, <1>8, <1>9, <1>10, <1>11, <1>12, <1>13, <1>14,
     <1>15, <1>16, <1>17, <1>18, <1>19, <1>20, <1>21, <1>22, <1>23, <1>24, <1>25, <1>26, <1>27,
     <1>28, <1>29, <1>30, <1>31, <1>32, <1>33, <1>34, <1>35, <1>36, <1>37, <1>38, <1>39, <1>40,
     <1>41, <1>42, <1>43, <1>44, <1>45, <1>46, <1>47 DEF Next, Flash, Booting, MainLoop, Power,
     Recorded

----------------------------------------------------------------------------
(* The theorems.                                                            *)

IndInv ==
  /\ TypeInv /\ ControlInv /\ EraseInv /\ UnarmedWrite
  /\ HistoryInv /\ ReadOnlyInv /\ CondemnedInv /\ GuardedInv

\* A drive out of the box has a valid, empty disk, is not armed and has no power.
LEMMA InitInductive == Init => IndInv
<1> SUFFICES ASSUME Init PROVE IndInv
  OBVIOUS
<1>1. TypeInv
  <2>1. TimingTypeOK
    BY DEF Init, TimingInit, TimingTypeOK
  <2>2. DefaultSetting \in Setting
    BY LimitFacts DEF Setting, DefaultSetting
  <2>3. SettingsTypeOK
    BY <2>2 DEF Init, SettingsInit, SettingsTypeOK
  <2>4. DiskTypeOK
    BY SectorsType DEF Init, DiskInit, DiskTypeOK, FactoryDisk
  <2>5. /\ 0 \in 0 .. 7 /\ 0 \in 0 .. TIMING_CEILING - 1
        /\ 0 \in Limits /\ 0 \in 0 .. IndexerPeriod - 1
    BY IndexerAssumption, LimitFacts DEF TIMING_CEILING
  <2>6. LocalsTypeOK
    BY <2>5 DEF Init, LocalsTypeOK
  <2>7. FlashTypeOK
    BY SectorsType DEF Init, FlashTypeOK, Labels
  <2>8. HistoryTypeOK
    BY DEF Init, HistoryTypeOK
  <2> QED
    BY <2>1, <2>3, <2>4, <2>6, <2>7, <2>8 DEF Init, TypeInv, TypeOK, BlinksLeft, Places
<1>2. ControlInv
  BY DEF Init, ControlInv, RoutinePlace, NotCharging, FreshSettings, TimingInit
<1>3. EraseInv
  BY DEF Init, EraseInv, EraseProgress, Emptied
<1>4. UnarmedWrite
  BY DEF Init, UnarmedWrite
<1>5. HistoryInv /\ CondemnedInv /\ GuardedInv
  BY DEF Init, HistoryInv, CondemnedInv, GuardedInv
<1>6. ReadOnlyInv
  BY DEF Init, SettingsInit, DefaultSetting, ReadOnlyInv, ReadOnlyIsArmed
<1> QED
  BY <1>1, <1>2, <1>3, <1>4, <1>5, <1>6 DEF IndInv

\* The invariant is inductive: every step of the firmware and of the power supply, power
\* failures between any two flash operations included, keeps it.
LEMMA StepInductive == IndInv /\ [Next]_vars => IndInv'
<1> SUFFICES ASSUME IndInv, [Next]_vars PROVE IndInv'
  OBVIOUS
<1> USE DEF IndInv
<1>1. CASE Next
  <2>1. TypeInv' /\ ControlInv' /\ HistoryInv'
    BY <1>1, TypeStep, ControlStep, HistoryStep
  <2>2. EraseInv'
    BY <1>1, EraseStep
  <2>3. UnarmedWrite' /\ ReadOnlyInv'
    BY <1>1, UnarmedStep, ReadOnlyStep
  <2>4. CondemnedInv' /\ GuardedInv'
    BY <1>1, <2>2, CondemnedStep, GuardedStep
  <2> QED
    BY <2>1, <2>2, <2>3, <2>4
<1>2. CASE UNCHANGED vars
  <2> USE <1>2 DEF vars, timingVars, firmwareVars, settingsVars, localVars, flashVars, historyVars
  <2>1. TypeInv'
    BY DEF TypeInv, BlinksLeft, TypeOK, TimingTypeOK, SettingsTypeOK, DiskTypeOK, LocalsTypeOK,
       FlashTypeOK, HistoryTypeOK
  <2>2. ControlInv'
    BY DEF ControlInv, RoutinePlace, NotCharging, FreshSettings
  <2>3. EraseInv' /\ HistoryInv' /\ UnarmedWrite'
    BY DEF EraseInv, EraseProgress, Emptied, HistoryInv, UnarmedWrite, HostData, VolumeLabel
  <2>4. ReadOnlyInv'
    BY DEF ReadOnlyInv, ReadOnlyIsArmed
  <2>5. CondemnedInv' /\ GuardedInv'
    BY DEF CondemnedInv, GuardedInv, Expired, OutageTooLong, io_disk_isValid, VolumeLabel
  <2> QED
    BY <2>1, <2>2, <2>3, <2>4, <2>5
<1> QED
  BY <1>1, <1>2

\* Every behaviour of the firmware keeps the inductive invariant.
LEMMA Inductive == Spec => []IndInv
BY InitInductive, StepInductive, PTL DEF Spec

\* The variables keep their types whatever the host writes and whenever the power fails: the
\* loop indices stay in the disk, the limit in its 16 bits (io.c:111, io.c:121).
THEOREM TypeCorrect == Spec => []TypeOK
<1>1. IndInv => TypeOK
  BY DEF IndInv, TypeInv
<1> QED
  BY <1>1, Inductive, PTL

\* The promise of the drive (app.c:19): data that an outage or a begun erase has condemned is
\* gone before the drive serves the host again.
THEOREM NeverServed == Spec => []CondemnedNeverServed
<1>1. IndInv => CondemnedNeverServed
  BY DEF IndInv, ControlInv, RoutinePlace, CondemnedInv, CondemnedNeverServed, Serving
<1> QED
  BY <1>1, Inductive, PTL

\* A drive that serves the host unarmed serves nothing it held while armed (app.c:87,
\* app.c:111).
THEOREM StaysArmed == Spec => []ArmedDataStaysArmed
<1>1. IndInv => ArmedDataStaysArmed
  BY DEF IndInv, ControlInv, RoutinePlace, GuardedInv, ArmedDataStaysArmed, Serving
<1> QED
  BY <1>1, Inductive, PTL

\* The settings in flash are never read-only without being armed (settings.c:96), not even
\* between the two flash operations of a write.
THEOREM ReadOnlyArmed == Spec => []ReadOnlyIsArmed
<1>1. IndInv => ReadOnlyIsArmed
  BY DEF IndInv, ReadOnlyInv
<1> QED
  BY <1>1, Inductive, PTL
=============================================================================
