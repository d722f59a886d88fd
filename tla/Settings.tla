------------------------------ MODULE Settings ------------------------------
(***************************************************************************)
(* The drive's settings (settings.c): a copy in RAM (SettingsBuffer) that  *)
(* every getter reads, and the first bytes of a flash block of its own     *)
(* (SettingsRomBlock) that outlives a power loss.  settings_write erases   *)
(* the flash block and then programs it from the RAM copy: a power loss in *)
(* between leaves the erased block, whose 0xFF bytes the getters take for  *)
(* armed, read-only and the largest limit.                                 *)
(***************************************************************************)
EXTENDS Timing

VARIABLES rom,  \* SettingsRomBlock
          ram   \* SettingsBuffer

settingsVars == <<rom, ram>>

\* Two bytes of limit, and two flags that are set whenever their byte is not zero.
LIMIT_RANGE == 65536
Limits == 0 .. LIMIT_RANGE - 1

Setting == [limit : Limits, isArmed : BOOLEAN, isReadOnly : BOOLEAN]

DefaultSetting == [limit |-> TIMING_DEFAULT, isArmed |-> FALSE, isReadOnly |-> FALSE]

\* What the getters make of a block of 0xFF bytes.
ErasedSetting == [limit |-> LIMIT_RANGE - 1, isArmed |-> TRUE, isReadOnly |-> TRUE]

SettingsTypeOK ==
  /\ rom \in Setting
  /\ ram \in Setting

\* The programmed image holds the defaults; RAM holds nothing yet.
SettingsInit ==
  /\ rom = DefaultSetting
  /\ ram = DefaultSetting

settings_init ==
  /\ ram' = rom
  /\ UNCHANGED rom

\* The buffers that the setters hand to settings_write.
SetLimit(value) == [ram EXCEPT !.limit = value % LIMIT_RANGE]

\* Mutant: disarming leaves the read-only flag alone.
SetIsArmedKeepsReadOnly(value) == [ram EXCEPT !.isArmed = value]

SetIsArmed(value) ==
  IF value THEN [ram EXCEPT !.isArmed = TRUE]
           ELSE [ram EXCEPT !.isArmed = FALSE, !.isReadOnly = FALSE]

SetIsReadOnly(value) == [ram EXCEPT !.isReadOnly = value]

\* The first half of settings_write: the buffer is set and the block erased.
EraseSettings(buffer) ==
  /\ ram' = buffer
  /\ rom' = ErasedSetting

\* The second half: the sixteen blocks are programmed, the first with the buffer.
ProgramSettings ==
  /\ rom' = ram
  /\ UNCHANGED ram
=============================================================================
