------------------------- MODULE TmpUsb_refinement -------------------------
(***************************************************************************)
(* Proof that the firmware keeps the promise of SelfErasePromise, for all  *)
(* values of the constants: the initial state maps to an initial state of  *)
(* the promise, and each of the firmware's steps to one of its steps.      *)
(*                                                                         *)
(* The inductive invariant of TmpUsb_proof says which data is condemned or *)
(* held armed; here it is joined by what a serving drive knows of its      *)
(* settings: the RAM copy is what is in flash, and a write under way while *)
(* serving does not disarm.                                                *)
(***************************************************************************)
EXTENDS TmpUsb_proof

----------------------------------------------------------------------------
(* The invariant of a serving drive.                                        *)

\* From the boot decision on, RAM and flash hold the same settings between two writes.
InSync == op # "settings" /\ pc \notin {"off", "boot"} => ram = rom

\* No settings write of a serving drive disarms it.
ServingWrite == op = "settings" /\ Serving => ram.isArmed

\* Everything on an armed drive is data held while armed.
GuardedAll == rom.isArmed => guarded = HostData

ServingInv == InSync /\ LedTellsArmed /\ ServingWrite /\ GuardedAll

\* One step keeps RAM and flash alike between two writes.
LEMMA SyncStep ==
  ASSUME ControlInv, InSync, Next
  PROVE  InSync'
<1>1. ASSUME WriteSettingsEnd PROVE InSync'
  BY <1>1 DEF WriteSettingsEnd, ProgramSettings, InSync, ControlInv, RoutinePlace, timingVars,
     settingsVars, flashVars
<1>2. ASSUME ErasePage PROVE InSync'
  BY <1>2 DEF ErasePage, InSync, ControlInv, RoutinePlace, timingVars, settingsVars, flashVars
<1>3. ASSUME FormatSector PROVE InSync'
  BY <1>3 DEF FormatSector, InSync, ControlInv, RoutinePlace, timingVars, settingsVars,
     flashVars
<1>4. ASSUME ProgramPage PROVE InSync'
  BY <1>4 DEF ProgramPage, InSync, ControlInv, RoutinePlace, timingVars, settingsVars,
     flashVars
<1>5. ASSUME ReadCharge PROVE InSync'
  BY <1>5 DEF ReadCharge, settings_init, At, Goto, InSync, ControlInv, RoutinePlace,
     timingVars, settingsVars, flashVars
<1>6. ASSUME SelfErase PROVE InSync'
  BY <1>6 DEF SelfErase, At, EraseDisk, InSync, ControlInv, RoutinePlace, timingVars,
     settingsVars, flashVars
<1>7. ASSUME SkipErase PROVE InSync'
  BY <1>7 DEF SkipErase, At, Goto, InSync, ControlInv, RoutinePlace, timingVars, settingsVars,
     flashVars
<1>8. ASSUME Disarm PROVE InSync'
  BY <1>8 DEF Disarm, At, SetBlinks, WriteSettings, EraseSettings, InSync, ControlInv,
     RoutinePlace, timingVars, settingsVars, flashVars
<1>9. ASSUME ResetLimit PROVE InSync'
  BY <1>9 DEF ResetLimit, At, WriteSettings, EraseSettings, InSync, ControlInv, RoutinePlace,
     timingVars, settingsVars, flashVars
<1>10. ASSUME KeepLimit PROVE InSync'
  BY <1>10 DEF KeepLimit, At, Goto, InSync, ControlInv, RoutinePlace, timingVars, settingsVars,
     flashVars
<1>11. ASSUME Blink("blink3", "charge") PROVE InSync'
  BY <1>11 DEF Blink, At, Goto, InSync, ControlInv, RoutinePlace, timingVars, settingsVars,
     flashVars
<1>12. ASSUME StartCharging PROVE InSync'
  BY <1>12 DEF StartCharging, timing_charge, At, Goto, InSync, ControlInv, RoutinePlace,
     timingVars, settingsVars, flashVars
<1>13. ASSUME CheckInvalid PROVE InSync'
  BY <1>13 DEF CheckInvalid, At, EraseDisk, InSync, ControlInv, RoutinePlace, timingVars,
     settingsVars, flashVars
<1>14. ASSUME DisarmInvalid PROVE InSync'
  BY <1>14 DEF DisarmInvalid, At, SetBlinks, WriteSettings, EraseSettings, InSync, ControlInv,
     RoutinePlace, timingVars, settingsVars, flashVars
<1>15. ASSUME CheckReset PROVE InSync'
  BY <1>15 DEF CheckReset, Commanded, At, EraseDisk, InSync, ControlInv, RoutinePlace,
     timingVars, settingsVars, flashVars
<1>16. ASSUME ResetSettings PROVE InSync'
  BY <1>16 DEF ResetSettings, At, SetBlinks, WriteSettings, EraseSettings, InSync, ControlInv,
     RoutinePlace, timingVars, settingsVars, flashVars
<1>17. ASSUME CheckArm PROVE InSync'
  BY <1>17 DEF CheckArm, Commanded, At, WriteSettings, EraseSettings, InSync, ControlInv,
     RoutinePlace, timingVars, settingsVars, flashVars
<1>18. ASSUME CheckReadOnly PROVE InSync'
  BY <1>18 DEF CheckReadOnly, Commanded, At, WriteSettings, EraseSettings, InSync, ControlInv,
     RoutinePlace, timingVars, settingsVars, flashVars
<1>19. ASSUME SetReadOnly PROVE InSync'
  BY <1>19 DEF SetReadOnly, At, WriteSettings, EraseSettings, InSync, ControlInv, RoutinePlace,
     timingVars, settingsVars, flashVars
<1>20. ASSUME CheckArmMax PROVE InSync'
  BY <1>20 DEF CheckArmMax, Commanded, At, WriteSettings, EraseSettings, InSync, ControlInv,
     RoutinePlace, timingVars, settingsVars, flashVars
<1>21. ASSUME SetCeiling PROVE InSync'
  BY <1>21 DEF SetCeiling, At, WriteSettings, EraseSettings, InSync, ControlInv, RoutinePlace,
     timingVars, settingsVars, flashVars
<1>22. ASSUME CheckCalibrate PROVE InSync'
  BY <1>22 DEF CheckCalibrate, Commanded, At, WriteSettings, EraseSettings, InSync, ControlInv,
     RoutinePlace, timingVars, settingsVars, flashVars
<1>23. ASSUME Calibrate PROVE InSync'
  BY <1>23 DEF Calibrate, At, WriteSettings, EraseSettings, InSync, ControlInv, RoutinePlace,
     timingVars, settingsVars, flashVars
<1>24. ASSUME RawErase PROVE InSync'
  BY <1>24 DEF RawErase, At, SetBlinks, EraseDisk, InSync, ControlInv, RoutinePlace,
     timingVars, settingsVars, flashVars
<1>25. ASSUME CheckForgetful PROVE InSync'
  BY <1>25 DEF CheckForgetful, Commanded, At, EraseDisk, InSync, ControlInv, RoutinePlace,
     timingVars, settingsVars, flashVars
<1>26. ASSUME CheckNothing PROVE InSync'
  BY <1>26 DEF CheckNothing, At, Goto, InSync, ControlInv, RoutinePlace, timingVars,
     settingsVars, flashVars
<1>27. ASSUME Blink("blink", "wait") PROVE InSync'
  BY <1>27 DEF Blink, At, Goto, InSync, ControlInv, RoutinePlace, timingVars, settingsVars,
     flashVars
<1>28. ASSUME WaitForCharge PROVE InSync'
  BY <1>28 DEF WaitForCharge, At, Goto, InSync, ControlInv, RoutinePlace, timingVars,
     settingsVars, flashVars
<1>29. ASSUME Attach PROVE InSync'
  BY <1>29 DEF Attach, ResetLocals, At, Goto, InSync, ControlInv, RoutinePlace, timingVars,
     settingsVars, flashVars
<1>30. ASSUME CommandNone PROVE InSync'
  BY <1>30 DEF CommandNone, CountIteration, At, Goto, InSync, ControlInv, RoutinePlace,
     timingVars, settingsVars, flashVars
<1>31. ASSUME CommandArmed PROVE InSync'
  BY <1>31 DEF CommandArmed, CountIteration, At, WriteSettings, EraseSettings, InSync,
     ControlInv, RoutinePlace, timingVars, settingsVars, flashVars
<1>32. ASSUME CommandReadOnly PROVE InSync'
  BY <1>32 DEF CommandReadOnly, CountIteration, At, WriteSettings, EraseSettings, InSync,
     ControlInv, RoutinePlace, timingVars, settingsVars, flashVars
<1>33. ASSUME SoftReset PROVE InSync'
  BY <1>33 DEF SoftReset, At, Goto, InSync, ControlInv, RoutinePlace, timingVars, settingsVars,
     flashVars
<1>34. ASSUME SupplyFine PROVE InSync'
  BY <1>34 DEF SupplyFine, At, Goto, InSync, ControlInv, RoutinePlace, timingVars,
     settingsVars, flashVars
<1>35. ASSUME SupplyLost PROVE InSync'
  BY <1>35 DEF SupplyLost, At, WriteSettings, EraseSettings, InSync, ControlInv, RoutinePlace,
     timingVars, settingsVars, flashVars
<1>36. ASSUME Wipe PROVE InSync'
  BY <1>36 DEF Wipe, At, EraseDisk, InSync, ControlInv, RoutinePlace, timingVars, settingsVars,
     flashVars
<1>37. ASSUME RestoreLimit PROVE InSync'
  BY <1>37 DEF RestoreLimit, At, WriteSettings, EraseSettings, InSync, ControlInv,
     RoutinePlace, timingVars, settingsVars, flashVars
<1>38. ASSUME Release PROVE InSync'
  BY <1>38 DEF Release, At, WriteSettings, EraseSettings, InSync, ControlInv, RoutinePlace,
     timingVars, settingsVars, flashVars
<1>39. ASSUME Halt PROVE InSync'
  BY <1>39 DEF Halt, At, Goto, InSync, ControlInv, RoutinePlace, timingVars, settingsVars,
     flashVars
<1>40. ASSUME MediaIdle PROVE InSync'
  BY <1>40 DEF MediaIdle, At, Goto, InSync, ControlInv, RoutinePlace, timingVars, settingsVars,
     flashVars
<1>r. ASSUME HostReceive PROVE InSync'
  BY <1>r DEF HostReceive, At, Goto, InSync, ControlInv, RoutinePlace, timingVars, settingsVars,
     flashVars
<1>41. ASSUME HostWrite PROVE InSync'
  BY <1>41 DEF HostWrite, At, InSync, ControlInv, RoutinePlace, timingVars, settingsVars,
     flashVars
<1>42. ASSUME Plug /\ UNCHANGED firmwareVars PROVE InSync'
  BY <1>42 DEF Plug, firmwareVars, InSync, ControlInv, RoutinePlace, timingVars, settingsVars,
     flashVars
<1>43. ASSUME Unplug /\ UNCHANGED firmwareVars PROVE InSync'
  BY <1>43 DEF Unplug, firmwareVars, InSync, ControlInv, RoutinePlace, timingVars,
     settingsVars, flashVars
<1>44. ASSUME Charge /\ UNCHANGED firmwareVars PROVE InSync'
  BY <1>44 DEF Charge, firmwareVars, InSync, ControlInv, RoutinePlace, timingVars,
     settingsVars, flashVars
<1>45. ASSUME Discharge /\ UNCHANGED firmwareVars PROVE InSync'
  BY <1>45 DEF Discharge, firmwareVars, InSync, ControlInv, RoutinePlace, timingVars,
     settingsVars, flashVars
<1>46. ASSUME PowerUp PROVE InSync'
  BY <1>46 DEF PowerUp, Goto, InSync, ControlInv, RoutinePlace, timingVars, settingsVars,
     flashVars
<1>47. ASSUME PowerFail PROVE InSync'
  BY <1>47 DEF PowerFail, ResetLocals, InSync, ControlInv, RoutinePlace, timingVars,
     settingsVars, flashVars
<1> QED
  BY <1>r, <1>1, <1>2, <1>3, <1>4, <1>5, <1>6, <1>7, <1>8, <1>9, <1>10, <1>11, <1>12, <1>13, <1>14,
     <1>15, <1>16, <1>17, <1>18, <1>19, <1>20, <1>21, <1>22, <1>23, <1>24, <1>25, <1>26, <1>27,
     <1>28, <1>29, <1>30, <1>31, <1>32, <1>33, <1>34, <1>35, <1>36, <1>37, <1>38, <1>39, <1>40,
     <1>41, <1>42, <1>43, <1>44, <1>45, <1>46, <1>47 DEF Next, Flash, Booting, MainLoop, Power,
     Recorded

\* One step keeps the LED of a serving drive: SupplyFine sets it from RAM, which is what is in
\* flash (app.c:166).
LEMMA LedStep ==
  ASSUME ControlInv, InSync, LedTellsArmed, Next
  PROVE  LedTellsArmed'
<1>1. ASSUME WriteSettingsEnd PROVE LedTellsArmed'
  BY <1>1 DEF WriteSettingsEnd, ProgramSettings, LedTellsArmed, At, InSync, ControlInv,
     RoutinePlace, timingVars, settingsVars, flashVars
<1>2. ASSUME ErasePage PROVE LedTellsArmed'
  BY <1>2 DEF ErasePage, LedTellsArmed, At, InSync, ControlInv, RoutinePlace, timingVars,
     settingsVars, flashVars
<1>3. ASSUME FormatSector PROVE LedTellsArmed'
  BY <1>3 DEF FormatSector, LedTellsArmed, At, InSync, ControlInv, RoutinePlace, timingVars,
     settingsVars, flashVars
<1>4. ASSUME ProgramPage PROVE LedTellsArmed'
  BY <1>4 DEF ProgramPage, LedTellsArmed, At, InSync, ControlInv, RoutinePlace, timingVars,
     settingsVars, flashVars
<1>5. ASSUME ReadCharge PROVE LedTellsArmed'
  BY <1>5 DEF ReadCharge, settings_init, At, Goto, LedTellsArmed, InSync, ControlInv,
     RoutinePlace, timingVars, settingsVars, flashVars
<1>6. ASSUME SelfErase PROVE LedTellsArmed'
  BY <1>6 DEF SelfErase, At, EraseDisk, LedTellsArmed, InSync, ControlInv, RoutinePlace,
     timingVars, settingsVars, flashVars
<1>7. ASSUME SkipErase PROVE LedTellsArmed'
  BY <1>7 DEF SkipErase, At, Goto, LedTellsArmed, InSync, ControlInv, RoutinePlace, timingVars,
     settingsVars, flashVars
<1>8. ASSUME Disarm PROVE LedTellsArmed'
  BY <1>8 DEF Disarm, At, SetBlinks, WriteSettings, EraseSettings, LedTellsArmed, InSync,
     ControlInv, RoutinePlace, timingVars, settingsVars, flashVars
<1>9. ASSUME ResetLimit PROVE LedTellsArmed'
  BY <1>9 DEF ResetLimit, At, WriteSettings, EraseSettings, LedTellsArmed, InSync, ControlInv,
     RoutinePlace, timingVars, settingsVars, flashVars
<1>10. ASSUME KeepLimit PROVE LedTellsArmed'
  BY <1>10 DEF KeepLimit, At, Goto, LedTellsArmed, InSync, ControlInv, RoutinePlace,
     timingVars, settingsVars, flashVars
<1>11. ASSUME Blink("blink3", "charge") PROVE LedTellsArmed'
  BY <1>11 DEF Blink, At, Goto, LedTellsArmed, InSync, ControlInv, RoutinePlace, timingVars,
     settingsVars, flashVars
<1>12. ASSUME StartCharging PROVE LedTellsArmed'
  BY <1>12 DEF StartCharging, timing_charge, At, Goto, LedTellsArmed, InSync, ControlInv,
     RoutinePlace, timingVars, settingsVars, flashVars
<1>13. ASSUME CheckInvalid PROVE LedTellsArmed'
  BY <1>13 DEF CheckInvalid, At, EraseDisk, LedTellsArmed, InSync, ControlInv, RoutinePlace,
     timingVars, settingsVars, flashVars
<1>14. ASSUME DisarmInvalid PROVE LedTellsArmed'
  BY <1>14 DEF DisarmInvalid, At, SetBlinks, WriteSettings, EraseSettings, LedTellsArmed,
     InSync, ControlInv, RoutinePlace, timingVars, settingsVars, flashVars
<1>15. ASSUME CheckReset PROVE LedTellsArmed'
  BY <1>15 DEF CheckReset, Commanded, At, EraseDisk, LedTellsArmed, InSync, ControlInv,
     RoutinePlace, timingVars, settingsVars, flashVars
<1>16. ASSUME ResetSettings PROVE LedTellsArmed'
  BY <1>16 DEF ResetSettings, At, SetBlinks, WriteSettings, EraseSettings, LedTellsArmed,
     InSync, ControlInv, RoutinePlace, timingVars, settingsVars, flashVars
<1>17. ASSUME CheckArm PROVE LedTellsArmed'
  BY <1>17 DEF CheckArm, Commanded, At, WriteSettings, EraseSettings, LedTellsArmed, InSync,
     ControlInv, RoutinePlace, timingVars, settingsVars, flashVars
<1>18. ASSUME CheckReadOnly PROVE LedTellsArmed'
  BY <1>18 DEF CheckReadOnly, Commanded, At, WriteSettings, EraseSettings, LedTellsArmed,
     InSync, ControlInv, RoutinePlace, timingVars, settingsVars, flashVars
<1>19. ASSUME SetReadOnly PROVE LedTellsArmed'
  BY <1>19 DEF SetReadOnly, At, WriteSettings, EraseSettings, LedTellsArmed, InSync,
     ControlInv, RoutinePlace, timingVars, settingsVars, flashVars
<1>20. ASSUME CheckArmMax PROVE LedTellsArmed'
  BY <1>20 DEF CheckArmMax, Commanded, At, WriteSettings, EraseSettings, LedTellsArmed, InSync,
     ControlInv, RoutinePlace, timingVars, settingsVars, flashVars
<1>21. ASSUME SetCeiling PROVE LedTellsArmed'
  BY <1>21 DEF SetCeiling, At, WriteSettings, EraseSettings, LedTellsArmed, InSync, ControlInv,
     RoutinePlace, timingVars, settingsVars, flashVars
<1>22. ASSUME CheckCalibrate PROVE LedTellsArmed'
  BY <1>22 DEF CheckCalibrate, Commanded, At, WriteSettings, EraseSettings, LedTellsArmed,
     InSync, ControlInv, RoutinePlace, timingVars, settingsVars, flashVars
<1>23. ASSUME Calibrate PROVE LedTellsArmed'
  BY <1>23 DEF Calibrate, At, WriteSettings, EraseSettings, LedTellsArmed, InSync, ControlInv,
     RoutinePlace, timingVars, settingsVars, flashVars
<1>24. ASSUME RawErase PROVE LedTellsArmed'
  BY <1>24 DEF RawErase, At, SetBlinks, EraseDisk, LedTellsArmed, InSync, ControlInv,
     RoutinePlace, timingVars, settingsVars, flashVars
<1>25. ASSUME CheckForgetful PROVE LedTellsArmed'
  BY <1>25 DEF CheckForgetful, Commanded, At, EraseDisk, LedTellsArmed, InSync, ControlInv,
     RoutinePlace, timingVars, settingsVars, flashVars
<1>26. ASSUME CheckNothing PROVE LedTellsArmed'
  BY <1>26 DEF CheckNothing, At, Goto, LedTellsArmed, InSync, ControlInv, RoutinePlace,
     timingVars, settingsVars, flashVars
<1>27. ASSUME Blink("blink", "wait") PROVE LedTellsArmed'
  BY <1>27 DEF Blink, At, Goto, LedTellsArmed, InSync, ControlInv, RoutinePlace, timingVars,
     settingsVars, flashVars
<1>28. ASSUME WaitForCharge PROVE LedTellsArmed'
  BY <1>28 DEF WaitForCharge, At, Goto, LedTellsArmed, InSync, ControlInv, RoutinePlace,
     timingVars, settingsVars, flashVars
<1>29. ASSUME Attach PROVE LedTellsArmed'
  BY <1>29 DEF Attach, ResetLocals, At, Goto, LedTellsArmed, InSync, ControlInv, RoutinePlace,
     timingVars, settingsVars, flashVars
<1>30. ASSUME CommandNone PROVE LedTellsArmed'
  BY <1>30 DEF CommandNone, CountIteration, At, Goto, LedTellsArmed, InSync, ControlInv,
     RoutinePlace, timingVars, settingsVars, flashVars
<1>31. ASSUME CommandArmed PROVE LedTellsArmed'
  BY <1>31 DEF CommandArmed, CountIteration, At, WriteSettings, EraseSettings, LedTellsArmed,
     InSync, ControlInv, RoutinePlace, timingVars, settingsVars, flashVars
<1>32. ASSUME CommandReadOnly PROVE LedTellsArmed'
  BY <1>32 DEF CommandReadOnly, CountIteration, At, WriteSettings, EraseSettings,
     LedTellsArmed, InSync, ControlInv, RoutinePlace, timingVars, settingsVars, flashVars
<1>33. ASSUME SoftReset PROVE LedTellsArmed'
  BY <1>33 DEF SoftReset, At, Goto, LedTellsArmed, InSync, ControlInv, RoutinePlace,
     timingVars, settingsVars, flashVars
<1>34. ASSUME SupplyFine PROVE LedTellsArmed'
  BY <1>34 DEF SupplyFine, LedInactive, At, Goto, LedTellsArmed, InSync, settingsVars, flashVars
<1>35. ASSUME SupplyLost PROVE LedTellsArmed'
  BY <1>35 DEF SupplyLost, At, WriteSettings, EraseSettings, LedTellsArmed, InSync, ControlInv,
     RoutinePlace, timingVars, settingsVars, flashVars
<1>36. ASSUME Wipe PROVE LedTellsArmed'
  BY <1>36 DEF Wipe, At, EraseDisk, LedTellsArmed, InSync, ControlInv, RoutinePlace,
     timingVars, settingsVars, flashVars
<1>37. ASSUME RestoreLimit PROVE LedTellsArmed'
  BY <1>37 DEF RestoreLimit, At, WriteSettings, EraseSettings, LedTellsArmed, InSync,
     ControlInv, RoutinePlace, timingVars, settingsVars, flashVars
<1>38. ASSUME Release PROVE LedTellsArmed'
  BY <1>38 DEF Release, At, WriteSettings, EraseSettings, LedTellsArmed, InSync, ControlInv,
     RoutinePlace, timingVars, settingsVars, flashVars
<1>39. ASSUME Halt PROVE LedTellsArmed'
  BY <1>39 DEF Halt, At, Goto, LedTellsArmed, InSync, ControlInv, RoutinePlace, timingVars,
     settingsVars, flashVars
<1>40. ASSUME MediaIdle PROVE LedTellsArmed'
  BY <1>40 DEF MediaIdle, At, Goto, LedTellsArmed, InSync, ControlInv, RoutinePlace,
     timingVars, settingsVars, flashVars
<1>r. ASSUME HostReceive PROVE LedTellsArmed'
  BY <1>r DEF HostReceive, At, Goto, LedTellsArmed, InSync, ControlInv, RoutinePlace,
     timingVars, settingsVars, flashVars
<1>41. ASSUME HostWrite PROVE LedTellsArmed'
  BY <1>41 DEF HostWrite, At, LedActive, LedTellsArmed, InSync, ControlInv, RoutinePlace, timingVars,
     settingsVars, flashVars
<1>42. ASSUME Plug /\ UNCHANGED firmwareVars PROVE LedTellsArmed'
  BY <1>42 DEF Plug, firmwareVars, LedTellsArmed, At, InSync, ControlInv, RoutinePlace,
     timingVars, settingsVars, flashVars
<1>43. ASSUME Unplug /\ UNCHANGED firmwareVars PROVE LedTellsArmed'
  BY <1>43 DEF Unplug, firmwareVars, LedTellsArmed, At, InSync, ControlInv, RoutinePlace,
     timingVars, settingsVars, flashVars
<1>44. ASSUME Charge /\ UNCHANGED firmwareVars PROVE LedTellsArmed'
  BY <1>44 DEF Charge, firmwareVars, LedTellsArmed, At, InSync, ControlInv, RoutinePlace,
     timingVars, settingsVars, flashVars
<1>45. ASSUME Discharge /\ UNCHANGED firmwareVars PROVE LedTellsArmed'
  BY <1>45 DEF Discharge, firmwareVars, LedTellsArmed, At, InSync, ControlInv, RoutinePlace,
     timingVars, settingsVars, flashVars
<1>46. ASSUME PowerUp PROVE LedTellsArmed'
  BY <1>46 DEF PowerUp, Goto, LedTellsArmed, At, InSync, ControlInv, RoutinePlace, timingVars,
     settingsVars, flashVars
<1>47. ASSUME PowerFail PROVE LedTellsArmed'
  BY <1>47 DEF PowerFail, ResetLocals, LedTellsArmed, At, InSync, ControlInv, RoutinePlace,
     timingVars, settingsVars, flashVars
<1> QED
  BY <1>r, <1>1, <1>2, <1>3, <1>4, <1>5, <1>6, <1>7, <1>8, <1>9, <1>10, <1>11, <1>12, <1>13, <1>14,
     <1>15, <1>16, <1>17, <1>18, <1>19, <1>20, <1>21, <1>22, <1>23, <1>24, <1>25, <1>26, <1>27,
     <1>28, <1>29, <1>30, <1>31, <1>32, <1>33, <1>34, <1>35, <1>36, <1>37, <1>38, <1>39, <1>40,
     <1>41, <1>42, <1>43, <1>44, <1>45, <1>46, <1>47 DEF Next, Flash, Booting, MainLoop, Power,
     Recorded

\* One step keeps that a serving drive writes armed settings only.
LEMMA ServingWriteStep ==
  ASSUME TypeInv, ControlInv, ServingWrite, Next
  PROVE  ServingWrite'
<1>a. ram \in Setting
  BY DEF TypeInv, TypeOK, SettingsTypeOK
<1>1. ASSUME WriteSettingsEnd PROVE ServingWrite'
  BY <1>1, <1>a DEF WriteSettingsEnd, ProgramSettings, ServingWrite, Serving, ControlInv,
     RoutinePlace, timingVars, settingsVars, flashVars
<1>2. ASSUME ErasePage PROVE ServingWrite'
  BY <1>2, <1>a DEF ErasePage, ServingWrite, Serving, ControlInv, RoutinePlace, timingVars,
     settingsVars, flashVars
<1>3. ASSUME FormatSector PROVE ServingWrite'
  BY <1>3, <1>a DEF FormatSector, ServingWrite, Serving, ControlInv, RoutinePlace, timingVars,
     settingsVars, flashVars
<1>4. ASSUME ProgramPage PROVE ServingWrite'
  BY <1>4, <1>a DEF ProgramPage, ServingWrite, Serving, ControlInv, RoutinePlace, timingVars,
     settingsVars, flashVars
<1>5. ASSUME ReadCharge PROVE ServingWrite'
  BY <1>5, <1>a DEF ReadCharge, settings_init, At, Goto, ServingWrite, Serving, ControlInv,
     RoutinePlace, timingVars, settingsVars, flashVars
<1>6. ASSUME SelfErase PROVE ServingWrite'
  BY <1>6, <1>a DEF SelfErase, At, EraseDisk, ServingWrite, Serving, ControlInv, RoutinePlace,
     timingVars, settingsVars, flashVars
<1>7. ASSUME SkipErase PROVE ServingWrite'
  BY <1>7, <1>a DEF SkipErase, At, Goto, ServingWrite, Serving, ControlInv, RoutinePlace,
     timingVars, settingsVars, flashVars
<1>8. ASSUME Disarm PROVE ServingWrite'
  BY <1>8, <1>a, SettersFlags DEF Disarm, At, SetBlinks, WriteSettings, EraseSettings,
     ServingWrite, Serving, ControlInv, RoutinePlace, timingVars, settingsVars, flashVars
<1>9. ASSUME ResetLimit PROVE ServingWrite'
  BY <1>9, <1>a, SettersFlags DEF ResetLimit, At, WriteSettings, EraseSettings, ServingWrite,
     Serving, ControlInv, RoutinePlace, timingVars, settingsVars, flashVars
<1>10. ASSUME KeepLimit PROVE ServingWrite'
  BY <1>10, <1>a DEF KeepLimit, At, Goto, ServingWrite, Serving, ControlInv, RoutinePlace,
     timingVars, settingsVars, flashVars
<1>11. ASSUME Blink("blink3", "charge") PROVE ServingWrite'
  BY <1>11, <1>a DEF Blink, At, Goto, ServingWrite, Serving, ControlInv, RoutinePlace,
     timingVars, settingsVars, flashVars
<1>12. ASSUME StartCharging PROVE ServingWrite'
  BY <1>12, <1>a DEF StartCharging, timing_charge, At, Goto, ServingWrite, Serving, ControlInv,
     RoutinePlace, timingVars, settingsVars, flashVars
<1>13. ASSUME CheckInvalid PROVE ServingWrite'
  BY <1>13, <1>a DEF CheckInvalid, At, EraseDisk, ServingWrite, Serving, ControlInv,
     RoutinePlace, timingVars, settingsVars, flashVars
<1>14. ASSUME DisarmInvalid PROVE ServingWrite'
  BY <1>14, <1>a, SettersFlags DEF DisarmInvalid, At, SetBlinks, WriteSettings, EraseSettings,
     ServingWrite, Serving, ControlInv, RoutinePlace, timingVars, settingsVars, flashVars
<1>15. ASSUME CheckReset PROVE ServingWrite'
  BY <1>15, <1>a DEF CheckReset, Commanded, At, EraseDisk, ServingWrite, Serving, ControlInv,
     RoutinePlace, timingVars, settingsVars, flashVars
<1>16. ASSUME ResetSettings PROVE ServingWrite'
  BY <1>16, <1>a, SettersFlags DEF ResetSettings, At, SetBlinks, WriteSettings, EraseSettings,
     ServingWrite, Serving, ControlInv, RoutinePlace, timingVars, settingsVars, flashVars
<1>17. ASSUME CheckArm PROVE ServingWrite'
  BY <1>17, <1>a, SettersFlags DEF CheckArm, Commanded, At, WriteSettings, EraseSettings,
     ServingWrite, Serving, ControlInv, RoutinePlace, timingVars, settingsVars, flashVars
<1>18. ASSUME CheckReadOnly PROVE ServingWrite'
  BY <1>18, <1>a, SettersFlags DEF CheckReadOnly, Commanded, At, WriteSettings, EraseSettings,
     ServingWrite, Serving, ControlInv, RoutinePlace, timingVars, settingsVars, flashVars
<1>19. ASSUME SetReadOnly PROVE ServingWrite'
  BY <1>19, <1>a, SettersFlags DEF SetReadOnly, At, WriteSettings, EraseSettings, ServingWrite,
     Serving, ControlInv, RoutinePlace, timingVars, settingsVars, flashVars
<1>20. ASSUME CheckArmMax PROVE ServingWrite'
  BY <1>20, <1>a, SettersFlags DEF CheckArmMax, Commanded, At, WriteSettings, EraseSettings,
     ServingWrite, Serving, ControlInv, RoutinePlace, timingVars, settingsVars, flashVars
<1>21. ASSUME SetCeiling PROVE ServingWrite'
  BY <1>21, <1>a, SettersFlags DEF SetCeiling, At, WriteSettings, EraseSettings, ServingWrite,
     Serving, ControlInv, RoutinePlace, timingVars, settingsVars, flashVars
<1>22. ASSUME CheckCalibrate PROVE ServingWrite'
  BY <1>22, <1>a, SettersFlags DEF CheckCalibrate, Commanded, At, WriteSettings, EraseSettings,
     ServingWrite, Serving, ControlInv, RoutinePlace, timingVars, settingsVars, flashVars
<1>23. ASSUME Calibrate PROVE ServingWrite'
  BY <1>23, <1>a, SettersFlags DEF Calibrate, At, WriteSettings, EraseSettings, ServingWrite,
     Serving, ControlInv, RoutinePlace, timingVars, settingsVars, flashVars
<1>24. ASSUME RawErase PROVE ServingWrite'
  BY <1>24, <1>a DEF RawErase, At, SetBlinks, EraseDisk, ServingWrite, Serving, ControlInv,
     RoutinePlace, timingVars, settingsVars, flashVars
<1>25. ASSUME CheckForgetful PROVE ServingWrite'
  BY <1>25, <1>a DEF CheckForgetful, Commanded, At, EraseDisk, ServingWrite, Serving,
     ControlInv, RoutinePlace, timingVars, settingsVars, flashVars
<1>26. ASSUME CheckNothing PROVE ServingWrite'
  BY <1>26, <1>a DEF CheckNothing, At, Goto, ServingWrite, Serving, ControlInv, RoutinePlace,
     timingVars, settingsVars, flashVars
<1>27. ASSUME Blink("blink", "wait") PROVE ServingWrite'
  BY <1>27, <1>a DEF Blink, At, Goto, ServingWrite, Serving, ControlInv, RoutinePlace,
     timingVars, settingsVars, flashVars
<1>28. ASSUME WaitForCharge PROVE ServingWrite'
  BY <1>28, <1>a DEF WaitForCharge, At, Goto, ServingWrite, Serving, ControlInv, RoutinePlace,
     timingVars, settingsVars, flashVars
<1>29. ASSUME Attach PROVE ServingWrite'
  BY <1>29, <1>a DEF Attach, ResetLocals, At, Goto, ServingWrite, Serving, ControlInv,
     RoutinePlace, timingVars, settingsVars, flashVars
<1>30. ASSUME CommandNone PROVE ServingWrite'
  BY <1>30, <1>a DEF CommandNone, CountIteration, At, Goto, ServingWrite, Serving, ControlInv,
     RoutinePlace, timingVars, settingsVars, flashVars
<1>31. ASSUME CommandArmed PROVE ServingWrite'
  BY <1>31, <1>a, SettersFlags DEF CommandArmed, CountIteration, At, WriteSettings,
     EraseSettings, ServingWrite, Serving, ControlInv, RoutinePlace, timingVars, settingsVars,
     flashVars
<1>32. ASSUME CommandReadOnly PROVE ServingWrite'
  BY <1>32, <1>a, SettersFlags DEF CommandReadOnly, CountIteration, At, WriteSettings,
     EraseSettings, ServingWrite, Serving, ControlInv, RoutinePlace, timingVars, settingsVars,
     flashVars
<1>33. ASSUME SoftReset PROVE ServingWrite'
  BY <1>33, <1>a DEF SoftReset, At, Goto, ServingWrite, Serving, ControlInv, RoutinePlace,
     timingVars, settingsVars, flashVars
<1>34. ASSUME SupplyFine PROVE ServingWrite'
  BY <1>34, <1>a DEF SupplyFine, At, Goto, ServingWrite, Serving, ControlInv, RoutinePlace,
     timingVars, settingsVars, flashVars
<1>35. ASSUME SupplyLost PROVE ServingWrite'
  BY <1>35, <1>a, SettersFlags DEF SupplyLost, At, WriteSettings, EraseSettings, ServingWrite,
     Serving, ControlInv, RoutinePlace, timingVars, settingsVars, flashVars
<1>36. ASSUME Wipe PROVE ServingWrite'
  BY <1>36, <1>a DEF Wipe, At, EraseDisk, ServingWrite, Serving, ControlInv, RoutinePlace,
     timingVars, settingsVars, flashVars
<1>37. ASSUME RestoreLimit PROVE ServingWrite'
  BY <1>37, <1>a, SettersFlags DEF RestoreLimit, At, WriteSettings, EraseSettings,
     ServingWrite, Serving, ControlInv, RoutinePlace, timingVars, settingsVars, flashVars
<1>38. ASSUME Release PROVE ServingWrite'
  BY <1>38, <1>a, SettersFlags DEF Release, At, WriteSettings, EraseSettings, ServingWrite,
     Serving, ControlInv, RoutinePlace, timingVars, settingsVars, flashVars
<1>39. ASSUME Halt PROVE ServingWrite'
  BY <1>39, <1>a DEF Halt, At, Goto, ServingWrite, Serving, ControlInv, RoutinePlace,
     timingVars, settingsVars, flashVars
<1>40. ASSUME MediaIdle PROVE ServingWrite'
  BY <1>40, <1>a DEF MediaIdle, At, Goto, ServingWrite, Serving, ControlInv, RoutinePlace,
     timingVars, settingsVars, flashVars
<1>r. ASSUME HostReceive PROVE ServingWrite'
  BY <1>r, <1>a DEF HostReceive, At, Goto, ServingWrite, Serving, ControlInv, RoutinePlace,
     timingVars, settingsVars, flashVars
<1>41. ASSUME HostWrite PROVE ServingWrite'
  BY <1>41, <1>a DEF HostWrite, At, ServingWrite, Serving, ControlInv, RoutinePlace,
     timingVars, settingsVars, flashVars
<1>42. ASSUME Plug /\ UNCHANGED firmwareVars PROVE ServingWrite'
  BY <1>42, <1>a DEF Plug, firmwareVars, ServingWrite, Serving, ControlInv, RoutinePlace,
     timingVars, settingsVars, flashVars
<1>43. ASSUME Unplug /\ UNCHANGED firmwareVars PROVE ServingWrite'
  BY <1>43, <1>a DEF Unplug, firmwareVars, ServingWrite, Serving, ControlInv, RoutinePlace,
     timingVars, settingsVars, flashVars
<1>44. ASSUME Charge /\ UNCHANGED firmwareVars PROVE ServingWrite'
  BY <1>44, <1>a DEF Charge, firmwareVars, ServingWrite, Serving, ControlInv, RoutinePlace,
     timingVars, settingsVars, flashVars
<1>45. ASSUME Discharge /\ UNCHANGED firmwareVars PROVE ServingWrite'
  BY <1>45, <1>a DEF Discharge, firmwareVars, ServingWrite, Serving, ControlInv, RoutinePlace,
     timingVars, settingsVars, flashVars
<1>46. ASSUME PowerUp PROVE ServingWrite'
  BY <1>46, <1>a DEF PowerUp, Goto, ServingWrite, Serving, ControlInv, RoutinePlace,
     timingVars, settingsVars, flashVars
<1>47. ASSUME PowerFail PROVE ServingWrite'
  BY <1>47, <1>a DEF PowerFail, ResetLocals, ServingWrite, Serving, ControlInv, RoutinePlace,
     timingVars, settingsVars, flashVars
<1> QED
  BY <1>r, <1>1, <1>2, <1>3, <1>4, <1>5, <1>6, <1>7, <1>8, <1>9, <1>10, <1>11, <1>12, <1>13, <1>14,
     <1>15, <1>16, <1>17, <1>18, <1>19, <1>20, <1>21, <1>22, <1>23, <1>24, <1>25, <1>26, <1>27,
     <1>28, <1>29, <1>30, <1>31, <1>32, <1>33, <1>34, <1>35, <1>36, <1>37, <1>38, <1>39, <1>40,
     <1>41, <1>42, <1>43, <1>44, <1>45, <1>46, <1>47 DEF Next, Flash, Booting, MainLoop, Power,
     Recorded

\* One step keeps that everything on an armed drive is data held while armed.
LEMMA GuardedAllStep ==
  ASSUME Next
  PROVE  GuardedAll'
<1>1. RecordHistory
  BY DEF Next, Flash, Booting, MainLoop, Power, Recorded
<1>2. HostData' \subseteq Sectors
  BY DEF HostData
<1> QED
  BY <1>1, <1>2 DEF RecordHistory, GuardedAll

----------------------------------------------------------------------------
(* What a step of the firmware is to the promise.                           *)

\* The drive serves before and after the step, and stays armed if it was.
StaysServing == Serving /\ Serving' /\ (rom.isArmed => rom'.isArmed)

\* The drive is dark after the step, with no data that was not there before.
GoesDark == ~Serving' /\ HostData' \subseteq HostData

\* The drive starts to serve what it has.
StartsServing == ~Serving /\ Serving' /\ UNCHANGED <<rom, disk>> /\ ~Doomed'

Shape == StaysServing \/ GoesDark \/ StartsServing

\* Each step of the firmware is one of the three.
LEMMA ShapeStep ==
  ASSUME TypeInv, ControlInv, ServingWrite, Next
  PROVE  Shape
<1>a. UNCHANGED disk => HostData' = HostData
  BY DEF HostData
<1>b. ErasedSetting.isArmed
  BY DEF ErasedSetting
<1>1. ASSUME WriteSettingsEnd PROVE Shape
  BY <1>1, <1>a DEF WriteSettingsEnd, ProgramSettings, ServingWrite, Serving, Shape, StaysServing,
     GoesDark
<1>2. ASSUME ErasePage PROVE Shape
  <2>1. ~Serving'
    BY <1>2 DEF ErasePage, ControlInv, RoutinePlace, Serving
  <2>2. \A s \in Sectors : disk'[s] = ErasedSector \/ disk'[s] = disk[s]
    BY <1>2 DEF ErasePage, ErasePageOf
  <2>3. HostData' \subseteq HostData
    BY <2>2 DEF HostData, HostMade, ErasedSector
  <2> QED
    BY <2>1, <2>3 DEF Shape, GoesDark
<1>3. ASSUME FormatSector PROVE Shape
  <2>1. ~Serving'
    BY <1>3 DEF FormatSector, ControlInv, RoutinePlace, Serving
  <2>2. FactorySector(idx, newLabel).data = "factory"
    BY DEF FactorySector
  <2>3. HostData' \subseteq HostData
    BY <1>3, <2>2 DEF FormatSector, HostData, HostMade, TypeInv, TypeOK, DiskTypeOK
  <2> QED
    BY <2>1, <2>3 DEF Shape, GoesDark
<1>4. ASSUME ProgramPage PROVE Shape
  BY <1>4 DEF ProgramPage, ControlInv, RoutinePlace, Serving, Shape, StaysServing, settingsVars
<1>5. ASSUME ReadCharge PROVE Shape
  BY <1>5, <1>a DEF ReadCharge, settings_init, At, Goto, Serving, Shape, StaysServing,
     GoesDark, timingVars, settingsVars, flashVars
<1>6. ASSUME SelfErase PROVE Shape
  BY <1>6, <1>a DEF SelfErase, At, EraseDisk, Serving, Shape, StaysServing, GoesDark,
     timingVars, settingsVars, flashVars
<1>7. ASSUME SkipErase PROVE Shape
  BY <1>7, <1>a DEF SkipErase, At, Goto, Serving, Shape, StaysServing, GoesDark, timingVars,
     settingsVars, flashVars
<1>8. ASSUME Disarm PROVE Shape
  BY <1>8, <1>a DEF Disarm, At, SetBlinks, WriteSettings, EraseSettings, Serving, Shape,
     StaysServing, GoesDark, timingVars, settingsVars, flashVars
<1>9. ASSUME ResetLimit PROVE Shape
  BY <1>9, <1>a DEF ResetLimit, At, WriteSettings, EraseSettings, Serving, Shape, StaysServing,
     GoesDark, timingVars, settingsVars, flashVars
<1>10. ASSUME KeepLimit PROVE Shape
  BY <1>10, <1>a DEF KeepLimit, At, Goto, Serving, Shape, StaysServing, GoesDark, timingVars,
     settingsVars, flashVars
<1>11. ASSUME Blink("blink3", "charge") PROVE Shape
  BY <1>11, <1>a DEF Blink, At, Goto, Serving, Shape, StaysServing, GoesDark, timingVars,
     settingsVars, flashVars
<1>12. ASSUME StartCharging PROVE Shape
  BY <1>12, <1>a DEF StartCharging, timing_charge, At, Goto, Serving, Shape, StaysServing,
     GoesDark, timingVars, settingsVars, flashVars
<1>13. ASSUME CheckInvalid PROVE Shape
  BY <1>13, <1>a DEF CheckInvalid, At, EraseDisk, Serving, Shape, StaysServing, GoesDark,
     timingVars, settingsVars, flashVars
<1>14. ASSUME DisarmInvalid PROVE Shape
  BY <1>14, <1>a DEF DisarmInvalid, At, SetBlinks, WriteSettings, EraseSettings, Serving,
     Shape, StaysServing, GoesDark, timingVars, settingsVars, flashVars
<1>15. ASSUME CheckReset PROVE Shape
  BY <1>15, <1>a DEF CheckReset, Commanded, At, EraseDisk, Serving, Shape, StaysServing,
     GoesDark, timingVars, settingsVars, flashVars
<1>16. ASSUME ResetSettings PROVE Shape
  BY <1>16, <1>a DEF ResetSettings, At, SetBlinks, WriteSettings, EraseSettings, Serving,
     Shape, StaysServing, GoesDark, timingVars, settingsVars, flashVars
<1>17. ASSUME CheckArm PROVE Shape
  BY <1>17, <1>a DEF CheckArm, Commanded, At, WriteSettings, EraseSettings, Serving, Shape,
     StaysServing, GoesDark, timingVars, settingsVars, flashVars
<1>18. ASSUME CheckReadOnly PROVE Shape
  BY <1>18, <1>a DEF CheckReadOnly, Commanded, At, WriteSettings, EraseSettings, Serving,
     Shape, StaysServing, GoesDark, timingVars, settingsVars, flashVars
<1>19. ASSUME SetReadOnly PROVE Shape
  BY <1>19, <1>a DEF SetReadOnly, At, WriteSettings, EraseSettings, Serving, Shape,
     StaysServing, GoesDark, timingVars, settingsVars, flashVars
<1>20. ASSUME CheckArmMax PROVE Shape
  BY <1>20, <1>a DEF CheckArmMax, Commanded, At, WriteSettings, EraseSettings, Serving, Shape,
     StaysServing, GoesDark, timingVars, settingsVars, flashVars
<1>21. ASSUME SetCeiling PROVE Shape
  BY <1>21, <1>a DEF SetCeiling, At, WriteSettings, EraseSettings, Serving, Shape,
     StaysServing, GoesDark, timingVars, settingsVars, flashVars
<1>22. ASSUME CheckCalibrate PROVE Shape
  BY <1>22, <1>a DEF CheckCalibrate, Commanded, At, WriteSettings, EraseSettings, Serving,
     Shape, StaysServing, GoesDark, timingVars, settingsVars, flashVars
<1>23. ASSUME Calibrate PROVE Shape
  BY <1>23, <1>a DEF Calibrate, At, WriteSettings, EraseSettings, Serving, Shape, StaysServing,
     GoesDark, timingVars, settingsVars, flashVars
<1>24. ASSUME RawErase PROVE Shape
  BY <1>24, <1>a DEF RawErase, At, SetBlinks, EraseDisk, Serving, Shape, StaysServing,
     GoesDark, timingVars, settingsVars, flashVars
<1>25. ASSUME CheckForgetful PROVE Shape
  BY <1>25, <1>a DEF CheckForgetful, Commanded, At, EraseDisk, Serving, Shape, StaysServing,
     GoesDark, timingVars, settingsVars, flashVars
<1>26. ASSUME CheckNothing PROVE Shape
  BY <1>26, <1>a DEF CheckNothing, At, Goto, Serving, Shape, StaysServing, GoesDark,
     timingVars, settingsVars, flashVars
<1>27. ASSUME Blink("blink", "wait") PROVE Shape
  BY <1>27, <1>a DEF Blink, At, Goto, Serving, Shape, StaysServing, GoesDark, timingVars,
     settingsVars, flashVars
<1>28. ASSUME WaitForCharge PROVE Shape
  BY <1>28, <1>a DEF WaitForCharge, At, Goto, Serving, Shape, StaysServing, GoesDark,
     timingVars, settingsVars, flashVars
<1>29. ASSUME Attach PROVE Shape
  BY <1>29, <1>a DEF Attach, At, Goto, Doomed, Serving, Shape, StartsServing, flashVars,
     settingsVars
<1>30. ASSUME CommandNone PROVE Shape
  BY <1>30, <1>a DEF CommandNone, CountIteration, At, Goto, Serving, Shape, StaysServing,
     GoesDark, timingVars, settingsVars, flashVars
<1>31. ASSUME CommandArmed PROVE Shape
  BY <1>31, <1>a, <1>b DEF CommandArmed, CountIteration, At, WriteSettings, EraseSettings,
     Serving, Shape, StaysServing, GoesDark, timingVars, settingsVars, flashVars
<1>32. ASSUME CommandReadOnly PROVE Shape
  BY <1>32, <1>a, <1>b DEF CommandReadOnly, CountIteration, At, WriteSettings, EraseSettings,
     Serving, Shape, StaysServing, GoesDark, timingVars, settingsVars, flashVars
<1>33. ASSUME SoftReset PROVE Shape
  BY <1>33, <1>a DEF SoftReset, At, Goto, Serving, Shape, StaysServing, GoesDark, timingVars,
     settingsVars, flashVars
<1>34. ASSUME SupplyFine PROVE Shape
  BY <1>34, <1>a DEF SupplyFine, At, Goto, Serving, Shape, StaysServing, GoesDark, timingVars,
     settingsVars, flashVars
<1>35. ASSUME SupplyLost PROVE Shape
  BY <1>35, <1>a DEF SupplyLost, At, WriteSettings, EraseSettings, Serving, Shape,
     StaysServing, GoesDark, timingVars, settingsVars, flashVars
<1>36. ASSUME Wipe PROVE Shape
  BY <1>36, <1>a DEF Wipe, At, EraseDisk, Serving, Shape, StaysServing, GoesDark, timingVars,
     settingsVars, flashVars
<1>37. ASSUME RestoreLimit PROVE Shape
  BY <1>37, <1>a DEF RestoreLimit, At, WriteSettings, EraseSettings, Serving, Shape,
     StaysServing, GoesDark, timingVars, settingsVars, flashVars
<1>38. ASSUME Release PROVE Shape
  BY <1>38, <1>a DEF Release, At, WriteSettings, EraseSettings, Serving, Shape, StaysServing,
     GoesDark, timingVars, settingsVars, flashVars
<1>39. ASSUME Halt PROVE Shape
  BY <1>39, <1>a DEF Halt, At, Goto, Serving, Shape, StaysServing, GoesDark, timingVars,
     settingsVars, flashVars
<1>40. ASSUME MediaIdle PROVE Shape
  BY <1>40, <1>a DEF MediaIdle, At, Goto, Serving, Shape, StaysServing, GoesDark, timingVars,
     settingsVars, flashVars
<1>r. ASSUME HostReceive PROVE Shape
  BY <1>r, <1>a DEF HostReceive, At, Goto, Serving, Shape, StaysServing, GoesDark, timingVars,
     settingsVars, flashVars
<1>41. ASSUME HostWrite PROVE Shape
  BY <1>41 DEF HostWrite, At, Serving, Shape, StaysServing, settingsVars
<1>42. ASSUME Plug /\ UNCHANGED firmwareVars PROVE Shape
  BY <1>42, <1>a DEF Plug, firmwareVars, Serving, Shape, StaysServing, GoesDark, timingVars,
     settingsVars, flashVars
<1>43. ASSUME Unplug /\ UNCHANGED firmwareVars PROVE Shape
  BY <1>43, <1>a DEF Unplug, firmwareVars, Serving, Shape, StaysServing, GoesDark, timingVars,
     settingsVars, flashVars
<1>44. ASSUME Charge /\ UNCHANGED firmwareVars PROVE Shape
  BY <1>44, <1>a DEF Charge, firmwareVars, Serving, Shape, StaysServing, GoesDark, timingVars,
     settingsVars, flashVars
<1>45. ASSUME Discharge /\ UNCHANGED firmwareVars PROVE Shape
  BY <1>45, <1>a DEF Discharge, firmwareVars, Serving, Shape, StaysServing, GoesDark,
     timingVars, settingsVars, flashVars
<1>46. ASSUME PowerUp PROVE Shape
  BY <1>46, <1>a DEF PowerUp, Goto, Serving, Shape, StaysServing, GoesDark, timingVars,
     settingsVars, flashVars
<1>47. ASSUME PowerFail PROVE Shape
  BY <1>47, <1>a DEF PowerFail, ResetLocals, Serving, Shape, StaysServing, GoesDark,
     timingVars, settingsVars, flashVars
<1> QED
  BY <1>r, <1>1, <1>2, <1>3, <1>4, <1>5, <1>6, <1>7, <1>8, <1>9, <1>10, <1>11, <1>12, <1>13, <1>14,
     <1>15, <1>16, <1>17, <1>18, <1>19, <1>20, <1>21, <1>22, <1>23, <1>24, <1>25, <1>26, <1>27,
     <1>28, <1>29, <1>30, <1>31, <1>32, <1>33, <1>34, <1>35, <1>36, <1>37, <1>38, <1>39, <1>40,
     <1>41, <1>42, <1>43, <1>44, <1>45, <1>46, <1>47 DEF Next, Flash, Booting, MainLoop, Power,
     Recorded

----------------------------------------------------------------------------
(* The theorems.                                                            *)

\* The initial state has RAM and flash alike, an empty disk and no write under way.
LEMMA InitServing == Init => ServingInv
BY DEF Init, SettingsInit, DefaultSetting, ServingInv, InSync, LedTellsArmed, At, ServingWrite,
   GuardedAll

\* Every step keeps what a serving drive knows of its settings.
LEMMA StepServing == IndInv /\ ServingInv /\ [Next]_vars => ServingInv'
<1> SUFFICES ASSUME IndInv, ServingInv, [Next]_vars PROVE ServingInv'
  OBVIOUS
<1>1. CASE Next
  BY <1>1, SyncStep, LedStep, ServingWriteStep, GuardedAllStep DEF IndInv, ServingInv
<1>2. CASE UNCHANGED vars
  BY <1>2 DEF vars, timingVars, firmwareVars, settingsVars, localVars, flashVars, historyVars,
     ServingInv, InSync, LedTellsArmed, At, ServingWrite, GuardedAll, HostData, Serving
<1> QED
  BY <1>1, <1>2

\* Every behaviour of the firmware keeps both invariants.
LEMMA ServingInductive == Spec => [](IndInv /\ ServingInv)
<1>1. Init => IndInv /\ ServingInv
  BY InitInductive, InitServing
<1>2. (IndInv /\ ServingInv) /\ [Next]_vars => (IndInv /\ ServingInv)'
  BY StepInductive, StepServing
<1> QED
  BY <1>1, <1>2, PTL DEF Spec

\* The LED of a serving drive tells what the settings in flash say (README.md:40, app.c:166).
THEOREM LedIsHonest == Spec => []LedTellsArmed
<1>1. ServingInv => LedTellsArmed
  BY DEF ServingInv
<1> QED
  BY <1>1, ServingInductive, PTL

\* Every step of the firmware is a step of the promise.
LEMMA StepKeepsPromise ==
  ASSUME IndInv, ServingInv, IndInv', ServingInv', Next
  PROVE  Promise!Next
<1>1. RecordHistory
  BY DEF Next, Flash, Booting, MainLoop, Power, Recorded
<1>2. Shape
  BY ShapeStep DEF IndInv, ServingInv
<1>3. /\ HostData' \subseteq Sectors
      /\ condemned \subseteq HostData /\ guarded \subseteq HostData
      /\ Serving' => condemned' = {}
      /\ Serving' /\ ~rom'.isArmed => guarded' = {}
  <2>1. HostData' \subseteq Sectors
    BY DEF HostData
  <2>2. condemned \subseteq HostData /\ guarded \subseteq HostData
    BY DEF IndInv, HistoryInv
  <2>3. Serving' => condemned' = {}
    BY DEF IndInv, ControlInv, RoutinePlace, CondemnedInv, Serving
  <2>4. Serving' /\ ~rom'.isArmed => guarded' = {}
    BY DEF IndInv, ControlInv, RoutinePlace, GuardedInv, Serving
  <2> QED
    BY <2>1, <2>2, <2>3, <2>4
<1>4. /\ rom.isArmed => guarded = HostData
      /\ rom'.isArmed => guarded' = HostData'
      /\ rom'.isArmed \in BOOLEAN
  BY DEF ServingInv, GuardedAll, IndInv, TypeInv, TypeOK, SettingsTypeOK, Setting
<1>5. CASE StaysServing
  <2>1. Promise!Serve
    BY <1>3, <1>4, <1>5 DEF StaysServing, Promise!Serve
  <2> QED
    BY <2>1 DEF Promise!Next
<1>6. CASE GoesDark
  <2>1. condemned \cap HostData' \subseteq condemned' /\ condemned' \subseteq HostData'
    BY <1>1, <1>3 DEF RecordHistory
  <2>2. guarded \cap HostData' \subseteq guarded' /\ guarded' \subseteq HostData'
    BY <1>1, <1>3 DEF RecordHistory
  <2>3. Promise!Dark
    BY <1>4, <1>6, <2>1, <2>2 DEF GoesDark, Promise!Dark
  <2> QED
    BY <2>3 DEF Promise!Next
<1>7. CASE StartsServing
  <2>1. UNCHANGED HostData
    BY <1>7 DEF StartsServing, HostData
  <2>2. condemned = {} /\ condemned' = {}
    BY <1>1, <1>3, <1>7, <2>1 DEF StartsServing, RecordHistory
  <2>3. UNCHANGED guarded /\ (rom.isArmed \/ guarded = {})
    BY <1>1, <1>3, <1>4, <1>7, <2>1 DEF StartsServing, RecordHistory
  <2>4. Promise!Attach
    BY <1>7, <2>1, <2>2, <2>3 DEF StartsServing, Promise!Attach
  <2> QED
    BY <2>4 DEF Promise!Next
<1> QED
  BY <1>2, <1>5, <1>6, <1>7 DEF Shape

\* The firmware implements the promise: dark, the drive never gains data nor forgets that some
\* is condemned or was held armed; serving, it never stops being armed (app.c:14).
THEOREM FirmwareKeepsPromise == Spec => KeepsPromise
<1>1. Init => Promise!Init
  <2>1. ASSUME Init PROVE HostData = {}
    BY <2>1 DEF Init, DiskInit, FactorySector, HostData, HostMade
  <2>2. ~DefaultSetting.isArmed
    BY DEF DefaultSetting
  <2> QED
    BY <2>1, <2>2 DEF Init, SettingsInit, Serving, Promise!Init
<1>2. /\ IndInv /\ ServingInv /\ (IndInv /\ ServingInv)'
      /\ [Next]_vars
      => [Promise!Next]_(Promise!vars)
  <2>1. CASE UNCHANGED vars
    BY <2>1 DEF vars, firmwareVars, settingsVars, historyVars, Serving, HostData, Promise!vars
  <2> QED
    BY <2>1, StepKeepsPromise
<1> QED
  BY <1>1, <1>2, ServingInductive, PTL DEF Spec, KeepsPromise, Promise!Spec
=============================================================================
