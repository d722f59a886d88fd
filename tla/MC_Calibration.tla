--------------------------- MODULE MC_Calibration ---------------------------
(* A drive whose owner calibrates it.  A history variable has the limit that the last Calibrate  *)
(* has set, until ArmMax or Reset is obeyed.                                                     *)
EXTENDS MC_TmpUsb

VARIABLE calibrated   \* the limit found by the last calibration, or NotCalibrated

NotCalibrated == -1

\* app.c:90: the write of the limit is through.
LimitFound == pc = "rawErase" /\ op = "settings" /\ op' = "none"

\* app.c:55 and app.c:77: the label is Reset or ArmMax.
LimitRevoked == pc = "check" /\ pc' \in {"resetSettings", "setCeiling"}

RecordCalibration ==
  calibrated' = IF LimitFound THEN rom'.limit
                ELSE IF LimitRevoked THEN NotCalibrated
                ELSE calibrated

\* The power does not fail in the middle of settings_write: no block of settings is lost.
WholeSettings == (pc # "off" /\ pc' = "off") => op # "settings"

CalibrationSpec ==
  /\ Init /\ calibrated = NotCalibrated
  /\ [][Next /\ WholeSettings /\ RecordCalibration]_<<vars, calibrated>>

\* README.md:89 says of Calibrate: "Value determined by this procedure will be used until either
\* ArmMax or Reset are given."  So a drive in use has it in flash for the next boot.
CalibrationLasts == At("media") /\ calibrated # NotCalibrated => rom.limit = calibrated
=============================================================================
