------------------------------- MODULE Timing -------------------------------
(***************************************************************************)
(* The clock of a drive without a battery (timing.h, timing.c): while the  *)
(* drive is plugged in, pin B3 charges a capacitor; once it is unplugged   *)
(* the capacitor discharges, and the charge an ADC conversion finds at the *)
(* next power-up tells how long the power was gone.                        *)
(*                                                                         *)
(* vbus is the USB supply (pin C6), which the host's user switches;        *)
(* charge is what timing_getCharge would return now; charging says that    *)
(* B3 is driven high.                                                      *)
(***************************************************************************)
EXTENDS Naturals

CONSTANT Readings       \* the ADC values that occur (bounds the model)

TIMING_CEILING == 1024  \* one above the largest ADC value
TIMING_STARTUP == 1012  \* the charge main waits for before it attaches to USB
TIMING_LIMIT   == 768   \* the largest limit that lets a reset pass
TIMING_DEFAULT == 42    \* about three seconds

\* A 10-bit converter, and a capacitor that can be charged far enough to start.
ASSUME ReadingsAssumption ==
  /\ Readings \subseteq 0 .. TIMING_CEILING - 1
  /\ \E r \in Readings : r >= TIMING_STARTUP

VARIABLES vbus, charge, charging

timingVars == <<vbus, charge, charging>>

TimingTypeOK ==
  /\ vbus \in BOOLEAN
  /\ charge \in Readings
  /\ charging \in BOOLEAN

\* A new drive comes out of the box unpowered with an empty capacitor.
TimingInit ==
  /\ vbus = FALSE
  /\ charge \in {r \in Readings : \A q \in Readings : r <= q}
  /\ charging = FALSE

timing_getCharge == charge

\* io_5v_isOn() (io.c:45): pin C6.
io_5v_isOn == vbus

\* timing_charge(): B3 becomes an output and is driven high.
timing_charge == charging' = TRUE

Plug ==
  /\ ~vbus
  /\ vbus' = TRUE
  /\ UNCHANGED <<charge, charging>>

Unplug ==
  /\ vbus
  /\ vbus' = FALSE
  /\ UNCHANGED <<charge, charging>>

Charge ==
  /\ vbus /\ charging
  /\ \E r \in Readings : r > charge /\ charge' = r
  /\ UNCHANGED <<vbus, charging>>

\* The capacitor also leaks between power-up and timing_charge. What it loses then is not
\* read before the next outage, so it counts as lost in that outage.
Discharge ==
  /\ ~vbus
  /\ \E r \in Readings : r < charge /\ charge' = r
  /\ UNCHANGED <<vbus, charging>>
=============================================================================
