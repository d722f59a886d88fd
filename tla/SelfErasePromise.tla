-------------------------- MODULE SelfErasePromise --------------------------
(***************************************************************************)
(* What the drive promises its owner, with no flash, no settings and no    *)
(* boot sequence: which of the host's data is on the drive, which of it is *)
(* condemned, and when the drive shows it to a host.                       *)
(*                                                                         *)
(* While it serves, a drive may take or lose data as the host writes; it   *)
(* may become armed but not stop being armed.  While it is dark, data can  *)
(* only go away, and condemned data stays condemned until it does.  It     *)
(* serves again only when no condemned data is left, and as an unarmed     *)
(* drive only when nothing is left that it held while armed.               *)
(***************************************************************************)
CONSTANT Item            \* the places data can be in

VARIABLES serving,       \* the drive answers the host
          armed,
          data,          \* the items that hold the host's data
          condemned,     \* those of them that must not be served again
          guarded        \* those of them that were there while the drive was armed

vars == <<serving, armed, data, condemned, guarded>>

TypeOK ==
  /\ serving \in BOOLEAN /\ armed \in BOOLEAN
  /\ data \subseteq Item
  /\ condemned \subseteq data /\ guarded \subseteq data

Init ==
  /\ ~serving /\ ~armed
  /\ data = {} /\ condemned = {} /\ guarded = {}

\* A host reads and writes, and may arm the drive.
Serve ==
  /\ serving /\ serving'
  /\ data' \subseteq Item
  /\ condemned' = {}
  /\ armed => armed'
  /\ guarded' = IF armed' THEN data' ELSE {}

\* The drive stops serving, is without power, erases, boots: in any order.
Dark ==
  /\ ~serving'
  /\ data' \subseteq data
  /\ condemned \cap data' \subseteq condemned' /\ condemned' \subseteq data'
  /\ guarded \cap data' \subseteq guarded'     /\ guarded' \subseteq data'
  /\ armed' \in BOOLEAN

Attach ==
  /\ ~serving /\ serving'
  /\ condemned = {}
  /\ armed \/ guarded = {}
  /\ UNCHANGED <<armed, data, condemned, guarded>>

Next == Serve \/ Dark \/ Attach

Spec == Init /\ [][Next]_vars
=============================================================================
