------------------------------ MODULE BlockStore ------------------------------
(***************************************************************************)
(* What the flash disk promises the mass storage class: an array of        *)
(* sectors.  A write changes its sector and no other.  Until it is         *)
(* acknowledged the sectors of its page are at risk: a power failure may   *)
(* leave anything in them.  It never touches any other sector, and what is *)
(* acknowledged is only at risk again while a sector of its page is        *)
(* written.                                                                *)
(***************************************************************************)
CONSTANTS
  Sectors,
  Data,  \* what a sector may hold
  Page   \* the sectors that share each sector's page

VARIABLES
  content,  \* what a read of each sector brings
  atRisk,   \* the sectors that a power failure may take
  status,   \* of the last operation: "busy", "done" or "refused"
  buffer    \* what the last read brought, or the last write took

storeVars == <<content, atRisk, status, buffer>>

Init ==
  /\ content \in [Sectors -> Data] /\ atRisk = {}
  /\ status = "done" /\ buffer \in Data

Read(s) ==
  /\ status # "busy"
  /\ buffer' = content[s] /\ status' = "done"
  /\ UNCHANGED <<content, atRisk>>

\* A write may be done at once, or put its page at risk for a while.
Write(s, data) ==
  /\ status # "busy"
  /\ content' = [content EXCEPT ![s] = data]
  /\ \/ status' = "done" /\ content' = content /\ UNCHANGED atRisk
     \/ status' = "busy" /\ atRisk' = Page[s]
  /\ buffer' = data

\* A sector that is not on the disk.
Refuse ==
  /\ status # "busy"
  /\ status' = "refused"
  /\ UNCHANGED <<content, atRisk, buffer>>

Acknowledge ==
  /\ status = "busy"
  /\ status' = "done" /\ atRisk' = {}
  /\ UNCHANGED <<content, buffer>>

PowerFail ==
  /\ content' \in [Sectors -> Data]
  /\ \A s \in Sectors \ atRisk : content'[s] = content[s]
  /\ status' = "done" /\ atRisk' = {}
  /\ UNCHANGED buffer

Next ==
  \/ \E s \in Sectors : Read(s) \/ \E data \in Data : Write(s, data)
  \/ Refuse \/ Acknowledge \/ PowerFail

Spec == Init /\ [][Next]_storeVars
=============================================================================
