-------------------------------- MODULE Disk --------------------------------
(***************************************************************************)
(* The disk in the microcontroller's own flash (io.c, internal_flash.c):   *)
(* Pages erase pages of two sectors each.  Sector 0 is the master boot     *)
(* record, 1 the boot sector, 2 the FAT and 3 the start of the root        *)
(* directory, where the label entry is.                                    *)
(*                                                                         *)
(* A sector is abstracted to where its bytes come from and to the volume   *)
(* label in it: "erased" (0xFF), "factory" (what io_disk_erase writes),    *)
(* "host" (written by the host, its verified bytes intact) or "foreign"    *)
(* (written by the host over verified bytes).                              *)
(***************************************************************************)
EXTENDS Naturals

CONSTANTS Pages,      \* erase pages: 11 in the shipped configuration
          HostLabels, \* the labels a host writes
          HostSectors \* the sectors a host writes (bounds the model)

MBR  == 0
BOOT == 1
FAT  == 2
ROOT == 3

Sectors == 0 .. 2 * Pages - 1

ASSUME DiskAssumption ==
  /\ Pages \in Nat /\ Pages >= 2
  /\ HostSectors \subseteq Sectors

Page(p) == {2 * p, 2 * p + 1}

NoLabel == ""

Labels == HostLabels \cup {"Not Armed", "Raw", "Forgetful", "NO NAME", NoLabel}

Contents == [data : {"erased", "factory", "host", "foreign"}, label : Labels]

ErasedSector == [data |-> "erased", label |-> NoLabel]

\* What io_disk_erase(label) programs into sector s: the label goes into the first root entry,
\* the boot sector carries FAT's own name for "no label".
FactorySector(s, label) ==
  [data  |-> "factory",
   label |-> IF s = ROOT THEN label ELSE IF s = BOOT THEN "NO NAME" ELSE NoLabel]

\* What a host can put into sector s. No byte of the MBR escapes the verification, the boot
\* sector's dirty flag and label do.
HostContents(s) ==
  [data  : CASE s = MBR  -> {"foreign"}
             [] s = BOOT -> {"foreign", "host"}
             [] OTHER    -> {"host"},
   label : IF s \in {BOOT, ROOT} THEN HostLabels \cup {NoLabel} ELSE {NoLabel}]

VARIABLE disk

DiskTypeOK == disk \in [Sectors -> Contents]

\* The programmed image holds an empty disk (files.c).
DiskInit == disk = [s \in Sectors |-> FactorySector(s, "Not Armed")]

HostMade == {"host", "foreign"}

\* The sectors that hold something the host wrote.
HostData == {s \in Sectors : disk[s].data \in HostMade}

\* io_disk_isValid(): sectors 0 and 1 are compared with the programmed image.
io_disk_isValid ==
  /\ disk[MBR].data = "factory"
  /\ disk[BOOT].data \in {"factory", "host"}

\* io_disk_hasLabel(label): the root's label entry, or the boot sector's label without one.
VolumeLabel == IF disk[ROOT].label # NoLabel THEN disk[ROOT].label ELSE disk[BOOT].label

io_disk_hasLabel(label) == VolumeLabel = label

ErasePageOf(d, p) == [s \in Sectors |-> IF s \in Page(p) THEN ErasedSector ELSE d[s]]
=============================================================================
