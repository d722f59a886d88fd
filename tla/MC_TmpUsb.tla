------------------------------ MODULE MC_TmpUsb ------------------------------
(* A small drive for TLC: three erase pages, and the sectors and labels that a host writes. *)
(* The layout is the one of the shipped configuration.                                      *)
EXTENDS TmpUsb, Image

\* An outage at the default limit, one that a calibrated limit tolerates, a full capacitor.
MCReadings == {42, 500, 1020}

MCHostSectors == {BOOT, ROOT, 4}

MCRootOnly == {ROOT}

\* A drive without bad luck: the power fails only while main is in its loop, or blinks after a 5 V
\* erase, and never during a flash operation.
SteadyPower == (pc # "off" /\ pc' = "off") => (Serving \/ pc = "halt") /\ op = "none"

SteadySpec == Init /\ [][Next /\ SteadyPower]_vars

\* The sectors that the life cycle names are the ones where the layout has these structures.
ASSUME SectorsOfTheLayout ==
  BOOT = Partition.first /\ FAT = HostFat /\ ROOT = HostRoot /\ TotalDiskSize = 22

\* The life cycle compares labels as wholes: so does the firmware for what it can itself write.
ASSUME LabelsAreToldApart ==
  \A a, b \in CommandLabels \cup {RawLabel(n) : n \in {0, 9, 10, 99, 100, 768}} :
    HasLabel(a, ErasedLabel(b)) <=> a = b

\* The host reads from the two sectors of the image what the layout is computed from.
ASSUME HostsUnderstandTheImage ==
  /\ Len(DiskDefaultMbr) = SectorSize /\ Len(DiskDefaultBoot) = SectorSize
  /\ HostsPartition(DiskDefaultMbr) = Partition
  /\ HostsBootRecord(DiskDefaultBoot) = BootRecord

\* Validation overlooks what hosts change and nothing else: a disk in use stays valid, and any other
\* change erases it at the next boot.
ASSUME ValidationAllowsHosts ==
  \A i \in 0 .. SectorSize - 1 :
    LET changed == [DiskDefaultBoot EXCEPT ![i + 1] = (@ + 1) % 256]
    IN  Valid(DiskDefaultMbr, changed) <=> i \in HostsBytes

\* The label is read where hosts keep it, and the one that is there at first commands nothing; a
\* disk just programmed has the label of a disk just reset.
ASSUME FirstLabels ==
  /\ BootLabel(DiskDefaultBoot) = [k \in 1 .. LabelSize |->
        DiskDefaultBoot[(CHOOSE i \in Place(BootFields, "volume label") :
                           \A j \in Place(BootFields, "volume label") : i <= j) + k]]
  /\ \A label \in CommandLabels : ~HasLabel(label, BootLabel(DiskDefaultBoot))
  /\ FactoryLabel = ErasedDirectory(IO_DISK_LABEL_NOTARMED)[0]
=============================================================================
