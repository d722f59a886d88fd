------------------------------- MODULE Volume -------------------------------
(***************************************************************************)
(* The layout of the drive's volume, its labels and its root directory.    *)
(*                                                                         *)
(* Four parts of the code, and the host, compute where things are on the   *)
(* disk, each in its own way: the boot record tells the host (fat12.h),    *)
(* the linker places the image (files.c), io.c erases and programs by      *)
(* address and reads the directory at sector 3, internal_flash.h counts    *)
(* the sectors.  The volume label is how the user commands the drive       *)
(* (io.c, app.c).  This module is about values, not about steps.           *)
(*                                                                         *)
(* A C string is the sequence of its bytes before the NUL; an index i of   *)
(* the code is i + 1 here where it indexes a label.                        *)
(***************************************************************************)
EXTENDS Integers, Sequences

CONSTANTS FilesAddress,  \* where the image begins in flash: 0x2000 as shipped
          DriveCapacity, \* sectors for file data: 16 as shipped
          RootEntries    \* entries of the root directory: 48 as shipped

SectorSize == 512
EraseBlockSize == 1024
WriteBlockSize == 64

----------------------------------------------------------------------------
(* internal_flash.h                                                         *)

ReservedSectors == 1
VbrSectors == 1
FatSectors == 1
RootDirectorySectors == (RootEntries + 15) \div 16

TotalDiskSize ==
  ReservedSectors + VbrSectors + RootDirectorySectors + FatSectors + DriveCapacity

PartitionSize == TotalDiskSize - 1

\* What the comments of fileio_config.h ask for, and the #error of fat12.h.  The last bound is
\* not stated there: iSector * MEDIA_SECTOR_SIZE is an int, which has 16 bits.
ASSUME VolumeAssumption ==
  /\ FilesAddress \in Nat /\ FilesAddress % EraseBlockSize = 0
  /\ RootEntries \in {16, 32, 48, 64}
  /\ DriveCapacity \in Nat /\ DriveCapacity >= 2
  /\ TotalDiskSize % 2 = 0
  /\ TotalDiskSize <= 64

VolumeSectors == 0 .. TotalDiskSize - 1

----------------------------------------------------------------------------
(* What the host learns from the partition table and the boot record        *)
(* (fat12.h).                                                               *)

Partition == [first |-> 1, length |-> PartitionSize]

\* Fields of one byte with a zero byte behind.
BootRecord ==
  [bytesPerSector    |-> SectorSize,
   sectorsPerCluster |-> 1,
   reserved          |-> ReservedSectors % 256,
   fats              |-> 1,
   rootEntries       |-> RootEntries % 256,
   sectorsPerFat     |-> FatSectors % 256,
   totalSectors      |-> PartitionSize]

\* How a FAT driver finds its way from there.
HostFat  == Partition.first + BootRecord.reserved
HostRoot == HostFat + BootRecord.fats * BootRecord.sectorsPerFat
HostFileArea ==
  HostRoot + (BootRecord.rootEntries * 32 + BootRecord.bytesPerSector - 1)
               \div BootRecord.bytesPerSector
HostEnd      == Partition.first + BootRecord.totalSectors
HostClusters == (HostEnd - HostFileArea) \div BootRecord.sectorsPerCluster

\* The bytes of the first FAT sector, and its entry for cluster k: 12 bits, the low nibble of the
\* shared byte first.
FatByte(b) == CASE b = 0 -> 248 [] b = 1 -> 15 [] OTHER -> 0

FatEntry(k) ==
  LET b == (k * 3) \div 2
  IN  IF k % 2 = 0 THEN FatByte(b) + 256 * (FatByte(b + 1) % 16)
      ELSE FatByte(b) \div 16 + 16 * FatByte(b + 1)

----------------------------------------------------------------------------
(* Where the linker puts the arrays of the image (files.c).                 *)

BOOT_SECTOR_ADDRESS    == 1
FAT0_ADDRESS           == BOOT_SECTOR_ADDRESS + 1
ROOTDIRECTORY0_ADDRESS == FAT0_ADDRESS + FatSectors
ROOTDIRECTORY1_ADDRESS == ROOTDIRECTORY0_ADDRESS + (IF RootEntries > 16 THEN 1 ELSE 0)
ROOTDIRECTORY2_ADDRESS == ROOTDIRECTORY1_ADDRESS + (IF RootEntries > 32 THEN 1 ELSE 0)
ROOTDIRECTORY3_ADDRESS == ROOTDIRECTORY2_ADDRESS + (IF RootEntries > 48 THEN 1 ELSE 0)
SLACK0_ADDRESS         == ROOTDIRECTORY3_ADDRESS + 1

\* The address tags of XC8, in bytes.
ROOT_DIR_ADDR_TAG  == FilesAddress + 3 * SectorSize
FILE_DATA_ADDR_TAG == ROOT_DIR_ADDR_TAG + SectorSize * (RootEntries \div 16)
OTHER_FILE_PLACEHOLDER_ADDR_TAG == FILE_DATA_ADDR_TAG + SectorSize

\* The arrays: the address and the sectors of each.
ImageArrays ==
     {[address |-> FilesAddress + n * SectorSize, sectors |-> 1] : n \in 0 .. 3}
  \cup {[address |-> ROOT_DIR_ADDR_TAG + n * SectorSize, sectors |-> 1] :
           n \in {k \in 1 .. 3 : RootEntries > 16 * k}}
  \cup {[address |-> FILE_DATA_ADDR_TAG, sectors |-> 1],
        [address |-> OTHER_FILE_PLACEHOLDER_ADDR_TAG, sectors |-> DriveCapacity - 1]}

SectorAddress(s) == FilesAddress + s * SectorSize

Holds(array, s) ==
  /\ array.address <= SectorAddress(s)
  /\ SectorAddress(s) + SectorSize <= array.address + array.sectors * SectorSize

----------------------------------------------------------------------------
(* How io_disk_erase addresses the flash.                                   *)

\* The value of an int of the compiler.
Int16(n) == ((n + 32768) % 65536) - 32768

EraseLoop == 0 .. TotalDiskSize \div (EraseBlockSize \div SectorSize) - 1

\* The erase block that contains TBLPTR.
ErasedAddresses(iBlock) ==
  LET pointer == FilesAddress + Int16(iBlock * EraseBlockSize)
      first   == pointer - (pointer % EraseBlockSize)
  IN  first .. first + EraseBlockSize - 1

\* TBLPTR starts one block early and is incremented after every byte: byte j goes into the
\* holding register that TBLPTR selects, and the block that TBLPTR has reached at the end is
\* programmed from the registers.
ProgramLoop == VolumeSectors \X (0 .. 7)

FirstPointer(iSector, i) ==
  FilesAddress + Int16(iSector * SectorSize) + Int16(i * WriteBlockSize) - WriteBlockSize

HoldingRegister(iSector, i, j) == (FirstPointer(iSector, i) + j) % WriteBlockSize

ProgrammedBlock(iSector, i) ==
  LET pointer == FirstPointer(iSector, i) + WriteBlockSize
  IN  pointer - (pointer % WriteBlockSize)

----------------------------------------------------------------------------
(* Labels.                                                                  *)

LabelSize == 11
Blank == 32

CString == {s \in Seq(1 .. 255) : Len(s) <= LabelSize}

DriveLabels == [1 .. LabelSize -> 0 .. 255]

\* The labels of io.h, in ASCII.
IO_DISK_LABEL_ARM       == <<65, 114, 109>>
IO_DISK_LABEL_ARM_MAX_1 == <<65, 114, 109, 77, 97, 120>>
IO_DISK_LABEL_ARM_MAX_2 == <<65, 114, 109, 32, 77, 97, 120>>
IO_DISK_LABEL_ARMED     == <<65, 114, 109, 101, 100>>
IO_DISK_LABEL_RESET     == <<82, 101, 115, 101, 116>>
IO_DISK_LABEL_NOTARMED  == <<78, 111, 116, 32, 65, 114, 109, 101, 100>>
IO_DISK_LABEL_CALIBRATE == <<67, 97, 108, 105, 98, 114, 97, 116, 101>>
IO_DISK_LABEL_READONLY  == <<82, 101, 97, 100, 79, 110, 108, 121>>
IO_DISK_LABEL_FORGETFUL == <<70, 111, 114, 103, 101, 116, 102, 117, 108>>

CommandLabels ==
  {IO_DISK_LABEL_ARM, IO_DISK_LABEL_ARM_MAX_1, IO_DISK_LABEL_ARM_MAX_2, IO_DISK_LABEL_ARMED,
   IO_DISK_LABEL_RESET, IO_DISK_LABEL_NOTARMED, IO_DISK_LABEL_CALIBRATE,
   IO_DISK_LABEL_READONLY, IO_DISK_LABEL_FORGETFUL}

\* The letters of either case are 0x20 apart.
SameLetter(c, d) ==
  \/ c = d
  \/ c \in 65 .. 90 /\ c + 32 = d
  \/ c \in 97 .. 122 /\ c - 32 = d

\* io_disk_hasLabel(label), once it has found the drive's label.
HasLabel(label, driveLabel) ==
  \A i \in 1 .. LabelSize :
    IF i <= Len(label) THEN SameLetter(label[i], driveLabel[i])
    ELSE driveLabel[i] \in {Blank, 0}

\* The label that io_disk_erase writes.
ErasedLabel(label) ==
  [i \in 1 .. LabelSize |-> IF i <= Len(label) THEN label[i] ELSE Blank]

\* The number at the end of the label that Calibrate leaves.  TIMING_LIMIT keeps it below 10000.
Digit(n) == 48 + n

Digits(n) ==
  IF n >= 1000 THEN <<Digit(n \div 1000), Digit((n \div 100) % 10), Digit((n \div 10) % 10),
                      Digit(n % 10)>>
  ELSE IF n >= 100 THEN <<Digit(n \div 100), Digit((n \div 10) % 10), Digit(n % 10)>>
  ELSE IF n >= 10 THEN <<Digit(n \div 10), Digit(n % 10)>>
  ELSE <<Digit(n)>>

RawLabel(timingCharge) == <<82, 97, 119, 32>> \o Digits(timingCharge)

----------------------------------------------------------------------------
(* The root directory.                                                      *)

ATTR_VOLUME == 8
DELETED == 229

Slots == 0 .. RootEntries - 1

DirectoryEntry == [name : DriveLabels, attr : 0 .. 255]

Directory == [Slots -> DirectoryEntry]

\* io_disk_hasLabel takes the first entry with the attribute of a volume label, whether the entry
\* is deleted or not.
LabelSlots(dir) == {i \in Slots : dir[i].attr = ATTR_VOLUME}

FirstOf(slots) == CHOOSE i \in slots : \A j \in slots : i <= j

DriveLabel(dir, bootLabel) ==
  IF LabelSlots(dir) = {} THEN bootLabel ELSE dir[FirstOf(LabelSlots(dir))].name

EmptyEntry == [name |-> [i \in 1 .. LabelSize |-> 0], attr |-> 0]

\* io_disk_erase: the label in the first entry, zeros behind it.
ErasedDirectory(label) ==
  [i \in Slots |-> IF i = 0 THEN [name |-> ErasedLabel(label), attr |-> ATTR_VOLUME]
                   ELSE EmptyEntry]

\* What a host does to the directory.
Free(entry) == entry.name[1] \in {0, DELETED}

LiveLabels(dir) == {i \in LabelSlots(dir) : ~Free(dir[i])}

FreeSlots(dir) == {i \in Slots : Free(dir[i])}

HostNames == {name \in DriveLabels : name[1] \notin {0, DELETED}}

\* A label is renamed where it is; a new one takes the first free slot.
SetLabel(dir, name, new) ==
  \/ \E i \in LiveLabels(dir) :
       new = [dir EXCEPT ![i] = [name |-> name, attr |-> ATTR_VOLUME]]
  \/ /\ LiveLabels(dir) = {}
     /\ \E i \in FreeSlots(dir) :
          /\ \A j \in FreeSlots(dir) : i <= j
          /\ new = [dir EXCEPT ![i] = [name |-> name, attr |-> ATTR_VOLUME]]

\* A deleted entry keeps everything but the first byte of its name.
Delete(dir, i, new) ==
  /\ ~Free(dir[i])
  /\ new = [dir EXCEPT ![i] = [name |-> [dir[i].name EXCEPT ![1] = DELETED],
                               attr |-> dir[i].attr]]

\* A file, a directory or a piece of a long name, in any free slot.
Create(dir, i, entry, new) ==
  /\ Free(dir[i])
  /\ entry.attr # ATTR_VOLUME
  /\ new = [dir EXCEPT ![i] = entry]

HostOperation(dir, new) ==
  \/ \E name \in HostNames : SetLabel(dir, name, new)
  \/ \E i \in Slots : Delete(dir, i, new)
  \/ \E i \in Slots, entry \in DirectoryEntry : Create(dir, i, entry, new)

\* A live label comes before every other entry that looks like one.
LabelFirst(dir) == \A i \in LiveLabels(dir), j \in LabelSlots(dir) : i <= j
=============================================================================
