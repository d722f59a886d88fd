------------------------------- MODULE Image -------------------------------
(***************************************************************************)
(* The master boot record and the boot sector that the firmware writes     *)
(* (fat12.h), byte by byte, and how io_disk_isValid compares a disk with   *)
(* them.  Byte i of a sector is element i + 1 of its sequence.             *)
(***************************************************************************)
EXTENDS Volume, SequencesExt

Zeros(n) == [i \in 1 .. n |-> 0]

LittleEndian(n, size) == [k \in 1 .. size |-> (n \div 256 ^ (k - 1)) % 256]

Field(name, bytes) == [name |-> name, bytes |-> bytes]

MbrFields == <<
  Field("code",               Zeros(394)),
  Field("other table",        Zeros(46)),
  Field("disk signature",     <<245, 139, 22, 234>>),
  Field("reserved",           Zeros(2)),
  Field("status",             <<0>>),
  Field("first CHS",          <<1, 1, 0>>),
  Field("type",               <<1>>),
  Field("last CHS",           <<7, 255, 230>>),
  Field("first sector",       <<1, 0, 0, 0>>),
  Field("length",             LittleEndian(PartitionSize, 4)),
  Field("other partitions",   Zeros(48)),
  Field("signature",          <<85, 170>>) >>

BootFields == <<
  Field("jump",               <<235, 60, 144>>),
  Field("OEM name",           <<77, 83, 68, 79, 83, 53, 46, 48>>),
  Field("bytes per sector",   <<SectorSize % 256, SectorSize \div 256>>),
  Field("sectors per cluster", <<1>>),
  Field("reserved sectors",   <<ReservedSectors, 0>>),
  Field("FATs",               <<1>>),
  Field("root entries",       <<RootEntries, 0>>),
  Field("sectors, short",     <<0, 0>>),
  Field("media descriptor",   <<248>>),
  Field("sectors per FAT",    <<FatSectors, 0>>),
  Field("geometry",           <<63, 0, 255, 0>>),
  Field("hidden sectors",     <<1, 0, 0, 0>>),
  Field("sectors, long",      LittleEndian(PartitionSize, 4)),
  Field("drive number",       <<0>>),
  Field("current head",       <<0>>),
  Field("extended",           <<41>>),
  Field("serial number",      <<77, 101, 100, 111>>),
  Field("volume label",       <<78, 79, 32, 78, 65, 77, 69, 32, 32, 32, 32>>),
  Field("file system",        <<70, 65, 84, 49, 50, 32, 32, 32>>),
  Field("code",               Zeros(448)),
  Field("signature",          <<85, 170>>) >>

BytesOf(fields) == FlattenSeq([k \in DOMAIN fields |-> fields[k].bytes])

DiskDefaultMbr == BytesOf(MbrFields)
DiskDefaultBoot == BytesOf(BootFields)

\* The bytes of the sector that a field is in.
Place(fields, name) ==
  LET k     == CHOOSE n \in DOMAIN fields : fields[n].name = name
      first == Len(BytesOf(SubSeq(fields, 1, k - 1)))
  IN  first .. first + Len(fields[k].bytes) - 1

\* io_disk_isValid, for a disk that begins with these two sectors.
SkippedByValidation == {37} \cup 43 .. 53

Valid(mbr, boot) ==
  /\ mbr = DiskDefaultMbr
  /\ \A i \in 0 .. SectorSize - 1 :
       i \in SkippedByValidation \/ boot[i + 1] = DiskDefaultBoot[i + 1]

\* Where io_disk_hasLabel reads the label of a disk without one in its root directory.
BootLabel(boot) == SubSeq(boot, 44, 54)

\* The first entry of the root directory of the image that is programmed with the firmware.
FactoryLabel ==
  [name |-> <<78, 111, 116, 32, 65, 114, 109, 101, 100, 32, 32>>, attr |-> ATTR_VOLUME]

----------------------------------------------------------------------------
(* The host.                                                                *)

Number(sector, at, size) ==
  FoldRight(LAMBDA byte, above : byte + 256 * above, SubSeq(sector, at + 1, at + size), 0)

\* Where a host finds the partition and the parts of its file system.
HostsPartition(mbr) == [first |-> Number(mbr, 454, 4), length |-> Number(mbr, 458, 4)]

HostsBootRecord(boot) ==
  [bytesPerSector    |-> Number(boot, 11, 2),
   sectorsPerCluster |-> Number(boot, 13, 1),
   reserved          |-> Number(boot, 14, 2),
   fats              |-> Number(boot, 16, 1),
   rootEntries       |-> Number(boot, 17, 2),
   sectorsPerFat     |-> Number(boot, 22, 2),
   totalSectors      |-> IF Number(boot, 19, 2) = 0 THEN Number(boot, 32, 4)
                         ELSE Number(boot, 19, 2)]

\* What a host changes there: it marks a volume in use as dirty, and it keeps the label there too.
HostsBytes == Place(BootFields, "current head") \cup Place(BootFields, "volume label")
=============================================================================
