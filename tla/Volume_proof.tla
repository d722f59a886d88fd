---------------------------- MODULE Volume_proof ----------------------------
(* The layout, the labels and the directory, for every size of the volume and every label. *)
EXTENDS Volume, SequenceTheorems, WellFoundedInduction, TLAPS

----------------------------------------------------------------------------
(* The layout.                                                              *)

LEMMA Sizes ==
  /\ FilesAddress \in Nat /\ FilesAddress % 1024 = 0
  /\ RootDirectorySectors \in 1 .. 4 /\ RootEntries = 16 * RootDirectorySectors
  /\ DriveCapacity \in Nat /\ DriveCapacity >= 2
  /\ TotalDiskSize = 3 + RootDirectorySectors + DriveCapacity
  /\ TotalDiskSize % 2 = 0 /\ TotalDiskSize \in 6 .. 64
BY VolumeAssumption DEF RootDirectorySectors, TotalDiskSize, ReservedSectors, VbrSectors,
  FatSectors, EraseBlockSize

\* The host finds the root directory where io.c reads it, file data where the linker puts it, and
\* the end of the volume where the image ends; it has a cluster for every sector of file data and
\* no more, the one FAT sector has room for them, and a formatted volume has them all free
\* (fat12.h, internal_flash.h, files.c, io.c).
THEOREM LayoutAgrees ==
  /\ HostFat = FAT0_ADDRESS
  /\ HostRoot = ROOTDIRECTORY0_ADDRESS /\ HostRoot = 3
  /\ HostFileArea = SLACK0_ADDRESS
  /\ SectorAddress(HostFileArea) = FILE_DATA_ADDR_TAG
  /\ HostEnd = TotalDiskSize
  /\ HostClusters = DriveCapacity
  /\ (HostClusters + 2) * 3 <= 2 * FatSectors * SectorSize
  /\ \A k \in 2 .. HostClusters + 1 : FatEntry(k) = 0
<1> DEFINE r == RootDirectorySectors
<1>1. HostFat = 2 /\ HostRoot = 3
  BY DEF HostFat, HostRoot, Partition, BootRecord, ReservedSectors, FatSectors
<1>2. HostFileArea = 3 + r
  <2>1. BootRecord.rootEntries = 16 * r /\ BootRecord.bytesPerSector = 512
    BY Sizes DEF BootRecord, SectorSize
  <2>2. \A n \in 1 .. 4 : ((16 * n) * 32 + 512 - 1) \div 512 = n
    OBVIOUS
  <2> QED BY <1>1, <2>1, <2>2, Sizes DEF HostFileArea
<1>3. HostEnd = TotalDiskSize /\ HostClusters = DriveCapacity
  BY <1>2, Sizes DEF HostEnd, HostClusters, Partition, BootRecord, PartitionSize
<1>4. SLACK0_ADDRESS = 3 + r /\ FAT0_ADDRESS = 2 /\ ROOTDIRECTORY0_ADDRESS = 3
  BY Sizes DEF SLACK0_ADDRESS, ROOTDIRECTORY3_ADDRESS, ROOTDIRECTORY2_ADDRESS,
    ROOTDIRECTORY1_ADDRESS, ROOTDIRECTORY0_ADDRESS, FAT0_ADDRESS, BOOT_SECTOR_ADDRESS, FatSectors
<1>5. SectorAddress(HostFileArea) = FILE_DATA_ADDR_TAG
  BY <1>2, Sizes DEF SectorAddress, FILE_DATA_ADDR_TAG, ROOT_DIR_ADDR_TAG, SectorSize
<1>6. (HostClusters + 2) * 3 <= 2 * FatSectors * SectorSize
  BY <1>3, Sizes DEF FatSectors, SectorSize
<1>7. ASSUME NEW k \in 2 .. HostClusters + 1 PROVE FatEntry(k) = 0
  <2>1. k \in Nat /\ (k * 3) \div 2 \in Nat /\ (k * 3) \div 2 >= 3
    BY <1>3, <1>7, Sizes
  <2>2. FatByte((k * 3) \div 2) = 0 /\ FatByte((k * 3) \div 2 + 1) = 0
    BY <2>1 DEF FatByte
  <2> QED BY <2>1, <2>2 DEF FatEntry
<1> QED BY <1>1, <1>2, <1>3, <1>4, <1>5, <1>6, <1>7

\* Every sector of the volume is in one array of the programmed image and only one (files.c): a
\* sector without one would be a place where the linker puts code.
THEOREM ImageTilesDisk ==
  \A s \in VolumeSectors :
    \E array \in ImageArrays :
      /\ Holds(array, s)
      /\ \A other \in ImageArrays : Holds(other, s) => other = array
<1> DEFINE r == RootDirectorySectors
           OneSector(n) == [address |-> SectorAddress(n), sectors |-> 1]
           Rest == [address |-> SectorAddress(4 + r), sectors |-> DriveCapacity - 1]
<1>1. \A n \in 1 .. 3 : RootEntries > 16 * n <=> n < r
  BY Sizes
<1>2. \A array : array \in ImageArrays <=> \/ \E n \in 0 .. 3 + r : array = OneSector(n)
                                           \/ array = Rest
  <2>1. /\ \A n \in 0 .. 3 : [address |-> FilesAddress + n * SectorSize, sectors |-> 1] = OneSector(n)
        /\ \A n \in 1 .. 3 :
             [address |-> ROOT_DIR_ADDR_TAG + n * SectorSize, sectors |-> 1] = OneSector(3 + n)
        /\ [address |-> FILE_DATA_ADDR_TAG, sectors |-> 1] = OneSector(3 + r)
        /\ [address |-> OTHER_FILE_PLACEHOLDER_ADDR_TAG, sectors |-> DriveCapacity - 1] = Rest
    BY Sizes DEF SectorAddress, ROOT_DIR_ADDR_TAG, FILE_DATA_ADDR_TAG,
      OTHER_FILE_PLACEHOLDER_ADDR_TAG, SectorSize
  <2>2. \A n \in 0 .. 3 + r : n \in 0 .. 3 \/ (\E k \in 1 .. 3 : k < r /\ n = 3 + k) \/ n = 3 + r
    BY Sizes
  <2>3. \A k \in 1 .. 3 : k < r => 3 + k \in 0 .. 3 + r
    BY Sizes
  <2>4. 0 .. 3 \subseteq 0 .. 3 + r /\ 3 + r \in 0 .. 3 + r
    BY Sizes
  <2> HIDE DEF OneSector, Rest, r
  <2> QED BY <1>1, <2>1, <2>2, <2>3, <2>4 DEF ImageArrays
<1>3. ASSUME NEW s \in VolumeSectors PROVE
        /\ \A n \in 0 .. 3 + r : Holds(OneSector(n), s) <=> s = n
        /\ Holds(Rest, s) <=> s >= 4 + r
  BY <1>3, Sizes DEF Holds, SectorAddress, SectorSize, VolumeSectors
<1> HIDE DEF OneSector, Rest
<1> TAKE s \in VolumeSectors
<1>4. s \in Int /\ s >= 0 /\ r \in 1 .. 4
  BY Sizes DEF VolumeSectors
<1>5. CASE s <= 3 + r
  <2>1. s \in 0 .. 3 + r
    BY <1>4, <1>5
  <2>2. OneSector(s) \in ImageArrays /\ Holds(OneSector(s), s)
    BY <1>2, <1>3, <2>1
  <2>3. ASSUME NEW other \in ImageArrays, Holds(other, s) PROVE other = OneSector(s)
    BY <1>2, <1>3, <1>4, <1>5, <2>3
  <2> QED BY <2>2, <2>3
<1>6. CASE s > 3 + r
  <2>1. Rest \in ImageArrays /\ Holds(Rest, s)
    BY <1>2, <1>3, <1>4, <1>6
  <2>2. ASSUME NEW other \in ImageArrays, Holds(other, s) PROVE other = Rest
    BY <1>2, <1>3, <1>4, <1>6, <2>2
  <2> QED BY <2>1, <2>2
<1> QED BY <1>4, <1>5, <1>6

\* io_disk_erase erases every byte of the volume and nothing else (io.c:111-119): for an odd
\* number of sectors the division would leave the last one, and past 64 the int would overflow.
THEOREM ErasesTheVolume ==
  \A a \in Int :
    (\E iBlock \in EraseLoop : a \in ErasedAddresses(iBlock))
      <=> a \in FilesAddress .. SectorAddress(TotalDiskSize) - 1
<1> DEFINE pages == TotalDiskSize \div 2
<1>1. EraseLoop = 0 .. pages - 1 /\ TotalDiskSize = 2 * pages /\ pages \in 3 .. 32
  BY Sizes DEF EraseLoop, EraseBlockSize, SectorSize
<1> HIDE DEF pages
<1>2. ASSUME NEW iBlock \in EraseLoop PROVE
        ErasedAddresses(iBlock) = FilesAddress + iBlock * 1024 .. FilesAddress + iBlock * 1024 + 1023
  <2>1. iBlock \in 0 .. 31
    BY <1>1, <1>2
  <2>2. Int16(iBlock * 1024) = iBlock * 1024
    BY <2>1 DEF Int16
  <2>3. (FilesAddress + iBlock * 1024) % 1024 = 0
    BY <2>1, Sizes
  <2> DEFINE pointer == FilesAddress + iBlock * 1024
  <2>4. ErasedAddresses(iBlock) = pointer - (pointer % 1024) .. pointer - (pointer % 1024) + 1024 - 1
    BY <2>2 DEF ErasedAddresses, EraseBlockSize
  <2>5. pointer - (pointer % 1024) = pointer /\ pointer + 1024 - 1 = pointer + 1023
    BY <2>1, <2>3, Sizes
  <2> QED BY <2>4, <2>5
<1> TAKE a \in Int
<1>3. ASSUME NEW iBlock \in EraseLoop, a \in ErasedAddresses(iBlock)
      PROVE a \in FilesAddress .. SectorAddress(TotalDiskSize) - 1
  BY <1>1, <1>2, <1>3, Sizes DEF SectorAddress, SectorSize
<1>4. ASSUME a \in FilesAddress .. SectorAddress(TotalDiskSize) - 1
      PROVE \E iBlock \in EraseLoop : a \in ErasedAddresses(iBlock)
  <2> DEFINE b == (a - FilesAddress) \div 1024
  <2>1. b \in EraseLoop
    BY <1>1, <1>4, Sizes DEF SectorAddress, SectorSize
  <2>2. a \in FilesAddress + b * 1024 .. FilesAddress + b * 1024 + 1023
    BY <1>4, Sizes
  <2> HIDE DEF b
  <2>3. ErasedAddresses(b) = FilesAddress + b * 1024 .. FilesAddress + b * 1024 + 1023
    BY <1>2, <2>1
  <2>4. a \in ErasedAddresses(b)
    BY <2>2, <2>3
  <2> QED BY <2>1, <2>4
<1> QED BY <1>3, <1>4

\* Each block of a sector is programmed at the sector's address, its byte j from buffer[j],
\* although TBLPTR starts a block early (io.c:139-148).
THEOREM ProgramsInPlace ==
  \A iSector \in VolumeSectors, i \in 0 .. 7 :
    /\ ProgrammedBlock(iSector, i) = SectorAddress(iSector) + i * WriteBlockSize
    /\ \A j \in 0 .. WriteBlockSize - 1 : HoldingRegister(iSector, i, j) = j
<1> TAKE iSector \in VolumeSectors, i \in 0 .. 7
<1> DEFINE n == 8 * iSector + i
<1>1. iSector \in 0 .. 63 /\ n \in 0 .. 511
  BY Sizes DEF VolumeSectors
<1>2. Int16(iSector * 512) = iSector * 512 /\ Int16(i * 64) = i * 64
  BY <1>1 DEF Int16
<1>3. FirstPointer(iSector, i) = FilesAddress + 64 * n - 64
  BY <1>1, <1>2, Sizes DEF FirstPointer, SectorSize, WriteBlockSize
<1>4. (FilesAddress + 64 * n) % 64 = 0
  BY <1>1, Sizes
<1>5. ProgrammedBlock(iSector, i) = SectorAddress(iSector) + i * WriteBlockSize
  BY <1>1, <1>3, <1>4, Sizes DEF ProgrammedBlock, SectorAddress, SectorSize, WriteBlockSize
<1>6. ASSUME NEW j \in 0 .. WriteBlockSize - 1 PROVE HoldingRegister(iSector, i, j) = j
  BY <1>1, <1>3, <1>4, Sizes DEF HoldingRegister, WriteBlockSize
<1> QED BY <1>5, <1>6

----------------------------------------------------------------------------
(* Labels.                                                                  *)

\* A letter without its case.
Fold(c) == IF c \in 97 .. 122 THEN c - 32 ELSE c

LEMMA SameLetterFolds ==
  \A c \in 0 .. 255, d \in 0 .. 255 : SameLetter(c, d) <=> Fold(c) = Fold(d)
BY DEF SameLetter, Fold

LEMMA StringBytes ==
  ASSUME NEW s \in CString
  PROVE  /\ Len(s) \in 0 .. 11
         /\ \A i \in 1 .. Len(s) : s[i] \in 1 .. 255 /\ s[i] \in 0 .. 255
<1>1. s \in Seq(1 .. 255) /\ Len(s) <= 11
  BY DEF CString, LabelSize
<1>2. Len(s) \in Nat
  BY <1>1, LenProperties
<1>3. \A i \in 1 .. Len(s) : s[i] \in 1 .. 255
  BY <1>1, ElementOfSeq
<1>4. \A n \in Nat : n <= 11 => n \in 0 .. 11
  OBVIOUS
<1>5. Len(s) \in 0 .. 11
  BY <1>1, <1>2, <1>4, Zenon
<1>6. \A n \in 1 .. 255 : n \in 0 .. 255
  OBVIOUS
<1> QED BY <1>3, <1>5, <1>6, Zenon

\* The comparison is the comparison of the whole label, padded with blanks, without regard to
\* case; only that the drive's label may be padded with NULs too (io.c:66-86).
THEOREM MatchIgnoresCase ==
  \A label \in CString, driveLabel \in DriveLabels :
    HasLabel(label, driveLabel) <=>
      \A i \in 1 .. LabelSize :
        \/ Fold(driveLabel[i]) = Fold(ErasedLabel(label)[i])
        \/ i > Len(label) /\ driveLabel[i] = 0
<1> TAKE label \in CString, driveLabel \in DriveLabels
<1>1. \A i \in 1 .. LabelSize : driveLabel[i] \in 0 .. 255
  BY DEF DriveLabels
<1>2. \A d \in 0 .. 255 : Fold(d) = Fold(Blank) <=> d = Blank
  BY DEF Fold, Blank
<1>3. \A i \in 1 .. LabelSize :
        (IF i <= Len(label) THEN SameLetter(label[i], driveLabel[i])
         ELSE driveLabel[i] \in {Blank, 0})
        <=> \/ Fold(driveLabel[i]) = Fold(ErasedLabel(label)[i])
            \/ i > Len(label) /\ driveLabel[i] = 0
  <2> TAKE i \in 1 .. LabelSize
  <2>1. CASE i <= Len(label)
    <3>1. label[i] \in 0 .. 255 /\ ErasedLabel(label)[i] = label[i]
      <4>1. i \in 1 .. Len(label)
        BY <2>1, StringBytes DEF LabelSize
      <4> QED BY <2>1, <4>1, StringBytes DEF ErasedLabel
    <3>2. SameLetter(label[i], driveLabel[i]) <=> Fold(label[i]) = Fold(driveLabel[i])
      BY <1>1, <3>1, SameLetterFolds
    <3> QED BY <2>1, <3>1, <3>2, StringBytes DEF LabelSize
  <2>2. CASE ~(i <= Len(label))
    <3>1. ErasedLabel(label)[i] = Blank /\ i > Len(label)
      BY <2>2, StringBytes DEF ErasedLabel, LabelSize
    <3> QED BY <1>1, <1>2, <2>2, <3>1
  <2> QED BY <2>1, <2>2
<1> QED BY <1>3 DEF HasLabel

\* A drive that was erased with a label has it: what the firmware writes it recognises
\* (io.c:128-134).
THEOREM ErasedLabelIsRead == \A label \in CString : HasLabel(label, ErasedLabel(label))
<1> TAKE label \in CString
<1>1. ErasedLabel(label) \in DriveLabels
  BY StringBytes DEF ErasedLabel, DriveLabels, LabelSize, Blank
<1> QED BY <1>1, MatchIgnoresCase

\* Two strings that end in no blank and match the same drive label differ in case only.
LEMMA SameLabel ==
  ASSUME NEW a \in CString, NEW b \in CString, NEW driveLabel \in DriveLabels,
         Len(a) > 0, a[Len(a)] # Blank, Len(b) > 0, b[Len(b)] # Blank,
         HasLabel(a, driveLabel), HasLabel(b, driveLabel)
  PROVE  Len(a) = Len(b) /\ \A i \in 1 .. Len(a) : Fold(a[i]) = Fold(b[i])
<1>1. ASSUME NEW s \in CString, NEW t \in CString, Len(s) < Len(t), t[Len(t)] # Blank,
             HasLabel(s, driveLabel), HasLabel(t, driveLabel)
      PROVE FALSE
  <2> DEFINE n == Len(t)
  <2>1. n \in 1 .. 11 /\ n > Len(s) /\ n <= Len(t) /\ ~(n <= Len(s))
    BY <1>1, StringBytes
  <2>2. t[n] \in 1 .. 255 /\ t[n] # Blank
    BY <1>1, <2>1, StringBytes
  <2> HIDE DEF n
  <2>3. driveLabel[n] \in {Blank, 0} /\ SameLetter(t[n], driveLabel[n])
    BY <1>1, <2>1 DEF HasLabel, LabelSize
  <2>4. \A c \in 1 .. 255, d \in {Blank, 0} : SameLetter(c, d) => c = Blank
    BY DEF SameLetter, Blank
  <2> QED BY <2>2, <2>3, <2>4
<1>2. Len(a) = Len(b)
  BY <1>1, StringBytes
<1>3. ASSUME NEW i \in 1 .. Len(a) PROVE Fold(a[i]) = Fold(b[i])
  <2>1. i \in 1 .. LabelSize /\ i <= Len(a) /\ i <= Len(b)
    BY <1>2, <1>3, StringBytes DEF LabelSize
  <2>2. SameLetter(a[i], driveLabel[i]) /\ SameLetter(b[i], driveLabel[i])
    BY <2>1 DEF HasLabel
  <2>3. a[i] \in 0 .. 255 /\ b[i] \in 0 .. 255 /\ driveLabel[i] \in 0 .. 255
    BY <1>2, <2>1, StringBytes DEF DriveLabels
  <2> QED BY <2>2, <2>3, SameLetterFolds
<1> QED BY <1>2, <1>3

\* The commands of io.h have different lengths or first letters.
LEMMA Commands ==
  ASSUME NEW c \in CommandLabels
  PROVE  /\ c \in CString /\ Len(c) > 0 /\ c[Len(c)] # Blank
         /\ 1 <= Len(c) /\ c[1] \in {65, 67, 70, 78, 82}
         /\ \A d \in CommandLabels : Len(c) = Len(d) /\ Fold(c[1]) = Fold(d[1]) => c = d
<1> DEFINE Shape(s, n, first) ==
             /\ s \in CString /\ Len(s) = n /\ s[n] # Blank
             /\ s[1] = first /\ Fold(s[1]) = first
<1>1. Shape(IO_DISK_LABEL_ARM, 3, 65)
  BY DEF IO_DISK_LABEL_ARM, CString, LabelSize, Blank, Fold
<1>2. Shape(IO_DISK_LABEL_ARM_MAX_1, 6, 65)
  BY DEF IO_DISK_LABEL_ARM_MAX_1, CString, LabelSize, Blank, Fold
<1>3. Shape(IO_DISK_LABEL_ARM_MAX_2, 7, 65)
  BY DEF IO_DISK_LABEL_ARM_MAX_2, CString, LabelSize, Blank, Fold
<1>4. Shape(IO_DISK_LABEL_ARMED, 5, 65)
  BY DEF IO_DISK_LABEL_ARMED, CString, LabelSize, Blank, Fold
<1>5. Shape(IO_DISK_LABEL_RESET, 5, 82)
  BY DEF IO_DISK_LABEL_RESET, CString, LabelSize, Blank, Fold
<1>6. Shape(IO_DISK_LABEL_NOTARMED, 9, 78)
  BY DEF IO_DISK_LABEL_NOTARMED, CString, LabelSize, Blank, Fold
<1>7. Shape(IO_DISK_LABEL_CALIBRATE, 9, 67)
  BY DEF IO_DISK_LABEL_CALIBRATE, CString, LabelSize, Blank, Fold
<1>8. Shape(IO_DISK_LABEL_READONLY, 8, 82)
  BY DEF IO_DISK_LABEL_READONLY, CString, LabelSize, Blank, Fold
<1>9. Shape(IO_DISK_LABEL_FORGETFUL, 9, 70)
  BY DEF IO_DISK_LABEL_FORGETFUL, CString, LabelSize, Blank, Fold
<1> HIDE DEF Shape
<1>10. \A s \in CommandLabels :
         \/ s = IO_DISK_LABEL_ARM /\ Shape(s, 3, 65)
         \/ s = IO_DISK_LABEL_ARM_MAX_1 /\ Shape(s, 6, 65)
         \/ s = IO_DISK_LABEL_ARM_MAX_2 /\ Shape(s, 7, 65)
         \/ s = IO_DISK_LABEL_ARMED /\ Shape(s, 5, 65)
         \/ s = IO_DISK_LABEL_RESET /\ Shape(s, 5, 82)
         \/ s = IO_DISK_LABEL_NOTARMED /\ Shape(s, 9, 78)
         \/ s = IO_DISK_LABEL_CALIBRATE /\ Shape(s, 9, 67)
         \/ s = IO_DISK_LABEL_READONLY /\ Shape(s, 8, 82)
         \/ s = IO_DISK_LABEL_FORGETFUL /\ Shape(s, 9, 70)
  BY <1>1, <1>2, <1>3, <1>4, <1>5, <1>6, <1>7, <1>8, <1>9, Zenon DEF CommandLabels
<1>11. /\ c \in CString /\ Len(c) > 0 /\ c[Len(c)] # Blank
       /\ 1 <= Len(c) /\ c[1] \in {65, 67, 70, 78, 82}
  BY <1>10 DEF Shape
<1>12. ASSUME NEW d \in CommandLabels, Len(c) = Len(d), Fold(c[1]) = Fold(d[1]) PROVE c = d
  BY <1>10, <1>12 DEF Shape
<1> QED BY <1>11, <1>12

\* Whatever the label of the drive, at most one command of io.h is in it, so the order in which
\* main asks for them decides nothing (app.c:55-164).
THEOREM OneCommand ==
  \A driveLabel \in DriveLabels : \A a, b \in CommandLabels :
    HasLabel(a, driveLabel) /\ HasLabel(b, driveLabel) => a = b
<1> SUFFICES ASSUME NEW driveLabel \in DriveLabels, NEW a \in CommandLabels, NEW b \in CommandLabels,
                    HasLabel(a, driveLabel), HasLabel(b, driveLabel)
             PROVE a = b
  OBVIOUS
<1>1. /\ a \in CString /\ Len(a) > 0 /\ a[Len(a)] # Blank
      /\ b \in CString /\ Len(b) > 0 /\ b[Len(b)] # Blank
      /\ Len(a) = Len(b) /\ Fold(a[1]) = Fold(b[1]) => a = b
  BY Commands
<1>2. Len(a) = Len(b) /\ \A i \in 1 .. Len(a) : Fold(a[i]) = Fold(b[i])
  BY <1>1, SameLabel
<1>3. 1 \in 1 .. Len(a)
  BY <1>1, StringBytes
<1> QED BY <1>1, <1>2, <1>3

LEMMA Decimal ==
  ASSUME NEW n \in Nat
  PROVE  /\ n = 10 * (n \div 10) + (n % 10) /\ n % 10 \in 0 .. 9 /\ n \div 10 \in Nat
         /\ n \div 100 = (n \div 10) \div 10 /\ n \div 1000 = (n \div 100) \div 10
<1>1. n = 10 * (n \div 10) + (n % 10)
  OBVIOUS
<1>2. n % 10 \in 0 .. 9
  OBVIOUS
<1>3. n \div 10 \in Nat
  OBVIOUS
<1>4. n \div 100 = (n \div 10) \div 10
  OBVIOUS
<1>5. n \div 1000 = (n \div 100) \div 10
  OBVIOUS
<1> QED BY <1>1, <1>2, <1>3, <1>4, <1>5

LEMMA Places ==
  /\ \A n, q, r \in Int : n = 10 * q + r /\ r \in 0 .. 9 =>
       /\ n <= 9999 => q <= 999
       /\ n <= 999 => q <= 99
       /\ n <= 99 => q <= 9
       /\ n <= 9 => q <= 0
       /\ n >= 1000 => q >= 100
       /\ n >= 100 => q >= 10
       /\ n >= 10 => q >= 1
  /\ \A n, tens, hundreds, m, u, t, h \in Int :
       n = 10 * tens + u /\ tens = 10 * hundreds + t /\ hundreds = 10 * m + h
         => n = 1000 * m + 100 * h + 10 * t + u
OBVIOUS

\* Digits d, without a leading zero, that are the number n.
Written(d, n) ==
  LET place(k) == IF k < Len(d) THEN d[Len(d) - k] - 48 ELSE 0
  IN  /\ d \in Seq(1 .. 255) /\ Len(d) \in 1 .. 4 /\ \A i \in 1 .. Len(d) : d[i] \in 48 .. 57
      /\ Len(d) > 1 => d[1] # 48
      /\ n = place(0) + 10 * place(1) + 100 * place(2) + 1000 * place(3)

\* A reading below 10000 is written without leading zeros, every digit in its place
\* (app.c:84-110), and the label is one that the drive can write and read back.
THEOREM RawTellsReading ==
  \A n \in Nat : n < 10000 => Written(Digits(n), n) /\ RawLabel(n) \in CString
<1>1. \A u \in 0 .. 9 : Written(<<Digit(u)>>, u)
  BY DEF Digit, Written
<1>2. \A t \in 1 .. 9, u \in 0 .. 9 : Written(<<Digit(t), Digit(u)>>, 10 * t + u)
  BY DEF Digit, Written
<1>3. \A h \in 1 .. 9, t \in 0 .. 9, u \in 0 .. 9 :
        Written(<<Digit(h), Digit(t), Digit(u)>>, 100 * h + 10 * t + u)
  BY DEF Digit, Written
<1>4. ASSUME NEW n \in Nat, n < 10000 PROVE Written(Digits(n), n)
  <2> DEFINE tens == n \div 10
             hundreds == n \div 100
             m == n \div 1000
             u == n % 10
             t == tens % 10
             h == hundreds % 10
  <2>1. n = 10 * tens + u /\ u \in 0 .. 9 /\ tens \in Nat
    BY Decimal
  <2>2. tens = 10 * hundreds + t /\ t \in 0 .. 9 /\ hundreds \in Nat
    BY <2>1, Decimal
  <2>3. hundreds = 10 * m + h /\ h \in 0 .. 9 /\ m \in Nat
    BY <2>2, Decimal
  <2>4. CASE n >= 1000
    <3>1. n \in Int /\ n <= 9999
      BY <1>4
    <3>2. tens <= 999 /\ tens >= 100
      BY <2>1, <2>4, <3>1, Places
    <3>3. hundreds <= 99 /\ hundreds >= 10
      BY <2>2, <3>2, Places
    <3>4. m \in 1 .. 9
      BY <2>3, <3>3, Places
    <3>5. n = 1000 * m + 100 * h + 10 * t + u
      BY <2>1, <2>2, <2>3, Places
    <3>6. Digits(n) = <<Digit(m), Digit(h), Digit(t), Digit(u)>>
      BY <2>4 DEF Digits
    <3> HIDE DEF u, t, h, m, tens, hundreds
    <3>7. Written(<<Digit(m), Digit(h), Digit(t), Digit(u)>>, n)
      <4>1. m \in 1 .. 9 /\ h \in 0 .. 9 /\ t \in 0 .. 9 /\ u \in 0 .. 9
        BY <2>1, <2>2, <2>3, <3>4
      <4> QED BY <3>5, <4>1 DEF Written, Digit
    <3> QED BY <3>6, <3>7
  <2>5. CASE n < 1000 /\ n >= 100
    <3>1. tens <= 99 /\ tens >= 10
      BY <2>1, <2>5, Places
    <3>2. hundreds \in 1 .. 9
      BY <2>2, <3>1, Places
    <3>3. hundreds = h
      BY <3>2
    <3>4. n = 100 * h + 10 * t + u
      BY <2>1, <2>2, <3>3
    <3>5. Digits(n) = <<Digit(hundreds), Digit(t), Digit(u)>>
      BY <2>5 DEF Digits
    <3> HIDE DEF u, t, h, m, tens, hundreds
    <3>6. Written(<<Digit(h), Digit(t), Digit(u)>>, 100 * h + 10 * t + u)
      BY <1>3, <2>1, <2>2, <3>2, <3>3
    <3> QED BY <3>3, <3>4, <3>5, <3>6
  <2>6. CASE n < 100 /\ n >= 10
    <3>1. tens \in 1 .. 9
      BY <2>1, <2>6, Places
    <3>2. tens = t
      BY <3>1
    <3>3. Digits(n) = <<Digit(tens), Digit(u)>>
      BY <2>6 DEF Digits
    <3> HIDE DEF u, t, h, m, tens, hundreds
    <3>4. Written(<<Digit(t), Digit(u)>>, 10 * t + u)
      BY <1>2, <2>1, <3>1, <3>2
    <3> QED BY <2>1, <3>2, <3>3, <3>4
  <2>7. CASE n < 10
    <3>1. Digits(n) = <<Digit(n)>>
      BY <2>7 DEF Digits
    <3>2. n \in 0 .. 9
      BY <2>7
    <3> QED BY <1>1, <3>1, <3>2
  <2> QED BY <2>4, <2>5, <2>6, <2>7
<1>5. ASSUME NEW n \in Nat, n < 10000 PROVE RawLabel(n) \in CString
  <2>1. Digits(n) \in Seq(1 .. 255) /\ Len(Digits(n)) \in 1 .. 4
    BY <1>4, <1>5 DEF Written
  <2>2. <<82, 97, 119, 32>> \in Seq(1 .. 255) /\ Len(<<82, 97, 119, 32>>) = 4
    OBVIOUS
  <2>3. RawLabel(n) \in Seq(1 .. 255) /\ Len(RawLabel(n)) = 4 + Len(Digits(n))
    BY <2>1, <2>2, ConcatProperties DEF RawLabel
  <2>4. \A k \in 1 .. 4 : 4 + k <= 11
    OBVIOUS
  <2> QED BY <2>1, <2>3, <2>4 DEF CString, LabelSize
<1> QED BY <1>4, <1>5

----------------------------------------------------------------------------
(* The root directory.                                                      *)

LEMMA Least ==
  ASSUME NEW T, T \subseteq Nat, T # {}
  PROVE  \E x \in T : \A y \in T : x <= y
<1> DEFINE R == OpToRel(<, Nat)
<1>1. IsWellFoundedOn(R, Nat)
  BY NatLessThanWellFounded
<1>2. \A x, y \in Nat : ~(<<y, x>> \in R) => x <= y
  BY DEF OpToRel
<1> HIDE DEF R
<1>3. PICK x \in T : \A y \in T : ~(<<y, x>> \in R)
  BY <1>1, WFMin
<1>4. \A y \in T : x \in Nat /\ y \in Nat
  OBVIOUS
<1>5. \A y \in T : x <= y
  BY <1>2, <1>3, <1>4, Zenon
<1> QED BY <1>5

LEMMA SlotBytes ==
  ASSUME NEW dir \in Directory, NEW i \in Slots
  PROVE  /\ dir[i] \in DirectoryEntry /\ dir[i].name \in DriveLabels
         /\ dir[i].attr \in 0 .. 255 /\ dir[i] = [name |-> dir[i].name, attr |-> dir[i].attr]
BY DEF Directory, DirectoryEntry

LEMMA DeletedName ==
  ASSUME NEW name \in DriveLabels
  PROVE  /\ [name EXCEPT ![1] = DELETED] \in DriveLabels
         /\ [name EXCEPT ![1] = DELETED][1] = DELETED
BY DEF DriveLabels, DELETED, LabelSize

\* A directory that io_disk_erase has written has its label first (io.c:126-134).
THEOREM ErasedDirectoryIsOrdered ==
  \A label \in CString :
    /\ ErasedDirectory(label) \in Directory
    /\ LabelFirst(ErasedDirectory(label))
<1> TAKE label \in CString
<1>1. ErasedLabel(label) \in DriveLabels
  BY StringBytes DEF ErasedLabel, DriveLabels, LabelSize, Blank
<1>2. EmptyEntry \in DirectoryEntry
  BY DEF EmptyEntry, DirectoryEntry, DriveLabels, LabelSize
<1>3. [name |-> ErasedLabel(label), attr |-> ATTR_VOLUME] \in DirectoryEntry
  BY <1>1 DEF DirectoryEntry, ATTR_VOLUME
<1>4. ErasedDirectory(label) \in Directory
  BY <1>2, <1>3 DEF ErasedDirectory, Directory
<1>5. \A i \in Slots : i \in LabelSlots(ErasedDirectory(label)) => i = 0
  BY DEF LabelSlots, ErasedDirectory, EmptyEntry, ATTR_VOLUME
<1>6. LabelFirst(ErasedDirectory(label))
  BY <1>5 DEF LabelFirst, LiveLabels, LabelSlots
<1> QED BY <1>4, <1>6

\* Whatever the host does to the directory, a live label stays before every other entry that
\* io_disk_hasLabel could take for it.
THEOREM HostKeepsLabelFirst ==
  \A dir \in Directory : \A new :
    LabelFirst(dir) /\ HostOperation(dir, new) => new \in Directory /\ LabelFirst(new)
<1> SUFFICES ASSUME NEW dir \in Directory, NEW new, LabelFirst(dir), HostOperation(dir, new)
             PROVE  new \in Directory /\ LabelFirst(new)
  OBVIOUS
<1>1. Slots \subseteq Int /\ ATTR_VOLUME \in 0 .. 255
  BY VolumeAssumption DEF Slots, ATTR_VOLUME
<1>2. CASE \E name \in HostNames : SetLabel(dir, name, new)
  <2> PICK name \in HostNames : SetLabel(dir, name, new)
    BY <1>2
  <2> DEFINE entry == [name |-> name, attr |-> ATTR_VOLUME]
  <2>1. PICK i \in Slots :
          /\ new = [dir EXCEPT ![i] = entry]
          /\ \/ i \in LiveLabels(dir)
             \/ LiveLabels(dir) = {} /\ \A j \in FreeSlots(dir) : i <= j
    BY DEF SetLabel, LiveLabels, LabelSlots, FreeSlots
  <2>2. entry \in DirectoryEntry
    BY <1>1 DEF HostNames, DirectoryEntry
  <2>3. new \in Directory
    BY <2>1, <2>2 DEF Directory
  <2>4. \A j \in Slots : j # i => new[j] = dir[j]
    BY <2>1 DEF Directory
  <2>5. CASE i \in LiveLabels(dir)
    <3>1. LabelSlots(new) \subseteq LabelSlots(dir)
      BY <2>1, <2>4, <2>5 DEF LiveLabels, LabelSlots
    <3>2. LiveLabels(new) \subseteq LiveLabels(dir)
      BY <2>4, <2>5, <3>1 DEF LiveLabels, LabelSlots
    <3> QED BY <2>3, <3>1, <3>2 DEF LabelFirst
  <2>6. CASE LiveLabels(dir) = {} /\ \A j \in FreeSlots(dir) : i <= j
    <3>1. \A j \in LiveLabels(new) : j = i
      BY <2>4, <2>6 DEF LiveLabels, LabelSlots
    <3>2. \A j \in LabelSlots(new) : j = i \/ j \in FreeSlots(dir)
      BY <2>4, <2>6 DEF LiveLabels, LabelSlots, FreeSlots
    <3> QED BY <1>1, <2>3, <2>6, <3>1, <3>2 DEF LabelFirst
  <2> QED BY <2>1, <2>5, <2>6
<1>3. CASE \E i \in Slots : Delete(dir, i, new)
  <2> PICK i \in Slots : Delete(dir, i, new)
    BY <1>3
  <2> DEFINE entry == [name |-> [dir[i].name EXCEPT ![1] = DELETED], attr |-> dir[i].attr]
  <2>1. new = [dir EXCEPT ![i] = entry]
    BY DEF Delete
  <2>2. entry \in DirectoryEntry
    <3>1. [dir[i].name EXCEPT ![1] = DELETED] \in DriveLabels
      BY SlotBytes, DeletedName
    <3> QED BY <3>1, SlotBytes DEF DirectoryEntry
  <2>3. new \in Directory
    BY <2>1, <2>2 DEF Directory
  <2>4. new[i] = entry /\ \A j \in Slots : j # i => new[j] = dir[j]
    BY <2>1 DEF Directory
  <2>5. Free(new[i])
    <3>1. [dir[i].name EXCEPT ![1] = DELETED][1] = DELETED
      BY SlotBytes, DeletedName
    <3> QED BY <2>4, <3>1 DEF Free
  <2>6. LabelSlots(new) \subseteq LabelSlots(dir)
    BY <2>4 DEF LabelSlots
  <2>7. LiveLabels(new) \subseteq LiveLabels(dir)
    BY <2>4, <2>5, <2>6 DEF LiveLabels, LabelSlots
  <2> QED BY <2>3, <2>6, <2>7 DEF LabelFirst
<1>4. CASE \E i \in Slots, entry \in DirectoryEntry : Create(dir, i, entry, new)
  <2> PICK i \in Slots, entry \in DirectoryEntry : Create(dir, i, entry, new)
    BY <1>4
  <2>1. new = [dir EXCEPT ![i] = entry] /\ entry.attr # ATTR_VOLUME
    BY DEF Create
  <2>2. new \in Directory
    BY <2>1 DEF Directory
  <2>3. new[i] = entry /\ \A j \in Slots : j # i => new[j] = dir[j]
    BY <2>1 DEF Directory
  <2>4. LabelSlots(new) \subseteq LabelSlots(dir) /\ i \notin LabelSlots(new)
    BY <2>1, <2>3 DEF LabelSlots
  <2>5. LiveLabels(new) \subseteq LiveLabels(dir)
    BY <2>3, <2>4 DEF LiveLabels, LabelSlots
  <2> QED BY <2>2, <2>4, <2>5 DEF LabelFirst
<1> QED BY <1>2, <1>3, <1>4 DEF HostOperation

\* In such a directory the firmware reads the label that the host shows, although it does not look
\* whether an entry is deleted (io.c:54-60).
THEOREM LiveLabelIsRead ==
  \A dir \in Directory, bootLabel \in DriveLabels :
    LabelFirst(dir) => \A i \in LiveLabels(dir) : DriveLabel(dir, bootLabel) = dir[i].name
<1> SUFFICES ASSUME NEW dir \in Directory, NEW bootLabel \in DriveLabels, LabelFirst(dir),
                    NEW i \in LiveLabels(dir)
             PROVE  DriveLabel(dir, bootLabel) = dir[i].name
  OBVIOUS
<1>1. LabelSlots(dir) \subseteq Int
  BY VolumeAssumption DEF LabelSlots, Slots
<1>2. i \in LabelSlots(dir) /\ \A j \in LabelSlots(dir) : i <= j
  BY DEF LabelFirst, LiveLabels
<1>3. FirstOf(LabelSlots(dir)) = i
  <2>1. \A k \in LabelSlots(dir) : (\A j \in LabelSlots(dir) : k <= j) => k = i
    BY <1>1, <1>2
  <2> QED BY <1>2, <2>1 DEF FirstOf
<1> QED BY <1>2, <1>3 DEF DriveLabel

\* Once the host has deleted the label, no command is read until there is a new one: the deleted
\* entry hides the label of the boot record, and begins with 0xE5.
THEOREM DeletedLabelCommandsNothing ==
  \A dir \in Directory, bootLabel \in DriveLabels : \A command \in CommandLabels :
    LabelSlots(dir) # {} /\ LiveLabels(dir) = {} => ~HasLabel(command, DriveLabel(dir, bootLabel))
<1> SUFFICES ASSUME NEW dir \in Directory, NEW bootLabel \in DriveLabels,
                    NEW command \in CommandLabels, LabelSlots(dir) # {}, LiveLabels(dir) = {}
             PROVE  ~HasLabel(command, DriveLabel(dir, bootLabel))
  OBVIOUS
<1>1. PICK i \in LabelSlots(dir) : \A j \in LabelSlots(dir) : i <= j
  <2>1. LabelSlots(dir) \subseteq Nat
    BY VolumeAssumption DEF LabelSlots, Slots
  <2> QED BY <2>1, Least
<1>2. FirstOf(LabelSlots(dir)) \in LabelSlots(dir)
  BY <1>1 DEF FirstOf
<1>3. Free(dir[FirstOf(LabelSlots(dir))])
  BY <1>2 DEF LiveLabels
<1>4. DriveLabel(dir, bootLabel)[1] \in {0, DELETED}
  BY <1>3 DEF DriveLabel, Free
<1>5. 1 \in 1 .. LabelSize /\ 1 <= Len(command) /\ command[1] \in {65, 67, 70, 78, 82}
  BY Commands DEF LabelSize
<1>6. \A c \in {65, 67, 70, 78, 82}, d \in {0, DELETED} : ~SameLetter(c, d)
  BY DEF SameLetter, DELETED
<1> QED BY <1>4, <1>5, <1>6 DEF HasLabel
=============================================================================
