SPECIFICATION Spec
CONSTANTS
  Readings <- MCReadings
  Pages = 3
  FilesAddress = 8192
  DriveCapacity = 16
  RootEntries = 48
  HostLabels = {"Arm", "ArmMax", "Armed", "ReadOnly", "Reset", "Calibrate", "Forgetful"}
  HostSectors <- MCHostSectors
  IndexerPeriod = 2
INVARIANTS
  TypeOK
  CondemnedNeverServed
  ArmedDataStaysArmed
  ReadOnlyIsArmed
  LedTellsArmed
PROPERTY KeepsPromise
