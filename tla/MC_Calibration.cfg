SPECIFICATION CalibrationSpec
CONSTANTS
  Readings <- MCReadings
  Pages = 3
  FilesAddress = 8192
  DriveCapacity = 16
  RootEntries = 48
  HostLabels = {"Armed", "ArmMax", "Calibrate", "Reset"}
  HostSectors <- MCRootOnly
  IndexerPeriod = 2
INVARIANT CalibrationLasts
