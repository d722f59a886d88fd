SPECIFICATION SteadySpec
CONSTANTS
  Readings <- MCReadings
  Pages = 3
  FilesAddress = 8192
  DriveCapacity = 16
  RootEntries = 48
  HostLabels = {"Arm", "ArmMax", "Forgetful"}
  HostSectors <- MCRootOnly
  IndexerPeriod = 2
PROPERTY ArmToleratesShortOutage
