SPECIFICATION FairSpec
CONSTANTS
  Readings = {42, 500, 1020}
  Pages = 3
  FilesAddress = 8192
  DriveCapacity = 16
  RootEntries = 48
  HostLabels = {"Arm", "ArmMax", "Armed", "ReadOnly", "Reset", "Calibrate", "Forgetful"}
  HostSectors = {3}
  IndexerPeriod = 2
PROPERTIES
  PoweredDriveSettles
  ArmedLabelArms
