SPECIFICATION Spec
CONSTANTS
  a = a
  b = b
  Tags = {a, b}
  EP_SIZE = 64
  CBW_SIZE = 31
  CSW_SIZE = 13
  BLOCKLEN = 128
  MaxAttempts = 1
  Capacity = 2
  Data <- MCSectorChunks
  Commands <- MCTransfers
  MaxAborts = 2
SYMMETRY Symmetry
INVARIANTS
  TypeOK
  TogglesAgree
  CommandHasItsBuffer
  PassedIsDone
PROPERTIES
  NoOverwriteInFlight
  WritesAreTheHosts
