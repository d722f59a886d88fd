SPECIFICATION Spec
CONSTANTS
  a = a
  b = b
  Tags = {a, b}
  EP_SIZE = 64
  CBW_SIZE = 31
  CSW_SIZE = 13
  BLOCKLEN = 128
  MaxAttempts = 1
  Capacity = 2
  Data <- MCSectorChunks
  Commands <- MCAnswers
  MaxAborts = 1
SYMMETRY Symmetry
INVARIANTS
  PersistentStall
  PassedIsDone
