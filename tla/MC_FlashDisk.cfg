SPECIFICATION Spec
CONSTANTS
  Pages = 2
  SectorBlocks = 2
  Bytes <- MCBytes
  Erased = "erased"
  Garbage = "garbage"
INVARIANTS
  TypeOK
  PageUnderWay
PROPERTIES
  ImplementsBlockStore
