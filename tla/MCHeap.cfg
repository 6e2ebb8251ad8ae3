CONSTANTS
  Reserve <- MCReserve
  Sizes <- MCSizes
SPECIFICATION Spec
INVARIANTS
  TypeOK
  Tiled
  Coalesced
  ClientsOwnTheirBlocks
  CopyFits
PROPERTIES
  MallocReturns
  ImplementsRanges
