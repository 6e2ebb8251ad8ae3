CONSTANTS
  r1 = r1
  r2 = r2
  Readers = {r1, r2}
  Blocks <- MCBlocks
  Kind <- MCKind
  Size <- MCSize
  Overtaken <- MCOvertaken
SPECIFICATION Spec
INVARIANTS
  TypeOK
  OneEntryEach
PROPERTIES
  ImplementsCommands
  IsServed
CHECK_DEADLOCK FALSE
