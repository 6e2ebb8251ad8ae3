CONSTANTS
  r1 = r1
  r2 = r2
  r3 = r3
  p1 = p1
  p2 = p2
  Writer = Writer
  Nobody = Nobody
  Readers = {r1, r2, r3}
  Wants <- MCWants
  Base <- MCBase
  SectorsPerBlock = 2
  Lbas = 16
  Capacity = 2
SPECIFICATION Spec
INVARIANTS
  TypeOK
  
  OwnBlocks
PROPERTY
  IsServed
CHECK_DEADLOCK FALSE
