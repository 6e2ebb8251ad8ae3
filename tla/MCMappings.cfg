CONSTANTS
  Word <- MCWord
  FirstStart <- MCFirstStart
  FirstLength <- MCFirstLength
  LowMemory <- MCLowMemory
  MemoryMap <- MCMemoryMap
  AsaStart <- MCAsaStart
  AsaLength <- MCAsaLength
  Fanout = 2
  BootTables <- MCBootTables
  Handles = {h1, h2}
  Scratch = scratch
  Requests <- MCRequests
  Bars <- MCBars
  RangeCounts <- MCRangeCounts
  MaxList = 2
  MaxRanges = 3
SPECIFICATION Spec
CHECK_DEADLOCK FALSE
INVARIANTS
  TypeOK
  NoPageTwice
  OnlyUsableMemory
  Translates
  NoStaleTranslation
  AddressSpaceApart
PROPERTIES
  ImplementsRanges
