SPECIFICATION Spec
CONSTANTS
  Images <- MCImages
  DriveSize = 10
  MinLength = 16
  Words = 256
  Clusters = 8
  ClusterBlocks = 2
  Fat <- MCFat
  Inodes <- MCInodes
  Beneath = 5
  NoName = NoName
INVARIANTS
  RegisteredOnce
  ListsDirectory
  ReadsOwnBlocks
PROPERTY Settles
CHECK_DEADLOCK FALSE
