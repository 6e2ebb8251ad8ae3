SPECIFICATION Spec
CONSTANTS
  Images <- ExtDrives
  DriveSize = 10
  MinLength = 16
  Words = 256
  Clusters = 8
  ClusterBlocks = 2
  Fat <- MCFat
  Inodes <- MCInodes
  Beneath = 5
  NoName = NoName
INVARIANT ComplainsOnlyBeyondEnd
CHECK_DEADLOCK FALSE
