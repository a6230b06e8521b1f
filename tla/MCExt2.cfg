CONSTANTS
  MaxTasks = 3
  Requests <- MCRequests
  AtaInitDone = TRUE
  Volumes <- MCVolumes
  OtherReads <- MCOtherReads
  NDIRECT = 2
SPECIFICATION Ext2Spec
INVARIANTS
  DriveServesHead
  DataInOrder
  ReadComplete
  AtaInv
  ListsRootDirectory
PROPERTIES
  WalkEnds
  ReadReturns
  ImplementsDiskService
