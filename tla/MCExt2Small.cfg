CONSTANTS
  MaxTasks = 2
  Requests <- MCRequests
  AtaInitDone = TRUE
  Volumes <- SmallVolumes
  OtherReads <- MCOtherReads
  NDIRECT = 2
SPECIFICATION Ext2Spec
INVARIANTS
  DescriptorsBehindSuperblock
