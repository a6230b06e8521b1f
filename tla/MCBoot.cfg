CONSTANTS
  PAGE_SIZE = 8
  PT_ENTRIES = 8
  PD_ENTRIES = 6
  KERNEL_HIGH = 128
  KERNEL_END = 139
  USERSPACE_START = 200
  Firmwares <- MCFirmwares
  VgaAddr = 5
  Word = 1
  SdtHeader = 2
  MmapEntry = 2
  LastSlot = 1
  LastFunc = 2
  Machines <- MCMachines
  MaxOwned = 1
  TickCnt = 20
  Ratio = 10
  MaxDelay = 2
  MaxCount = 1023
SPECIFICATION BootFairSpec
INVARIANTS
  FaultMeansTableElsewhere
  ApicsReachable
  FirstControllerFound
  DriveReady
  FramesHaveOneUse
  KernelStaysMapped
  UserReachesItsPageOnly
  RegionsStayMapped
  NoWildWrite
PROPERTIES
  BootEnds
