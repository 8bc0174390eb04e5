SPECIFICATION Spec
CONSTANTS
  t1 = t1
  t2 = t2
  NoThread = NoThread
  Threads = {t1, t2}
  Program <- MCProgram
  MountArgs <- MCMountArgs
  Queries <- MCQueries
  Roots <- MCRoots
  MemFiles <- MCMemFiles
  DiskDirs <- MCDiskDirs
  DiskFiles <- MCDiskFiles
  MaxId = 3
  MaxHandles = 2
INVARIANTS MountsKnown HandlesOwned IteratorCovers
PROPERTIES Overlay CopyReturns
CHECK_DEADLOCK FALSE
