CONSTANTS
  Proc = {p1, p2}
  NInode = 2
  NINODE = 2
  NBlock = 3
  NDIRECT = 1
  NINDIRECT = 1
  MaxWrite = 2
  None = None
  NNode = 3
  Name = {a, b}
  MaxLink = 2
  NFILE = 1
  Buf = {b1, b2}
  Sector = {k1, k2, k3}
  MaxPinned = 1
  Val = {0, 1}
SPECIFICATION DiskSpec
SYMMETRY Symmetry
INVARIANTS CommitsConsistent TablesSound CountsExact NoLockCycle CacheSound
PROPERTIES BootReclaims ImplementsBlockStore
