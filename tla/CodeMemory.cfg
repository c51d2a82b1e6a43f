SPECIFICATION Spec
CONSTANTS
  g1 = g1
  g2 = g2
  u1 = u1
  u2 = u2
  m1 = m1
  m2 = m2
  m3 = m3
  h1 = h1
  h2 = h2
  mmap = mmap
  heap = heap
  custom = custom
  Gens <- MCGens
  UserBuf <- MCUserBuf
  Allocators <- MCAllocators
  MmapAllocators = {mmap}
  BlocksOf <- MCBlocksOf
  UseProtect <- MCUseProtect
  Fails <- MCFails
  DefaultSize = 2
  InitSizes = {1}
  MaxSize = 2
SYMMETRY Symmetry
INVARIANTS AsPromised BlocksAreOwned NoLeak HeapStaysWritable
