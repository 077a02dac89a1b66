\* Super-blocks of 4 elements in 2 sub-blocks, 2 lanes, chunks of 2 super-blocks.
SPECIFICATION Spec
CONSTANTS
  w1 = w1
  w2 = w2
  Worker = {w1, w2}
  Lanes = 2
  SubBlock = 2
  SubBlocks = 2
  SupersPerChunk = 2
  MaxThreads = 2
  TasksPerThread = 1
  ParMinRows = 2
  BlockRows = 2
  WarpSize = 2
  RowThreads = 2
  TileRows = 1
  TileCols = 2
  Reg = 2
  MaxRows = 3
  MaxBatch = 2
  MaxSupers = 5
INVARIANTS
  TypeOK
  PoolIsSerial
  GpuIsCanonical
  StagingIsWhole
  VerifierAgrees
  LayoutsAgree
  ScalesExact
  RowsAgree
PROPERTIES
  CallsReturn
