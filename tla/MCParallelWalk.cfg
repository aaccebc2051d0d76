CONSTANTS
  Descriptors <- MCDescriptors
  MaxComponents = 3
  ChunkSizes = {8, 72, 250, 256, 1024, 16384}
  Walked <- MCWalked
  Shapes <- MCShapes
  BatchAmounts = {7, 8, 9, 12, 20}
  Threads = 2
  MaxJobs = 3
SPECIFICATION ParSpec
INVARIANTS
  LayoutSound
  SearchExact
  BytesApart
  BatchesCover
  CutsAgree
  NoLostBits
CHECK_DEADLOCK FALSE
