CONSTANTS
  MaxSlots = 2
  MaxVersion = 2
  Components = {A}
  EnableAble = {}
  ChangeAble = {}
  Disabled = {}
  ChunkLen = 2
  Values = {v}
  MaxTick = 1
  MaxThreads = 2
  PreAllocatedAmount = 1
  MaxQueued = 2
  Ops = {"remove"}
  CarefulDestroys = TRUE
  WithoutSingletons = FALSE
SPECIFICATION CmdSpec
PROPERTIES
  NeverReissued
CHECK_DEADLOCK FALSE
