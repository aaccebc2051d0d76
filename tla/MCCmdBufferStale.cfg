CONSTANTS
  MaxSlots = 2
  MaxVersion = 2
  Components = {A}
  EnableAble = {}
  ChangeAble = {}
  Disabled = {}
  ChunkLen = 2
  Values = {v}
  MaxTick = 1
  MaxThreads = 2
  PreAllocatedAmount = 2
  MaxQueued = 2
  Ops = {"remove"}
  CarefulDestroys = FALSE
  WithoutSingletons = TRUE
SPECIFICATION CmdSpec
PROPERTIES
  OnlyNamedDestroyed
CHECK_DEADLOCK FALSE
