CONSTANTS
  MaxSlots = 2
  MaxVersion = 2
  Components = {A}
  EnableAble = {}
  ChangeAble = {}
  Disabled = {}
  ChunkLen = 2
  Values = {v}
  MaxTick = 1
  MaxThreads = 2
  PreAllocatedAmount = 2
  MaxQueued = 2
  Ops = {"add", "merge", "remove"}
  CarefulDestroys = TRUE
  WithoutSingletons = TRUE
SPECIFICATION LiveCmdSpec
INVARIANTS
  CmdTypeOK
  OneHolder
  RowsMatchSpecs
PROPERTIES
  HandlesLiveOnce
  NoneFails
  OnlyNamedDestroyed
  AllApplied
CHECK_DEADLOCK FALSE
