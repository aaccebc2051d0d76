CONSTANTS
  MaxSlots = 2
  MaxVersion = 1
  Components = {A, B}
  EnableAble = {A}
  ChangeAble = {A}
  ChunkLen = 2
  Values = {v1, v2}
  Disabled = {v2}
  MaxTick = 2
CONSTRAINT DefaultArchetypes
SPECIFICATION Spec
PROPERTIES
  StoresEntities
CHECK_DEADLOCK FALSE
