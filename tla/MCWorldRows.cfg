CONSTANTS
  MaxSlots = 3
  MaxVersion = 1
  Components = {A, B}
  EnableAble = {}
  ChangeAble = {}
  Disabled = {}
  ChunkLen = 2
  Values = {v}
  MaxTick = 1
CONSTRAINT FewArchetypes
SYMMETRY ComponentSymmetry
SPECIFICATION Spec
INVARIANTS
  TypeOK
  RowsMatchSpecs
  FreeChunksExact
PROPERTIES
  LocksHold
  OnlyRefusedCreateLoses
CHECK_DEADLOCK FALSE
