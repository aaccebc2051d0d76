CONSTANTS
  A = A
  B = B
  MaxSlots = 2
  MaxVersion = 1
  Components = {A, B}
  EnableAble = {B}
  ChangeAble = {}
  Disabled = {}
  ChunkLen = 2
  Values = {v}
  MaxTick = 1
  BITS_PER_WORD = 1
  Tuples <- MCTuples
  Queries <- MCQueries
  CarefulWalks = TRUE
CONSTRAINT FewArchetypes
SPECIFICATION WalkSpec
INVARIANTS
  WalkTypeOK
  RegistriesAgree
  CacheExact
  PreparedInTime
  WalkExact
CHECK_DEADLOCK FALSE
