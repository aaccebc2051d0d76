CONSTANTS
  MaxSlots = 4
  MaxVersion = 3
  Workers = {w1, w2}
  PreAllocatedAmount = 3
SPECIFICATION Spec
INVARIANTS
  TypeOK
  IssuedOnce
  SlotsKnown
  HeldOnce
  VersionsAdvance
  RetiredAreCounted
PROPERTIES
  HandlesLiveOnce
  PreAllocateIsTheLoop
CHECK_DEADLOCK FALSE
