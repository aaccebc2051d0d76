CONSTANTS
  Components = {A, B}
  Systems = {s1, s2}
  GroupLen = 3
  MaxParams = 3
  MaxItems = 2
SYMMETRY GroupSymmetry
SPECIFICATION Spec
INVARIANTS
  TypeOK
  NothingAliases
  JobsDontRace
  OnlyRacesRejected
CHECK_DEADLOCK FALSE
