CONSTANTS
  armor = armor
  speed = speed
  bump_armor = bump_armor
  bump_speed = bump_speed
  after = after
  rare = rare
  TickRange = 7
  MaxAge = 6
  Cells = {armor, speed}
  Systems = {bump_armor, bump_speed, after, rare}
  Sessions = {"update", "late"}
  Schedule <- MCSchedule
  Reads <- MCReads
  Writes <- MCWrites
SPECIFICATION Spec
INVARIANTS
  TypeOK
  NothingTwice
  StepWritesSeen
  QueryExact
