SPECIFICATION FairSpec
CONSTANT MaxMc = 4
CHECK_DEADLOCK FALSE
INVARIANTS
  TypeOK
  NoUseAfterFree
PROPERTIES
  UnloadUnregisters
  UnloadEnds
