SPECIFICATION FairSpec
CONSTANTS
  Machines <- AllMachines
  MaxRefs = 2
INVARIANTS
  TypeOK
  RefsExact
  SocketsWhole
  NoUseAfterFree
  FreedOnce
  LeavesNothing
PROPERTY Ends
CHECK_DEADLOCK FALSE
