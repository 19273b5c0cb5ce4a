SPECIFICATION FairSpec
CONSTANTS
  Machines <- ServerMachine
CHECK_DEADLOCK FALSE
INVARIANT AllPut
