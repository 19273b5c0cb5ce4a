SPECIFICATION FairSpec
CONSTANTS
  Machines <- SmallMachines
CHECK_DEADLOCK FALSE
INVARIANTS
  TypeOK
  RefsExact
  Complete
  AllOrNothing
PROPERTY ProbeEnds
