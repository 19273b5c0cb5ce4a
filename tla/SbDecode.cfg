SPECIFICATION Spec
CONSTANTS
  ChunkBits = 7
  LineMiB = 4
  Machines <- AllMachines
  XorBit = 4
  HashBits <- Pairs
  RirBits = 7
  OpenPgShift = 5
  HoleBits = 9
  IntLines = 1024
  Errors <- SomeErrors
INVARIANTS
  TypeOK
  MemoryMapped
  ReportsPlace
CHECK_DEADLOCK FALSE
