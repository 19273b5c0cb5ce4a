SPECIFICATION Spec
CONSTANTS
  Machines <- AllMachines
  Granularity <- Scaled
  ChunkBits = 4
  RirChunkBits = 5
  ClosePgShift = 1
  OpenPgShift = 2
  HoleBits = 6
  Writes = {1, 2}
  Addresses <- SomeAddresses
  adxl_component_count = 4
  component_indices <- Indices
  Absent <- IsAbsent
INVARIANTS
  TypeOK
  MadExact
  OneToOne
  OwnPlace
CHECK_DEADLOCK FALSE
