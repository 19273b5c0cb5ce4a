SPECIFICATION FairSpec
CONSTANTS
  NChannel = 2
  NDword = 1
  CounterMod = 3
  SourceId <- TwoSockets
  Dom <- TwoAgents
  NumSockets = 2
  Cpus <- PlusCpus
  SocketOf <- PlusSocket
  HotCpus = {1}
  MaxErrors = 2
INVARIANTS
  TypeOK
  Ledger
  AddressFromOwnHomeAgent
PROPERTIES
  KeepsLedger
  LivesAsThread
  EveryErrorReported
  StopEnds
CHECK_DEADLOCK FALSE
