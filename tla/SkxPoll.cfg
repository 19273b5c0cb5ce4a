SPECIFICATION FairSpec
CONSTANTS
  NChannel = 2
  NDword = 1
  CounterMod = 3
  SourceId <- Sockets
  Dom <- Agents
  NumSockets = 2
  Cpus <- PlusCpus
  SocketOf <- Places
  HotCpus = {1}
  MaxErrors = 2
INVARIANTS
  TypeOK
  Accounted
  AddressFromOwnHomeAgent
PROPERTIES
  KeepsLedger
  LivesAsThread
  EveryErrorReported
CHECK_DEADLOCK FALSE
