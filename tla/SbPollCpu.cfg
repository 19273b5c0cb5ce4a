SPECIFICATION Spec
CONSTANTS
  NChannel = 2
  NDword = 1
  CounterMod = 3
  SourceId <- TwoSockets
  Dom <- TwoAgents
  NumSockets = 2
  Cpus <- NoSmtCpus
  SocketOf <- NoSmtSocket
  HotCpus = {}
  MaxErrors = 1
INVARIANT CpuOnSocket
CHECK_DEADLOCK FALSE
