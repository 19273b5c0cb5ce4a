SPECIFICATION Spec
CONSTANTS
  NChannel = 2
  NDword = 1
  CounterMod = 3
  SourceId <- TwoSockets
  Dom <- TwoAgents
  NumSockets = 2
  Cpus <- SmtCpus
  SocketOf <- SmtSocket
  HotCpus = {}
  MaxErrors = 4
INVARIANT LinesAreErrors
CHECK_DEADLOCK FALSE
