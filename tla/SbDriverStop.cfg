SPECIFICATION FairSpec
CONSTANT MaxMc = 1
CHECK_DEADLOCK FALSE
PROPERTY ExitUnregisters
