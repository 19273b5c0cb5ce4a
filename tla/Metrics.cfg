SPECIFICATION FairSpec
CONSTANTS
  Commands = {1, 2}
  Tables <- AllTables
  Values = {0, 1}
  MaxCopies = 2
  Measurements <- AllMeasurements
  LowSize = 2
  HighSize = 2
  MaxCount = 2
INVARIANTS
  TypeOK
  CsvCurrent
PROPERTIES
  CountsExact
  Serves
