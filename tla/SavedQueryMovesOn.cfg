\* A saved query whose table is still being counted when the user moves on.
CONSTANTS
  Paths = {"db1", "db2"}
  TableNames = {"orders", "returns"}
  Step = {"blank", "join", "param"}
  NewSteps = {"blank"}
  Values = {"unset", "typed"}
  Unset = "unset"
  Compiled <- MCCompiled
  SavedQueries <- OneSaved
  SessionPipelines <- NoPipelines
  HistoryCap = 2
  MaxSteps = 1
  MaxRuns = 3
  NoSource = NoSource
  NoEntry = NoEntry
  NoQuery = NoQuery
  NoRestore = NoRestore
  NoBasis = NoBasis
  NoCount = NoCount
SPECIFICATION Spec
PROPERTIES
  SavedQueryLandsInItsDatabase
CHECK_DEADLOCK FALSE
