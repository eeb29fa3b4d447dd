\* One table: edits, undo and variables while previews are on their way.
CONSTANTS
  Paths = {"db1"}
  TableNames = {"orders"}
  Step = {"blank", "join", "byJoined"}
  NewSteps = {"blank"}
  Values = {"unset"}
  Unset = "unset"
  Compiled <- MCCompiled
  SavedQueries <- NoPipelines
  SessionPipelines <- NoPipelines
  HistoryCap = 3
  MaxSteps = 3
  MaxRuns = 6
  NoSource = NoSource
  NoEntry = NoEntry
  NoQuery = NoQuery
  NoRestore = NoRestore
  NoBasis = NoBasis
  NoCount = NoCount
SPECIFICATION Spec
INVARIANTS
  TypeOK
  ResultsMatchPipeline
  BlockedBehindError
  LoadingOnlyAhead
PROPERTIES
  UndoSpec
CHECK_DEADLOCK FALSE
