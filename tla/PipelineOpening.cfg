\* Tables of two databases, saved queries and a restored session, above tables that are
\* altered; the columns and the ordering the compiler tells of.
CONSTANTS
  Paths = {"db1", "db2"}
  TableNames = {"orders", "returns"}
  Step = {"blank", "join", "param"}
  NewSteps = {"blank"}
  Values = {"unset", "typed"}
  Unset = "unset"
  Compiled <- MCCompiled
  Content <- MCContent
  DialectOf <- MCDialectOf
  Assigned <- MCAssigned
  AllTables <- MCAllTables
  ListedTables <- Listing
  InitialColumns <- TableColumns
  Alterations <- MCAlterations
  Samples <- Upto3
  SavedQueries <- OneSaved
  SessionPipelines <- OneSession
  HistoryCap = 2
  MaxSteps = 2
  MaxRuns = 4
  NoSource = NoSource
  NoEntry = NoEntry
  NoQuery = NoQuery
  NoRestore = NoRestore
  NoBasis = NoBasis
  NoCount = NoCount
SPECIFICATION CompiledFairSpec
INVARIANTS
  RowCountOfSource
  PendingRestoreIsElsewhere
  ColumnsAreTracked
  OrderingSurvives
PROPERTIES
  EventuallySettled
CHECK_DEADLOCK FALSE
