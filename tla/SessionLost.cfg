SPECIFICATION Spec

CONSTANTS
  Files <- MCFiles
  Tables <- MCTables
  Keys <- MCKeys
  Pipelines <- MCPipelines
  StoredAtFirst <- MCStoredAtFirst
  f1 = f1
  f2 = f2
  t1 = t1
  t2 = t2
  k1 = k1
  Connection = Connection
  Target = Target
  MaxActs = 3
  MaxLaunches = 2
  NoPath = NoPath
  NoTable = NoTable
  NoSource = NoSource
  NoDraft = NoDraft
  NoSession = NoSession
  NoRestore = NoRestore
  NoName = NoName
  NoLimit = NoLimit
  Garbage = Garbage

CHECK_DEADLOCK FALSE
INVARIANTS
  EverySessionComesBack
