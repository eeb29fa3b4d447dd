SPECIFICATION Spec
CONSTANTS
  Files = {f1}
  TableNames = {users}
  FirstTables = {users}
  Keys <- MCFirstKeys
  FirstKeys <- MCFirstKeys
  PageSize = 1
  NoFile = NoFile
  NoTable = NoTable
  NoFilter = NoFilter
  NoCell = NoCell
  NoDdl = NoDdl
  NoApply = NoApply
  MaxActs = 5
  MaxLoads = 1
  MaxLost = 0
  MaxTheirs = 1
PROPERTIES
  ChangedRowsAreLeftAlone
CHECK_DEADLOCK FALSE
