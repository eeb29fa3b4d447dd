SPECIFICATION FairSpec
CONSTANTS
  Files = {f1, f2}
  TableNames = {users, orders}
  FirstTables = {users}
  Keys <- MCKeys
  FirstKeys <- MCFirstKeys
  PageSize = 1
  NoFile = NoFile
  NoTable = NoTable
  NoFilter = NoFilter
  NoCell = NoCell
  NoDdl = NoDdl
  NoApply = NoApply
  MaxActs = 5
  MaxLoads = 2
  MaxLost = 1
  MaxTheirs = 1
INVARIANTS
  TypeOK
  GridShowsTheView
  SpinnerHasALoad
  OneEditPerRow
  InsertedOnce

PROPERTIES
  EventuallyIdle
CHECK_DEADLOCK FALSE
