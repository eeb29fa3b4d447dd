SPECIFICATION FairSpec
CONSTANTS
  Conns = {local}
  Schemas = {shop, archive}
  TableNames = {orders, customers}
  DefaultTable = orders
  Filters = {paid}
  Queries = {select}
  Pages = 2
  NoDraft = NoDraft
  NoSession = NoSession
  NoSchema = NoSchema
  NoTable = NoTable
  NoFilter = NoFilter
  NoResult = NoResult
  NoSeeding = NoSeeding
  MaxActs = 4
  MaxSessions = 2
  MaxAttempts = 2
  MaxLoads = 2
INVARIANTS
  TypeOK
  RowsAreOfTheView
  SelectionIsConsistent
  EditsAreOfTheSelection
  ConnectionsHaveTheirUse
  NewestQueryWins
PROPERTY EventuallyIdle
CHECK_DEADLOCK FALSE
