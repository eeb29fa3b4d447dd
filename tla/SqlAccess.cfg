\* An SQLite file and a MySQL server: connections, batches and scripts that overlap.
CONSTANTS
  Handle = {"file", "server"}
  SqliteHandle = {"file"}
  MaxCommands = 3
  Request <- AllRequests
  MaxPools = 3
  MaxConnections = 2
  NoPool = NoPool
  Nobody = Nobody
  NoRequest = NoRequest
SPECIFICATION FairSpec
INVARIANTS
  TypeOK
  BatchesAreAtomic
  EveryConnectionHasItsCommand
  EveryPoolIsReachable
  IdleIsCleanUnlessTimedOut
PROPERTIES
  EveryCommandEnds
CHECK_DEADLOCK FALSE
