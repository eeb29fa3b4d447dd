\* What the time limit leaves behind in the pool.
CONSTANTS
  Handle = {"file", "server"}
  SqliteHandle = {"file"}
  MaxCommands = 2
  Request <- FileRequests
  MaxPools = 2
  MaxConnections = 1
  NoPool = NoPool
  Nobody = Nobody
  NoRequest = NoRequest
SPECIFICATION Spec
INVARIANTS
  IdleIsClean
CHECK_DEADLOCK FALSE
