\* One step of every type; two of them in a pipeline.
CONSTANTS
  Ids <- MCIds
  KindOf <- MCKindOf
  Tables = {"t1", "t2"}
  SavedQueries <- MCSaved
  Untyped = Untyped
  HistoryCap = 3
  MaxSteps = 2
  MaxActs = 5
SPECIFICATION Spec
INVARIANTS
  TypeOK
PROPERTIES
  CardsFollowTheirSteps
CHECK_DEADLOCK FALSE
