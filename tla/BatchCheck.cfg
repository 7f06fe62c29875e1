\* Three checks in batches of two; ids given, generated or made without randomness.
CONSTANTS
  o1 = o1
  o2 = o2
  o3 = o3
  Unset = Unset
  Object <- MCObject
  Bodies <- MCBodies
  GivenId = {x, y}
  MaxBatchSize = 2
  MaxParallelRequests = 2
  MaxBatches = 2
  HasRandomness = {TRUE, FALSE}
  ModelIds = {m1}
  Errors <- MCErrors
SPECIFICATION Spec
INVARIANTS TypeOK EveryCheckIsAnswered OnlyDuplicatesAreRefused
CHECK_DEADLOCK FALSE
