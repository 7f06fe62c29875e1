\* One of the checks is refused by the server.
CONSTANTS
  c1 = c1
  c2 = c2
  c3 = c3
  Unset = Unset
  Check <- MCCheck
  Bodies <- MCBodies
  Methods = {"clientBatchCheck", "listRelations"}
  MaxParallelRequests = 2
  ClientStoreIds = {s1, bad}
  MaxChanges = 1
  OptionStoreIds = {Unset, s2}
  Malformed = {bad}
  Errors <- MCErrors
SPECIFICATION Spec
INVARIANTS DocumentedAllowedFalse
CHECK_DEADLOCK FALSE
