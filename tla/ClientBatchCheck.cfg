\* listRelations and clientBatchCheck of three checks, two at a time, while the
\* application sets client.storeId once.
CONSTANTS
  c1 = c1
  c2 = c2
  c3 = c3
  Unset = Unset
  Check <- MCCheck
  Bodies <- MCBodies
  Methods = {"clientBatchCheck", "listRelations"}
  MaxParallelRequests = 2
  ClientStoreIds = {s1, s3, bad}
  MaxChanges = 1
  OptionStoreIds = {Unset, s2}
  Malformed = {bad}
  Errors <- MCErrors
SPECIFICATION Spec
INVARIANTS TypeOK EachCheckHasItsResult RelationsAreJustified AuthenticationEndsTheCall SplitFollowsTheClient
CHECK_DEADLOCK FALSE
