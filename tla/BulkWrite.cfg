\* Both modes: a chunk of two writes and one of one, which run together, and then the
\* delete of one of the tuples; ids that are usable, a malformed model id, no store id; fairness.
CONSTANTS
  t1 = t1
  t2 = t2
  t3 = t3
  t4 = t4
  s1 = s1
  m1 = m1
  bad = bad
  MaxRetry = 1
  Tuple <- MCTuple
  Writes <- MCWrites
  Deletes <- MCDeletes
  MaxPerChunk = 2
  MaxParallelRequests = 2
  Modes = {TRUE, FALSE}
  Conflicts <- MCBothPolicies
  Stores = {{}}
  Ids <- MCIds
  Malformed <- MCMalformed
  Rejections <- MCUnauthorized
  TokenErrors <- MCTokenErrors
  RetryParams <- MCRetryParams
  Unset = Unset
  RetryMaxAllowedNumber = 15
  DefaultMinWaitInMs = 1
  MaxBackoffTime = 1
  RetryHeaderMaxAllowableDuration = 1
SPECIFICATION FairSpec
INVARIANTS TypeOK SuccessWasAccepted DeletedTupleReturnsOnlyLate OnlyAuthenticationThrows IgnoreMakesRetrySafe ResultIsComplete
PROPERTIES WriteSettles
CHECK_DEADLOCK FALSE
