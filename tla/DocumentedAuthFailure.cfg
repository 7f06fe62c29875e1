\* The token issuer answers 404.
CONSTANTS
  t1 = t1
  t2 = t2
  t3 = t3
  t4 = t4
  s1 = s1
  m1 = m1
  bad = bad
  MaxRetry = 1
  Tuple <- MCTuple
  Writes <- MCTwoWrites
  Deletes <- MCDeletes
  MaxPerChunk = 1
  MaxParallelRequests = 2
  Modes = {TRUE}
  Conflicts <- MCBothPolicies
  Stores <- MCStoresOther
  Ids <- MCGoodIds
  Malformed <- MCMalformed
  Rejections <- MCRejections
  TokenErrors <- MCIssuerErrors
  RetryParams <- MCRetryParams
  Unset = Unset
  RetryMaxAllowedNumber = 15
  DefaultMinWaitInMs = 1
  MaxBackoffTime = 1
  RetryHeaderMaxAllowableDuration = 1
SPECIFICATION Spec
INVARIANTS DocumentedAuthFailureThrows
CHECK_DEADLOCK FALSE
