CONSTANTS
  NumRequests = 1
  MaxRetries = {0, 3, 4}
  MinWaits = {0, 2, 4}
  Unset = Unset
  Request <- MCRequest
  RetryParams <- MCNoRetryParams
  Failures <- MCFailures
  TokenErrors <- MCTokenErrors
  RetryMaxAllowedNumber = 3
  DefaultMinWaitInMs = 2
  MaxBackoffTime = 12
  RetryHeaderMaxAllowableDuration = 20
SPECIFICATION Spec
INVARIANTS DocumentedDefaultRetry
CHECK_DEADLOCK FALSE
