\* One call, every kind of failure, every wait.
CONSTANTS
  NumRequests = 1
  MaxRetries = {0, 1, 3, 4}
  MinWaits = {0, 1, 2}
  Unset = Unset
  Request <- MCRequest
  RetryParams <- MCRetryParams
  Failures <- MCFailures
  TokenErrors <- MCTokenErrors
  RetryMaxAllowedNumber = 3
  DefaultMinWaitInMs = 2
  MaxBackoffTime = 12
  RetryHeaderMaxAllowableDuration = 20
SPECIFICATION FairSpec
INVARIANTS LoopInvariant WaitBounds ConfiguredLimit
PROPERTIES BackoffNeverShrinks ResendsOnlyRetryable EveryCallSettles ImplementsRemoteCall
CHECK_DEADLOCK FALSE
