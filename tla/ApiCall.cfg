\* Two calls, one of two requests; see MCApiCall for the scenarios.
CONSTANTS
  k1 = k1
  k2 = k2
  r1 = r1
  r2 = r2
  r3 = r3
  o1 = o1
  o2 = o2
  host = host
  store = store
  Malformed = Malformed
  Unset = Unset
  Empty = Empty
  CallId = {k1, k2}
  Request = {r1, r2, r3}
  Object = {o1, o2}
  Host = {host}
  Ulid = {store}
  RetryLimit = 15
  Scenarios <- MCScenarios
  MaxTime = 2
  Lifetimes = {0, 1}
  IssuerFailures <- MCIssuerFailures
  ExchangeRetries = 1
  Failures <- MCFailures
  RetryParams <- MCRetryParams
  DefaultMinWaitInMs = 1
  MaxBackoffTime = 1
  RetryHeaderMaxAllowableDuration = 1
SPECIFICATION Spec
INVARIANTS TypeOK RequestsCarryLiveTokens RefusedOnlyForEndedToken BulkCallsKeepTheirId UrlWasValidated MeasuredAsConfigured AnsweredMeansFulfilled
CHECK_DEADLOCK FALSE
