\* Two overlapping calls of any two methods.
CONSTANTS
  c1 = c1
  c2 = c2
  s1 = s1
  s2 = s2
  s3 = s3
  s4 = s4
  s5 = s5
  s6 = s6
  m1 = m1
  m2 = m2
  m3 = m3
  m4 = m4
  m5 = m5
  m6 = m6
  bad = bad
  MaxRetry = 1
  CallId <- MCCall
  Programs <- MCPrograms
  StoreId <- MCStoreId
  ModelId <- MCModelId
  Malformed <- MCMalformed
  ClientStoreIds <- MCClientStoreIds
  ClientModelIds <- MCClientModelIds
  FirstModels <- MCFirstModels
  MaxChanges = 1
  Rejections <- MCRejections
  TokenErrors = {}
  RetryParams <- MCRetryParams
  Unset = Unset
  Empty = Empty
  RetryMaxAllowedNumber = 15
  DefaultMinWaitInMs = 1
  MaxBackoffTime = 1
  RetryHeaderMaxAllowableDuration = 1
SPECIFICATION Spec
SYMMETRY MCSymmetry
INVARIANTS TypeOK DeletesHitTheirStore MadeIsReturned CallsTouchOnlyTheirStore LatestWasLatest AssertionsKeepCallOrder FulfilledMeansFound
CHECK_DEADLOCK FALSE
