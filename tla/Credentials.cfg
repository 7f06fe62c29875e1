\* Three overlapping calls, safety only, so that the callers may be permuted.
CONSTANTS
  Caller = {c1, c2, c3}
  MaxTime = 3
  Lifetimes = {0, 2}
  MaxRetry = 1
  Unset = Unset
  Failures <- MCFailures
SPECIFICATION Spec
SYMMETRY Symmetry
INVARIANTS TokenInvariant
PROPERTIES LiveTokenLostOnlyToOverlap
CHECK_DEADLOCK FALSE
