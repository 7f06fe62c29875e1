\* Four items, two at a time, in every order.
CONSTANTS
  Item = {i1, i2, i3, i4}
  Concurrency = 2
SPECIFICATION Spec
INVARIANTS PoolInvariant InFlightWithinLimit
CHECK_DEADLOCK FALSE
