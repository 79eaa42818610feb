CONSTANTS
  PRICE_PRECISION = 2
  MaxDigits = 4
  MaxDecimals = 5
SPECIFICATION Spec
INVARIANTS
  CanonicalKept
  ValueKept
PROPERTY
  StableOnceInflated
