SPECIFICATION UctSpec
CONSTANTS
  FIXED_SCALE_BITS = 7
  ITERATIONS = 100
INVARIANT VisitsBalance
