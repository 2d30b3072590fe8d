CONSTANTS
  N_GRIDS = 3
  MAX_STATES = 4
  Lines <- MCLines
SPECIFICATION StoreSpec
INVARIANT
  LruEviction
