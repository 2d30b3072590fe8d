CONSTANTS
  N_GRIDS = 2
  N_GAMES = 1
  Users = {u1, u2}
  OpenOverlap = TRUE
  SoftirqOverlap = FALSE
  Lines <- MCLines
  Algs <- MCAlgs
  Settings <- MCSettings
SYMMETRY Perms
SPECIFICATION Spec
INVARIANT BoardConsistent
