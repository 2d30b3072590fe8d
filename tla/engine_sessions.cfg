CONSTANTS
  N_GRIDS = 2
  N_GAMES = 1
  Users = {u1, u2}
  OpenOverlap = FALSE
  SoftirqOverlap = FALSE
  Lines <- MCLines
  Algs <- MCAlgs
  Settings <- MCSettings
SYMMETRY Perms
SPECIFICATION Spec
INVARIANTS
  EngineInv
  Quiescent
