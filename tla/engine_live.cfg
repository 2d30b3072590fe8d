CONSTANTS
  N_GRIDS = 2
  N_GAMES = 1
  Users = {u1}
  OpenOverlap = FALSE
  SoftirqOverlap = FALSE
  Lines <- MCLines
  Algs <- MCAlgs
  Settings <- MCSettings
SPECIFICATION FairSpec
PROPERTIES
  ReleaseReturns
  BusyEnds
  TimerGoesOn
  GamesGoOn
