CONSTANTS
  N_GRIDS = 4
  N_GAMES = 1
  Users = {u1}
  OpenOverlap = FALSE
  SoftirqOverlap = FALSE
  Lines <- MCLines
  Algs <- MCAlgs
  Settings <- MCSettings
SPECIFICATION Spec
INVARIANTS
  TypeOK
  SnapshotFresh
  BoardConsistent
  ShownReplayable
  EpisodeMatches
  Ownership
  FinishTrue
PROPERTY
  PlaySpec
