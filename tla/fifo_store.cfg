SPECIFICATION FifoStoreSpec
CONSTANTS
  Writers <- MCWriters
  Readers <- MCReaders
  NonBlocking <- MCNonBlocking
  Careless <- MCCareless
  Faulting <- MCCareless
  RecordBytes = 2
  FifoBytes = 4
  IndexRange = 8
  Counts = {0, 2, 3, 4}
  N_GRIDS = 3
  Lines <- OneLine
  MAX_STATES = 4
  N_GAMES = 1
  FIXED_1 = 2
  EXP_1 = 1
  avg_period = 2
  MaxDelay = 1
  MaxSpan = 66
  MaxElapsed = 4
INVARIANTS
  WholeRecords
  SleeperWoken
  StoreTrue
  WorkCounted
  ShownTrue
  CopyMixesTwo
PROPERTIES
  StreamSpec
  BytesAccounted
  ReaderServed
CHECK_DEADLOCK FALSE
