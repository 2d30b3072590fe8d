SPECIFICATION FairSpec
CONSTANTS
  BOARD_SIZE = 4
  GOAL = 3
  Boards <- ThreeOrTwoLeft
  FIXED_SCALE_BITS = 7
  ITERATIONS = 10
  MaxRefusals = 1
  Positions <- FiveOrFourLeft
  Depths <- ToFour
  TieOrders <- BothOrders
  N_GAMES = 9
  LiveSets <- Neighbours
  Steps <- FirstAndLast
  MaxSec = 2
  CO_MAX = 4
  Cap = 2
  Messages = {"m1", "m2"}
  Rounds <- AllRounds
  StackFails = TRUE
  RL_FIXED_1 = 16
  LEARNING_RATE = 4
  GAMMA = 15
  InitialValues = {0, 1}
  OnWay = {1, 2}
  Won = 3
  Files <- ThreeFiles
  Viewers <- TwoViewers
  Keys <- StateKeys
  MaxRecords = 1
  OUTBUF_SIZE = 5
  FLUSH_THRESHOLD = 3
  WriteSizes = {1, 2, 4, 5, 6}
  PrintSizes = {1, 2, 3, 4, 5}
  MaxBytes = 11
INVARIANTS
  Unwound
  QuietWhenClosed
  GameTrue
  NegamaxTrue
  MctsTrue
  ValuesBounded
  ScreenTrue
  PauseAgrees
  OutbufTrue
  PoolConsistent
  ChannelDrains
PROPERTIES
  GamePlaysOn
  WinNeverLowered
  ChannelSpec
  KeysServed
