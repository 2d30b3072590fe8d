SPECIFICATION LoopFairSpec
CONSTANTS
  Viewers = {v1, v2}
  Keys = {"ctrl_q"}
  MaxRecords = 1
PROPERTY
  TerminateWorks
