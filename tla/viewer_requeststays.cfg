SPECIFICATION LoopFairSpec
CONSTANTS
  Viewers = {v1, v2}
  Keys = {"ctrl_p", "ctrl_q", "q", "w"}
  MaxRecords = 1
PROPERTY
  RequestStays
