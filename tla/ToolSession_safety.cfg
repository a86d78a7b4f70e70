SPECIFICATION Spec
CONSTANTS
  Calls = {c1, c2}
  MaxWorkers = 2
  MaxFrames = 1
  ChannelSize = 1
CHECK_DEADLOCK FALSE
INVARIANTS  FailedServePoisons 
PROPERTIES HarmlessFailureSpares 
