SPECIFICATION ChannelsSpec
CONSTANTS
  NEditors = 2
  NInbound = 3
  WithFiles = {1}
  SeenCap = 2
  MaxRepeats = 1
  MaxWorkerEnds = 1
CHECK_DEADLOCK FALSE
INVARIANTS ListenerCanSend
