SPECIFICATION FairSpec
CONSTANTS
  Chats      = {c1, c2}
  NRuns      = 2
  NMsgs      = 2
  InboxCap   = 1
  MaxTurns   = 1
  MaxCrashes = 0
  Features   = {"talk", "edit"}
PROPERTIES TalkEnds CutIsFinal
\* An idle control plane waits for a message: stopping is no deadlock.
CHECK_DEADLOCK FALSE
