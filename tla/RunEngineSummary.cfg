SPECIFICATION Spec
CONSTANTS
  Chats      = {c1}
  NRuns      = 2
  NMsgs      = 3
  InboxCap   = 2
  MaxTurns   = 0
  MaxCrashes = 0
  Features   = {"auto", "overflow"}
INVARIANTS NoMessageForgotten
PROPERTIES NoOvertaking
\* An idle control plane waits for a message: stopping is no deadlock.
CHECK_DEADLOCK FALSE
