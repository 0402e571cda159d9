SPECIFICATION Spec
CONSTANTS
  Chats      = {c1}
  NRuns      = 2
  NMsgs      = 2
  InboxCap   = 1
  MaxTurns   = 0
  MaxCrashes = 1
  Features   = {"stop", "timeout", "error", "compact", "clear", "wipe"}
INVARIANTS OneLiveRun RunningHasRunner RowTellsOutcome
\* An idle control plane waits for a message: stopping is no deadlock.
CHECK_DEADLOCK FALSE
