SPECIFICATION FairSpec
CONSTANTS
  Chats      = {c1}
  NRuns      = 2
  NMsgs      = 3
  InboxCap   = 1
  MaxTurns   = 1
  MaxCrashes = 0
  Features   = {"spoken", "ask"}
INVARIANTS EngineSafe ClosedInboxIsEmpty MessagesRead ReplayExact
PROPERTIES AcceptedIsRead
\* An idle control plane waits for a message: stopping is no deadlock.
CHECK_DEADLOCK FALSE
