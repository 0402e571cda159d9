SPECIFICATION FairSpec
CONSTANTS
  ToolCalls = {t1}
  RequestCalls = {}
  NRuns = 1
  Chats = {c1}
  Scopes = {c1, "whole bot"}
  NVotes = 2
  MaxChanges = 0
  MaxStops = 2
  MaxCrashes = 1
  Fallback = "ask"
  RuleModes = {}
INVARIANTS TypeOK PendingHasCaller AskedNeedsYes ReceiptFirst
PROPERTIES ImplementsGate WaitEnds
\* Nobody has to ask, vote or change a rule: stopping is no deadlock.
CHECK_DEADLOCK FALSE
