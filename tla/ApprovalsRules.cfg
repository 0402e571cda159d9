SPECIFICATION Spec
CONSTANTS
  ToolCalls = {}
  RequestCalls = {q1, q2}
  NRuns = 0
  Chats = {c1}
  Scopes = {c1}
  NVotes = 1
  MaxChanges = 2
  MaxStops = 0
  MaxCrashes = 0
  Fallback = "ask"
  RuleModes = {"auto", "deny"}
INVARIANTS NeverBelowFloor
\* Nobody has to ask, vote or change a rule: stopping is no deadlock.
CHECK_DEADLOCK FALSE
