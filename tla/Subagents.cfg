CONSTANTS
  NSubs = 2
  NRuns = 2
  NLeads = 2
  NCalls = 3
  MaxLive = 2
  MaxDue = 1
  MaxUpsets = 1
SPECIFICATION Spec
CHECK_DEADLOCK FALSE
INVARIANTS OneLead ToldOnce NoLostWakeup RunningIsBacked WakeIsOwed
PROPERTIES ResultReachesLead
