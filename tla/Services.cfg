SPECIFICATION Spec
CONSTANTS
 NOps = 3 NBoxes = 2 BoxFaults = 1
 NEdits = 2 MaxTick = 2 MaxStops = 1 Schedules = {0, 1, 2}
 NCallers = 2 NSignIns = 2 MaxTokens = 3 MaxReboots = 1
 NChangers = 2 NTools = 2 MaxSnapFails = 1
 Files = {1, 2} Contents = {"a", "b"} Budget = 1 MaxLarge = 1 KeepLast = 3
 MaxAddFails = 1 MaxWrites = 3 MaxRestores = 1
 NFacts = 3 Said = {2} PartSize = 1 PartLimit = 2 MaxFailures = 1 MaxRelaunches = 1
 NBots = 2 MaxIssued = 2 OutboxCap = 1 MaxSlips = 2
CHECK_DEADLOCK FALSE
INVARIANTS
 BoxesSafe AutomationsSafe TokensSafe WorkspaceSafe DrivesSafe CollectorSafe
PROPERTIES
 ServicesGoOn
