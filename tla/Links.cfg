SPECIFICATION Spec
CONSTANTS
 NSessions = 2 NCommands = 2 SendCap = 1 MaxHubDrops = 1
 NViewers = 2 NLaneStreams = 2 NFrames = 2 LaneCap = 1
 NDials = 2
 NEvents = 3 Messages = {2} BusCap = 1 MaxDrops = 1 MaxCuts = 1
 NPolicies = 2 NLinks = 3 DownCap = 1 MaxRenderFails = 1 MaxBreaks = 1
 NReports = 3 NUplinks = 3 ReportCap = 2 MaxLosses = 2
 NEditors = 2 NInbound = 3 WithFiles = {1} SeenCap = 2 MaxRepeats = 1 MaxWorkerEnds = 1
 NAnswers = 2 NPieces = 2 NTurns = 2 TurnCap = 1 FeedCap = 1
CHECK_DEADLOCK FALSE
INVARIANTS
 SessionsSafe LanesSafe DialsSafe ViewersSafe GatewaySafe PeopleSafe
PROPERTIES
 WaitsEnd FollowersCatchUp
