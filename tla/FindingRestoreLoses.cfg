SPECIFICATION HistorySpec
CONSTANTS
 Files = {1, 2} Contents = {"a", "b"} Budget = 2 MaxLarge = 2 KeepLast = 3
 MaxAddFails = 1 MaxWrites = 3 MaxRestores = 1
CHECK_DEADLOCK FALSE
INVARIANTS
 RestoreKeeps
