SPECIFICATION FairSpec
CONSTANTS
    Writers = {w1, w2}
    Chats = {c1}
    Actions = {"NULL", "OPENED", "SL", "FAILED"}
    Idle = Idle
    MaxRevision = 3
    MaxAttempts = 2
    MaxFaults = 2
    MaxDeletions = 1
    MaxCrashes = 1
INVARIANTS HeadlineTellsPosition 
  
CHECK_DEADLOCK FALSE
