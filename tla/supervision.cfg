SPECIFICATION FairSpec
CONSTANT MaxWorkers = 4
INVARIANTS OneSession StopReachesEveryone
PROPERTIES DeadWorkerReplaced 
CHECK_DEADLOCK FALSE
