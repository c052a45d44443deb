\* Two processes that may work on the run at once, killed and started again, and an operator.
SPECIFICATION SharedSpec
CONSTANTS
    Processes = {p1, p2}
    MaxBudget = 1
    MaxIterations = 4
    MaxCommands = 2
    MaxCrashes = 1
INVARIANTS TypeOK OrphanIterationsNeedCrashes  TurnsKeepOrder
 
CHECK_DEADLOCK FALSE
