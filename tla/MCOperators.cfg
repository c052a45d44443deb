\* Decisions on waiting runs; a command line process beside the worker.
SPECIFICATION OperatorSpec
CONSTANTS
    Workers = {w1}
    Clients = {c1}
    Schedules = {s1}
    CronDue <- EveryMinute
    Threshold = 2
    Commands = {"add task", "resume task", "run task", "approve", "reject", "answer", "cancel run", "remove schedule", "run schedule", "tick"}
    MaxOperatorCommands = 2
    MaxTasks = 3
    MaxRuns = 3
    MaxMinutes = 1
    MaxCommands = 5
    MaxCrashes = 2
INVARIANTS OrphansNeedCrashes 
 
CHECK_DEADLOCK FALSE
