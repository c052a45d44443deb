\* One worker under systemd, schedules, a clock: what the services do on their own.
SPECIFICATION ServicesSpec
CONSTANTS
    Workers = {w1}
    Clients = {}
    Schedules = {s1}
    CronDue <- EveryMinute
    Threshold = 2
    Commands = {"add task", "add schedule"}
    MaxTasks = 5
    MaxRuns = 5
    MaxMinutes = 2
    MaxCommands = 1
    MaxCrashes = 2
INVARIANTS TypeOK FailingSchedulePauses RefiresNeedCrashes
PROPERTIES ImplementsLifecycle PendingTasksAreServed
CHECK_DEADLOCK FALSE
