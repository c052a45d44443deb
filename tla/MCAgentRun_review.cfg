\* A process that is killed in an iteration, and a resume.
SPECIFICATION SharedSpec
CONSTANTS
    Processes = {p1}
    MaxBudget = 1
    MaxIterations = 2
    MaxCommands = 1
    MaxCrashes = 1
INVARIANTS InterruptedEffectsAreReviewed
CHECK_DEADLOCK FALSE
