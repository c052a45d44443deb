\* A condition, and a question in one of its branches that is answered.
SPECIFICATION Spec
CONSTANTS
    Library <- Workflows
    Mains = {"branching"}
    Resumers = {"cli"}
    Bots = {}
    MaxCommands = 1
    MaxCrashes = 0
INVARIANTS OnlySelectedBranchRuns
CHECK_DEADLOCK FALSE
