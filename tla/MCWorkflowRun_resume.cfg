\* Two processes that resume and the bot, with answers, checkpoints, cancels and crashes.
SPECIFICATION Spec
CONSTANTS
    Library <- Workflows
    Mains = {"branching", "gated", "asking", "looping"}
    Resumers = {"cli", "api"}
    Bots = {"bot"}
    MaxCommands = 4
    MaxCrashes = 1
INVARIANTS TypeOK WaitingRunHasQuestion RepeatedEffectsNeedReruns BranchesRunAsSelected
CHECK_DEADLOCK FALSE
