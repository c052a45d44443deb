\* Two processes of the owner; one of them beside the cognitive loop.
SPECIFICATION SceneSpec
CONSTANTS
    Owners = {o1, o2}
    Candidates = {1, 2}
    Kinds = {"approve cluster", "approve candidate", "reject candidate", "revoke", "demote", "confirm", "reject provisional", "confirm by reply", "approve edge", "reject edge"}
    Jobs = {"promote", "expire"}
    MaxRecords = 2
    MaxEdges = 1
    MaxActions = 2
    MaxCrashes = 1
INVARIANTS TypeOK   RevokedHasNoActiveEdges IndexIsRebuildable
CHECK_DEADLOCK FALSE
