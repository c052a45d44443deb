\* The owner approves an edge, and the index is synchronised.
SPECIFICATION SceneSpec
CONSTANTS
    Owners = {o1}
    Candidates = {1}
    Kinds = {"approve edge"}
    Jobs = {}
    MaxRecords = 2
    MaxEdges = 1
    MaxActions = 2
    MaxCrashes = 0
PROPERTIES EdgeStatesOnlyAdvance
CHECK_DEADLOCK FALSE
