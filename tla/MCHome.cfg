\* Initialisation: three processes that start together; one may be killed, lock files may grow
\* old twice.  Skills: two markets that offer one skill.  Cleanup: two executions of plans.
SPECIFICATION MCSpec
CONSTANTS
    Processes = {p1, p2, p3}
    Columns = {c1, c2}
    MaxCrashes = 1
    MaxExpiries = 2
    Markets = {m1, m2}
    Skills = {s1}
    SkillOf <- MCSkillOf
    MaxVersion = 2
    Broken = Broken
    Empty = Empty
    Gone = Gone
    MaxEdits = 2
    MaxSkillCrashes = 1
    HomeRuns = {r1}
    Artifacts = {a1}
    MaxCheckpoints = 3
    MaxCleanups = 2
    Knobs = {"session_scoped_recent_events", "recent_cross_session_enabled", "recent_cross_session_max_items", "graph_layer_injection_enabled"}
    Offered = {1, 2}
    Allowed <- MCAllowed
    Default <- MCDefault
    Deciders = {d1, d2}
    MaxOverrides = 3
    MaxKnobDay = 2
    CrystalRecords = {1, 2, 3, 4, 5}
    ProvisionalOnes = {4, 5}
    Recurrence <- MCRecurrence
    ExpiryOf <- MCExpiryOf
    SeedSlots <- MCSeedSlots
    MaxTotal = 3
    MaxProvisional = 1
    MaxContinuity = 2
    HitLimit = 3
    PastSessions = {"s1", "s2"}
    MaxEventsStored = 3
    MaxHomeChanges = 1
    Clues <- MCClues
    TermsOf <- MCTermsOf
    Mechanistic = {"mixer"}
    NonTopic = {"upload"}
    TailOf <- MCTailOf
    CorrectionTail <- MCCorrectionTail
    CandidateLimits = {2, 3}
    MaxClues = 3
INVARIANTS HomeTypeOK InitialisationIsSound EnabledSkillsLoad ReferencedDataIsKept OverridesAreObeyed 
SYMMETRY MCSymmetry
CHECK_DEADLOCK FALSE
