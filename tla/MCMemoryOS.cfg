SPECIFICATION MCSpec
CONSTANTS
  p1 = p1
  p2 = p2
  Proposals = {p1, p2}
  KindChoices <- MCKinds
  Pasts <- MCPasts
  ReadyChoices <- MCReady
  Hands = {h1, h2}
  MaxJobs = 3
  MaxProposalCrashes = 1
  Providers = {h1, h2}
  Topics = {"a", "b"}
  QueueSize = 2
  MaxTurns = 3
  MaxInits = 2
  MaxProviderCrashes = 1
  Reviewed = {1, 2, 3, 4, 5}
  Sources = {9}
  KindOf <- MCReviewed
  Channels = {"home", "cli"}
  Home = "home"
  Replying = {h1, h2}
  Sending = {h1, h2}
  DeliveryKeys = {"k1", "k2"}
  ActionDays = 0
  FyiDays = 1
  LifeDays = 2
  Limits <- MCLimits
  MaxDay = 2
  MaxDigests = 2
  MaxReplies = 2
  MaxDigestCrashes = 1
  Events = {1, 2, 3}
  EventKind <- MCEvents
  Beating = {h1, h2}
  MaxEvents = 2
  SourceCap = 1
  WorkingCap = 1
  RetentionTime = 1
  MaxTime = 5
  MaxBeats = 3
  MaxBeatFaults = 1
  Runners = {h1, h2}
  Sessions = {1, 2}
  Signals = {s1}
  ApprovedSessions = 1
  PermitTime = 1
  MaxGateTime = 1
  MaxPermits = 2
  MaxContents = 2
  MaxSignals = 2
  MaxLaneFaults = 1
SYMMETRY MCSymmetry
INVARIANTS MemoryOSTypeOK ProposalsAreGoverned  DigestsAreAnswered EventsAreDrivenOnce 
CHECK_DEADLOCK FALSE
