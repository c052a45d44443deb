SPECIFICATION MCSpec
CONSTANTS
  ToolRuns = {t1}
  MaxCalls = 2
  MaxChanges = 2
  LessonRuns = {r1, r2}
  WorkflowRuns = {}
  GoalOf <- MCGoalOf
  Facts = {f1, f2}
  LayerChoices <- MCLayers
  MaxMemories = 2
  MaxPolicies = 2
  MaxFtsFailures = 1
  Goals <- MCGoals
  Histories <- MCHistories
  MaxIterations = 2
  MaxSwitches = 1
  Bot = bot
  Chats = {c1, c2}
  Members = {ann, bob}
  Local = local
  MaxActions = 1
  MaxMessages = 3
  MaxCrashes = 1
INVARIANTS RuntimeTypeOK   PromptsAreCurrent ConversationsMakeSense
 
CHECK_DEADLOCK FALSE
