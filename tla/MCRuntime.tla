------------------------------- MODULE MCRuntime -------------------------------
(* Four components of the runtime that share no state here: a behaviour is  *)
(* that of the scene chosen at its start, with the inputs that matter to it.*)
EXTENDS ToolCalls, RuntimeMemory, Selection, Conversations

VARIABLE scene   \* what the behaviour is about

runtimeVars == <<scene, toolVars, lessonVars, selectionVars, conversationVars>>

MCGoalOf == [r \in LessonRuns |-> "g"]
MCLayers == {[scopes |-> {"episode"}], [scopes |-> {"project"}], [sources |-> {"agent_consolidator"}],
             [minConfidence |-> 90, include |-> FALSE], [maxItems |-> 5]}
OneRun == CHOOSE r \in LessonRuns : TRUE
OneFact == CHOOSE f \in Facts : TRUE

MCGoals == {{}, {"hello"}, {"ping", "test"}, {"destructive", "test"}, {"write"}, {"read", "path"},
            {"research"}, {"test", "code"}, {"file", "read"}, {"test", "then", "read", "path"},
            {"research", "read"}}
Clean == [c \in Capabilities |-> <<>>]
Tried(c, n, ok) == [Clean EXCEPT ![c] = [i \in 1..n |-> [goal |-> "code", ok |-> ok]]]
MCHistories == {Clean, Tried("git.status", 9, FALSE), Tried("code.local_task", 3, FALSE), Tried("shell.run", 8, FALSE),
                Tried("code.local_task", 8, TRUE), Tried("shell.run", 7, TRUE), Tried("research.report", 7, TRUE)}

\* Contracts and switches of one tool change.
ToolsStep ==
  /\ ToolsNext
  /\ \A t \in BuiltinTools \ {"http.request"} : contract'[t] = contract[t] /\ enabled'[t] = enabled[t]

LessonsStep ==
  \/ \E i \in Indices(memories) : ForgetMemory(i)
  \/ \E run \in LessonRuns, status \in {"completed", "failed"} :
       (run = OneRun \/ outcome[run] = "running") /\ EndRun(run, status)
  \/ \E run \in LessonRuns : outcome[run] # "running" /\ \E extracted \in Extractions(run) :
       \/ run = OneRun /\ ListCandidates(run, extracted)
       \/ run = OneRun /\ \E auto \in BOOLEAN : Consolidate(run, extracted, auto, NoDecision)
       \/ run # OneRun /\ \E d \in ModelDecisions : Consolidate(run, extracted, TRUE, d)

PromptsStep ==
  \/ \E m \in {<<"project", "manual", 40>>, <<"project", "manual", 100>>, <<"episode", "web", 100>>} :
       WriteMemory(m[1], m[2], m[3], OneFact)
  \/ \E i \in Indices(memories) : ForgetMemory(i) \/ ExpireMemory(i) \/ \E f \in Facts : EditMemory(i, f)
  \/ CompileDigest
  \/ EndRun(OneRun, "completed")
  \/ outcome[OneRun] # "running" /\ candidates = <<>> /\ \E extracted \in Extractions(OneRun) :
       extracted[1].content = {OneFact} /\ ~extracted[1].evidence /\ Consolidate(OneRun, extracted, TRUE, NoDecision)
  \/ memories # <<>> /\ \E layer \in {"global", "skill"}, policy \in LayerChoices : SetPolicy(layer, policy)

\* One run of the agent.
TurnStep ==
  \/ turn.status = "idle" /\ \E goal \in Goals : StartTurn(goal)
  \/ ResumeTurn
  \/ SelectAction
  \/ \E done, evidence \in BOOLEAN : (evidence => NeedsTestEvidence(turn.goal)) /\ ObserveResult(done, evidence)
  \/ turn.status = "running" /\ \E c \in {"shell.run", "git.status", "code.local_task", "web.search"} :
       SwitchCapability(c)

BotStep == ConversationsNext /\ (\A h \in Chats : hands'[h] = Idle) /\ ConversationsOf(Local)' = {}
\* Two chats that overlap, with one message each.
ChatStep ==
  /\ ConversationsNext /\ used' <= 2
  /\ hands'[Bot] = Idle /\ ConversationsOf(Local)' = DOMAIN conversations'

MCInit ==
  /\ scene \in {"tools", "lessons", "prompts", "turn", "bot", "chats"}
  /\ ToolsInit /\ LessonsInit /\ SelectionInit /\ ConversationsInit
  /\ (scene # "tools" => \A r \in ToolRuns : mode[r] = "normal")
  /\ (scene # "turn" => history = Clean /\ ~modelRoute)

MCNext ==
  /\ scene' = scene
  /\ \/ scene = "tools" /\ ToolsStep /\ UNCHANGED <<lessonVars, selectionVars, conversationVars>>
     \/ scene = "lessons" /\ LessonsStep /\ ftsFailures' = 0 /\ UNCHANGED <<toolVars, selectionVars, conversationVars>>
     \/ scene = "prompts" /\ PromptsStep /\ UNCHANGED <<toolVars, selectionVars, conversationVars>>
     \/ scene = "turn" /\ TurnStep /\ UNCHANGED <<toolVars, lessonVars, conversationVars>>
     \/ scene = "bot" /\ BotStep /\ UNCHANGED <<toolVars, lessonVars, selectionVars>>
     \/ scene = "chats" /\ ChatStep /\ UNCHANGED <<toolVars, lessonVars, selectionVars>>

MCSpec == MCInit /\ [][MCNext]_runtimeVars

\* Every component's variables have their types.
RuntimeTypeOK == ToolsTypeOK /\ LessonsTypeOK /\ SelectionTypeOK /\ ConversationsTypeOK
================================================================================
