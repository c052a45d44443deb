------------------------------- MODULE Selection -------------------------------
(***************************************************************************)
(* What an agent run does next (core/goal_analyzer.py, intent_router.py,   *)
(* capabilities.py, agent_selector.py, agent_evaluator.py,                 *)
(* effectiveness.py).  A goal is a set of words.  The rules, or a model    *)
(* when a route for it exists, decide the intent, which a gate may stop;   *)
(* then every iteration scores the enabled skills and tools, takes the     *)
(* best, judges what it returned and remembers how it went.                *)
(* Scores are in thousandths.                                              *)
(***************************************************************************)
EXTENDS Integers, Sequences, FiniteSets

CONSTANTS
  Goals,           \* sets of words
  Histories,       \* what is remembered of the capabilities at first
  MaxIterations,   \* the limit of a run
  MaxSwitches      \* bound: capabilities switched on or off

Skills == {"research.report", "code.local_task", "file.workspace_ops"}
Tools == {"fs.list", "fs.read_text", "git.status", "shell.run", "tools.discover", "web.fetch", "web.search"}
Capabilities == Skills \cup Tools
HighSideEffects == {"shell.run"}
Chat == "simple_chat"
Nothing == "nothing"
Events == [goal : {"code", "general"}, ok : BOOLEAN]   \* what record_effectiveness_event writes

ASSUME SelectionAssumption ==
  /\ MaxIterations \in Nat \ {0} /\ MaxSwitches \in Nat
  /\ Histories \subseteq [Capabilities -> Seq(Events)]

\* The names, in the order that breaks ties.
ByName == <<"code.local_task", "file.workspace_ops", "fs.list", "fs.read_text", "git.status",
            "research.report", "shell.run", "tools.discover", "web.fetch", "web.search">>
Rank(c) == CHOOSE i \in 1..Len(ByName) : ByName[i] = c

\* The words that name, description and triggers contain.
Mentions(c) ==
  CASE c = "research.report" -> {"research"} [] c = "code.local_task" -> {"code"}
    [] c = "file.workspace_ops" -> {"file"} [] c = "fs.read_text" -> {"read"} [] OTHER -> {}
Triggers(s) ==
  CASE s = "research.report" -> {"research"} [] s = "code.local_task" -> {"code", "test"}
    [] s = "file.workspace_ops" -> {"file"}

VARIABLES
  usable,    \* tool_manifests.enabled, skills.enabled
  history,    \* capability_effectiveness_events: for a capability, what became of it
  modelRoute, \* there is a model route for intent_classify
  turn,       \* the agent run
  switches    \* bound

selectionVars == <<usable, history, modelRoute, turn, switches>>

NoIntent == [type |-> "none", weights |-> [c \in {} |-> 0], tools |-> {}]
NoTurn == [goal |-> {}, status |-> "idle", iteration |-> 0, limit |-> 0,
           seen |-> <<>>, intent |-> NoIntent, selected |-> Nothing]

SelectionInit ==
  /\ usable = [c \in Capabilities |-> TRUE]
  /\ history \in Histories
  /\ modelRoute \in BOOLEAN
  /\ turn = NoTurn /\ switches = 0

Has(goal, words) == goal \cap words # {}

(***************************************************************************)
(* The intent: weights are the scores, in percent, of the actions it names.*)
(***************************************************************************)
Plan(type, weights, tools) == [type |-> type, weights |-> weights, tools |-> tools]
ChatIntent == Plan("chat", NoIntent.weights, {})
ResearchPlan == Plan("task", [c \in {"research.report", "web.search", "web.fetch"} |->
                              CASE c = "research.report" -> 95 [] c = "web.search" -> 85 [] OTHER -> 65],
                     {"web.search", "web.fetch"})
CodePlan == Plan("task", [c \in {"code.local_task", "git.status", "shell.run"} |->
                          CASE c = "code.local_task" -> 92 [] c = "git.status" -> 75 [] OTHER -> 68],
                 {"git.status", "shell.run", "fs.read_text"})
FilePlan == Plan("task", [c \in {"file.workspace_ops", "fs.list", "fs.read_text"} |->
                          CASE c = "file.workspace_ops" -> 90 [] c = "fs.list" -> 70 [] OTHER -> 62],
                 {"fs.list", "fs.read_text"})

\* decide_intent: the first rule that matches.
RuleIntent(goal) ==
  IF goal = {} THEN Plan("clarification", NoIntent.weights, {})
  ELSE IF "ping" \in goal /\ ~Has(goal, {"code", "file"}) THEN ChatIntent
  ELSE IF "destructive" \in goal THEN Plan("blocked", NoIntent.weights, {})
  ELSE IF "write" \in goal /\ "path" \notin goal THEN Plan("clarification", NoIntent.weights, {})
  ELSE IF {"path", "read"} \subseteq goal
  THEN Plan("tool_action", [c \in {"fs.read_text"} |-> 95], {"fs.read_text"})
  ELSE IF "research" \in goal THEN ResearchPlan
  ELSE IF Has(goal, {"test", "code"}) THEN CodePlan
  ELSE IF Has(goal, {"file", "read"}) THEN FilePlan
  ELSE ChatIntent

\* _should_use_model_classifier: the rules are never unsure enough.
ModelIsAsked(goal) ==
  /\ modelRoute /\ RuleIntent(goal).type \notin {"blocked", "clarification"}
  /\ \/ "then" \in goal
     \/ Cardinality({w \in {{"read"}, {"research"}, {"test", "code"}} : Has(goal, w)}) >= 2

\* _classify_intent_with_model: a decision of its own, the rule's when the
\* answer is not usable.
ModelIntents ==
  {ChatIntent,
   Plan("task", [c \in {"code.local_task", "fs.read_text", "git.status", "shell.run"} |->
                 CASE c = "fs.read_text" -> 90 [] c = "code.local_task" -> 82
                   [] c = "git.status" -> 72 [] OTHER -> 58],
        {"fs.read_text", "git.status", "shell.run"})}

FaultyConstrained(intent) == [intent EXCEPT !.tools = {t \in @ : usable[t]}]   \* forgets the side effects

\* constrain_intent_decision.
Constrained(intent) == [intent EXCEPT !.tools = {t \in @ : usable[t]} \ HighSideEffects]

\* _finalize_intent_decision.
Intents(goal) ==
  {Constrained(i) : i \in {RuleIntent(goal)} \cup (IF ModelIsAsked(goal) THEN ModelIntents ELSE {})}

(***************************************************************************)
(* analyze_goal                                                            *)
(***************************************************************************)
\* query_executable_capabilities.
Executable(goal) == {c \in Capabilities : usable[c] /\ Has(goal, Mentions(c))}

AnalyzerCandidates(goal, intent) ==
  DOMAIN intent.weights \cup Executable(goal)
  \cup (IF Has(goal, {"research"}) THEN {"research.report", "web.search", "web.fetch"} ELSE {})
  \cup (IF Has(goal, {"test", "code"}) THEN {"code.local_task", "shell.run", "git.status"} ELSE {})
  \cup (IF Has(goal, {"file", "write"}) THEN {"file.workspace_ops", "fs.list", "fs.read_text"} ELSE {})

\* _allowed_capabilities_from_intent.
AllowedSkills(intent) == DOMAIN intent.weights \cap Skills

NeedsTestEvidence(goal) == "test" \in goal

(***************************************************************************)
(* The selector.                                                           *)
(***************************************************************************)
Fallbacks(goal) ==
  (IF Has(goal, {"research"}) THEN {"research.report", "web.search", "web.fetch"} ELSE {})
  \cup (IF Has(goal, {"test", "code"}) THEN {"code.local_task", "shell.run", "git.status"} ELSE {})
  \cup (IF Has(goal, {"file", "read"}) THEN {"file.workspace_ops", "fs.read_text", "fs.list"} ELSE {})
  \cup (IF Has(goal, {"research", "test", "code", "file", "read"}) THEN {} ELSE {"tools.discover"})

\* _ordered_skill_candidates, _ordered_tool_candidates.
Candidates(goal, intent) ==
  LET named == AnalyzerCandidates(goal, intent)
      skills == {s \in Skills : s \in named \/ Has(goal, Mentions(s) \cup Triggers(s))}
      tools == {t \in Tools : t \in named \cup Fallbacks(goal) \/ Has(goal, Mentions(t))}
  IN tools \cup (IF skills = {} THEN Fallbacks(goal) \cap Skills ELSE skills)

\* _goal_type.
GoalType(goal, intent) ==
  LET named == AnalyzerCandidates(goal, intent)
  IN IF "code.local_task" \in named \/ Has(goal, {"test", "code"}) THEN "code"
     ELSE IF "research.report" \in named \/ Has(goal, {"research"}) THEN "research"
     ELSE IF "file.workspace_ops" \in named \/ Has(goal, {"file", "read"}) THEN "workspace"
     ELSE "general"

\* _effectiveness_signal: the last eight events of this kind of goal or of
\* none in particular, else the last eight of any.
Latest(ids) == {i \in ids : Cardinality({j \in ids : j > i}) < 8}
Relevant(c, goalType) ==
  LET alike == {i \in 1..Len(history[c]) : history[c][i].goal \in {goalType, "general"}}
  IN Latest(IF alike = {} THEN 1..Len(history[c]) ELSE alike)
Signal(c, goalType) ==
  LET good == {i \in Relevant(c, goalType) : history[c][i].ok}
  IN 400 * Cardinality(good) - 1200 * Cardinality(Relevant(c, goalType) \ good)

Failed(c) == \E i \in 1..Len(turn.seen) : turn.seen[i].name = c /\ ~turn.seen[i].done
EvidenceMissing == \E i \in 1..Len(turn.seen) : turn.seen[i].missing

FaultyProbeBonus(c, goal, goalType) == 0   \* missing evidence changes no score

\* _needs_test_command_probe and _probe_tool_for_missing.
ProbeBonus(c, goal, goalType) ==
  IF c # "shell.run" THEN 0
  ELSE (IF goalType = "code" /\ NeedsTestEvidence(goal) /\ \E i \in 1..Len(turn.seen) : ~turn.seen[i].done
        THEN 3000 ELSE 0) + (IF EvidenceMissing THEN 2500 ELSE 0)

FaultyPenalty(c) == 0   \* a failure is not held against the action
Penalty(c) == IF Failed(c) THEN 5000 ELSE 0

\* _score_skill, _score_tool.
Points(c, goal, intent) ==
  LET skill == c \in Skills
      goalType == GoalType(goal, intent)
  IN (IF skill THEN 3500 ELSE 3000)
     + (IF c \in AnalyzerCandidates(goal, intent) THEN 2000 ELSE 0)
     + (IF c \in DOMAIN intent.weights THEN 25 * intent.weights[c] ELSE 0)
     + (IF c \notin Fallbacks(goal) THEN 0 ELSE IF skill THEN 2000 ELSE 1500)
     + (IF skill THEN 400 ELSE 300) * Cardinality(goal \cap Mentions(c))
     + (IF skill /\ Has(goal, Triggers(c)) THEN 1500 ELSE 0)
     + ProbeBonus(c, goal, goalType) + Signal(c, goalType) - Penalty(c)

FaultyPermitted(c, intent) == TRUE   \* scores alone decide

\* What the intent allows, and the tool that finds the missing evidence.
Permitted(c, intent) ==
  \/ c \in AllowedSkills(intent) \cup intent.tools
  \/ EvidenceMissing /\ c = "shell.run"

\* select_next_action_with_trace.
Viable(goal, intent) ==
  {c \in Candidates(goal, intent) : usable[c] /\ Permitted(c, intent) /\ Points(c, goal, intent) > 0}

Choice(goal, intent) ==
  LET viable == Viable(goal, intent)
      Better(a, b) == \/ Points(a, goal, intent) > Points(b, goal, intent)
                      \/ Points(a, goal, intent) = Points(b, goal, intent) /\ Rank(a) >= Rank(b)
  IN IF viable = {} THEN Chat ELSE CHOOSE a \in viable : \A b \in viable : Better(a, b)

(***************************************************************************)
(* The run.                                                                *)
(***************************************************************************)
\* AgentRunController.run: the gate stops a run that is blocked or unclear.
StartTurn(goal) ==
  /\ turn.status # "running"
  /\ \E intent \in Intents(goal) :
       turn' = [NoTurn EXCEPT !.goal = goal, !.limit = MaxIterations, !.status =
                  CASE intent.type = "blocked" -> "blocked" [] intent.type = "clarification" -> "waiting_input"
                    [] OTHER -> "running"]
  /\ UNCHANGED <<usable, history, modelRoute, switches>>

\* resume: whatever ended the run, unless it was completed; not for ever, to
\* stay finite.
ResumeTurn ==
  /\ turn.status \in {"blocked", "failed", "waiting_input"} /\ turn.limit <= MaxIterations
  /\ turn' = [turn EXCEPT !.status = "running", !.limit = turn.iteration + MaxIterations]
  /\ UNCHANGED <<usable, history, modelRoute, switches>>

\* The first half of an iteration of _run_loop, one transaction.
SelectAction ==
  /\ turn.status = "running" /\ turn.selected = Nothing
  /\ \E intent \in Intents(turn.goal) :
       turn' = [turn EXCEPT !.iteration = @ + 1, !.intent = intent, !.selected = Choice(turn.goal, intent)]
  /\ UNCHANGED <<usable, history, modelRoute, switches>>

\* record_effectiveness_event: by the goal's requirements, not its type.
Remembered(c, ok) ==
  IF c = Chat THEN history
  ELSE [history EXCEPT ![c] = Append(@, [goal |-> IF NeedsTestEvidence(turn.goal) THEN "code" ELSE "general",
                                         ok |-> ok])]

\* The action ends, evaluate_goal_observation judges it: nothing may be
\* missing, a test goal needs the evidence of a test command.
ObserveResult(done, evidence) ==
  /\ turn.status = "running" /\ turn.selected # Nothing
  /\ LET missing == NeedsTestEvidence(turn.goal) /\ ~evidence
         complete == done /\ ~missing
         status == IF complete THEN "completed" ELSE IF turn.iteration >= turn.limit THEN "failed" ELSE "running"
     IN /\ history' = Remembered(turn.selected, complete)
        /\ turn' = [turn EXCEPT !.status = status, !.selected = Nothing, !.intent = NoIntent, !.seen =
                      Append(@, [name |-> turn.selected, done |-> complete, missing |-> missing])]
  /\ UNCHANGED <<usable, modelRoute, switches>>

\* tools and skills enable, disable.
SwitchCapability(c) ==
  /\ switches < MaxSwitches /\ switches' = switches + 1
  /\ usable' = [usable EXCEPT ![c] = ~@]
  /\ UNCHANGED <<history, modelRoute, turn>>

SelectionNext ==
  \/ \E goal \in Goals : StartTurn(goal)
  \/ ResumeTurn
  \/ SelectAction
  \/ \E done, evidence \in BOOLEAN : ObserveResult(done, evidence)
  \/ \E c \in Capabilities : SwitchCapability(c)

SelectionSpec == SelectionInit /\ [][SelectionNext]_selectionVars

(***************************************************************************)
(* Properties                                                              *)
(***************************************************************************)
Observations == [name : Capabilities \cup {Chat}, done : BOOLEAN, missing : BOOLEAN]

\* The run and what is remembered have the shape the code gives them.
SelectionTypeOK ==
  /\ usable \in [Capabilities -> BOOLEAN] /\ modelRoute \in BOOLEAN /\ switches \in 0..MaxSwitches
  /\ history \in [Capabilities -> Seq(Events)]
  /\ turn.seen \in Seq(Observations) /\ turn.limit \in Nat
  /\ turn.status \in {"idle", "running", "completed", "failed", "blocked", "waiting_input"}
  /\ turn.selected \in Capabilities \cup {Chat, Nothing}
  /\ turn.iteration \in 0..turn.limit

Selects == turn.selected = Nothing /\ turn'.selected # Nothing
Chosen == turn'.selected

\* An iteration takes an enabled action that the intent of this iteration
\* names, or falls back on chat; a tool with high side effects only to find
\* the test evidence an earlier iteration of the run did not bring.
SelectionsAreAllowed ==
  [][Selects /\ Chosen # Chat =>
       /\ usable[Chosen]
       /\ \/ Chosen \in DOMAIN turn'.intent.weights \cup turn'.intent.tools /\ Chosen \notin HighSideEffects
          \/ Chosen = "shell.run" /\ EvidenceMissing]_selectionVars

Succeeded(c) == \E i \in 1..Len(history[c]) : history[c][i].ok
NeverFailed(c) == \A i \in 1..Len(history[c]) : history[c][i].ok

\* The weights of the scores do what they are for: when test evidence is
\* missing and the probe can be used and never failed, it is next; only an action
\* that succeeded before and did not fail in this run may outweigh it.
ProbeFollowsMissingEvidence ==
  [][Selects /\ EvidenceMissing /\ usable["shell.run"] /\ NeverFailed("shell.run") =>
       \/ Chosen = "shell.run"
       \/ Chosen # Chat /\ Succeeded(Chosen) /\ ~Failed(Chosen)]_selectionVars

\* An action that failed in this run and never succeeded is not taken again while
\* another one the rules' intent names is enabled and never failed.
FailuresMoveOn ==
  [][Selects /\ ~modelRoute /\ Chosen # Chat /\ Failed(Chosen) /\ ~Succeeded(Chosen) =>
       \A c \in DOMAIN turn'.intent.weights \cap (AllowedSkills(turn'.intent) \cup turn'.intent.tools) :
         usable[c] => ~NeverFailed(c)]_selectionVars

\* A run the intent gate blocked is not carried out.
BlockedRunsDoNotIterate ==
  turn.goal # {} /\ RuleIntent(turn.goal).type = "blocked" => turn.iteration = 0

\* What a run does next answers the gate, the switches and what it learnt in the meantime:
\* it stays allowed, evidence that is missing is looked for and failures are left behind.
NextActionsAreSound == SelectionsAreAllowed /\ ProbeFollowsMissingEvidence /\ FailuresMoveOn
================================================================================
