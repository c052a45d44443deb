----------------------------- MODULE RuntimeMemory -----------------------------
(***************************************************************************)
(* The memory of the runtime (core/memory_store.py, memory_gate.py,        *)
(* memory_consolidator.py, memory_relation.py, memory_quality.py) and what *)
(* of it reaches a prompt (core/context_policy.py, context_runtime.py).    *)
(* A run that ends leaves a candidate; consolidation relates it to the     *)
(* memories that are there and creates, merges, replaces or defers.  Every *)
(* change keeps a full text index, whose errors are swallowed.  A prompt   *)
(* takes what the index finds and the merged policies allow.               *)
(***************************************************************************)
EXTENDS Integers, Sequences, FiniteSets

CONSTANTS
  LessonRuns,      \* runs that end and are learned from
  WorkflowRuns,    \* those of them that are workflow runs, the others are agent runs
  GoalOf,          \* the goal of an agent run, the workflow of a workflow run
  Facts,           \* what a content says; a query asks for one
  LayerChoices,    \* what a context policy may say
  MaxMemories,     \* bound: memories
  MaxPolicies,     \* bound: changes of policies
  MaxFtsFailures   \* bound: failures of the full text index

ASSUME RuntimeMemoryAssumption ==
  /\ WorkflowRuns \subseteq LessonRuns /\ DOMAIN GoalOf = LessonRuns
  /\ {MaxMemories, MaxPolicies, MaxFtsFailures} \subseteq Nat

Scopes == {"session", "task", "project", "episode", "skill", "user"}
Sources == {"manual", "web", "agent_consolidator"}

\* merge_context_policy reads a switch with bool, a number with int or float.
ASSUME LayerAssumption ==
  \A layer \in LayerChoices :
    /\ "include" \in DOMAIN layer => layer.include \in BOOLEAN
    /\ "maxItems" \in DOMAIN layer => layer.maxItems \in Int
    /\ "minConfidence" \in DOMAIN layer => layer.minConfidence \in Int

LongTermScopes == {"project", "user"}
TrustedSources == {"manual", "agent_consolidator"}
UntrustedAllowedScopes == {"session", "task", "episode"}
NoKey == <<>>
NoMemory == 0
NoLayer == [field \in {} |-> 0]
LayerNames == {"global", "project", "skill"}

VARIABLES
  outcome,     \* the status of a run
  memories,    \* memory_items
  indexed,     \* memory_items_fts
  candidates,  \* memory_candidates
  layers,      \* context_policies
  modelUsed,   \* history: a model related a candidate to the memories
  policies, ftsFailures   \* bounds

lessonVars == <<outcome, memories, indexed, candidates, layers, modelUsed, policies, ftsFailures>>
store == [memories |-> memories, indexed |-> indexed, candidates |-> candidates]

LessonsInit ==
  /\ outcome = [r \in LessonRuns |-> "running"]
  /\ memories = <<>> /\ indexed = {} /\ candidates = <<>>
  /\ layers = [l \in LayerNames |-> NoLayer]
  /\ modelUsed = FALSE /\ policies = 0 /\ ftsFailures = 0

Indices(seq) == 1..Len(seq)
Active(items) == {i \in Indices(items) : items[i].status = "active"}
First(ids) == CHOOSE i \in ids : \A j \in ids : i <= j

(***************************************************************************)
(* The full text index: sync_memory_fts and remove_memory_fts return       *)
(* silently when the index fails.                                          *)
(***************************************************************************)
FaultySynced(st, i) == [st EXCEPT !.indexed = @ \cup {i}]   \* never removes a row

Synced(st, i) ==
  [st EXCEPT !.indexed = IF st.memories[i].status = "active" THEN @ \cup {i} ELSE @ \ {i}]

\* The index follows the memories of the transaction, or has failed in it.
Commit(st) ==
  /\ memories' = st.memories /\ candidates' = st.candidates
  /\ \/ indexed' = st.indexed /\ UNCHANGED ftsFailures
     \/ /\ indexed # st.indexed /\ ftsFailures < MaxFtsFailures
        /\ ftsFailures' = ftsFailures + 1 /\ indexed' = indexed

(***************************************************************************)
(* memory write, edit, forget, digest                                      *)
(***************************************************************************)
\* decide_memory_write.
WriteAllowed(scope, source) ==
  source \in TrustedSources \/ scope \in UntrustedAllowedScopes

NewMemory(scope, source, confidence, content, key, lesson, kind, by) ==
  [scope |-> scope, source |-> source, confidence |-> confidence, content |-> content,
   key |-> key, type |-> lesson, tag |-> kind, by |-> by, status |-> "active", expired |-> FALSE]

Added(st, memory) ==
  Synced([st EXCEPT !.memories = Append(@, memory)], Len(st.memories) + 1)

WriteMemory(scope, source, confidence, fact) ==
  /\ WriteAllowed(scope, source) /\ Len(memories) < MaxMemories
  /\ Commit(Added(store, NewMemory(scope, source, confidence, {fact}, NoKey, "note", "note", NoMemory)))
  /\ UNCHANGED <<outcome, layers, modelUsed, policies>>

EditMemory(i, fact) ==
  /\ memories[i].content # {fact}
  /\ Commit(Synced([store EXCEPT !.memories[i] = [@ EXCEPT !.content = {fact}]], i))
  /\ UNCHANGED <<outcome, layers, modelUsed, policies>>

ForgetMemory(i) ==
  /\ memories[i].status # "forgotten"
  /\ Commit(Synced([store EXCEPT !.memories[i] = [@ EXCEPT !.status = "forgotten"]], i))
  /\ UNCHANGED <<outcome, layers, modelUsed, policies>>

\* The time to live of a note ends.
ExpireMemory(i) ==
  /\ memories[i].source # "agent_consolidator" /\ ~memories[i].expired
  /\ memories' = [memories EXCEPT ![i] = [@ EXCEPT !.expired = TRUE]]
  /\ UNCHANGED <<outcome, indexed, candidates, layers, modelUsed, policies, ftsFailures>>

\* compile_project_memory_digest, whose input is not a digest.
CompileDigest ==
  LET sources == {i \in Active(memories) : memories[i].scope \in LongTermScopes
                                           /\ memories[i].tag # "memory-digest"}
      digests == {i \in Active(memories) : memories[i].tag = "memory-digest"}
      content == UNION {memories[i].content : i \in sources}
  IN /\ \/ /\ digests = {} /\ Len(memories) < MaxMemories
           /\ Commit(Added(store, NewMemory("project", "agent_consolidator", 80, content, NoKey,
                                            "note", "memory-digest", NoMemory)))
        \/ /\ digests # {} /\ memories[First(digests)].content # content
           /\ Commit(Synced([store EXCEPT !.memories[First(digests)] =
                               [@ EXCEPT !.content = content]], First(digests)))
     /\ UNCHANGED <<outcome, layers, modelUsed, policies>>

(***************************************************************************)
(* Candidates.                                                             *)
(***************************************************************************)
Kind(run) == IF run \in WorkflowRuns THEN "workflow-run" ELSE "agent-run"
Lesson(run) == IF outcome[run] = "completed" THEN "successful_procedure" ELSE "failure_lesson"

\* _candidates_from_agent_run, _candidates_from_workflow_run: confidence in
\* percent; the merge key is of scope, lesson and goal.
CandidateOf(run, fact, evidence) ==
  LET completed == outcome[run] = "completed"
      scope == IF completed THEN "project" ELSE "episode"
  IN [run |-> run, type |-> Lesson(run), scope |-> scope, content |-> {fact},
      key |-> <<scope, Lesson(run), GoalOf[run]>>,
      confidence |-> IF run \in WorkflowRuns THEN (IF completed THEN 75 ELSE 60)
                     ELSE (IF completed THEN 85 ELSE 65),
      evidence |-> evidence, status |-> "pending", memory |-> NoMemory]

CandidatesOf(run) == {i \in Indices(candidates) : candidates[i].run = run}

\* extract_memory_candidates: one of each type of an agent run, one of a
\* workflow run; an agent run has evidence if it linked a run.
HasCandidate(run) == \E i \in CandidatesOf(run) : run \in WorkflowRuns \/ candidates[i].type = Lesson(run)
Evidence(run) == IF run \in WorkflowRuns THEN {FALSE} ELSE BOOLEAN

Extractions(run) ==
  IF HasCandidate(run) THEN {candidates}
  ELSE {Append(candidates, CandidateOf(run, fact, evidence)) : fact \in Facts, evidence \in Evidence(run)}

\* memory candidates.
ListCandidates(run, extracted) ==
  /\ outcome[run] # "running"
  /\ candidates' = extracted /\ candidates' # candidates
  /\ UNCHANGED <<outcome, memories, indexed, layers, modelUsed, policies, ftsFailures>>

\* A run ends; a failed agent run can be resumed and succeed.
EndRun(run, status) ==
  /\ outcome[run] = "running" \/ (outcome[run] = "failed" /\ status = "completed" /\ run \notin WorkflowRuns)
  /\ outcome' = [outcome EXCEPT ![run] = status]
  /\ UNCHANGED <<memories, indexed, candidates, layers, modelUsed, policies, ftsFailures>>

(***************************************************************************)
(* The relation of a candidate to the memories.                            *)
(***************************************************************************)
Score(memory, candidate) ==
  (IF memory.key = candidate.key THEN 100 ELSE 0)
  + (IF memory.type = candidate.type THEN 20 ELSE 0)
  + (IF memory.tag = Kind(candidate.run) THEN 5 ELSE 0)

\* MemoryRelationClassifier.shortlist; its best entry is the first of the best.
Shortlist(st, candidate) ==
  {i \in Active(st.memories) : st.memories[i].scope = candidate.scope
                               /\ Score(st.memories[i], candidate) > 0}
Best(st, candidate) ==
  First({i \in Shortlist(st, candidate) :
           \A j \in Shortlist(st, candidate) :
             Score(st.memories[i], candidate) >= Score(st.memories[j], candidate)})

Compatible(one, other) == one \subseteq other \/ other \subseteq one

Relations == {"reinforces", "updates", "conflicts", "unrelated"}
NoDecision == [relation |-> "none"]
ModelDecisions ==
  {NoDecision} \cup [relation : Relations, target : {NoMemory} \cup Active(memories), confidence : {60, 90}]

\* classify: a model's decision when there is one that names a memory of
\* the shortlist or none, else the comparison with the best entry.
Classified(st, candidate, decision) ==
  LET best == Best(st, candidate)
      compatible == Compatible(st.memories[best].content, candidate.content)
      sure == candidate.evidence /\ candidate.confidence >= 85
  IN IF Shortlist(st, candidate) = {} THEN [relation |-> "unrelated", target |-> NoMemory, confidence |-> 0]
     ELSE IF decision # NoDecision
             /\ decision.target \in {NoMemory} \cup Shortlist(st, candidate)
     THEN decision
     ELSE [relation |-> IF compatible THEN "reinforces" ELSE IF sure THEN "updates" ELSE "conflicts",
           target |-> best, confidence |-> candidate.confidence]

Decided(st, i, status, memory) ==
  [st EXCEPT !.candidates[i] = [@ EXCEPT !.status = status, !.memory = memory]]

\* _create_memory_from_candidate.
Created(st, i) ==
  LET c == st.candidates[i]
  IN Added(st, NewMemory(c.scope, "agent_consolidator", c.confidence, c.content, c.key, c.type, Kind(c.run), i))

FaultySuperseded(st, i, old) ==   \* leaves the old memory in the index
  LET created == Created(st, i)
  IN Decided([created EXCEPT !.memories[old] = [@ EXCEPT !.status = "superseded"]],
             i, "superseded", Len(created.memories))

\* _supersede_memory.
Superseded(st, i, old) ==
  LET created == Created(st, i)
  IN Decided(Synced([created EXCEPT !.memories[old] = [@ EXCEPT !.status = "superseded"]], old),
             i, "superseded", Len(created.memories))

\* _merge_into_existing, _merge_content: what either content says.
Merged(st, i, old, status) ==
  LET c == st.candidates[i]
      was == st.memories[old]
      row == [was EXCEPT !.content = was.content \cup c.content,
                         !.confidence = IF was.confidence >= c.confidence THEN was.confidence ELSE c.confidence]
  IN Decided(Synced([st EXCEPT !.memories[old] = row], old), i, status, old)

FaultyPromoted(st, i) == Decided(Created(st, i), i, "created", Len(st.memories) + 1)   \* no look at the keys

\* No relation: a memory with the same key takes the candidate in, else it
\* becomes a memory of its own.
Promoted(st, i) ==
  LET c == st.candidates[i]
      same == {j \in Active(st.memories) : st.memories[j].key = c.key}
  IN IF c.scope \in LongTermScopes /\ c.confidence < 70 THEN Decided(st, i, "skipped", NoMemory)
     ELSE IF same = {} THEN Decided(Created(st, i), i, "created", Len(st.memories) + 1)
     ELSE Merged(st, i, First(same), IF Compatible(st.memories[First(same)].content, c.content)
                                     THEN "reinforced" ELSE "merged")

\* _apply_auto_relation, and what follows when it leaves the candidate alone.
Related(st, i, d) ==
  IF d.relation = "unrelated" THEN Promoted(st, i)
  ELSE IF d.confidence < 65 THEN Decided(st, i, "needs_review", d.target)
  ELSE IF d.target = NoMemory THEN Promoted(st, i)
  ELSE IF d.relation = "reinforces" THEN Merged(st, i, d.target, "reinforced")
  ELSE IF d.confidence >= 85 /\ (d.relation = "updates" \/ st.candidates[i].evidence)
  THEN Superseded(st, i, d.target)
  ELSE Decided(st, i, IF d.relation = "updates" THEN "needs_review" ELSE "conflict_candidate", d.target)

FaultyIsDecided(candidate) == candidate.status \in {"merged", "reinforced"}   \* takes a created one again
IsDecided(candidate) == candidate.status # "pending" /\ candidate.memory # NoMemory

\* consolidate_memory_candidates: one candidate,
Handled(st, i, autoRelations, decision) ==
  IF IsDecided(st.candidates[i]) THEN st
  ELSE IF autoRelations THEN Related(st, i, Classified(st, st.candidates[i], decision))
  ELSE Promoted(st, i)

\* and the run's one after the other: the lesson of its failure and that of its
\* success at most.
Consolidated(run, extracted, autoRelations, decision) ==
  LET own == {i \in Indices(extracted) : extracted[i].run = run}
      later == own \ {First(own)}
      first == Handled([store EXCEPT !.candidates = extracted], First(own), autoRelations, decision)
  IN IF later = {} THEN first ELSE Handled(first, First(later), autoRelations, decision)

\* The end of an agent run, or memory consolidate; only the command asks a
\* model and only it learns from workflow runs or without relations.
Consolidate(run, extracted, autoRelations, decision) ==
  /\ outcome[run] # "running" /\ (autoRelations \/ decision = NoDecision)
  /\ \E i \in Indices(extracted) : extracted[i].run = run /\ ~IsDecided(extracted[i])
  /\ LET st == Consolidated(run, extracted, autoRelations, decision)
     IN st # store /\ Len(st.memories) <= MaxMemories /\ Commit(st)
  /\ modelUsed' = (modelUsed \/ decision # NoDecision)
  /\ UNCHANGED <<outcome, layers, policies>>

(***************************************************************************)
(* Context policies: every layer may only tighten the ones above.          *)
(***************************************************************************)
SetPolicy(layer, policy) ==
  /\ policies < MaxPolicies /\ policies' = policies + 1
  /\ layers[layer] # policy
  /\ layers' = [layers EXCEPT ![layer] = policy]
  /\ UNCHANGED <<outcome, memories, indexed, candidates, modelUsed, ftsFailures>>

\* DEFAULT_CONTEXT_POLICY; a confidence is in percent.
DefaultPolicy ==
  [include |-> TRUE, maxItems |-> 20, minConfidence |-> 50,
   scopes |-> Scopes, sources |-> {"manual"}]

FaultyMerged(base, layer) ==
  [field \in DOMAIN base |-> IF field \in DOMAIN layer THEN layer[field] ELSE base[field]]   \* the later layer replaces

\* merge_context_policy: numbers by minimum or maximum, sets by intersection,
\* but an empty set counts as not given.
MergedPolicy(base, layer) ==
  LET Given(field) == field \in DOMAIN layer
      Meet(field) == IF ~Given(field) THEN base[field]
                     ELSE IF base[field] = {} THEN layer[field] ELSE base[field] \cap layer[field]
  IN [include |-> base.include /\ (Given("include") => layer.include),
      maxItems |-> IF Given("maxItems") /\ layer.maxItems < base.maxItems
                   THEN layer.maxItems ELSE base.maxItems,
      minConfidence |-> IF Given("minConfidence") /\ layer.minConfidence > base.minConfidence
                        THEN layer.minConfidence ELSE base.minConfidence,
      scopes |-> Meet("scopes"), sources |-> Meet("sources")]

\* resolve_context_policy.
Policy ==
  MergedPolicy(MergedPolicy(MergedPolicy(DefaultPolicy, layers["global"]), layers["project"]), layers["skill"])

(***************************************************************************)
(* What reaches a prompt.                                                  *)
(***************************************************************************)
\* search_memory_candidates: what the index finds, whatever became of it
\* since, or else the active memories themselves.
Found(fact) ==
  LET hits == {i \in indexed : fact \in memories[i].content}
  IN IF hits # {} THEN hits ELSE {i \in Active(memories) : fact \in memories[i].content}

FaultyReadable(memory, policy) ==   \* trusts the index
  /\ ~memory.expired
  /\ policy.sources # {} => memory.source \in policy.sources
  /\ memory.confidence >= policy.minConfidence

\* decide_memory_read, after the scope.
Readable(memory, policy) ==
  /\ memory.status = "active" /\ ~memory.expired
  /\ policy.sources # {} => memory.source \in policy.sources
  /\ memory.confidence >= policy.minConfidence

\* The memories in build_context_pack: the scopes, then decide_memory_read.
Recalled(fact, policy) ==
  {i \in Found(fact) : /\ policy.include
                       /\ policy.scopes # {} => memories[i].scope \in policy.scopes
                       /\ Readable(memories[i], policy)}
FixedItems == 5

\* _select_with_budget without a token budget: how many memories are kept;
\* the prompt is kept whatever it costs and the fixed items come first.
Room(policy) == IF policy.maxItems <= FixedItems THEN 0 ELSE policy.maxItems - FixedItems

\* The most certain come first, then the latest.
Before(i, j) == memories[i].confidence > memories[j].confidence
                \/ (memories[i].confidence = memories[j].confidence /\ i > j)

\* The memories of the pack: those there is room for.
Pack(fact) ==
  LET recalled == Recalled(fact, Policy)
  IN {i \in recalled : Cardinality({j \in recalled : Before(j, i)}) < Room(Policy)}

LessonsNext ==
  \/ \E fact \in Facts :
       \/ \E scope \in {"project", "episode"}, source \in {"manual", "web"}, c \in {40, 100} :
            WriteMemory(scope, source, c, fact)
       \/ \E i \in Indices(memories) : EditMemory(i, fact)
  \/ \E i \in Indices(memories) : ForgetMemory(i) \/ ExpireMemory(i)
  \/ CompileDigest
  \/ \E run \in LessonRuns :
       \/ \E status \in {"completed", "failed"} : EndRun(run, status)
       \/ \E extracted \in Extractions(run) :
            \/ ListCandidates(run, extracted)
            \/ \E auto \in BOOLEAN, d \in ModelDecisions : Consolidate(run, extracted, auto, d)
  \/ \E layer \in LayerNames, policy \in LayerChoices : SetPolicy(layer, policy)

LessonsSpec == LessonsInit /\ [][LessonsNext]_lessonVars
(***************************************************************************)
(* Properties                                                              *)
(***************************************************************************)
Lessons == {"successful_procedure", "failure_lesson"}
Keys == {NoKey} \cup (Scopes \X Lessons \X {GoalOf[run] : run \in LessonRuns})

MemoryRows ==
  [scope : Scopes, source : Sources, confidence : Nat, content : SUBSET Facts, key : Keys,
   type : Lessons \cup {"note"}, tag : {"note", "memory-digest", "agent-run", "workflow-run"},
   by : Nat, status : {"active", "forgotten", "superseded"}, expired : BOOLEAN]

CandidateRows ==
  [run : LessonRuns, type : Lessons, scope : Scopes, content : SUBSET Facts, key : Keys \ {NoKey},
   confidence : Nat, evidence : BOOLEAN,
   status : {"pending", "created", "merged", "skipped", "reinforced", "needs_review",
             "conflict_candidate", "superseded"},
   memory : Nat]

\* Rows have the values the code gives them, refer to rows that are there, and
\* a run has one candidate of each lesson.
LessonsTypeOK ==
  /\ outcome \in [LessonRuns -> {"running", "completed", "failed"}]
  /\ memories \in Seq(MemoryRows) /\ Len(memories) <= MaxMemories
  /\ \A i \in Indices(memories) : memories[i].by <= Len(candidates)
  /\ indexed \subseteq Indices(memories)
  /\ candidates \in Seq(CandidateRows)
  /\ \A i \in Indices(candidates) : candidates[i].memory <= Len(memories)
  /\ \A i, j \in Indices(candidates) :
       candidates[i].run = candidates[j].run /\ candidates[i].type = candidates[j].type => i = j
  /\ layers \in [LayerNames -> LayerChoices \cup {NoLayer}]
  /\ modelUsed \in BOOLEAN /\ policies \in 0..MaxPolicies /\ ftsFailures \in 0..MaxFtsFailures

\* Consolidation may be repeated, by the run and by the command: no
\* candidate becomes two memories.
LessonsAreLearnedOnce ==
  \A i, j \in Indices(memories) : memories[i].by = memories[j].by /\ memories[i].by # NoMemory => i = j

\* A goal has one active lesson of each kind, merged or replaced, unless a
\* model related a candidate to the lesson of another goal.
OneLessonPerKey ==
  modelUsed \/ \A i, j \in Active(memories) :
    memories[i].key = memories[j].key /\ memories[i].key # NoKey => i = j

\* The index finds exactly the active memories, unless it failed.
IndexFollowsMemories == ftsFailures = 0 => indexed = Active(memories)

\* Whatever the index still finds, a prompt gets active memories that have
\* not expired and are as certain as every layer asks, and none at all when
\* one layer excludes memory.
PromptsGetCurrentMemory ==
  \A fact \in Facts : \A i \in Pack(fact) :
    LET memory == memories[i]
    IN /\ memory.status = "active" /\ ~memory.expired
       /\ \A name \in DOMAIN layers :
            /\ "minConfidence" \in DOMAIN layers[name] => memory.confidence >= layers[name].minConfidence
            /\ "include" \in DOMAIN layers[name] => layers[name].include

\* A layer can only tighten the ones above: a prompt gets no memory of a
\* scope or a source that one of the layers leaves out.
LayersOnlyTighten ==
  \A fact \in Facts : \A i \in Pack(fact) : \A name \in DOMAIN layers :
    LET memory == memories[i]
    IN /\ "scopes" \in DOMAIN layers[name] => memory.scope \in layers[name].scopes
       /\ "sources" \in DOMAIN layers[name] => memory.source \in layers[name].sources

\* Consolidation repeats and overlaps, yet what a run taught is one memory, and its goal
\* has one of each kind.
LessonsDoNotMultiply == LessonsAreLearnedOnce /\ OneLessonPerKey

\* The memories, the index over them and the layers of policies agree in what a prompt gets.
PromptsAreCurrent == PromptsGetCurrentMemory /\ IndexFollowsMemories
================================================================================
