-------------------------------- MODULE MCHome --------------------------------
(* One home, several components that share no state: a behaviour is that of *)
(* the part chosen at its start, the other parts keep their first state.    *)
(* Recall reads the knobs; its parts set them up and leave them.            *)
EXTENDS InitLock, StorageCleanup, Recall

LOCAL INSTANCE TLC

VARIABLES
  part,   \* the component at work
  only    \* the one market that the cleanup of market caches is about

OneSkill == CHOOSE s \in Skills : TRUE
MCSkillOf == [m \in Markets |-> OneSkill]
MCSymmetry == Permutations(Markets)

MCAllowed == [k \in Knobs |-> IF k = "recent_cross_session_max_items" THEN 1..2 ELSE {0, 1}]
MCDefault == [k \in Knobs |-> IF k = "graph_layer_injection_enabled" THEN 0 ELSE 1]
MCRecurrence == [r \in CrystalRecords |-> IF r = 3 THEN 2 ELSE 0]
MCExpiryOf == [r \in CrystalRecords |-> IF r = 5 THEN 1 ELSE 2]
MCSeedSlots == [c \in Sources |-> 1]

\* Three topics, of which one has two labels that a third one joins; an upload and the
\* program's own notes on top.
MCTermsOf == [video |-> {"n8n"}, flow |-> {"n8n", "make"}, mixer |-> {"make"}, data |-> {"comfyui"},
              audio |-> {"video"}, upload |-> {"mp4"}]
Noted(from, kind, label) == [source |-> from, kind |-> kind, label |-> label]
MCClues ==
  {Noted(s, "plain", label) : s \in {"deferred_foreground", "event"}, label \in {"video", "flow", "data"}}
  \cup {Noted("working", "plain", label) : label \in {"flow", "mixer"}}
  \cup {Noted("deferred_foreground", "plain", "mixer"), Noted("event", "correction", "upload"),
        Noted("event", "governance", "data"), Noted("memory_sources", "plain", "audio"),
        Noted("feedback", "missing_candidate", "flow")}
MCTailOf == [s \in DOMAIN BaseScore |-> 3]
MCCorrectionTail == [s \in DOMAIN BaseScore |-> 1]

homeRunVars == <<part, only, vars, homeVars, knobVars, recallVars, lowClueVars>>

-----------------------------------------------------------------------------
(* The recalls: of records, of events, and what the router and the budget  *)
(* make of the sections.                                                   *)

RecallParts == {"records", "events", "budget"}

Confirmed(k, value) == Override(k, value, "confirmed", Forever, 1, FALSE)

Few == [t \in {"Identity Memory", "Conversation Carryover", "Working Memory", "Substrate Recall",
               "Current Memory-OS Runtime Facts"} |-> IF t = "Current Memory-OS Runtime Facts" THEN 2 ELSE 0]

Edges == <<[from |-> 1, to |-> 4], [from |-> 1, to |-> 2], [from |-> 5, to |-> 1]>>

RecordsInit ==
  /\ overrides \in {<<>>, <<Confirmed("graph_layer_injection_enabled", 1)>>}
  /\ \E valid \in SUBSET CrystalRecords :
       Cardinality(valid) > 2 /\ RecallInit(valid, <<>>, {}, <<>>, Edges, Few)

EventsInit ==
  /\ overrides \in {<<>>, <<Confirmed("recent_cross_session_enabled", 0)>>,
                    <<Confirmed("session_scoped_recent_events", 0)>>}
  /\ \E first, second \in EventKinds, candidates \in SUBSET (1..2) :
       ~second.old /\ RecallInit({}, <<first, second>>, candidates, <<"s2", "s1">>, <<>>, Few)

BudgetInit ==
  /\ overrides = <<>>
  /\ \E lines \in [DOMAIN Few -> 0..2] :
       /\ lines["Current Memory-OS Runtime Facts"] = 2 /\ lines["Conversation Carryover"] # 2
       /\ lines["Identity Memory"] # 1 /\ lines["Working Memory"] # 1
       /\ lines["Substrate Recall"] = lines["Working Memory"]
       /\ RecallInit({1, 4}, <<[session |-> "s2", class |-> "cron", old |-> FALSE]>>, {1}, <<"s2">>, <<>>, lines)

Question(says, session, matches, floor, budget) ==
  [says |-> says, session |-> session, matches |-> matches, floor |-> floor, anchor |-> FALSE,
   foregroundOnly |-> FALSE, router |-> FALSE, routes |-> {}, relevant |-> {}, budget |-> budget]

RecordQuestions ==
  {Question({}, Unstamped, {}, {}, 20)}
  \cup {Question({"plain"}, Unstamped, {Record(r) : r \in found}, {}, 20) : found \in SUBSET CrystalRecords}
  \cup {Question({"plain"}, Unstamped, {}, floor, 20) : floor \in SUBSET {3, 5}}

EventQuestions ==
  {Question(says, session, {Event(1), Event(2), Event(3), Candidate(1)}, {}, 20) :
     says \in {{"plain"}, {"plain", "candidates"}}, session \in {Unstamped, "s1"}}

BudgetQuestions ==
  {[q EXCEPT !.anchor = anchor, !.foregroundOnly = alone, !.router = router, !.routes = routes, !.relevant = relevant] :
     q \in {Question(says, "s1", {Record(1), Candidate(1)}, {}, budget) :
              says \in {{"cancel"}, {"continue"}, {"low clue"}, {"diagnostic"}, {"status"}, {"candidates"},
                        {"architecture"}, {"task"}, {"plain"}},
              budget \in {4, 9, 30}},
     anchor \in BOOLEAN, alone \in BOOLEAN, router \in BOOLEAN,
     routes \in {{"foreground_control", "casual_continuity"},
                 {"foreground_control", "ambiguous_recall", "diagnostic_current_status", "candidate_review",
                  "memory_architecture_discussion", "active_task", "casual_continuity"}},
     relevant \in {{"Working Memory", "Indexed Recall"},
                   {"Identity Memory", "Continuity Bridge", "Last Session", "Crystallized Memory", "Substrate Recall"}}}

RecordsStep ==
  /\ UNCHANGED knobVars
  /\ \/ \E r \in CrystalRecords : RecordChanges(r)
     \/ \E q \in RecordQuestions : Prefetch(q)

EventsStep ==
  /\ UNCHANGED knobVars
  /\ \/ \E e \in EventKinds : e.class = "cron" /\ ~e.old /\ EventArrives(e)
     \/ \E e \in DOMAIN stored : BecomesCandidate(e)
     \/ SyncIndex
     \/ \E q \in EventQuestions : Prefetch(q)

BudgetStep == UNCHANGED knobVars /\ \E q \in BudgetQuestions : Prefetch(q)

\* The overrides of a number and of a switch.
OverridesStep ==
  /\ UNCHANGED recallVars
  /\ \/ \E k \in {"recent_cross_session_max_items", "graph_layer_injection_enabled"}, value \in Offered :
          RegisterOverride(k, value, 1)
     \/ \E d \in Deciders, verb \in {"confirm", "reject"} : TakeDecision(d, verb)
     \/ \E d \in Deciders : ConfirmOverride(d) \/ RevertOverride(d)
     \/ KnobDayPasses

-----------------------------------------------------------------------------
MCInit ==
  /\ part \in {"init", "skills", "market", "files", "checkpoints", "overrides", "clues"} \cup RecallParts
  /\ only \in (IF part = "market" THEN Markets ELSE {NoMarket})
  /\ LowClueInit
  /\ Init /\ (part # "init" => columns = {})
  /\ HomeInit
  /\ decision = [d \in Deciders |-> NothingInHand] /\ knobDay = 0
  /\ CASE part = "records" -> RecordsInit
       [] part = "events" -> EventsInit
       [] part = "budget" -> BudgetInit
       [] OTHER -> overrides = <<>> /\ RecallInit({}, <<>>, {}, <<>>, <<>>, Few)

\* A cleanup of the market cache beside the commands on one market's skill.
MarketStep ==
  /\ StorageNext
  /\ marketOn' \in [Markets -> BOOLEAN] /\ \A m \in Markets \ {only} : ~marketOn'[m]
  /\ \A m \in Markets : origin'[m] \in {1, Gone}
  /\ files' = {} /\ drafts' = {} /\ made' = [r \in HomeRuns |-> 0]

\* A shortlist for each turn.
CluesStep ==
  \/ \E clue \in Clues : NoteClue(clue)
  \/ /\ asked = <<>>
     /\ \E query \in {{}, {"n8n"}, {"n8n", "make"}}, limit \in CandidateLimits :
          AskVaguely(query, limit, limit = 2)

HomeStep ==
  /\ UNCHANGED <<knobVars, recallVars, lowClueVars>>
  /\ \/ part = "init" /\ Next /\ UNCHANGED homeVars
     \/ part = "skills" /\ SkillsNext /\ UNCHANGED <<storageVars, vars>>
     \/ part = "market" /\ MarketStep /\ UNCHANGED vars
     \/ part = "files" /\ StorageStep /\ UNCHANGED <<checkpoints, vars>>
     \/ part = "checkpoints" /\ StorageStep /\ UNCHANGED <<files, drafts, vars>>

MemoryStep ==
  /\ UNCHANGED <<homeVars, vars>>
  /\ \/ /\ UNCHANGED lowClueVars
        /\ \/ part = "overrides" /\ OverridesStep
           \/ part = "records" /\ RecordsStep
           \/ part = "events" /\ EventsStep
           \/ part = "budget" /\ BudgetStep
     \/ UNCHANGED <<knobVars, recallVars>> /\ part = "clues" /\ CluesStep

MCNext == part' = part /\ only' = only /\ (HomeStep \/ MemoryStep)

MCSpec == MCInit /\ [][MCNext]_homeRunVars

\* Every part's variables have their types.
HomeTypeOK == TypeOK /\ StorageTypeOK /\ KnobsTypeOK /\ RecallTypeOK /\ LowClueTypeOK
================================================================================
