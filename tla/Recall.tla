--------------------------------- MODULE Recall --------------------------------
(***************************************************************************)
(* What Memory OS puts before a question (hermes/memory_os/prefetch.py):   *)
(* sections put together in a fixed order from the store and from an index *)
(* that may lag behind it, of which each leaves out what an earlier one    *)
(* shows; a router that selects among them (context_router.py); and a      *)
(* budget that drops sections.  What it used is noted (memory_sources.py). *)
(* Texts are items: an item is a kind and a number.  Redaction, seeds of   *)
(* diagnostic style and vectors are left out; the guard has its fixed      *)
(* lines, LowClue models those with candidates.                            *)
(* An operator named Faulty... is a definition with a bug put in.          *)
(***************************************************************************)
EXTENDS Knobs, LowClue

LOCAL INSTANCE SequencesExt

CONSTANTS
  CrystalRecords,    \* crystallized records, numbers in the order of their files
  ProvisionalOnes,   \* those of them that are provisional
  Recurrence,        \* how often a record recurred
  ExpiryOf,          \* when a provisional record expires
  SeedSlots,         \* _BRIDGE_SEED_SLOTS: how many events of each class are taken first
  MaxTotal,          \* the caps of crystallized records: all of them,
  MaxProvisional,    \* and those kept for provisional ones
  MaxContinuity,     \* _MAX_CONTINUITY_RECORDS
  HitLimit,          \* how many hits of a search are shown
  PastSessions,      \* sessions, strings
  MaxEventsStored, MaxHomeChanges   \* bounds

ASSUME RecallAssumption ==
  /\ CrystalRecords \subseteq Nat /\ IsFiniteSet(CrystalRecords) /\ ProvisionalOnes \subseteq CrystalRecords
  /\ MaxProvisional \in 1..MaxTotal /\ {MaxTotal, MaxContinuity, HitLimit} \subseteq Nat \ {0}

VARIABLES
  active,       \* the records whose canonical state is active
  stored,       \* the events, oldest first
  queue,        \* events that became candidates (candidates.jsonl)
  endedWith,    \* last_session_anchor.jsonl: the sessions that ended, in order
  related,      \* the edges of the index, the heaviest first
  index,        \* what the full text search knows of: as of the last synchronisation
  others,       \* how many lines the sections have that are not about these
  changes,      \* how often the store changed
  prompts       \* the recall, once it was made: the one that this is about

recallVars == <<active, stored, queue, endedWith, related, index, others, changes, prompts>>

Unstamped == ""   \* an event without a session, and a question that is not scoped to one

Event(e) == <<"event", e>>
Candidate(e) == <<"crystallized_candidate", e>>
Record(r) == <<"crystallized_record", r>>
Text(n) == <<"text", n>>

Sources == {"foreground", "cron"}

EventKinds == [session: {Unstamped} \cup PastSessions, class: Sources, old: BOOLEAN]

Bridged == {"cron"}   \* what _continuity_bridge_lines shows: all but foreground and other

Current == [records |-> active, events |-> Len(stored), candidates |-> queue]

RecallInit(records, events, candidates, ended, edges, lines) ==
  /\ active = records /\ stored = events /\ queue = candidates /\ endedWith = ended
  /\ related = edges /\ others = lines
  /\ index = [records |-> records, events |-> Len(events), candidates |-> candidates]
  /\ changes = 0 /\ prompts = <<>>

InOrder(s, Before(_, _)) ==
  [i \in 1..Cardinality(s) |-> CHOOSE x \in s : Cardinality({y \in s : Before(y, x)}) = i - 1]
Ascending(s) == InOrder(s, LAMBDA a, b : a < b)
NewestOf(s, n) == {e \in s : Cardinality({f \in s : f > e}) < n}
Items(kind, ids) == [i \in DOMAIN ids |-> <<kind, ids[i]>>]
FirstOf(s, n) == SubSeq(s, 1, IF Len(s) < n THEN Len(s) ELSE n)
AtMost(s, n) == IF Cardinality(s) < n THEN Cardinality(s) ELSE n

-----------------------------------------------------------------------------
(* The store changes under the index; other components do it.              *)

Changes == changes < MaxHomeChanges /\ prompts = <<>> /\ changes' = changes + 1

RecordChanges(r) ==   \* approved, revoked, expired
  /\ Changes
  /\ active' = (active \ {r}) \cup ({r} \ active)
  /\ UNCHANGED <<stored, queue, endedWith, related, index, others, prompts>>

EventArrives(e) ==
  /\ Changes /\ Len(stored) < MaxEventsStored
  /\ stored' = Append(stored, e)
  /\ UNCHANGED <<active, queue, endedWith, related, index, others, prompts>>

BecomesCandidate(e) ==
  /\ Changes /\ e \in DOMAIN stored /\ e \notin queue
  /\ queue' = queue \cup {e}
  /\ UNCHANGED <<active, stored, endedWith, related, index, others, prompts>>

\* sync_from_store; what it does to the edges is in MemoryReview.
SyncIndex ==
  /\ Changes
  /\ index' = Current
  /\ UNCHANGED <<active, stored, queue, endedWith, related, others, prompts>>

-----------------------------------------------------------------------------
(* The sections.  A question q says which items match it; session is the   *)
(* one the recall is scoped to.                                            *)

Session(q) == IF ResolveKnob("session_scoped_recent_events") = 1 THEN q.session ELSE Unstamped

\* MemoryOSIndex.search: in the order of insertion, which is that of the synchronisation.
Hits(q, limit) ==
  LET known == Items("event", Ascending(1..index.events))
               \o Items("crystallized_candidate", Ascending(index.candidates))
               \o Items("crystallized_record", Ascending(index.records))
  IN IF q.says = {} THEN <<>> ELSE FirstOf(SelectSeq(known, LAMBDA i : i \in q.matches), limit)

Everything == MaxEventsStored * 2 + Cardinality(CrystalRecords)

\* _select_continuity_events: the newest of each class, then the newest of the rest.
ContinuityEvents(session) ==
  LET known == {e \in DOMAIN stored : session = Unstamped \/ stored[e].session # session}
      seeds == UNION {NewestOf({e \in known : stored[e].class = c}, SeedSlots[c]) : c \in Sources}
  IN seeds \cup NewestOf(known \ seeds, MaxContinuity - AtMost(seeds, MaxContinuity))

\* _select_session_events.
SessionEvents(session) ==
  NewestOf({e \in DOMAIN stored : stored[e].session \in {session, Unstamped}}, MaxContinuity)

BridgeEvents(q) == {e \in ContinuityEvents(Session(q)) : stored[e].class \in Bridged}

ContinuityBridge(q) ==
  IF BridgeEvents(q) = {} THEN <<>> ELSE <<Text(1)>> \o Items("event", Ascending(BridgeEvents(q)))

LastSession(q) ==
  LET past == {i \in DOMAIN endedWith : endedWith[i] # Session(q)}
  IN IF Session(q) = Unstamped \/ past = {} THEN <<>>
     ELSE <<<<"session", endedWith[CHOOSE i \in past : \A j \in past : j <= i]>>>>

\* What _recent_cross_session_lines collects, and takes to be seen ...
CrossSessionEvents(q) ==
  IF Session(q) = Unstamped \/ ResolveKnob("recent_cross_session_enabled") = 0 THEN {}
  ELSE {e \in queue \ BridgeEvents(q) : stored[e].session # Session(q) /\ ~stored[e].old}

\* ... and what of it is shown.
CrossSession(q) ==
  LET newest == NewestOf(CrossSessionEvents(q), ResolveKnob("recent_cross_session_max_items"))
  IN IF newest = {} THEN <<>> ELSE <<Text(2)>> \o Items("event", Reverse(Ascending(newest)))

ReviewCandidates(q) ==
  IF "candidates" \in q.says THEN FirstOf(Items("crystallized_candidate", Ascending(queue)), 5) ELSE <<>>

\* The degradation level of _crystallized_lines: by hits, by recency, by words in the texts.
RecordHits(q) == {r \in CrystalRecords : Record(r) \in ToSet(Hits(q, Everything))}
Level(q) == IF RecordHits(q) # {} THEN 0 ELSE IF q.says = {} THEN 1 ELSE 2

\* The records that may be shown, and the order of files in which they are read.
RecordPool(q) == IF Level(q) = 0 THEN active \cap RecordHits(q) ELSE active

ReadBefore(level, floor, a, b) ==
  IF level = 2 /\ (a \in floor) # (b \in floor) THEN a \in floor ELSE a < b

Permanents(q) ==
  LET level == Level(q)
  IN FirstOf(InOrder(RecordPool(q) \ ProvisionalOnes,
               LAMBDA a, b : IF level = 1 /\ Recurrence[a] # Recurrence[b] THEN Recurrence[a] > Recurrence[b]
                             ELSE ReadBefore(level, q.floor, a, b)),
             MaxTotal - MaxProvisional)

\* The first to expire come first.
Provisionals(q) ==
  LET level == Level(q)
      room == MaxTotal - Len(Permanents(q))
  IN FirstOf(InOrder(RecordPool(q) \cap ProvisionalOnes,
               LAMBDA a, b : IF ExpiryOf[a] # ExpiryOf[b] THEN ExpiryOf[a] < ExpiryOf[b]
                             ELSE ReadBefore(level, q.floor, a, b)),
             IF room > MaxProvisional THEN room ELSE MaxProvisional)

Crystallized(q) == Items("crystallized_record", Permanents(q) \o Provisionals(q))

CrystallizedHeader(q) ==
  CASE Level(q) = 0 -> "Crystallized Memory"
    [] Level(q) = 1 -> "Crystallized Memory (recent)"
    [] OTHER -> "Crystallized Memory (floor)"

FaultySeenBefore(q) ==   \* the records over the caps are registered too
  {Record(r) : r \in RecordPool(q)} \cup ToSet(ReviewCandidates(q))
  \cup {Event(e) : e \in BridgeEvents(q) \cup CrossSessionEvents(q)}

\* What the sections before Indexed Recall have registered as seen: of the records those that
\* are shown.
SeenBefore(q) ==
  ToSet(Crystallized(q)) \cup ToSet(ReviewCandidates(q))
  \cup {Event(e) : e \in BridgeEvents(q) \cup CrossSessionEvents(q)}

IndexedRecall(q, seen) ==
  LET fresh == SelectSeq(Hits(q, HitLimit), LAMBDA i : i \notin seen)
  IN IF q.says = {} \/ fresh = <<>> THEN <<>> ELSE <<Text(3)>> \o fresh

\* _event_lines looks at nothing that was seen.
EventSummaries(q) ==
  Items("event", Ascending(IF Session(q) = Unstamped THEN ContinuityEvents(Unstamped) ELSE SessionEvents(Session(q))))

\* _graph_layer_shadow_lines: one hop from the hits, to the record an edge points to, whatever
\* became of it; Indexed Recall has registered nothing as seen.
RelatedMemory(q, seen) ==
  LET anchors == {r \in CrystalRecords : Record(r) \in ToSet(Hits(q, HitLimit))}
      reached == SelectSeq(related, LAMBDA e : ({e.from, e.to} \cap anchors) # {})
      Shown(lines, e) == IF Record(e.to) \in seen \cup ToSet(lines) THEN lines ELSE Append(lines, Record(e.to))
  IN IF ResolveKnob("graph_layer_injection_enabled") = 1 /\ q.says # {} THEN FoldLeft(Shown, <<>>, reached) ELSE <<>>

OtherLines(title) == [i \in 1..others[title] |-> Text(10 + i)]

Section(title, lines) == [title |-> title, lines |-> lines]

\* _build_prefetch_sections; a section without lines is no section.
Sections(q) ==
  LET seen == SeenBefore(q)
  IN SelectSeq(
      <<Section("Recall Clarification Guard", IF "low clue" \in q.says THEN [i \in 1..4 |-> Text(i)] ELSE <<>>),
        Section("Current Foreground Task", IF q.anchor THEN <<Text(0)>> ELSE <<>>),
        Section("Identity Memory", OtherLines("Identity Memory")),
        Section("Continuity Bridge", ContinuityBridge(q)),
        Section("Last Session", LastSession(q)),
        Section("Recent Cross-Session", CrossSession(q)),
        Section("Conversation Carryover", OtherLines("Conversation Carryover")),
        Section("Working Memory", OtherLines("Working Memory")),
        Section("Crystallized Review Candidates", ReviewCandidates(q)),
        Section(CrystallizedHeader(q), Crystallized(q)),
        Section("Substrate Recall", OtherLines("Substrate Recall")),
        Section("Indexed Recall", IndexedRecall(q, seen)),
        Section("Recent Event Summaries", EventSummaries(q)),
        Section("Related Memory", RelatedMemory(q, seen))>>,
      LAMBDA s : s.lines # <<>>)

-----------------------------------------------------------------------------
(* The router.                                                             *)

\* plan_context_route with classify_ingress: the first that applies.
Route(q) ==
  CASE q.says \cap {"cancel", "resume deferred"} # {} -> "foreground_control"
    [] q.anchor /\ q.says \cap {"defer", "continue"} # {} -> "foreground_control"
    [] "low clue" \in q.says -> "ambiguous_recall"
    [] "diagnostic" \in q.says -> "diagnostic_current_status"
    [] "candidates" \in q.says -> "candidate_review"
    [] "architecture" \in q.says -> "memory_architecture_discussion"
    [] "task" \in q.says -> "active_task"
    [] OTHER -> "casual_continuity"

\* The patterns of prefetch.py include those of the router: "status" is in these alone.
Grounded(q) == q.says \cap {"diagnostic", "status"} # {}

CrystallizedTitles == {"Crystallized Memory", "Crystallized Memory (recent)", "Crystallized Memory (floor)"}

IsCrystallized(title) == title \in CrystallizedTitles

RequiredByRoute(route, title) ==
  CASE route \in {"foreground_control", "active_task"} -> title = "Current Foreground Task"
    [] route = "diagnostic_current_status" -> title = "Diagnostic Grounding"
    [] route = "candidate_review" -> title = "Crystallized Review Candidates" \/ IsCrystallized(title)
    [] route = "ambiguous_recall" -> title = "Recall Clarification Guard"
    [] route = "casual_continuity" -> title = "Conversation Carryover"
    [] OTHER -> FALSE

\* Of the headings of crystallized memory, the bare one only.
ExcludedByRoute(route, title) ==
  CASE route \in {"foreground_control", "diagnostic_current_status", "ambiguous_recall"} -> ~RequiredByRoute(route, title)
    [] route = "active_task" -> title = "Conversation Carryover"
    [] route = "casual_continuity" ->
         title \in {"Current Foreground Task", "Working Memory", "Diagnostic Grounding",
                    "Crystallized Review Candidates", "Crystallized Memory"}
    [] OTHER -> FALSE

\* route_context_sections: what the route requires, and what is relevant enough (q.relevant
\* stands for the scores) as far as the budget goes.
SelectedSections(q, sections) ==
  LET Take(acc, s) ==
        IF /\ ~ExcludedByRoute(Route(q), s.title)
           /\ \/ RequiredByRoute(Route(q), s.title)
              \/ s.title \in q.relevant /\ acc.used + Len(s.lines) <= q.budget
        THEN [used |-> acc.used + Len(s.lines), taken |-> Append(acc.taken, s)] ELSE acc
  IN FoldLeft(Take, [used |-> 0, taken |-> <<>>], sections).taken

-----------------------------------------------------------------------------
(* The budget, in lines: the header of the context is one, and so is that  *)
(* of a section.                                                           *)

SizeOf(sections) == FoldLeft(LAMBDA n, s : n + 1 + Len(s.lines), 1, sections)

Priority(title) ==
  CASE title = "Identity Memory" -> 10
    [] title = "Continuity Bridge" -> 20
    [] title = "Conversation Carryover" -> 30
    [] title = "Working Memory" -> 40
    [] IsCrystallized(title) -> 60
    [] title = "Last Session" -> 62
    [] title = "Related Memory" -> 65
    [] title = "Recent Event Summaries" -> 80
    [] title = "Indexed Recall" -> 90
    [] title = "Substrate Recall" -> 100
    [] title = "Current Foreground Task" -> 105
    [] title = "Recall Clarification Guard" -> 110
    [] title = "Diagnostic Grounding" -> 120
    [] title = "Current Memory-OS Runtime Facts" -> 130
    [] OTHER -> 50

\* _next_budget_drop_index: the least priority, the largest, the first.
DroppedBefore(sections, i, j) ==
  LET p == Priority(sections[i].title)
      o == Priority(sections[j].title)
      n == Len(sections[i].lines)
      m == Len(sections[j].lines)
  IN p < o \/ (p = o /\ (n > m \/ (n = m /\ i < j)))

\* _fit_single_section_budget: as many lines as fit, or none of the section.
CutSection(section, budget) ==
  IF budget <= 2 THEN <<>> ELSE <<Section(section.title, FirstOf(section.lines, budget - 2))>>

\* _fit_budget: sections are dropped until the rest fits or one is left, which is cut.
FitBudget(sections, budget) ==
  LET Drop(kept, unused) ==
        IF SizeOf(kept) <= budget \/ Len(kept) = 1 THEN kept
        ELSE RemoveAt(kept, CHOOSE i \in DOMAIN kept :
                              \A j \in DOMAIN kept \ {i} : DroppedBefore(kept, i, j))
      kept == FoldLeft(Drop, sections, sections)
  IN IF budget <= 1 \/ sections = <<>> THEN <<>>
     ELSE IF SizeOf(kept) <= budget THEN kept ELSE CutSection(kept[1], budget)

-----------------------------------------------------------------------------
(* build_prefetch.                                                         *)

\* _format_diagnostic; the lines of the facts are others.
DiagnosticSections ==
  <<Section("Diagnostic Grounding", <<Text(0)>>),
    Section("Current Memory-OS Runtime Facts", OtherLines("Current Memory-OS Runtime Facts"))>>

Titles(sections) == {sections[i].title : i \in DOMAIN sections}

\* The sections that the foreground task alone leaves.
ForegroundSections(q) ==
  SelectSeq(<<Section("Current Foreground Task", <<Text(0)>>), Section("Last Session", LastSession(q))>>,
            LAMBDA s : s.lines # <<>>)

\* The first condition that holds; where the route is not one that is applied, an ordinary
\* recall follows, after a diagnostic question too.
Mode(q) ==
  IF Grounded(q) /\ ~q.router THEN "diagnostic"
  ELSE IF q.foregroundOnly /\ q.anchor THEN "foreground"
  ELSE IF q.router /\ Route(q) \in q.routes THEN "routed"
  ELSE "ordinary"

\* _build_context_router_apply_prefetch, with build_prefetch_section_candidates.
RoutedSections(q) ==
  IF ~Grounded(q) THEN SelectedSections(q, Sections(q))
  ELSE IF SelectedSections(q, <<Section("Diagnostic Grounding", <<Text(0)>>)>>) = <<>> THEN <<>>
  ELSE DiagnosticSections

OfferedSections(q) ==
  CASE Mode(q) = "diagnostic" -> DiagnosticSections
    [] Mode(q) = "foreground" -> ForegroundSections(q)
    [] Mode(q) = "routed" -> RoutedSections(q)
    [] Mode(q) = "ordinary" -> Sections(q)

\* _record_memory_sources: the sections before the budget cut them; the runtime facts are part
\* of the text of the grounding.
NotedTitles(sections) == Titles(sections) \ {"Current Memory-OS Runtime Facts"}

\* MemoryOSProvider.prefetch.
Prefetch(q) ==
  /\ prompts = <<>>
  /\ \E offered \in {OfferedSections(q)} :
       prompts' = <<[question |-> q, mode |-> Mode(q), offered |-> offered,
                     shown |-> FitBudget(offered, q.budget), noted |-> NotedTitles(offered)]>>
  /\ UNCHANGED <<active, stored, queue, endedWith, related, index, others, changes>>

StoreChanges ==
  \/ \E r \in CrystalRecords : RecordChanges(r)
  \/ \E e \in EventKinds : EventArrives(e)
  \/ \E e \in DOMAIN stored : BecomesCandidate(e)
  \/ SyncIndex

RecallNext(questions) == StoreChanges \/ \E q \in questions : Prefetch(q)

-----------------------------------------------------------------------------
(* Properties.                                                             *)

RecallTypeOK ==
  /\ active \subseteq CrystalRecords /\ index.records \subseteq CrystalRecords
  /\ Len(stored) <= MaxEventsStored /\ ToSet(stored) \subseteq EventKinds
  /\ queue \subseteq DOMAIN stored
  /\ index.events \in 0..Len(stored) /\ index.candidates \subseteq queue
  /\ changes \in 0..MaxHomeChanges
  /\ Len(prompts) <= 1
  /\ \A p \in ToSet(prompts) : p.mode \in {"ordinary", "routed", "foreground", "diagnostic"}

\* The items of the sections of these titles.
ItemsOf(sections, titles) ==
  UNION {ToSet(sections[n].lines) : n \in {m \in DOMAIN sections : sections[m].title \in titles}}

\* The context is as long as the budget at most, and no section that was dropped for it
\* outranks one that was kept.
FitsTheBudget(p) ==
  /\ p.shown = <<>> \/ SizeOf(p.shown) <= p.question.budget
  /\ \A i \in DOMAIN p.offered, j \in DOMAIN p.shown :
       p.offered[i].title \in Titles(p.shown) \/ Priority(p.offered[i].title) <= Priority(p.shown[j].title)

\* A record that is no longer active is shown by an index that lags, or as the end of an edge
\* while a knob allows these; never as crystallized memory.
InactiveOnlyByIndexOrEdge(p) ==
  \A r \in CrystalRecords \ active :
    /\ Record(r) \notin ItemsOf(p.shown, CrystallizedTitles)
    /\ Record(r) \in ItemsOf(p.shown, {"Indexed Recall"}) => r \in index.records
    /\ Record(r) \in ItemsOf(p.shown, {"Related Memory"}) =>
         ResolveKnob("graph_layer_injection_enabled") = 1 /\ \E n \in DOMAIN related : related[n].to = r

\* Neither kind of record crowds out the other: provisional ones that are in the pool and left
\* out mean that their places are taken, and so for the permanent ones.
CapsLeaveRoom(p) ==
  LET shown == {r \in CrystalRecords : Record(r) \in ItemsOf(p.offered, CrystallizedTitles)}
      left == RecordPool(p.question) \ shown
  IN p.mode = "ordinary" =>
       /\ Cardinality(shown) <= MaxTotal
       /\ left \ ProvisionalOnes # {} => Cardinality(shown \ ProvisionalOnes) = MaxTotal - MaxProvisional
       /\ left \cap ProvisionalOnes # {} =>
            Cardinality(shown) = MaxTotal /\ Cardinality(shown \cap ProvisionalOnes) >= MaxProvisional
       /\ \A r \in left \cap ProvisionalOnes, o \in shown \cap ProvisionalOnes : ExpiryOf[o] <= ExpiryOf[r]

\* A hit that Indexed Recall leaves out because it was seen is shown by another section: no
\* section takes a thing off the list that it does not show, but for the events over the
\* limit of Recent Cross-Session.
NothingFoundIsLost(p) ==
  p.mode = "ordinary" =>
    ToSet(Hits(p.question, HitLimit)) \subseteq
      ItemsOf(p.offered, Titles(p.offered)) \cup {Event(e) : e \in CrossSessionEvents(p.question)}

\* Twice is shown what the summaries of events repeat, and the end of an edge that Indexed
\* Recall has shown: nothing else.
ShownTwice(p) ==
  \A m, n \in DOMAIN p.offered : m < n =>
    \A i \in ToSet(p.offered[m].lines) \cap ToSet(p.offered[n].lines) :
      \/ i[1] = "text"
      \/ p.offered[n].title = "Recent Event Summaries" /\ i[1] = "event"
      \/ p.offered[m].title = "Indexed Recall" /\ p.offered[n].title = "Related Memory"

\* A recall that is scoped to a session summarises no event of another one, and brings as
\* those of former sessions none of its own.
SessionsAreKeptApart(p) ==
  Session(p.question) # Unstamped =>
    \A e \in DOMAIN stored :
      /\ Event(e) \in ItemsOf(p.offered, {"Recent Event Summaries"}) =>
           stored[e].session \in {Session(p.question), Unstamped}
      /\ Event(e) \in ItemsOf(p.offered, {"Continuity Bridge", "Recent Cross-Session"}) =>
           stored[e].session # Session(p.question)

\* The router leaves a control question nothing but its task, a vague one nothing but the
\* guard, and no budget of its takes away what a route requires.
RoutesAreObeyed(p) ==
  p.mode = "routed" =>
    LET route == Route(p.question)
    IN /\ route = "foreground_control" => Titles(p.offered) \subseteq {"Current Foreground Task"}
       /\ route = "ambiguous_recall" => Titles(p.offered) \subseteq {"Recall Clarification Guard"}
       /\ ~Grounded(p.question) =>
            \A t \in Titles(Sections(p.question)) \ Titles(p.offered) : ~RequiredByRoute(route, t)

\* What is shown is noted, whatever the budget cut: the runtime facts go with the grounding.
ShownIsNoted(p) ==
  Titles(p.shown) \subseteq
    p.noted \cup (IF "Diagnostic Grounding" \in p.noted THEN {"Current Memory-OS Runtime Facts"} ELSE {})

RecallIsGoverned ==
  /\ ShortlistsAreSound
  /\ \A p \in ToSet(prompts) :
       /\ FitsTheBudget(p) /\ InactiveOnlyByIndexOrEdge(p) /\ CapsLeaveRoom(p) /\ NothingFoundIsLost(p)
       /\ ShownTwice(p) /\ SessionsAreKeptApart(p) /\ RoutesAreObeyed(p) /\ ShownIsNoted(p)
================================================================================
