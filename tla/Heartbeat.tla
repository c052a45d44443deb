------------------------------- MODULE Heartbeat -------------------------------
(***************************************************************************)
(* The heartbeat of Memory OS (hermes/memory_os/runtime.py): events become *)
(* items of working memory and candidates for the owner (inner_drive.py,   *)
(* working.py), once each, by the ids in a state file that is written when *)
(* the heartbeat is over; and the candidates' file, which grows until it   *)
(* is compacted (crystallized.py).  Nothing here is locked.                *)
(* An operator named Faulty... is a definition with a bug put in.          *)
(***************************************************************************)
EXTENDS Integers, Sequences, FiniteSets

CONSTANTS
  Events,          \* numbers, in the order of their time stamps
  EventKind,       \* what kind each of them is
  Beating,         \* processes that run heartbeats or compact the candidates
  MaxEvents,       \* max_events of a heartbeat
  SourceCap,       \* max_events_per_source_class
  WorkingCap,      \* max_items of a working document
  RetentionTime,   \* retention_days, in periods
  MaxTime, MaxBeats, MaxBeatFaults   \* bounds

ASSUME HeartbeatAssumption ==
  /\ Events \subseteq Nat \ {0} /\ IsFiniteSet(Events)
  /\ MaxEvents \in Nat \ {0} /\ SourceCap \in Nat /\ WorkingCap \in Nat \ {0}
  /\ {MaxTime, MaxBeats, MaxBeatFaults} \subseteq Nat

VARIABLES
  time,            \* the clock, in periods of 18 hours, the half life of what lingers
  arrived,         \* the events in the store
  processed,       \* processed_event_ids of heartbeat_state.json
  working,         \* the items of each working document
  queued,          \* the lines of candidates.jsonl
  archived,        \* the archive of candidates: what was appended to it, time after time
  eligible,        \* candidates whose last triage says owner_eligible
  beat,            \* what each process does
  beats, beatFaults,
  upset            \* history: events driven by two at once, or by one that was killed or failed

heartbeatVars == <<time, arrived, processed, working, queued, archived, eligible, beat, beats, beatFaults, upset>>

Drives == {"lingering", "attention"}   \* emotional and curiosity are filled by nothing here

AtRest == [pc |-> "idle", seen |-> {}, todo |-> {}, done |-> {}, doc |-> {}, alone |-> TRUE]

HeartbeatInit ==
  /\ time = 0 /\ arrived = {} /\ processed = {}
  /\ working = [d \in Drives |-> {}]
  /\ queued = {} /\ archived = <<>> /\ eligible = {}
  /\ beat = [h \in Beating |-> AtRest]
  /\ beats = 0 /\ beatFaults = 0 /\ upset = {}

-----------------------------------------------------------------------------
(* What an event is good for.                                              *)

\* classify_event_for_inner_drive: the document and the weight (of 1000) of its item, and
\* whether it becomes a candidate.  What only the index keeps becomes neither.
Drive(class, document, weight, candidate) ==
  [class |-> class, document |-> document, weight |-> weight, candidate |-> candidate]

Decision(sort) ==
  CASE sort = "turn" -> Drive("foreground", "lingering", 600, TRUE)
    [] sort = "fragment" -> Drive("foreground", "lingering", 600, FALSE)   \* _is_obvious_fragment
    [] sort = "memory_write" -> Drive("foreground", "lingering", 450, TRUE)
    [] sort = "mirrored" -> Drive("session", "lingering", 300, FALSE)
    [] sort = "journal" -> Drive("state_source", "attention", 250, FALSE)
    [] sort = "self" -> Drive("self_activity", "attention", 200, FALSE)
    [] OTHER -> Drive("cron", "", 0, FALSE)

Of(e) == Decision(EventKind[e])

CountOf(selected, class) == Cardinality({e \in selected : Of(e).class = class})

AtLeastOne(n) == IF n > 1 THEN n ELSE 1

\* A class has its cap, and self_activity at most 15 of 100 of what is selected.
Defers(selected, class) ==
  \/ CountOf(selected, class) >= SourceCap
  \/ /\ class = "self_activity" /\ selected # {}
     /\ CountOf(selected, class) >= AtLeastOne((Cardinality(selected) * 15) \div 100)

\* select_events_for_inner_drive: oldest first, until there are enough; what is selected
\* before an event decides about it.
Selects(todo, seen) ==
  /\ todo \subseteq arrived \ seen
  /\ \A e \in arrived \ seen :
       LET older == {f \in todo : f < e}
       IN e \in todo <=> Cardinality(older) < MaxEvents /\ ~Defers(older, Of(e).class)

-----------------------------------------------------------------------------
(* Working memory.  What a file holds is a set of entries that are told    *)
(* apart by their places.                                                  *)

\* The place behind all that there are.
Behind(entries) ==
  IF entries = {} THEN 1 ELSE 1 + CHOOSE n \in {x.at : x \in entries} : \A x \in entries : x.at <= n

Lightest(items) ==
  CHOOSE i \in items : \A j \in items : i.weight < j.weight \/ (i.weight = j.weight /\ i.at <= j.at)

NewItem(items, e) == [event |-> e, weight |-> Of(e).weight, since |-> time, expired |-> -1, at |-> Behind(items)]

FaultyWithItem(items, e) ==   \* evicts before it adds, and only over the cap
  {NewItem(items, e)} \cup (IF Cardinality(items) > WorkingCap THEN items \ {Lightest(items)} ELSE items)

\* add_item: over the cap the lightest item is evicted, be it the new one.
WithItem(items, e) ==
  LET added == items \cup {NewItem(items, e)}
  IN IF Cardinality(added) > WorkingCap THEN added \ {Lightest(added)} ELSE added

\* A weight below 1024 after n half lives.
Halved(weight, n) == IF n > 9 THEN 0 ELSE weight \div <<1, 2, 4, 8, 16, 32, 64, 128, 256, 512>>[n + 1]

\* decay_items: halved with every half life, that of attention being a third; below
\* a tenth the item expires.
Decayed(item, document) ==
  LET weight == Halved(item.weight, (time - item.since) * (IF document = "attention" THEN 3 ELSE 1))
  IN IF item.expired >= 0 THEN item
     ELSE [event |-> item.event, weight |-> weight, since |-> time,
           expired |-> IF weight < 100 THEN time ELSE -1, at |-> item.at]

\* prune_expired_items, 72 hours later.
Pruned(items) == {item \in items : item.expired < 0 \/ time - item.expired < 4}

Aged(items, document) == Pruned({Decayed(item, document) : item \in items})

-----------------------------------------------------------------------------
(* A heartbeat.                                                            *)

Others(h) == {o \in Beating \ {h} : beat[o].pc # "idle"}
InWork(h) == beat[h].todo \cup beat[h].done

\* Who begins while another is at work upsets what both drive.
StartsWith(h, state) ==
  /\ beat[h].pc = "idle" /\ beats < MaxBeats
  /\ beats' = beats + 1
  /\ beat' = [o \in Beating |-> IF o = h THEN [state EXCEPT !.alone = Others(h) = {}]
                                ELSE [beat[o] EXCEPT !.alone = @ /\ beat[o].pc = "idle"]]
  /\ upset' = upset \cup UNION {InWork(o) : o \in Others(h)}

Goes(h, state) == beat' = [beat EXCEPT ![h] = state]

\* _write_attempt_state reads the state file ...
ReadAttempt(h) ==
  /\ StartsWith(h, [AtRest EXCEPT !.pc = "attempt", !.seen = processed])
  /\ UNCHANGED <<time, arrived, processed, working, queued, archived, eligible, beatFaults>>

\* ... and writes it back: what another has put there in between is lost.
WriteAttempt(h) ==
  /\ beat[h].pc = "attempt"
  /\ processed' = beat[h].seen
  /\ Goes(h, [beat[h] EXCEPT !.pc = "select"])
  /\ UNCHANGED <<time, arrived, working, queued, archived, eligible, beats, beatFaults, upset>>

FaultySelectPending(h) ==   \* the ids in the state file are not looked at
  /\ beat[h].pc = "select"
  /\ \E todo \in SUBSET arrived :
       /\ Selects(todo, {})
       /\ Goes(h, [beat[h] EXCEPT !.pc = "drive", !.seen = processed, !.todo = todo])
       /\ upset' = upset \cup (IF beat[h].alone THEN {} ELSE todo)
  /\ UNCHANGED <<time, arrived, processed, working, queued, archived, eligible, beats, beatFaults>>

SelectPending(h) ==
  /\ beat[h].pc = "select"
  /\ \E todo \in SUBSET arrived :
       /\ Selects(todo, processed)
       /\ Goes(h, [beat[h] EXCEPT !.pc = "drive", !.seen = processed, !.todo = todo])
       /\ upset' = upset \cup (IF beat[h].alone THEN {} ELSE todo)
  /\ UNCHANGED <<time, arrived, processed, working, queued, archived, eligible, beats, beatFaults>>

Current(h) == CHOOSE e \in beat[h].todo : \A f \in beat[h].todo : e <= f
NextOf(h, state) == [state EXCEPT !.pc = "drive", !.done = @ \cup {Current(h)}, !.todo = @ \ {Current(h)}]

\* process_event: the document is read (an event that becomes nothing is done) ...
DriveEvent(h) ==
  /\ beat[h].pc = "drive" /\ beat[h].todo # {}
  /\ Goes(h, IF Of(Current(h)).document = "" THEN NextOf(h, beat[h])
             ELSE [beat[h] EXCEPT !.pc = "item", !.doc = working[Of(Current(h)).document]])
  /\ UNCHANGED <<time, arrived, processed, working, queued, archived, eligible, beats, beatFaults, upset>>

\* ... written with the item ...
WriteItem(h) ==
  /\ beat[h].pc = "item"
  /\ working' = [working EXCEPT ![Of(Current(h)).document] = WithItem(beat[h].doc, Current(h))]
  /\ Goes(h, IF Of(Current(h)).candidate THEN [beat[h] EXCEPT !.pc = "candidate", !.doc = {}]
             ELSE NextOf(h, [beat[h] EXCEPT !.doc = {}]))
  /\ UNCHANGED <<time, arrived, processed, queued, archived, eligible, beats, beatFaults, upset>>

\* ... and the candidate, cand_<event id>, appended without a look at what is there.
AppendCandidate(h) ==
  /\ beat[h].pc = "candidate"
  /\ queued' = queued \cup {[event |-> Current(h), born |-> time, at |-> Behind(queued)]}
  /\ Goes(h, NextOf(h, beat[h]))
  /\ UNCHANGED <<time, arrived, processed, working, archived, eligible, beats, beatFaults, upset>>

AgeDocuments(h) ==
  /\ beat[h].pc = "drive" /\ beat[h].todo = {}
  /\ working' = [d \in Drives |-> Aged(working[d], d)]
  /\ Goes(h, [beat[h] EXCEPT !.pc = "state"])
  /\ UNCHANGED <<time, arrived, processed, queued, archived, eligible, beats, beatFaults, upset>>

\* Only now the ids are written, over what another has written.
WriteBeatState(h) ==
  /\ beat[h].pc = "state"
  /\ processed' = beat[h].seen \cup beat[h].done
  /\ Goes(h, AtRest)
  /\ UNCHANGED <<time, arrived, working, queued, archived, eligible, beats, beatFaults, upset>>

-----------------------------------------------------------------------------
(* The candidates' file.                                                   *)

\* append_candidate_triage by a lane or the owner: the last line decides.
TriageCandidate(e) ==
  /\ \E line \in queued : line.event = e
  /\ eligible' = IF e \in eligible THEN eligible \ {e} ELSE eligible \cup {e}
  /\ UNCHANGED <<time, arrived, processed, working, queued, archived, beat, beats, beatFaults, upset>>

Stays(line) == line.event \in eligible \/ time - line.born < RetentionTime

\* compact_candidate_queue: the file is read ...
ReadCandidates(h) ==
  /\ queued # {}
  /\ StartsWith(h, [AtRest EXCEPT !.pc = "rewrite", !.doc = queued, !.done = {line.event : line \in queued}])
  /\ UNCHANGED <<time, arrived, processed, working, queued, archived, eligible, beatFaults>>

\* ... rewritten with what stays ...
RewriteCandidates(h) ==
  /\ beat[h].pc = "rewrite"
  /\ queued' = {line \in beat[h].doc : Stays(line)}
  /\ Goes(h, [beat[h] EXCEPT !.pc = "archive", !.doc = {line \in @ : ~Stays(line)}])
  /\ UNCHANGED <<time, arrived, processed, working, archived, eligible, beats, beatFaults, upset>>

\* ... and then only the rest is archived, if the caller has named an archive.
ArchiveCandidates(h, given) ==
  /\ beat[h].pc = "archive"
  /\ archived' = IF given THEN Append(archived, beat[h].doc) ELSE archived
  /\ upset' = upset \cup (IF given THEN {} ELSE {line.event : line \in beat[h].doc})
  /\ Goes(h, AtRest)
  /\ UNCHANGED <<time, arrived, processed, working, queued, eligible, beats, beatFaults>>

-----------------------------------------------------------------------------
(* The environment.                                                        *)

\* Killed, or an exception that ends the heartbeat: what it has written stays.
BreakOff(h) ==
  /\ beat[h].pc # "idle" /\ beatFaults < MaxBeatFaults
  /\ beatFaults' = beatFaults + 1
  /\ upset' = upset \cup InWork(h)
  /\ Goes(h, AtRest)
  /\ UNCHANGED <<time, arrived, processed, working, queued, archived, eligible, beats>>

ArriveEvent(e) ==
  /\ e \notin arrived
  /\ arrived' = arrived \cup {e}
  /\ UNCHANGED <<time, processed, working, queued, archived, eligible, beat, beats, beatFaults, upset>>

PassTime ==
  /\ time < MaxTime
  /\ time' = time + 1
  /\ UNCHANGED <<arrived, processed, working, queued, archived, eligible, beat, beats, beatFaults, upset>>

BeatStep(h) ==
  \/ ReadAttempt(h) \/ WriteAttempt(h) \/ SelectPending(h) \/ DriveEvent(h) \/ WriteItem(h)
  \/ AppendCandidate(h) \/ AgeDocuments(h) \/ WriteBeatState(h) \/ BreakOff(h)

CompactStep(h) ==
  ReadCandidates(h) \/ RewriteCandidates(h) \/ \E given \in BOOLEAN : ArchiveCandidates(h, given)

HeartbeatNext ==
  \/ PassTime \/ \E e \in Events : ArriveEvent(e) \/ TriageCandidate(e)
  \/ \E h \in Beating : BeatStep(h) \/ CompactStep(h)

HeartbeatSpec == HeartbeatInit /\ [][HeartbeatNext]_heartbeatVars

-----------------------------------------------------------------------------
(* Properties                                                              *)

WorkingItems == [event: arrived, weight: Nat, since: 0..time, expired: -1..time, at: Nat]
CandidateLines == [event: arrived, born: 0..time, at: Nat]
BeatStates ==
  [pc: {"idle", "attempt", "select", "drive", "item", "candidate", "state", "rewrite", "archive"},
   seen: SUBSET arrived, todo: SUBSET arrived, done: SUBSET arrived,
   doc: SUBSET (WorkingItems \cup CandidateLines), alone: BOOLEAN]

\* The variables have the values the code gives them; a working document keeps its cap
\* whoever writes it.
HeartbeatTypeOK ==
  /\ time \in 0..MaxTime /\ arrived \subseteq Events /\ processed \subseteq arrived
  /\ eligible \subseteq Events /\ upset \subseteq arrived
  /\ beats \in 0..MaxBeats /\ beatFaults \in 0..MaxBeatFaults
  /\ DOMAIN working = Drives
  /\ \A d \in Drives : working[d] \subseteq WorkingItems /\ IsFiniteSet(working[d]) /\ Cardinality(working[d]) <= WorkingCap
  /\ queued \subseteq CandidateLines /\ IsFiniteSet(queued) /\ archived \in Seq(SUBSET CandidateLines)
  /\ beat \in [Beating -> BeatStates]

EntriesOf(entries, e) == {x \in entries : x.event = e}

Moving == {h \in Beating : beat[h].pc = "archive"}

\* An event's lines: in the queue, in the archive, or in the hands of who moves them from one
\* to the other.
LinesOf(e) ==
  {<<"queued", 0, line>> : line \in EntriesOf(queued, e)}
  \cup (UNION {{<<"archived", i, line>> : line \in EntriesOf(archived[i], e)} : i \in DOMAIN archived})
  \cup (UNION {{<<"moving", h, line>> : line \in EntriesOf(beat[h].doc, e)} : h \in Moving})

AtMostOne(entries) == \A x, y \in entries : x = y

\* An event is driven once: it has one item at most, one line as a candidate at most, and has
\* that line once it counts as processed, unless two processes were at it at the same time,
\* one was killed or failed in the middle, or no archive was named.
EventsAreDrivenOnce ==
  \A e \in arrived \ upset :
    /\ \A d \in Drives : AtMostOne(EntriesOf(working[d], e))
    /\ AtMostOne(LinesOf(e))
    /\ e \in processed /\ Of(e).candidate => LinesOf(e) # {}
================================================================================
