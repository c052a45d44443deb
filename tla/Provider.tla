------------------------------- MODULE Provider -------------------------------
(***************************************************************************)
(* MemoryOSProvider (hermes/memory_os/__init__.py): what the host calls in *)
(* a session.  It keeps the anchor of the foreground task, in memory and   *)
(* in a file that only grows, and hands the events of the turns to a       *)
(* writer thread through a bounded queue.  Providers of the same profile   *)
(* share the files.  A text is its intent and its topic.                   *)
(* An operator named Faulty... is a definition with a bug put in.          *)
(***************************************************************************)
EXTENDS Integers, Sequences, FiniteSets

CONSTANTS
  Providers,           \* processes of the host, each with one provider
  Topics,              \* what a text may be about
  QueueSize,           \* queue_max_size
  MaxTurns,            \* bound: turns
  MaxInits,            \* bound: initialisations
  MaxProviderCrashes   \* bound: processes killed

ASSUME ProviderAssumption == QueueSize \in Nat /\ MaxTurns \in Nat /\ MaxInits \in Nat

VARIABLES
  provider,      \* the state of each provider object
  outbox,        \* its queue and its writer thread
  anchorFile,    \* active_task_anchor.jsonl: the last line, and whether any line is active
  deferredFile,  \* deferred_foreground_tasks.jsonl: the last anchor
  events,        \* the ids of the events in the store, in their order
  turns, inits, providerCrashes,
  accepted,      \* history: the events that were put in a queue
  excused,       \* history: those whose queue was replaced, or whose process was killed
  lastWriter     \* history: who wrote the anchor file last

providerVars == <<provider, outbox, anchorFile, deferredFile, events, turns, inits, providerCrashes,
                  accepted, excused, lastWriter>>

Small == "small talk"     \* a text without entities or keywords
Command == "command"      \* a text like: approve oa_0123456789
Texts == Topics \cup {Small, Command}

Forms == {"none", "task", "deferred", "cancelled", "resumed", "ambiguous"}
NoAnchor == [form |-> "none", task |-> "none", ops |-> {}]

\* _format_current_task_anchor and its siblings: only a task and a resumed one have the
\* line with the current task; all but the ambiguous one keep the completed operations.
TaskAnchor(task, ops) == [form |-> "task", task |-> task, ops |-> ops]
DeferredAnchor(a) == [form |-> "deferred", task |-> "none", ops |-> a.ops]
CancelledAnchor(a) == [form |-> "cancelled", task |-> "none", ops |-> a.ops]
ResumedAnchor(a) == [form |-> "resumed", task |-> a.task, ops |-> a.ops]
AmbiguousAnchor == [form |-> "ambiguous", task |-> "none", ops |-> {}]

NoWrite == [status |-> "none", anchor |-> NoAnchor]
NewObject == [pc |-> "off", anchor |-> NoAnchor, switches |-> 0, only |-> FALSE, text |-> Small, id |-> 0,
              write |-> NoWrite]
NoThread == [queue |-> <<>>, unfinished |-> 0, busy |-> 0, worker |-> "none", stop |-> FALSE]

ProviderInit ==
  /\ provider = [p \in Providers |-> NewObject]
  /\ outbox = [p \in Providers |-> NoThread]
  /\ anchorFile = [last |-> NoWrite, active |-> FALSE]
  /\ deferredFile = NoAnchor
  /\ events = <<>>
  /\ turns = 0 /\ inits = 0 /\ providerCrashes = 0
  /\ accepted = {} /\ excused = {}
  /\ lastWriter = "nobody"

-----------------------------------------------------------------------------
(* The anchor of the foreground task.                                      *)

\* _read_latest_active_task_anchor: the last line decides.
Recovered == IF anchorFile.last.status = "active" THEN anchorFile.last.anchor ELSE NoAnchor

Features(text) == text # Small

\* _is_topic_switch: nothing in common with the task of the anchor.
IsTopicSwitch(a, text) ==
  /\ a.task # "none" /\ Features(a.task) /\ Features(text)
  /\ a.task # text

Writes(status, anchor) == [status |-> status, anchor |-> anchor]

\* The anchor is cleared: a line says that it was completed.
Cleared(s) ==
  [s EXCEPT !.anchor = NoAnchor, !.switches = 0, !.only = FALSE,
            !.write = IF s.anchor = NoAnchor THEN NoWrite ELSE Writes("completed", s.anchor)]

Anchored(s, anchor, status, only) ==
  [s EXCEPT !.anchor = anchor, !.only = only, !.write = Writes(status, anchor)]

FaultyDeferred(s) == [s EXCEPT !.anchor = DeferredAnchor(s.anchor), !.only = TRUE]  \* not written

Deferred(s) == Anchored(s, DeferredAnchor(s.anchor), "active", TRUE)

Resumed(s) ==
  Anchored(s, IF deferredFile = NoAnchor THEN AmbiguousAnchor ELSE ResumedAnchor(deferredFile), "active", TRUE)

\* classify_ingress: what a text is taken for, where there is an anchor and where not.
Intents(a) ==
  {"cancellation", "explicit_deferred_resume", "ambiguous_recall", "unclassified"}
    \cup (IF a = NoAnchor THEN {} ELSE {"defer_current_task", "continue_current_task"})

\* _refresh_current_task_anchor_from_query, for a text that no rule classifies.
Followed(s, text) ==
  IF IsTopicSwitch(s.anchor, text)
  THEN IF s.switches + 1 >= 2 THEN Cleared(s) ELSE [s EXCEPT !.switches = @ + 1, !.only = FALSE]
  ELSE IF s.anchor # NoAnchor /\ ~Features(text) THEN [s EXCEPT !.switches = 0]
  ELSE Anchored([s EXCEPT !.switches = 0], TaskAnchor(text, s.anchor.ops), "active", FALSE)

Refreshed(s, intent, text) ==
  CASE intent = "defer_current_task" -> Deferred(s)
    [] intent = "explicit_deferred_resume" -> Resumed(s)
    [] intent = "cancellation" -> Anchored(s, CancelledAnchor(s.anchor), "cancelled", TRUE)
    [] intent = "continue_current_task" -> [s EXCEPT !.only = TRUE]
    [] intent = "ambiguous_recall" -> Cleared(s)
    [] OTHER -> Followed(s, text)

Becomes(p, s) == provider' = [provider EXCEPT ![p] = s]

Steady(p) == provider[p].write = NoWrite   \* the file is written before the call goes on

\* on_turn_start and prefetch.  A command about a review is a text like any other here.
Prefetch(p, intent, text) ==
  LET s == provider[p] IN
  /\ s.pc = "idle" /\ Steady(p) /\ turns < MaxTurns
  /\ intent \in Intents(s.anchor)
  /\ text = Command => intent = "unclassified"
  /\ intent # "unclassified" => text = Small
  /\ turns' = turns + 1
  /\ Becomes(p, [Refreshed(s, intent, text) EXCEPT !.pc = "turn", !.text = text, !.id = turns + 1])
  /\ IF intent = "defer_current_task" THEN deferredFile' = s.anchor ELSE UNCHANGED deferredFile
  /\ UNCHANGED <<outbox, anchorFile, events, inits, providerCrashes, accepted, excused, lastWriter>>

\* _supersede_active_anchors: every line that is active is appended again as superseded,
\* each time, before the new line is written: killed in between, the anchor is gone.
SupersedeAnchors(p) ==
  /\ provider[p].write # NoWrite /\ anchorFile.active
  /\ anchorFile.last.status \in {"active", "completed", "cancelled"}
  /\ anchorFile' = [anchorFile EXCEPT !.last = Writes("superseded", @.anchor)]
  /\ lastWriter' = p
  /\ UNCHANGED <<provider, outbox, deferredFile, events, turns, inits, providerCrashes, accepted, excused>>

\* _write_active_task_anchor
WriteAnchor(p) ==
  /\ provider[p].write # NoWrite
  /\ ~anchorFile.active \/ anchorFile.last.status = "superseded"
  /\ anchorFile' = [last |-> provider[p].write,
                    active |-> anchorFile.active \/ provider[p].write.status = "active"]
  /\ lastWriter' = p
  /\ Becomes(p, [provider[p] EXCEPT !.write = NoWrite])
  /\ UNCHANGED <<outbox, deferredFile, events, turns, inits, providerCrashes, accepted, excused>>

\* _capture_turn_operations: the operations of a turn are added to the anchor of a task,
\* whatever the turn was about.
Captured(s, busy) ==
  IF busy /\ s.anchor.form = "task"
  THEN Anchored(s, TaskAnchor(s.anchor.task, s.anchor.ops \cup {s.text}), "active", s.only)
  ELSE s

\* sync_turn: a review command leaves no event; a full queue drops it.
SyncTurn(p, busy) ==
  LET s == provider[p]
      o == outbox[p]
      enqueued == s.text # Command /\ Len(o.queue) < QueueSize
  IN
  /\ s.pc = "turn" /\ Steady(p)
  /\ Becomes(p, [(IF s.text = Command THEN s ELSE Captured(s, busy)) EXCEPT !.pc = "idle"])
  /\ IF enqueued
     THEN /\ outbox' = [outbox EXCEPT ![p] = [o EXCEPT !.queue = Append(@, s.id), !.unfinished = @ + 1]]
          /\ accepted' = accepted \cup {s.id}
     ELSE UNCHANGED <<outbox, accepted>>
  /\ UNCHANGED <<anchorFile, deferredFile, events, turns, inits, providerCrashes, excused, lastWriter>>

\* on_pre_compress: the last text of the user becomes the task; without one the anchor is
\* dropped and the file left.
PreCompress(p, user, busy) ==
  LET s == provider[p] IN
  /\ s.pc = "turn" /\ Steady(p)
  /\ Becomes(p, IF user
                THEN Anchored(s, TaskAnchor(s.text, s.anchor.ops \cup (IF busy THEN {s.text} ELSE {})),
                              "active", s.only)
                ELSE [s EXCEPT !.anchor = NoAnchor])
  /\ UNCHANGED <<outbox, anchorFile, deferredFile, events, turns, inits, providerCrashes, accepted, excused,
                 lastWriter>>

-----------------------------------------------------------------------------
(* The writer thread.                                                      *)

\* initialize, also for another session of the same object: the queue is replaced by an
\* empty one, the thread is started once in the life of the object.
Initialize(p) ==
  LET s == provider[p]
      o == outbox[p]
  IN
  /\ s.pc \in {"off", "idle", "closed"} /\ Steady(p) /\ inits < MaxInits
  /\ inits' = inits + 1
  /\ Becomes(p, [s EXCEPT !.pc = "idle", !.anchor = IF @ = NoAnchor THEN Recovered ELSE @])
  /\ outbox' = [outbox EXCEPT ![p] = [o EXCEPT !.queue = <<>>, !.unfinished = 0, !.stop = FALSE,
                                               !.worker = IF @ = "none" THEN "alive" ELSE @]]
  /\ excused' = excused \cup {o.queue[i] : i \in 1..Len(o.queue)}
  /\ UNCHANGED <<anchorFile, deferredFile, events, turns, providerCrashes, accepted, lastWriter>>

Works(p) == outbox[p].worker = "alive"

\* _worker_loop takes an event ...
TakeEvent(p) ==
  LET o == outbox[p] IN
  /\ Works(p) /\ o.busy = 0 /\ o.queue # <<>>
  /\ outbox' = [outbox EXCEPT ![p] = [o EXCEPT !.busy = Head(o.queue), !.queue = Tail(o.queue)]]
  /\ UNCHANGED <<provider, anchorFile, deferredFile, events, turns, inits, providerCrashes, accepted, excused,
                 lastWriter>>

\* ... writes it, and reports it to what is the queue by now: a queue that has nothing
\* unfinished raises, which ends the thread.
WriteEvent(p) ==
  LET o == outbox[p] IN
  /\ Works(p) /\ o.busy # 0
  /\ events' = Append(events, o.busy)
  /\ outbox' = [outbox EXCEPT ![p] =
                  IF o.unfinished = 0 THEN [o EXCEPT !.busy = 0, !.worker = "ended"]
                  ELSE [o EXCEPT !.busy = 0, !.unfinished = @ - 1]]
  /\ UNCHANGED <<provider, anchorFile, deferredFile, turns, inits, providerCrashes, accepted, excused,
                 lastWriter>>

FaultyLoopIsOver(o) == o.stop   \* what is queued is left

LoopIsOver(o) == o.stop /\ o.queue = <<>>

EndWorker(p) ==
  /\ Works(p) /\ outbox[p].busy = 0 /\ LoopIsOver(outbox[p])
  /\ outbox' = [outbox EXCEPT ![p].worker = "ended"]
  /\ UNCHANGED <<provider, anchorFile, deferredFile, events, turns, inits, providerCrashes, accepted, excused,
                 lastWriter>>

\* shutdown: a living thread is told to stop and waited for ...
Shutdown(p) ==
  /\ provider[p].pc = "idle" /\ Steady(p)
  /\ Becomes(p, [provider[p] EXCEPT !.pc = IF Works(p) THEN "joining" ELSE "draining"])
  /\ outbox' = [outbox EXCEPT ![p].stop = @ \/ Works(p)]
  /\ UNCHANGED <<anchorFile, deferredFile, events, turns, inits, providerCrashes, accepted, excused, lastWriter>>

\* ... first for the queue, then for the thread;
JoinWorker(p) ==
  /\ provider[p].pc = "joining" /\ outbox[p].unfinished = 0 /\ ~Works(p)
  /\ Becomes(p, [provider[p] EXCEPT !.pc = "closed"])
  /\ UNCHANGED <<outbox, anchorFile, deferredFile, events, turns, inits, providerCrashes, accepted, excused,
                 lastWriter>>

\* without one the queue is written here (_drain_queue_synchronously).
DrainQueue(p) ==
  LET o == outbox[p] IN
  /\ provider[p].pc = "draining"
  /\ IF o.queue = <<>>
     THEN Becomes(p, [provider[p] EXCEPT !.pc = "closed"]) /\ UNCHANGED <<events, outbox>>
     ELSE /\ events' = Append(events, Head(o.queue))
          /\ outbox' = [outbox EXCEPT ![p] = [o EXCEPT !.queue = Tail(o.queue), !.unfinished = @ - 1]]
          /\ UNCHANGED provider
  /\ UNCHANGED <<anchorFile, deferredFile, turns, inits, providerCrashes, accepted, excused, lastWriter>>

\* The process of the host is killed: the object, its queue and its thread are gone.
CrashProvider(p) ==
  LET o == outbox[p] IN
  /\ provider[p].pc \notin {"off", "closed"} /\ providerCrashes < MaxProviderCrashes
  /\ providerCrashes' = providerCrashes + 1
  /\ Becomes(p, NewObject)
  /\ outbox' = [outbox EXCEPT ![p] = NoThread]
  /\ excused' = excused \cup {o.queue[i] : i \in 1..Len(o.queue)} \cup ({o.busy} \ {0})
  /\ UNCHANGED <<anchorFile, deferredFile, events, turns, inits, accepted, lastWriter>>

WorkerStep(p) == TakeEvent(p) \/ WriteEvent(p) \/ EndWorker(p)
WriterStep(p) == SupersedeAnchors(p) \/ WriteAnchor(p)
ClosingStep(p) == JoinWorker(p) \/ DrainQueue(p)

ProviderNext ==
  \E p \in Providers :
    \/ Initialize(p) \/ Shutdown(p) \/ CrashProvider(p)
    \/ \E intent \in Intents(provider[p].anchor), text \in Texts : Prefetch(p, intent, text)
    \/ \E busy \in BOOLEAN : SyncTurn(p, busy) \/ \E user \in BOOLEAN : PreCompress(p, user, busy)
    \/ WriterStep(p) \/ WorkerStep(p) \/ ClosingStep(p)

ProviderSpec == ProviderInit /\ [][ProviderNext]_providerVars

-----------------------------------------------------------------------------
(* Properties                                                              *)

Anchors == [form : Forms, task : Texts \cup {"none"}, ops : SUBSET Texts]

\* The variables have the values the code gives them.
ProviderTypeOK ==
  /\ \A p \in Providers :
       /\ provider[p].pc \in {"off", "idle", "turn", "joining", "draining", "closed"}
       /\ provider[p].anchor \in Anchors /\ provider[p].switches \in 0..1
       /\ Len(outbox[p].queue) <= QueueSize /\ outbox[p].unfinished \in Nat
       /\ outbox[p].worker \in {"none", "alive", "ended"}
  /\ anchorFile.last.status \in {"none", "active", "superseded", "completed", "cancelled"}
  /\ anchorFile.active \in BOOLEAN /\ deferredFile \in Anchors
  /\ turns \in 0..MaxTurns /\ inits \in 0..MaxInits

\* An event that the queue took is written once: it is in the store, in the queue of a
\* provider or in the hands of its thread, and a shutdown that returned leaves none behind,
\* unless the queue was replaced for another session or the process killed.
AcceptedEventsAreWritten ==
  /\ \A i, j \in 1..Len(events) : events[i] = events[j] => i = j
  /\ \A e \in accepted \ excused :
       \/ \E i \in 1..Len(events) : events[i] = e
       \/ \E p \in Providers : /\ provider[p].pc # "closed"
                               /\ \/ outbox[p].busy = e
                                  \/ \E i \in 1..Len(outbox[p].queue) : outbox[p].queue[i] = e

\* The anchor a provider works under is the one it would find again after a restart, as
\* long as no other provider wrote its own: a cancelled one is not found again.
AnchorsAreRecovered ==
  \A p \in Providers :
    (/\ Steady(p) /\ lastWriter = p /\ provider[p].pc \in {"idle", "turn"}
     /\ provider[p].anchor.form \notin {"none", "cancelled"})
      => Recovered = provider[p].anchor

\* The two together: what is promised to be remembered is.
ProviderRemembers == AcceptedEventsAreWritten /\ AnchorsAreRecovered
================================================================================
