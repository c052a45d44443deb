--------------------------------- MODULE Lanes ---------------------------------
(***************************************************************************)
(* The automatic lanes of Memory OS: what they write needs a permit of the *)
(* execution gate (execution_gate.py, structural_write_gate.py), a line in *)
(* a log beside which an index is kept for quick lookup.  One lane         *)
(* projects signals of the host (memory_projection.py), another mirrors    *)
(* sessions the provider did not see, after the owner has approved it      *)
(* (session_mirror.py).  The files have no locks.                          *)
(* An operator named Faulty... is a definition with a bug put in.          *)
(***************************************************************************)
EXTENDS Integers, Sequences, FiniteSets, Functions

CONSTANTS
  Runners,          \* processes that run lanes
  Sessions,         \* sessions of the host: numbers, in the order they are listed
  Signals,          \* sources of signals
  ApprovedSessions, \* max_sessions of the owner's approval
  PermitTime,       \* how long a permit is valid
  MaxGateTime, MaxPermits, MaxContents, MaxSignals, MaxLaneFaults   \* bounds

ASSUME LanesAssumption ==
  /\ Sessions \subseteq Nat \ {0} /\ IsFiniteSet(Sessions)
  /\ ApprovedSessions \in Nat \ {0} /\ PermitTime \in Nat \ {0}
  /\ MaxGateTime \in Nat /\ MaxPermits \in Nat

VARIABLES
  gateTime,
  permits,          \* permits in the log, in their order
  completions,      \* how many completions the log has for each
  gateIndex,        \* execution_gate_index.json: what it says of each permit
  runner,           \* what each process does
  session,          \* what each session says, and whether anyone said anything
  captured,         \* sessions that the provider has events of
  mirrored,         \* events of the mirror
  mirrorState,      \* session_mirror_state.json
  approval,         \* the owner's approval: "none", "once", "graduated" or "disabled" since
  consumed,         \* an apply record names the approval
  signal, projections,   \* versions of the sources; memory_projections.jsonl
  laneFaults,
  governed,         \* history: writes under a permit, with what the log said then
  unsure,           \* history: permits whose index lines were lost or not written
  strayed           \* history: sessions and sources two processes had in hand, or one that was killed

gateVars == <<gateTime, permits, completions, gateIndex, governed, unsure>>
mirrorVars == <<session, captured, mirrored, mirrorState, approval, consumed>>
signalVars == <<signal, projections>>
laneVars == <<gateVars, runner, mirrorVars, signalVars, laneFaults, strayed>>

LaneKinds == {"mirror", "project"}

Free == [pc |-> "free", lane |-> "mirror", permit |-> 0, stage |-> "none", known |-> <<>>, auto |-> TRUE, work |-> {},
         loaded |-> {}]

LanesInit ==
  /\ gateTime = 0 /\ permits = <<>> /\ completions = <<>> /\ gateIndex = <<>>
  /\ runner = [r \in Runners |-> Free]
  /\ session \in [Sessions -> [content : {1}, talk : BOOLEAN]]
  /\ captured = {} /\ mirrored = <<>>
  /\ mirrorState = [file |-> "missing", seen |-> {}]
  /\ approval = "none" /\ consumed = FALSE
  /\ signal = [s \in Signals |-> 1] /\ projections = <<>>
  /\ laneFaults = 0
  /\ governed = {} /\ unsure = {} /\ strayed = {}

RunnerIs(r, state) == runner' = [runner EXCEPT ![r] = state]
Steps(r, pc) == RunnerIs(r, [runner[r] EXCEPT !.pc = pc])
Busy(r) == runner[r].pc # "free"

-----------------------------------------------------------------------------
(* The execution gate.                                                     *)

Unlisted == [permit |-> FALSE, completions |-> 0]

\* start_execution_gate_envelope appends the permit (no boundary of these lanes is true,
\* so it allows) ...
StartPermit(r, state, scope) ==
  /\ Len(permits) < MaxPermits
  /\ permits' = Append(permits, [lane |-> state.lane, scope |-> scope, until |-> gateTime + PermitTime])
  /\ completions' = Append(completions, 0)
  /\ gateIndex' = Append(gateIndex, Unlisted)
  /\ RunnerIs(r, [state EXCEPT !.pc = "index", !.stage = "permit", !.permit = Len(permits) + 1])

\* ... and complete_execution_gate_envelope what came of it;
CompletePermit(r) ==
  /\ runner[r].pc = "complete"
  /\ completions' = [completions EXCEPT ![runner[r].permit] = @ + 1]
  /\ RunnerIs(r, [runner[r] EXCEPT !.pc = "index", !.stage = "completion"])
  /\ UNCHANGED <<gateTime, permits, gateIndex, governed, unsure, mirrorVars, signalVars, laneFaults, strayed>>

\* _update_gate_index: the whole index is read ...
ReadGateIndex(r) ==
  /\ runner[r].pc = "index"
  /\ RunnerIs(r, [runner[r] EXCEPT !.pc = "reindex", !.known = gateIndex])
  /\ UNCHANGED <<gateVars, mirrorVars, signalVars, laneFaults, strayed>>

Padded(known) == [n \in 1..Len(permits) |-> IF n <= Len(known) THEN known[n] ELSE Unlisted]

Listed(entry, stage) ==
  IF stage = "permit" THEN [entry EXCEPT !.permit = TRUE] ELSE [entry EXCEPT !.completions = @ + 1]

Goal(lane) == IF lane = "mirror" THEN "rescan" ELSE "collect"

\* ... and written, over what another has written since.
WriteGateIndex(r) ==
  LET h == runner[r]
      known == Padded(h.known)
  IN
  /\ h.pc = "reindex"
  /\ gateIndex' = [known EXCEPT ![h.permit] = Listed(@, h.stage)]
  /\ unsure' = unsure \cup {n \in 1..Len(permits) : known[n] # gateIndex[n]}
  /\ RunnerIs(r, IF h.stage = "permit" THEN [h EXCEPT !.pc = Goal(h.lane), !.known = <<>>] ELSE Free)
  /\ UNCHANGED <<gateTime, permits, completions, governed, mirrorVars, signalVars, laneFaults, strayed>>

Rebuilt == [n \in 1..Len(permits) |-> [permit |-> TRUE, completions |-> completions[n]]]

FaultyCompletionsOf(n) == 0   \* require_unused is not asked for

\* What resolve_execution_gate_permit finds: in the index if it has the permit, otherwise
\* in the log, from which the index is then written anew.
CompletionsOf(n) == IF gateIndex[n].permit THEN gateIndex[n].completions ELSE completions[n]

Resolves(n, lane, scope) ==
  /\ permits[n].lane = lane /\ permits[n].scope = scope
  /\ gateTime < permits[n].until
  /\ CompletionsOf(n) = 0

AfterResolve(n, valid) == IF valid /\ ~gateIndex[n].permit THEN Rebuilt ELSE gateIndex

Completing(n) == \E r \in Runners : /\ runner[r].permit = n /\ runner[r].stage = "completion"
                                    /\ runner[r].pc \in {"index", "reindex"}

Governed(n, lane, work) == [permit |-> n, lane |-> lane, work |-> work, fresh |-> gateTime < permits[n].until,
                            late |-> completions[n] > 0 /\ ~Completing(n)]

-----------------------------------------------------------------------------
(* Signals.                                                                *)

\* Who takes up something while another has something of the same kind in hand: the file it
\* reads is about to change.
InHands(r, pc) == {o \in Runners \ {r} : runner[o].pc = pc}
Strays(r, pc, work) ==
  strayed' = IF InHands(r, pc) = {} THEN strayed
             ELSE strayed \cup work \cup UNION {runner[o].work : o \in InHands(r, pc)}

StartProjection(r) ==
  /\ ~Busy(r)
  /\ StartPermit(r, [Free EXCEPT !.lane = "project"], {})
  /\ UNCHANGED <<gateTime, governed, unsure, mirrorVars, signalVars, laneFaults, strayed>>

\* collect_and_project_signals with the envelope a caller hands over, be it an old one.
ReuseEnvelope(r, n) ==
  /\ ~Busy(r) /\ n \in 1..Len(permits) /\ laneFaults < MaxLaneFaults
  /\ laneFaults' = laneFaults + 1
  /\ RunnerIs(r, [Free EXCEPT !.lane = "project", !.permit = n, !.pc = "collect"])
  /\ UNCHANGED <<gateVars, mirrorVars, signalVars, strayed>>

\* The permit is looked at, the sources are read, and what is projected already is left out.
CollectSignals(r) ==
  LET h == runner[r]
      valid == Resolves(h.permit, "project", {})
      work == {<<s, signal[s]>> : s \in Signals} \ Range(projections)
  IN
  /\ h.pc = "collect"
  /\ gateIndex' = AfterResolve(h.permit, valid)
  /\ IF valid
     THEN RunnerIs(r, [h EXCEPT !.pc = "project", !.work = work]) /\ Strays(r, "project", work)
     ELSE RunnerIs(r, Free) /\ UNCHANGED strayed
  /\ UNCHANGED <<gateTime, permits, completions, governed, unsure, mirrorVars, signalVars, laneFaults>>

\* append_governed_jsonl looks at the permit again for every line, and raises without one.
ProjectSignal(r) ==
  LET h == runner[r]
      valid == Resolves(h.permit, "project", {})
  IN
  /\ h.pc = "project"
  /\ IF h.work = {}
     THEN Steps(r, "complete") /\ UNCHANGED <<gateIndex, projections, governed>>
     ELSE /\ gateIndex' = AfterResolve(h.permit, valid)
          /\ \E w \in h.work :
               IF valid
               THEN /\ projections' = Append(projections, w)
                    /\ governed' = governed \cup {Governed(h.permit, "project", {})}
                    /\ RunnerIs(r, [h EXCEPT !.work = @ \ {w}])
               ELSE RunnerIs(r, Free) /\ UNCHANGED <<projections, governed>>
  /\ UNCHANGED <<gateTime, permits, completions, unsure, mirrorVars, signal, laneFaults, strayed>>

-----------------------------------------------------------------------------
(* Sessions.                                                               *)

FirstOf(S, n) == {s \in S : Cardinality({t \in S : t <= s}) <= n}

Key(s) == <<s, session[s].content>>

\* _rebuild_state: from the mirrored turns only, not from sessions that were observed.
RebuiltSeen == {mirrored[i].key : i \in {j \in DOMAIN mirrored : mirrored[j].talk}}

\* _load_state
Loaded == IF mirrorState.file = "ok" THEN mirrorState.seen ELSE RebuiltSeen

FaultyPendingSessions == {s \in Sessions : s \notin captured}   \* the state is not looked at

PendingSessions == {s \in Sessions : s \notin captured /\ Key(s) \notin Loaded}

Selected == FirstOf(PendingSessions, ApprovedSessions)

\* auto_apply_graduated_session_mirror: a dry run selects what the permit is for.
StartAutoMirror(r) ==
  /\ ~Busy(r) /\ approval = "graduated" /\ Selected # {}
  /\ StartPermit(r, Free, Selected)
  /\ UNCHANGED <<gateTime, governed, unsure, mirrorVars, signalVars, laneFaults, strayed>>

\* The owner's approval on the command line (_resolve_session_mirror_owner_apply_governance,
\* _validate_owner_resolved_governance): of one session, used once.
StartOwnerMirror(r) ==
  /\ ~Busy(r) /\ approval \in {"once", "graduated"} /\ ~consumed
  /\ RunnerIs(r, [Free EXCEPT !.auto = FALSE, !.pc = "rescan"])
  /\ UNCHANGED <<gateVars, mirrorVars, signalVars, laneFaults, strayed>>

\* scan: what is pending now must be what the permit is for; a corrupt state is written
\* anew whatever comes of it.
MayMirror(h) ==
  IF h.auto THEN approval = "graduated" /\ Resolves(h.permit, "mirror", Selected)
  ELSE approval \in {"once", "graduated"} /\ ~consumed

RescanSessions(r) ==
  LET h == runner[r]
      keys == {Key(s) : s \in Selected}
      scans == Selected = {} \/ MayMirror(h)
  IN
  /\ h.pc = "rescan"
  /\ RunnerIs(r, IF scans THEN [h EXCEPT !.pc = "mirror", !.work = keys, !.loaded = Loaded]
                ELSE IF h.auto THEN [h EXCEPT !.pc = "complete"] ELSE Free)
  /\ mirrorState' = IF mirrorState.file = "corrupt" THEN [file |-> "ok", seen |-> Loaded] ELSE mirrorState
  /\ gateIndex' = IF h.auto /\ Selected # {} THEN AfterResolve(h.permit, scans) ELSE gateIndex
  /\ governed' = IF h.auto /\ scans /\ Selected # {} THEN governed \cup {Governed(h.permit, "mirror", Selected)}
                 ELSE governed
  /\ IF scans THEN Strays(r, "mirror", keys) ELSE UNCHANGED strayed
  /\ UNCHANGED <<gateTime, permits, completions, unsure, session, captured, mirrored, approval, consumed,
                 signalVars, laneFaults>>

\* An event for each session, then the state with all of them ...
MirrorSession(r) ==
  LET h == runner[r] IN
  /\ h.pc = "mirror"
  /\ IF h.work \subseteq h.loaded
     THEN /\ mirrorState' = [file |-> "ok", seen |-> h.loaded]
          /\ RunnerIs(r, [h EXCEPT !.pc = "record"])
          /\ UNCHANGED mirrored
     ELSE \E k \in h.work \ h.loaded :
            /\ mirrored' = Append(mirrored, [key |-> k, talk |-> session[k[1]].talk])
            /\ RunnerIs(r, [h EXCEPT !.loaded = @ \cup {k}])
            /\ UNCHANGED mirrorState
  /\ UNCHANGED <<gateVars, session, captured, approval, consumed, signalVars, laneFaults, strayed>>

\* ... then the apply record, which uses up the approval where something was written.
RecordApply(r) ==
  LET h == runner[r] IN
  /\ h.pc = "record"
  /\ consumed' = (consumed \/ h.work # {})
  /\ RunnerIs(r, IF h.auto THEN [h EXCEPT !.pc = "complete", !.work = {}] ELSE Free)
  /\ UNCHANGED <<gateVars, session, captured, mirrored, mirrorState, approval, signalVars, laneFaults, strayed>>

-----------------------------------------------------------------------------
(* The environment.                                                        *)

\* approve_session_mirror_apply, once or as a lane, and the switch in the configuration.
Approve(word) ==
  /\ approval # word /\ (word = "once" => approval = "none") /\ (word = "disabled" => approval = "graduated")
  /\ approval' = word
  /\ UNCHANGED <<gateVars, runner, session, captured, mirrored, mirrorState, consumed, signalVars, laneFaults, strayed>>

ChangeSession(s) ==
  /\ session[s].content < MaxContents
  /\ session' = [session EXCEPT ![s].content = @ + 1]
  /\ UNCHANGED <<gateVars, runner, captured, mirrored, mirrorState, approval, consumed, signalVars, laneFaults, strayed>>

\* The provider writes a turn of a session.
CaptureSession(s) ==
  /\ s \notin captured
  /\ captured' = captured \cup {s}
  /\ UNCHANGED <<gateVars, runner, session, mirrored, mirrorState, approval, consumed, signalVars, laneFaults, strayed>>

ChangeSignal(s) ==
  /\ signal[s] < MaxSignals
  /\ signal' = [signal EXCEPT ![s] = @ + 1]
  /\ UNCHANGED <<gateVars, runner, mirrorVars, projections, laneFaults, strayed>>

PassGateTime ==
  /\ gateTime < MaxGateTime
  /\ gateTime' = gateTime + 1
  /\ UNCHANGED <<permits, completions, gateIndex, governed, unsure, runner, mirrorVars, signalVars, laneFaults, strayed>>

\* The state file is damaged: what was only observed is not known any more.
CorruptState ==
  /\ mirrorState.file = "ok" /\ laneFaults < MaxLaneFaults
  /\ laneFaults' = laneFaults + 1
  /\ mirrorState' = [file |-> "corrupt", seen |-> {}]
  /\ strayed' = strayed \cup mirrorState.seen
  /\ UNCHANGED <<gateVars, runner, session, captured, mirrored, approval, consumed, signalVars>>

KillRunner(r) ==
  /\ Busy(r) /\ laneFaults < MaxLaneFaults
  /\ laneFaults' = laneFaults + 1
  /\ strayed' = strayed \cup runner[r].work
  /\ unsure' = unsure \cup (IF runner[r].pc \in {"index", "reindex"} THEN {runner[r].permit} ELSE {})
  /\ RunnerIs(r, Free)
  /\ UNCHANGED <<gateTime, permits, completions, gateIndex, governed, mirrorVars, signalVars>>

GateStep(r) == CompletePermit(r) \/ ReadGateIndex(r) \/ WriteGateIndex(r) \/ KillRunner(r)

SignalStep(r) ==
  StartProjection(r) \/ CollectSignals(r) \/ ProjectSignal(r) \/ \E n \in 1..MaxPermits : ReuseEnvelope(r, n)

MirrorStep(r) ==
  StartAutoMirror(r) \/ StartOwnerMirror(r) \/ RescanSessions(r) \/ MirrorSession(r) \/ RecordApply(r)

LanesNext ==
  \/ PassGateTime \/ CorruptState
  \/ \E word \in {"once", "graduated", "disabled"} : Approve(word)
  \/ \E s \in Sessions : ChangeSession(s) \/ CaptureSession(s)
  \/ \E s \in Signals : ChangeSignal(s)
  \/ \E r \in Runners : GateStep(r) \/ SignalStep(r) \/ MirrorStep(r)

LanesSpec == LanesInit /\ [][LanesNext]_laneVars

-----------------------------------------------------------------------------
(* Properties                                                              *)

\* The variables have the values the code gives them.
LanesTypeOK ==
  /\ gateTime \in 0..MaxGateTime /\ Len(permits) <= MaxPermits
  /\ Len(completions) = Len(permits) /\ Len(gateIndex) = Len(permits)
  /\ \A n \in DOMAIN permits : permits[n].lane \in LaneKinds /\ completions[n] \in Nat
  /\ \A r \in Runners : runner[r].permit \in 0..Len(permits)
  /\ captured \subseteq Sessions /\ approval \in {"none", "once", "graduated", "disabled"}
  /\ \A i \in DOMAIN mirrored : mirrored[i].key[1] \in Sessions

\* What is written under a permit is what it permits: by its lane, in its scope, in time,
\* and not after its completion was recorded, unless the index missed that because a
\* process was killed between the log and the index or two wrote the index over each other.
PermitsAreHonoured ==
  \A w \in governed :
    /\ w.lane = permits[w.permit].lane /\ w.work = permits[w.permit].scope /\ w.fresh
    /\ w.permit \notin unsure => ~w.late

\* A state of a session is mirrored once and a signal projected once, unless two processes
\* had it in hand, one was killed with it, or the state file was damaged.
NothingIsTakenTwice ==
  /\ \A i, j \in DOMAIN mirrored : mirrored[i].key = mirrored[j].key /\ mirrored[i].key \notin strayed => i = j
  /\ \A i, j \in DOMAIN projections : projections[i] = projections[j] /\ projections[i] \notin strayed => i = j

LanesAreGoverned == PermitsAreHonoured /\ NothingIsTakenTwice
================================================================================
