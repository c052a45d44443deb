---------------------------- MODULE MemoryReview ----------------------------
(***************************************************************************)
(* The owner's review of the memory (hermes/memory_os).  Records are kept  *)
(* in a Markdown file, edges between them in a JSONL file; the index is a  *)
(* database built from both.  The owner's decisions are applied by any     *)
(* process that gets them and noted in a ledger afterwards; the cognitive  *)
(* loop promotes, expires and relates records meanwhile.  No file is       *)
(* locked: a change of a record reads the whole file and replaces it.      *)
(* An operator named Faulty... is a definition with a bug put in.          *)
(***************************************************************************)
EXTENDS Integers, FiniteSets

CONSTANTS
    Owners,      \* processes that apply the owner's decisions: the bot, command lines
    Candidates,  \* the candidates in the queue, which form one cluster
    Kinds,       \* the kinds of decisions the owner takes
    Jobs,        \* what the cognitive loop does to provisional records
    MaxRecords,  \* bound: records ever written
    MaxEdges,    \* bound: edges ever proposed
    MaxActions,  \* bound: decisions sent
    MaxCrashes   \* bound: processes killed

ASSUME BoundsAssumption == {MaxRecords, MaxEdges, MaxActions, MaxCrashes} \subseteq Nat

Records == 1..MaxRecords
Edges   == 1..MaxEdges

CandidateKinds == {"approve candidate", "reject candidate"}
ClusterKinds   == {"approve cluster"}
RecordKinds    == {"revoke", "demote", "confirm", "reject provisional", "confirm by reply"}
EdgeKinds      == {"approve edge", "reject edge"}

AllKinds == CandidateKinds \cup ClusterKinds \cup RecordKinds \cup EdgeKinds

ASSUME KindsAssumption == Kinds \subseteq AllKinds
ASSUME JobsAssumption == Jobs \subseteq {"promote", "expire"}

Cluster == 0

Targets(kind) ==
    CASE kind \in CandidateKinds -> Candidates
      [] kind \in ClusterKinds   -> {Cluster}
      [] kind \in RecordKinds    -> Records
      [] kind \in EdgeKinds      -> Edges

Actions == UNION {{[kind |-> k, target |-> t] : t \in Targets(k)} : k \in Kinds}

NoAction == [kind |-> "none", target |-> 0]

\* Who wrote a record: the decision that approved its candidate, or the resolver.
Resolver == [kind |-> "resolver", target |-> 0]

Inactive == {"owner_revoked", "demoted", "provisional_expired", "provisional_rejected"}

Absent == [state |-> "absent", by |-> NoAction, candidate |-> 0,
           provisional |-> FALSE, invalidated |-> FALSE]
NoEdge == [state |-> "absent", ends |-> {}, auto |-> FALSE, late |-> FALSE]

VARIABLES
    file,     \* the records, by number
    written,  \* how many records were ever written
    edges,    \* graph/edges.jsonl, by number
    proposed, \* how many edges were ever proposed
    index,    \* the database: the active records and the edges in it
    sync,     \* the process that brings the index up to date
    ledger,   \* owner_actions.jsonl: the decisions noted as applied
    owner,    \* the local state of each owner process
    loop,     \* the local state of the cognitive loop
    actions, crashes,
    lost,       \* history: the files, "records" or "edges", of which a change was lost: one
                \* replaced that had changed since it was read, left empty, or read while empty
    overlapped  \* history: a decision was sent again while it was being applied

files == <<file, written, edges, proposed>>
history == <<actions, crashes, lost, overlapped>>
vars == <<files, index, sync, ledger, owner, loop, history>>

Exists(r)   == file[r].state # "absent"
IsActive(f, r) == f[r].state # "absent" /\ f[r].state \notin Inactive
IsProvisional(f, r) == IsActive(f, r) /\ f[r].provisional

NoFile == [r \in Records |-> Absent]
NoGraph == [e \in Edges |-> NoEdge]
Idle   == [pc |-> "idle", action |-> NoAction, todo |-> {}, seen |-> NoFile, graph |-> NoGraph]
AtRest == [pc |-> "idle", job |-> "", todo |-> {}, record |-> 0, seen |-> NoFile, edge |-> NoEdge]

RecordStates == {"absent", "active"} \cup Inactive
EdgeStates   == {"absent", "candidate", "active", "invalidated"}

RecordType == [state: RecordStates, by: Actions \cup {NoAction, Resolver},
               candidate: Candidates \cup {0}, provisional: BOOLEAN, invalidated: BOOLEAN]
EdgeType == [state: EdgeStates, ends: SUBSET Records, auto: BOOLEAN, late: BOOLEAN]

OwnerState == [pc: {"idle", "approve", "read", "replace", "read edges", "truncate", "write edges",
                    "project", "transition", "update", "record"},
               action: Actions \cup {NoAction}, todo: SUBSET Candidates,
               seen: [Records -> RecordType], graph: [Edges -> EdgeType]]
LoopState == [pc: {"idle", "next", "replace", "append edge", "insert edge"},
              job: {"", "promote", "expire"}, todo: SUBSET Records,
              record: Records \cup Edges \cup {0}, seen: [Records -> RecordType], edge: EdgeType]

TypeOK ==
    /\ file \in [Records -> RecordType]
    /\ written \in 0..MaxRecords
    /\ edges \in [Edges -> EdgeType]
    /\ proposed \in 0..MaxEdges
    /\ index \in [records: SUBSET Records, edges: [Edges -> EdgeType]]
    /\ sync \in [pc: {"idle", "reading"}, records: SUBSET Records]
    /\ ledger \subseteq Actions
    /\ owner \in [Owners -> OwnerState]
    /\ loop \in LoopState
    /\ actions \in 0..MaxActions
    /\ crashes \in 0..MaxCrashes
    /\ lost \subseteq {"records", "edges"} /\ overlapped \in BOOLEAN

Init ==
    /\ file = NoFile
    /\ written = 0
    /\ edges = NoGraph
    /\ proposed = 0
    /\ index = [records |-> {}, edges |-> NoGraph]
    /\ sync = [pc |-> "idle", records |-> {}]
    /\ ledger = {}
    /\ owner = [o \in Owners |-> Idle]
    /\ loop = AtRest
    /\ actions = 0 /\ crashes = 0
    /\ lost = {} /\ overlapped = FALSE

-----------------------------------------------------------------------------
(* The records (crystallized.py).                                          *)

FaultyChanged(f, kind, r) ==   \* confirming makes any record active again
    CASE kind = "revoke" /\ IsActive(f, r) -> [f EXCEPT ![r].state = "owner_revoked"]
      [] kind = "demote" /\ IsActive(f, r) -> [f EXCEPT ![r].state = "demoted"]
      [] kind \in {"expire", "reject provisional"} /\ IsActive(f, r) ->
           [f EXCEPT ![r] = [@ EXCEPT
               !.invalidated = TRUE,
               !.state = IF kind = "expire" THEN "provisional_expired" ELSE "provisional_rejected"]]
      [] kind \in {"confirm", "confirm by reply", "promote"} /\ f[r].provisional ->
           [f EXCEPT ![r] = [@ EXCEPT !.provisional = FALSE, !.state = "active"]]
      [] OTHER -> f

\* What revoke_record, demote_record, invalidate_provisional_record and
\* confirm_provisional_record make of the file f they have read.
Changed(f, kind, r) ==
    CASE kind = "revoke" /\ IsActive(f, r) -> [f EXCEPT ![r].state = "owner_revoked"]
      [] kind = "demote" /\ IsActive(f, r) -> [f EXCEPT ![r].state = "demoted"]
      [] kind \in {"expire", "reject provisional"} /\ IsActive(f, r) ->
           [f EXCEPT ![r] = [@ EXCEPT
               !.invalidated = TRUE,
               !.state = IF kind = "expire" THEN "provisional_expired" ELSE "provisional_rejected"]]
      [] kind \in {"confirm", "confirm by reply", "promote"} /\ f[r].provisional ->
           [f EXCEPT ![r] = [@ EXCEPT
               !.provisional = FALSE,
               !.state = IF f[r].state \in {"provisional_expired", "provisional_rejected"}
                         THEN "active" ELSE f[r].state]]
      [] OTHER -> f

\* append_crystallized_record, which does not read the file.
AppendRecord(c, by, provisional) ==
    /\ written < MaxRecords
    /\ written' = written + 1
    /\ file' = [file EXCEPT ![written + 1] =
                  [state |-> "active", by |-> by, candidate |-> c,
                   provisional |-> provisional, invalidated |-> FALSE]]

Lose(what, changed) == lost' = lost \cup (IF changed THEN {what} ELSE {})

\* The file that was read is changed and put in the place of the one that is there.
Replace(seen, kind, r) ==
    /\ file' = Changed(seen, kind, r)
    /\ Lose("records", file # seen)

-----------------------------------------------------------------------------
(* The owner's decisions (owner_actions.py, apply_owner_action).           *)

Goto(o, step) == owner' = [owner EXCEPT ![o].pc = step]
Rests(o) == owner' = [owner EXCEPT ![o] = Idle]

\* _validate_action_target.
Valid(a) ==
    CASE a.kind \in CandidateKinds \cup ClusterKinds -> TRUE
      [] a.kind \in {"confirm", "reject provisional"} -> IsProvisional(file, a.target)
      [] a.kind \in RecordKinds -> Exists(a.target)
      [] a.kind \in EdgeKinds -> index.edges[a.target].state # "absent"

FaultyApproved(a) ==   \* a cluster is taken for a candidate
    IF a.kind \in {"approve candidate", "approve cluster"} THEN {a.target} ELSE {}

\* The candidates that a decision approves.
Approved(a) ==
    CASE a.kind = "approve candidate" -> {a.target}
      [] a.kind = "approve cluster" -> Candidates
      [] OTHER -> {}

FirstStep(a) ==
    CASE a.kind \in {"approve candidate", "approve cluster"} -> "approve"
      [] a.kind = "reject candidate" -> "record"
      [] a.kind \in RecordKinds -> "read"
      [] a.kind \in EdgeKinds -> "transition"

FaultyStart(o) ==   \* the ledger is not looked at
    /\ owner[o].pc = "idle" /\ actions < MaxActions
    /\ actions' = actions + 1
    /\ \E a \in Actions :
        /\ Valid(a)
        /\ owner' = [owner EXCEPT ![o] = [@ EXCEPT
                       !.pc = FirstStep(a), !.action = a, !.todo = Approved(a)]]
        /\ overlapped' = (overlapped \/ \E q \in Owners : owner[q].action = a)
    /\ UNCHANGED <<files, index, sync, ledger, loop, crashes, lost>>

\* A decision is refused if the ledger has it or its target does not allow it.  One is
\* read right after the other; what is done about the decision comes later.
\* "oa_confirm_..." in a reply confirms a record without either.
StartAction(o) ==
    /\ owner[o].pc = "idle" /\ actions < MaxActions
    /\ actions' = actions + 1
    /\ \E a \in Actions :
        /\ a \notin ledger /\ Valid(a)
        /\ owner' = [owner EXCEPT ![o] = [@ EXCEPT
                       !.pc = FirstStep(a), !.action = a, !.todo = Approved(a)]]
        /\ overlapped' = (overlapped \/ \E q \in Owners : owner[q].action = a)
    /\ UNCHANGED <<files, index, sync, ledger, loop, crashes, lost>>

FaultyApproveNext(o) ==   \* the first candidate of a cluster only
    /\ owner[o].pc = "approve"
    /\ \E c \in owner[o].todo :
        /\ AppendRecord(c, owner[o].action, FALSE)
        /\ owner' = [owner EXCEPT ![o] = [@ EXCEPT !.todo = {}, !.pc = "record"]]
    /\ UNCHANGED <<edges, proposed, index, sync, ledger, loop, history>>

\* write_approved_record, for one candidate after the other.
ApproveNext(o) ==
    /\ owner[o].pc = "approve"
    /\ \E c \in owner[o].todo :
        /\ AppendRecord(c, owner[o].action, FALSE)
        /\ owner' = [owner EXCEPT ![o] = [@ EXCEPT
                       !.todo = owner[o].todo \ {c},
                       !.pc = IF owner[o].todo = {c} THEN "record" ELSE "approve"]]
    /\ UNCHANGED <<edges, proposed, index, sync, ledger, loop, history>>

AfterRecord(kind) ==
    CASE kind = "revoke" -> "read edges"
      [] kind = "demote" -> "project"
      [] OTHER -> "record"

\* The file is read; a record that is not found raises, one that needs no change is left.
ReadRecords(o) ==
    LET a == owner[o].action IN
    /\ owner[o].pc = "read"
    /\ IF ~Exists(a.target) THEN Rests(o)
       ELSE IF Changed(file, a.kind, a.target) # file
       THEN owner' = [owner EXCEPT ![o] = [@ EXCEPT !.pc = "replace", !.seen = file]]
       ELSE IF a.kind = "confirm by reply" THEN Rests(o)
       ELSE Goto(o, IF a.kind \in {"revoke", "demote"} THEN "project" ELSE "record")
    /\ UNCHANGED <<files, index, sync, ledger, loop, history>>

ReplaceRecords(o) ==
    LET a == owner[o].action IN
    /\ owner[o].pc = "replace"
    /\ Replace(owner[o].seen, a.kind, a.target)
    /\ IF a.kind = "confirm by reply" THEN Rests(o)
       ELSE owner' = [owner EXCEPT ![o] = [@ EXCEPT !.pc = AfterRecord(a.kind), !.seen = NoFile]]
    /\ UNCHANGED <<written, edges, proposed, index, sync, ledger, loop, actions, crashes, overlapped>>

ActiveAt(graph, r) == {e \in Edges : graph[e].state = "active" /\ r \in graph[e].ends}

\* revoke_record goes on with the edges, if it changed the record.
ReadEdges(o) ==
    /\ owner[o].pc = "read edges"
    /\ IF ActiveAt(edges, owner[o].action.target) = {} THEN Goto(o, "project")
       ELSE owner' = [owner EXCEPT ![o] = [@ EXCEPT !.pc = "truncate", !.graph = edges]]
    /\ Lose("edges", \E q \in Owners : owner[q].pc = "write edges")
    /\ UNCHANGED <<files, index, sync, ledger, loop, actions, crashes, overlapped>>

\* write_jsonl writes in place: the file is empty before it is full.
TruncateEdges(o) ==
    /\ owner[o].pc = "truncate"
    /\ edges' = NoGraph
    /\ Lose("edges", edges # owner[o].graph)
    /\ Goto(o, "write edges")
    /\ UNCHANGED <<file, written, proposed, index, sync, ledger, loop, actions, crashes, overlapped>>

FaultyInvalidated(graph, r) ==   \* only the edges that begin at the record
    [e \in Edges |-> IF e \in ActiveAt(graph, r) /\ \A q \in graph[e].ends : r <= q
                     THEN [graph[e] EXCEPT !.state = "invalidated"] ELSE graph[e]]

Invalidated(graph, r) ==
    [e \in Edges |-> IF e \in ActiveAt(graph, r)
                     THEN [graph[e] EXCEPT !.state = "invalidated"] ELSE graph[e]]

WriteEdges(o) ==
    /\ owner[o].pc = "write edges"
    /\ edges' = Invalidated(owner[o].graph, owner[o].action.target)
    /\ Lose("edges", edges # NoGraph)
    /\ owner' = [owner EXCEPT ![o] = [@ EXCEPT !.pc = "project", !.graph = NoGraph]]
    /\ UNCHANGED <<file, written, proposed, index, sync, ledger, loop, actions, crashes, overlapped>>

\* The projection of the record into other stores is invalidated, by modules that are
\* not in this repository; they may raise.
Project(o) ==
    /\ owner[o].pc = "project"
    /\ Goto(o, "record") \/ Rests(o)
    /\ UNCHANGED <<files, index, sync, ledger, loop, history>>

\* No code makes an edge owner_eligible.
Allowed(state) ==
    CASE state = "candidate" -> {"active", "invalidated"}
      [] state = "active" -> {"invalidated"}
      [] OTHER -> {}

\* transition_edge_state: the index, and only the index.  The state is read outside the
\* transaction that changes it.  A transition that is not allowed fails, which does not
\* keep the decision from being noted.
NewState(a) == IF a.kind = "approve edge" THEN "active" ELSE "invalidated"

ReadEdgeState(o) ==
    LET a == owner[o].action IN
    /\ owner[o].pc = "transition"
    /\ Goto(o, IF NewState(a) \in Allowed(index.edges[a.target].state) THEN "update" ELSE "record")
    /\ UNCHANGED <<files, index, sync, ledger, loop, history>>

UpdateEdgeState(o) ==
    LET a == owner[o].action IN
    /\ owner[o].pc = "update" /\ sync.pc = "idle"
    /\ index' = IF index.edges[a.target].state # "absent"
                THEN [index EXCEPT !.edges[a.target].state = NewState(a)] ELSE index
    /\ Goto(o, "record")
    /\ UNCHANGED <<files, sync, ledger, loop, history>>

\* The index is locked for longer than the connection waits: so is a failure noted.
UpdateTimesOut(o) ==
    /\ owner[o].pc = "update" /\ sync.pc # "idle"
    /\ Goto(o, "record")
    /\ UNCHANGED <<files, index, sync, ledger, loop, history>>

\* _append_owner_action.
RecordAction(o) ==
    /\ owner[o].pc = "record"
    /\ ledger' = ledger \cup {owner[o].action}
    /\ Rests(o)
    /\ UNCHANGED <<files, index, sync, loop, history>>

OwnerStep(o) ==
    \/ StartAction(o) \/ ApproveNext(o) \/ ReadRecords(o) \/ ReplaceRecords(o)
    \/ ReadEdges(o) \/ TruncateEdges(o) \/ WriteEdges(o) \/ Project(o)
    \/ ReadEdgeState(o) \/ UpdateEdgeState(o) \/ UpdateTimesOut(o) \/ RecordAction(o)

\* Killed in write_jsonl, a process takes the edges with it.
OwnerCrashes(o) ==
    /\ owner[o].pc # "idle" /\ crashes < MaxCrashes
    /\ crashes' = crashes + 1
    /\ Lose("edges", owner[o].pc = "write edges")
    /\ Rests(o)
    /\ UNCHANGED <<files, index, sync, ledger, loop, actions, overlapped>>

-----------------------------------------------------------------------------
(* Beside the owner: the resolver and the cognitive loop.                  *)

\* The resolver, which is not in this repository, writes a provisional record for a
\* candidate that had none when it looked (resolver_gate.py): it may have one by now.
Resolve(c) ==
    /\ AppendRecord(c, Resolver, TRUE)
    /\ UNCHANGED <<edges, proposed, index, sync, ledger, owner, loop, history>>

\* auto_promote_provisional_records and the sweep list the records first ...
ListRecords(job) ==
    /\ loop.pc = "idle"
    /\ \E due \in SUBSET {r \in Records : IsProvisional(file, r)} \ {{}} :
         loop' = [loop EXCEPT !.pc = "next", !.job = job, !.todo = due]
    /\ UNCHANGED <<files, index, sync, ledger, owner, history>>

LoopGoesOn(r) ==
    loop' = IF loop.todo = {r} THEN AtRest
            ELSE [loop EXCEPT !.pc = "next", !.todo = @ \ {r}, !.record = 0, !.seen = NoFile]

\* ... and read the file again for each one: an exception goes on with the next.
LoopReads(r) ==
    /\ loop.pc = "next" /\ r \in loop.todo
    /\ IF Exists(r) /\ Changed(file, loop.job, r) # file
       THEN loop' = [loop EXCEPT !.pc = "replace", !.record = r, !.seen = file]
       ELSE LoopGoesOn(r)
    /\ UNCHANGED <<files, index, sync, ledger, owner, history>>

LoopReplaces ==
    /\ loop.pc = "replace"
    /\ Replace(loop.seen, loop.job, loop.record)
    /\ LoopGoesOn(loop.record)
    /\ UNCHANGED <<written, edges, proposed, index, sync, ledger, owner, actions, crashes, overlapped>>

\* The proposers relate records of the index: those that are in no edge there which is
\* a candidate or active.  An edge of some relations is active at once.
ProposeEdge ==
    /\ loop.pc = "idle" /\ proposed < MaxEdges
    /\ \E ends \in SUBSET index.records, auto \in BOOLEAN :
        /\ Cardinality(ends) = 2
        /\ ~\E e \in Edges : /\ index.edges[e].state \in {"candidate", "active"}
                             /\ index.edges[e].ends = ends /\ index.edges[e].auto = auto
        /\ loop' = [loop EXCEPT !.pc = "append edge", !.edge =
                      [state |-> IF auto THEN "active" ELSE "candidate",
                       ends |-> ends, auto |-> auto, late |-> FALSE]]
    /\ UNCHANGED <<files, index, sync, ledger, owner, history>>

FaultyAppendFails ==   \* the edge goes to the index nevertheless
    /\ loop.pc = "append edge"
    /\ proposed' = proposed + 1
    /\ loop' = [loop EXCEPT !.pc = "insert edge", !.record = proposed + 1]
    /\ UNCHANGED <<file, written, edges, index, sync, ledger, owner, history>>

\* _write_edge_canonical fails: the edge is not written at all.
AppendFails ==
    /\ loop.pc = "append edge"
    /\ loop' = AtRest
    /\ UNCHANGED <<files, index, sync, ledger, owner, history>>

\* write_governed_edge: first the file ...
AppendEdge ==
    LET edge == [loop.edge EXCEPT !.late = \E r \in loop.edge.ends : ~IsActive(file, r)] IN
    /\ loop.pc = "append edge"
    /\ proposed' = proposed + 1
    /\ edges' = [edges EXCEPT ![proposed + 1] = edge]
    /\ loop' = [loop EXCEPT !.pc = "insert edge", !.edge = edge, !.record = proposed + 1]
    /\ UNCHANGED <<file, written, index, sync, ledger, owner, history>>

\* ... and then the index, unless that is locked or has it already.
InsertEdge ==
    /\ loop.pc = "insert edge"
    /\ IF sync.pc = "idle" /\ index.edges[loop.record].state = "absent"
       THEN index' = [index EXCEPT !.edges[loop.record] = loop.edge]
       ELSE UNCHANGED index
    /\ loop' = AtRest
    /\ UNCHANGED <<files, sync, ledger, owner, history>>

LoopCrashes ==
    /\ loop.pc # "idle" /\ crashes < MaxCrashes
    /\ crashes' = crashes + 1
    /\ loop' = AtRest
    /\ UNCHANGED <<files, index, sync, ledger, owner, actions, lost, overlapped>>

-----------------------------------------------------------------------------
(* The heartbeat brings the index up to date (index.py, sync_from_store),  *)
(* in one transaction that reads the files one after the other.            *)

SyncRecords ==
    /\ sync.pc = "idle"
    /\ sync' = [pc |-> "reading", records |-> {r \in Records : IsActive(file, r)}]
    /\ UNCHANGED <<files, index, ledger, owner, loop, history>>

SyncEdges ==
    /\ sync.pc = "reading"
    /\ index' = [records |-> sync.records, edges |-> edges]
    /\ sync' = [pc |-> "idle", records |-> {}]
    /\ UNCHANGED <<files, ledger, owner, loop, history>>

SyncCrashes ==
    /\ sync.pc = "reading" /\ crashes < MaxCrashes
    /\ crashes' = crashes + 1
    /\ sync' = [pc |-> "idle", records |-> {}]
    /\ UNCHANGED <<files, index, ledger, owner, loop, actions, lost, overlapped>>

-----------------------------------------------------------------------------
LoopStep ==
    \/ \E job \in Jobs : ListRecords(job)
    \/ \E r \in Records : LoopReads(r)
    \/ LoopReplaces \/ ProposeEdge \/ AppendFails \/ AppendEdge \/ InsertEdge

SyncStep == SyncRecords \/ SyncEdges

Next ==
    \/ \E o \in Owners : OwnerStep(o) \/ OwnerCrashes(o)
    \/ \E c \in Candidates : Resolve(c)
    \/ LoopStep \/ LoopCrashes
    \/ SyncStep \/ SyncCrashes

Spec == Init /\ [][Next]_vars

-----------------------------------------------------------------------------
(* What the review promises.                                               *)

RecordsBy(a, c) == {r \in Records : file[r].by = a /\ file[r].candidate = c}

\* A decision the ledger has holds in the file, whatever was promoted, expired or
\* confirmed since, unless one of two writers of the records lost its change: every approved candidate
\* has a record, and a record revoked or demoted is not active.  The exception is a
\* record that had been invalidated: revoking it changes nothing but is noted, and a
\* confirmation still makes it active.
DecisionsHold ==
    "records" \notin lost => \A a \in ledger :
        /\ \A c \in Approved(a) : RecordsBy(a, c) # {}
        /\ a.kind \in {"revoke", "demote"} =>
               ~IsActive(file, a.target) \/ file[a.target].invalidated

\* A decision makes one record of a candidate, however often it is sent: a second one
\* needs a process killed before the decision was noted, or one that took the decision
\* up while another was applying it.
OneRecordPerDecision ==
    crashes = 0 /\ ~overlapped =>
        \A a \in Actions, c \in Candidates : Cardinality(RecordsBy(a, c)) <= 1

\* No edge of graph/edges.jsonl at a record is active once the owner's revocation is
\* noted, but for edges appended by a proposer that had read an old index, and for
\* processes that were killed, lost a change (as one does that looks for the edges while
\* another has emptied the file) or revoked the record twice at once.
RevokedHasNoActiveEdges ==
    crashes = 0 /\ ~overlapped /\ lost = {} =>
        \A a \in ledger : a.kind = "revoke" /\ file[a.target].state = "owner_revoked" =>
            \A e \in ActiveAt(edges, a.target) : edges[e].late

\* What the index has, the files have: it may lag behind them but it can be rebuilt from
\* them at any time without losing an edge or a record, unless a change was lost.  While
\* a revocation rewrites the edges the file is empty: a rebuild at that time forgets all.
IndexIsRebuildable ==
    /\ "edges" \notin lost /\ (\A o \in Owners : owner[o].pc # "write edges") =>
           \A e \in Edges : index.edges[e].state # "absent" => edges[e].state # "absent"
    /\ "records" \notin lost => \A r \in index.records : Exists(r)

\* The documented life cycle of an edge in the index: candidate, active, invalidated, in
\* this order.  It does not hold: the owner's decisions on edges are written to the index
\* only, and the next sync_from_store puts the state of edges.jsonl in their place.
EdgeStatesOnlyAdvance ==
    [][\A e \in Edges :
         LET old == index.edges[e].state
             new == index.edges[e].state' IN
         old # "absent" /\ new # old => new \in Allowed(old)]_vars
=============================================================================
