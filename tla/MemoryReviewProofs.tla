------------------------- MODULE MemoryReviewProofs -------------------------
(* What MemoryReview guarantees for any owners, candidates, decisions and    *)
(* jobs, and any bounds, with everything interleaved.                        *)
EXTENDS MemoryReview, FiniteSetTheorems, TLAPS

-----------------------------------------------------------------------------
(* Type correctness.                                                         *)

LEMMA BoundsAreNumbers ==
    /\ MaxRecords \in Nat /\ MaxEdges \in Nat /\ MaxActions \in Nat /\ MaxCrashes \in Nat
BY BoundsAssumption

LEMMA ActionKinds ==
    ASSUME NEW a \in Actions
    PROVE  /\ a.kind \in AllKinds
           /\ a.kind \in CandidateKinds => a.target \in Candidates
           /\ a.kind \in RecordKinds => a.target \in Records
           /\ a.kind \in EdgeKinds => a.target \in Edges
           /\ a # NoAction /\ a # Resolver
<1>0. PICK k \in Kinds : \E t \in Targets(k) : a = [kind |-> k, target |-> t]
  BY DEF Actions
<1>1. PICK t \in Targets(k) : a = [kind |-> k, target |-> t]
  BY <1>0
<1>2. k \in AllKinds /\ a.kind = k /\ a.target = t
  BY <1>1, KindsAssumption
<1>3. k # "none" /\ k # "resolver"
  BY <1>2 DEF AllKinds, CandidateKinds, ClusterKinds, RecordKinds, EdgeKinds
<1> QED
  BY <1>1, <1>2, <1>3 DEF Targets, CandidateKinds, ClusterKinds, RecordKinds, EdgeKinds, NoAction, Resolver

LEMMA NothingTyped ==
    /\ Absent \in RecordType /\ NoFile \in [Records -> RecordType]
    /\ NoEdge \in EdgeType /\ NoGraph \in [Edges -> EdgeType]
    /\ Idle \in OwnerState /\ AtRest \in LoopState
<1>1. Absent \in RecordType
  BY DEF Absent, RecordType, RecordStates
<1>2. NoEdge \in EdgeType
  BY DEF NoEdge, EdgeType, EdgeStates
<1>3. NoFile \in [Records -> RecordType] /\ NoGraph \in [Edges -> EdgeType]
  BY <1>1, <1>2 DEF NoFile, NoGraph
<1> QED
  BY <1>1, <1>2, <1>3 DEF Idle, AtRest, OwnerState, LoopState

LEMMA ChangedTyped ==
    ASSUME NEW f \in [Records -> RecordType], NEW r \in Records, NEW kind
    PROVE  Changed(f, kind, r) \in [Records -> RecordType]
<1>1. ASSUME NEW s \in RecordStates PROVE [f[r] EXCEPT !.state = s] \in RecordType
  BY DEF RecordType
<1>2. ASSUME NEW s \in RecordStates PROVE [f[r] EXCEPT !.invalidated = TRUE, !.state = s] \in RecordType
  BY DEF RecordType
<1>3. ASSUME NEW s \in RecordStates PROVE [f[r] EXCEPT !.provisional = FALSE, !.state = s] \in RecordType
  BY DEF RecordType
<1>4. f[r].state \in RecordStates /\ "active" \in RecordStates /\ Inactive \subseteq RecordStates
  BY DEF RecordType, RecordStates
<1>5. CASE kind = "revoke" /\ IsActive(f, r)
  BY <1>1, <1>4, <1>5 DEF Changed, Inactive
<1>6. CASE kind = "demote" /\ IsActive(f, r)
  BY <1>1, <1>4, <1>6 DEF Changed, Inactive
<1>7. CASE kind \in {"expire", "reject provisional"} /\ IsActive(f, r)
  <2> DEFINE s == IF kind = "expire" THEN "provisional_expired" ELSE "provisional_rejected"
  <2>1. s \in RecordStates
    BY <1>4 DEF Inactive
  <2>2. Changed(f, kind, r) = [f EXCEPT ![r] = [f[r] EXCEPT !.invalidated = TRUE, !.state = s]]
    BY <1>7 DEF Changed
  <2> HIDE DEF s
  <2> QED
    BY <1>2, <2>1, <2>2
<1>8. CASE kind \in {"confirm", "confirm by reply", "promote"} /\ f[r].provisional
  <2> DEFINE s == IF f[r].state \in {"provisional_expired", "provisional_rejected"} THEN "active" ELSE f[r].state
  <2>1. s \in RecordStates
    BY <1>4
  <2>2. Changed(f, kind, r) = [f EXCEPT ![r] = [f[r] EXCEPT !.provisional = FALSE, !.state = s]]
    BY <1>8 DEF Changed
  <2> HIDE DEF s
  <2> QED
    BY <1>3, <2>1, <2>2
<1>9. CASE Changed(f, kind, r) = f
  BY <1>9
<1> QED
  BY <1>5, <1>6, <1>7, <1>8, <1>9 DEF Changed

-----------------------------------------------------------------------------
(* The steps of an owner process, by what they make of its state.            *)

Moves(o, pc, action, todo, seen, graph) ==
    /\ \A q \in Owners : q # o => owner'[q] = owner[q]
    /\ owner' \in [Owners -> OwnerState]
    /\ owner'[o].pc = pc /\ owner'[o].action = action /\ owner'[o].todo = todo
    /\ owner'[o].seen = seen /\ owner'[o].graph = graph

MovesOn(o, pc) == Moves(o, pc, owner[o].action, owner[o].todo, owner[o].seen, owner[o].graph)
Stops(o) == Moves(o, "idle", NoAction, {}, NoFile, NoGraph)

LEMMA MoveByState ==
    ASSUME owner \in [Owners -> OwnerState], NEW o \in Owners, NEW st \in OwnerState,
           owner' = [owner EXCEPT ![o] = st]
    PROVE  Moves(o, st.pc, st.action, st.todo, st.seen, st.graph)
BY DEF Moves

LEMMA StopsWhenItRests ==
    ASSUME owner \in [Owners -> OwnerState], NEW o \in Owners, Rests(o)
    PROVE  Stops(o)
<1>1. Moves(o, Idle.pc, Idle.action, Idle.todo, Idle.seen, Idle.graph)
  BY MoveByState, NothingTyped DEF Rests
<1> QED
  BY <1>1 DEF Stops, Idle

Steps == {"idle", "approve", "read", "replace", "read edges", "truncate", "write edges",
          "project", "transition", "update", "record"}

LEMMA GoesOn ==
    ASSUME owner \in [Owners -> OwnerState], NEW o \in Owners, NEW pc \in Steps, Goto(o, pc)
    PROVE  MovesOn(o, pc)
<1> DEFINE st == [owner[o] EXCEPT !.pc = pc]
<1>1. st \in OwnerState
  BY DEF OwnerState, Steps
<1>2. st.pc = pc /\ st.action = owner[o].action /\ st.todo = owner[o].todo
      /\ st.seen = owner[o].seen /\ st.graph = owner[o].graph
  BY DEF OwnerState
<1>3. owner' = [owner EXCEPT ![o] = st]
  BY DEF Goto
<1> HIDE DEF st
<1> QED
  BY <1>1, <1>2, <1>3, MoveByState DEF MovesOn

LEMMA GoesOnSeeing ==
    ASSUME owner \in [Owners -> OwnerState], NEW o \in Owners, NEW pc \in Steps,
           NEW seen \in [Records -> RecordType],
           owner' = [owner EXCEPT ![o] = [@ EXCEPT !.pc = pc, !.seen = seen]]
    PROVE  Moves(o, pc, owner[o].action, owner[o].todo, seen, owner[o].graph)
<1> DEFINE st == [owner[o] EXCEPT !.pc = pc, !.seen = seen]
<1>1. st \in OwnerState
  BY DEF OwnerState, Steps
<1>2. st.pc = pc /\ st.action = owner[o].action /\ st.todo = owner[o].todo
      /\ st.seen = seen /\ st.graph = owner[o].graph
  BY DEF OwnerState
<1>3. owner' = [owner EXCEPT ![o] = st]
  OBVIOUS
<1> HIDE DEF st
<1> QED
  BY <1>1, <1>2, <1>3, MoveByState

LEMMA GoesOnWithGraph ==
    ASSUME owner \in [Owners -> OwnerState], NEW o \in Owners, NEW pc \in Steps,
           NEW graph \in [Edges -> EdgeType],
           owner' = [owner EXCEPT ![o] = [@ EXCEPT !.pc = pc, !.graph = graph]]
    PROVE  Moves(o, pc, owner[o].action, owner[o].todo, owner[o].seen, graph)
<1> DEFINE st == [owner[o] EXCEPT !.pc = pc, !.graph = graph]
<1>1. st \in OwnerState
  BY DEF OwnerState, Steps
<1>2. st.pc = pc /\ st.action = owner[o].action /\ st.todo = owner[o].todo
      /\ st.seen = owner[o].seen /\ st.graph = graph
  BY DEF OwnerState
<1>3. owner' = [owner EXCEPT ![o] = st]
  OBVIOUS
<1> HIDE DEF st
<1> QED
  BY <1>1, <1>2, <1>3, MoveByState

\* A decision is begun ...
Begins(o, a) ==
    /\ owner[o].pc = "idle" /\ a \notin ledger /\ Valid(a)
    /\ Moves(o, FirstStep(a), a, Approved(a), owner[o].seen, owner[o].graph)
    /\ overlapped' = (overlapped \/ \E q \in Owners : owner[q].action = a)

LEMMA FirstSteps ==
    ASSUME NEW a \in Actions
    PROVE  /\ FirstStep(a) \in Steps \ {"idle"} /\ Approved(a) \in SUBSET Candidates
           /\ FirstStep(a) \in {"approve", "read", "transition", "record"}
           /\ FirstStep(a) = "approve" => a.kind \in {"approve candidate", "approve cluster"}
           /\ FirstStep(a) = "read" => a.kind \in RecordKinds
           /\ FirstStep(a) = "transition" => a.kind \in EdgeKinds
           /\ FirstStep(a) = "record" => a.kind = "reject candidate"
<1>1. a.kind \in AllKinds /\ (a.kind \in CandidateKinds => a.target \in Candidates)
  BY ActionKinds
<1>2. Approved(a) \in SUBSET Candidates
  BY <1>1 DEF Approved, CandidateKinds
<1>3. CASE a.kind \in {"approve candidate", "approve cluster"}
  BY <1>2, <1>3 DEF FirstStep, RecordKinds, EdgeKinds, Steps
<1>4. CASE a.kind = "reject candidate"
  BY <1>2, <1>4 DEF FirstStep, RecordKinds, EdgeKinds, Steps
<1>5. CASE a.kind \in RecordKinds
  BY <1>2, <1>5 DEF FirstStep, RecordKinds, EdgeKinds, Steps
<1>6. CASE a.kind \in EdgeKinds
  BY <1>2, <1>6 DEF FirstStep, RecordKinds, EdgeKinds, Steps
<1> QED
  BY <1>1, <1>3, <1>4, <1>5, <1>6 DEF AllKinds, CandidateKinds, ClusterKinds

LEMMA StartBegins ==
    ASSUME TypeOK, NEW o \in Owners, StartAction(o)
    PROVE  \E a \in Actions : Begins(o, a)
<1>1. PICK a \in Actions :
        /\ a \notin ledger /\ Valid(a)
        /\ owner' = [owner EXCEPT ![o] = [owner[o] EXCEPT
                       !.pc = FirstStep(a), !.action = a, !.todo = Approved(a)]]
        /\ overlapped' = (overlapped \/ \E q \in Owners : owner[q].action = a)
  BY DEF StartAction
<1> DEFINE st == [owner[o] EXCEPT !.pc = FirstStep(a), !.action = a, !.todo = Approved(a)]
<1>2. FirstStep(a) \in Steps /\ Approved(a) \in SUBSET Candidates
  BY FirstSteps
<1>3. owner \in [Owners -> OwnerState] /\ owner[o] \in OwnerState
  BY DEF TypeOK
<1>4. st \in OwnerState
  BY <1>2, <1>3 DEF OwnerState, Steps
<1>5. st.pc = FirstStep(a) /\ st.action = a /\ st.todo = Approved(a)
      /\ st.seen = owner[o].seen /\ st.graph = owner[o].graph
  BY <1>3 DEF OwnerState
<1>6. owner' = [owner EXCEPT ![o] = st]
  BY <1>1
<1> HIDE DEF st
<1>7. Moves(o, FirstStep(a), a, Approved(a), owner[o].seen, owner[o].graph)
  BY <1>3, <1>4, <1>5, <1>6, MoveByState
<1>8. owner[o].pc = "idle"
  BY DEF StartAction
<1> QED
  BY <1>1, <1>7, <1>8 DEF Begins

\* ... and its candidates are approved one by one.
Approves(o, c) ==
    /\ owner[o].pc = "approve" /\ c \in owner[o].todo
    /\ AppendRecord(c, owner[o].action, FALSE)
    /\ Moves(o, IF owner[o].todo = {c} THEN "record" ELSE "approve", owner[o].action,
             owner[o].todo \ {c}, owner[o].seen, owner[o].graph)

LEMMA NextIsApproved ==
    ASSUME TypeOK, NEW o \in Owners, ApproveNext(o)
    PROVE  \E c \in Candidates : Approves(o, c)
<1> DEFINE pc(c) == IF owner[o].todo = {c} THEN "record" ELSE "approve"
<1>1. PICK c \in owner[o].todo :
        /\ AppendRecord(c, owner[o].action, FALSE)
        /\ owner' = [owner EXCEPT ![o] = [owner[o] EXCEPT !.todo = owner[o].todo \ {c}, !.pc = pc(c)]]
  BY DEF ApproveNext
<1>2. pc(c) \in {"record", "approve"} /\ owner[o].pc = "approve"
  BY DEF ApproveNext
<1> DEFINE p == pc(c)
           st == [owner[o] EXCEPT !.todo = owner[o].todo \ {c}, !.pc = p]
<1>3. p \in Steps
  BY <1>2 DEF Steps
<1> HIDE DEF p
<1>4. owner \in [Owners -> OwnerState] /\ owner[o] \in OwnerState /\ c \in Candidates
  BY <1>1 DEF TypeOK, OwnerState
<1>5. st \in OwnerState
  BY <1>3, <1>4 DEF OwnerState, Steps
<1>6. st.pc = p /\ st.action = owner[o].action /\ st.todo = owner[o].todo \ {c}
      /\ st.seen = owner[o].seen /\ st.graph = owner[o].graph
  BY <1>4 DEF OwnerState
<1>7. owner' = [owner EXCEPT ![o] = st]
  BY <1>1 DEF p
<1> HIDE DEF st
<1>8. Moves(o, p, owner[o].action, owner[o].todo \ {c}, owner[o].seen, owner[o].graph)
  BY <1>4, <1>5, <1>6, <1>7, MoveByState
<1> QED
  BY <1>1, <1>2, <1>4, <1>8 DEF Approves, p

\* What an owner process has in hand fits the step it is at.
OwnerFits(st) ==
    /\ st.pc = "idle" <=> st.action = NoAction
    /\ st.pc # "idle" => st.action \in Actions
    /\ st.pc = "approve" => st.action.kind \in {"approve candidate", "approve cluster"}
    /\ st.pc \in {"read", "replace"} => st.action.kind \in RecordKinds
    /\ st.pc \in {"read edges", "truncate", "write edges"} => st.action.kind = "revoke"
    /\ st.pc = "project" => st.action.kind \in {"revoke", "demote"}
    /\ st.pc \in {"transition", "update"} => st.action.kind \in EdgeKinds

OwnersFit == \A o \in Owners : OwnerFits(owner[o])

LEMMA OwnerAction ==
    ASSUME OwnersFit, NEW o \in Owners, owner[o].pc # "idle"
    PROVE  /\ owner[o].action \in Actions
           /\ owner[o].pc \in {"read", "replace", "read edges", "truncate", "write edges", "project"}
                => owner[o].action.target \in Records
           /\ owner[o].pc \in {"transition", "update"} => owner[o].action.target \in Edges
<1>1. owner[o].action \in Actions /\ OwnerFits(owner[o])
  BY DEF OwnersFit, OwnerFits
<1>2. owner[o].pc \in {"read", "replace", "read edges", "truncate", "write edges", "project"}
        => owner[o].action.kind \in RecordKinds
  BY <1>1 DEF OwnerFits, RecordKinds
<1>3. owner[o].pc \in {"transition", "update"} => owner[o].action.kind \in EdgeKinds
  BY <1>1 DEF OwnerFits
<1> QED
  BY <1>1, <1>2, <1>3, ActionKinds

LEMMA ReadMoves ==
    ASSUME TypeOK, NEW o \in Owners, ReadRecords(o)
    PROVE  LET a == owner[o].action IN
           \/ Stops(o)
           \/ /\ Exists(a.target)
              /\ Moves(o, "replace", a, owner[o].todo, file, owner[o].graph)
           \/ /\ Exists(a.target) /\ Changed(file, a.kind, a.target) = file
              /\ \/ a.kind \in {"revoke", "demote"} /\ MovesOn(o, "project")
                 \/ a.kind \notin {"revoke", "demote"} /\ MovesOn(o, "record")
<1> DEFINE a == owner[o].action
<1>0. owner \in [Owners -> OwnerState] /\ file \in [Records -> RecordType]
  BY DEF TypeOK
<1>1. CASE Rests(o)
  BY <1>0, <1>1, StopsWhenItRests
<1>2. CASE Exists(a.target) /\ owner' = [owner EXCEPT ![o] = [@ EXCEPT !.pc = "replace", !.seen = file]]
  BY <1>0, <1>2, GoesOnSeeing DEF Steps
<1>3. CASE /\ Exists(a.target) /\ Changed(file, a.kind, a.target) = file
           /\ Goto(o, IF a.kind \in {"revoke", "demote"} THEN "project" ELSE "record")
  <2>1. CASE a.kind \in {"revoke", "demote"}
    BY <1>0, <1>3, <2>1, GoesOn DEF Steps
  <2>2. CASE a.kind \notin {"revoke", "demote"}
    BY <1>0, <1>3, <2>2, GoesOn DEF Steps
  <2> QED
    BY <2>1, <2>2
<1> QED
  BY <1>1, <1>2, <1>3 DEF ReadRecords

LEMMA ReplaceMoves ==
    ASSUME TypeOK, OwnersFit, NEW o \in Owners, ReplaceRecords(o)
    PROVE  LET a == owner[o].action
               To(pc) == Moves(o, pc, a, owner[o].todo, NoFile, owner[o].graph) IN
           \/ a.kind = "confirm by reply" /\ Stops(o)
           \/ a.kind = "revoke" /\ To("read edges")
           \/ a.kind = "demote" /\ To("project")
           \/ a.kind \notin {"revoke", "demote"} /\ To("record")
<1> DEFINE a == owner[o].action
           after == AfterRecord(a.kind)
<1>0. owner \in [Owners -> OwnerState]
  BY DEF TypeOK
<1>1. /\ a.kind = "revoke" => after = "read edges"
      /\ a.kind = "demote" => after = "project"
      /\ a.kind \notin {"revoke", "demote"} => after = "record"
  BY DEF AfterRecord
<1>2. CASE a.kind = "confirm by reply" /\ Rests(o)
  BY <1>0, <1>2, StopsWhenItRests
<1>3. CASE owner' = [owner EXCEPT ![o] = [@ EXCEPT !.pc = after, !.seen = NoFile]]
  <2>1. after \in Steps
    BY <1>1 DEF Steps
  <2> HIDE DEF after
  <2>2. Moves(o, after, a, owner[o].todo, NoFile, owner[o].graph)
    BY <1>0, <1>3, <2>1, GoesOnSeeing, NothingTyped
  <2> QED
    BY <1>1, <2>2
<1> QED
  BY <1>2, <1>3 DEF ReplaceRecords

LEMMA EdgesMoves ==
    ASSUME TypeOK, NEW o \in Owners
    PROVE  LET a == owner[o].action IN
           /\ ReadEdges(o) =>
                \/ ActiveAt(edges, a.target) = {} /\ MovesOn(o, "project")
                \/ /\ ActiveAt(edges, a.target) # {}
                   /\ Moves(o, "truncate", a, owner[o].todo, owner[o].seen, edges)
           /\ TruncateEdges(o) => MovesOn(o, "write edges")
           /\ WriteEdges(o) => Moves(o, "project", a, owner[o].todo, owner[o].seen, NoGraph)
<1>0. owner \in [Owners -> OwnerState] /\ edges \in [Edges -> EdgeType]
  BY DEF TypeOK
<1>1. ReadEdges(o) /\ ActiveAt(edges, owner[o].action.target) = {} => MovesOn(o, "project")
  BY <1>0, GoesOn DEF ReadEdges, Steps
<1>2. ReadEdges(o) /\ ActiveAt(edges, owner[o].action.target) # {}
        => Moves(o, "truncate", owner[o].action, owner[o].todo, owner[o].seen, edges)
  BY <1>0, GoesOnWithGraph DEF ReadEdges, Steps
<1>3. TruncateEdges(o) => MovesOn(o, "write edges")
  BY <1>0, GoesOn DEF TruncateEdges, Steps
<1>4. WriteEdges(o) => Moves(o, "project", owner[o].action, owner[o].todo, owner[o].seen, NoGraph)
  BY <1>0, GoesOnWithGraph, NothingTyped DEF WriteEdges, Steps
<1> QED
  BY <1>1, <1>2, <1>3, <1>4

LEMMA OtherMoves ==
    ASSUME TypeOK, NEW o \in Owners
    PROVE  /\ Project(o) => MovesOn(o, "record") \/ Stops(o)
           /\ ReadEdgeState(o) => MovesOn(o, "update") \/ MovesOn(o, "record")
           /\ UpdateEdgeState(o) \/ UpdateTimesOut(o) => MovesOn(o, "record")
           /\ RecordAction(o) \/ OwnerCrashes(o) => Stops(o)
<1>0. owner \in [Owners -> OwnerState]
  BY DEF TypeOK
<1>1. Project(o) => MovesOn(o, "record") \/ Stops(o)
  BY <1>0, GoesOn, StopsWhenItRests DEF Project, Steps
<1>2. ReadEdgeState(o) => MovesOn(o, "update") \/ MovesOn(o, "record")
  <2>1. ReadEdgeState(o) => Goto(o, "update") \/ Goto(o, "record")
    BY DEF ReadEdgeState
  <2> QED
    BY <1>0, <2>1, GoesOn DEF Steps
<1>3. UpdateEdgeState(o) \/ UpdateTimesOut(o) => MovesOn(o, "record")
  BY <1>0, GoesOn DEF UpdateEdgeState, UpdateTimesOut, Steps
<1>4. RecordAction(o) \/ OwnerCrashes(o) => Stops(o)
  BY <1>0, StopsWhenItRests DEF RecordAction, OwnerCrashes
<1> QED
  BY <1>1, <1>2, <1>3, <1>4

\* A process that moves to a state that fits leaves all of them fitting.
LEMMA FitAfterMove ==
    ASSUME OwnersFit, NEW o \in Owners, \A q \in Owners : q # o => owner'[q] = owner[q],
           OwnerFits(owner'[o])
    PROVE  OwnersFit'
BY DEF OwnersFit, OwnerFits

LEMMA OwnersStayFit ==
    ASSUME TypeOK, OwnersFit, NEW o \in Owners, OwnerStep(o) \/ OwnerCrashes(o)
    PROVE  OwnersFit' /\ owner' \in [Owners -> OwnerState]
<1> DEFINE a == owner[o].action
<1>0. OwnerFits(owner[o])
  BY DEF OwnersFit
<1>1. ASSUME Stops(o) PROVE OwnersFit' /\ owner' \in [Owners -> OwnerState]
  <2>1. OwnerFits(owner'[o])
    BY <1>1 DEF Stops, Moves, OwnerFits
  <2> QED
    BY <1>1, <2>1, FitAfterMove DEF Stops, Moves
<1>2. ASSUME NEW pc \in Steps, NEW action \in Actions, NEW todo, NEW seen, NEW graph,
             Moves(o, pc, action, todo, seen, graph), pc # "idle",
             pc = "approve" => action.kind \in {"approve candidate", "approve cluster"},
             pc \in {"read", "replace"} => action.kind \in RecordKinds,
             pc \in {"read edges", "truncate", "write edges"} => action.kind = "revoke",
             pc = "project" => action.kind \in {"revoke", "demote"},
             pc \in {"transition", "update"} => action.kind \in EdgeKinds
      PROVE  OwnersFit' /\ owner' \in [Owners -> OwnerState]
  <2>1. action # NoAction
    BY ActionKinds
  <2>2. OwnerFits(owner'[o])
    BY <1>2, <2>1 DEF Moves, OwnerFits
  <2> QED
    BY <1>2, <2>2, FitAfterMove DEF Moves
<1>3. ASSUME NEW pc \in {"record", "project", "write edges", "update"}, MovesOn(o, pc),
             pc = "write edges" => owner[o].pc = "truncate",
             pc = "project" => a.kind \in {"revoke", "demote"},
             pc = "update" => owner[o].pc = "transition",
             owner[o].pc # "idle"
      PROVE  OwnersFit' /\ owner' \in [Owners -> OwnerState]
  <2>1. a \in Actions
    BY <1>0, <1>3 DEF OwnerFits
  <2>2. pc \in Steps /\ pc # "idle" /\ pc \notin {"approve", "read", "replace", "read edges", "truncate"}
    BY DEF Steps
  <2>3. pc = "write edges" => a.kind = "revoke"
    BY <1>0, <1>3 DEF OwnerFits
  <2>4. pc = "update" => a.kind \in EdgeKinds
    BY <1>0, <1>3 DEF OwnerFits
  <2>5. pc \in {"read edges", "truncate", "write edges"} => a.kind = "revoke"
    BY <2>2, <2>3
  <2>6. pc \in {"transition", "update"} => a.kind \in EdgeKinds
    BY <2>4
  <2>7. Moves(o, pc, a, owner[o].todo, owner[o].seen, owner[o].graph)
    BY <1>3 DEF MovesOn
  <2> HIDE DEF a
  <2> QED
    BY <1>2, <1>3, <2>1, <2>2, <2>5, <2>6, <2>7
<1>4. CASE StartAction(o)
  <2>1. PICK b \in Actions : Begins(o, b)
    BY <1>4, StartBegins
  <2> QED
    BY <1>2, <2>1, FirstSteps DEF Begins
<1>5. CASE ApproveNext(o)
  <2>1. PICK c \in Candidates : Approves(o, c)
    BY <1>5, NextIsApproved
  <2>2. a \in Actions /\ a.kind \in {"approve candidate", "approve cluster"}
    BY <1>0, <2>1 DEF Approves, OwnerFits
  <2>3. CASE owner[o].todo = {c}
    BY <1>2, <2>1, <2>2, <2>3 DEF Approves, Steps
  <2>4. CASE owner[o].todo # {c}
    BY <1>2, <2>1, <2>2, <2>4 DEF Approves, Steps
  <2> QED
    BY <2>3, <2>4
<1>6. CASE ReadRecords(o)
  <2>1. owner[o].pc = "read" /\ a \in Actions /\ a.kind \in RecordKinds
    BY <1>0, <1>6 DEF ReadRecords, OwnerFits
  <2>2. CASE Moves(o, "replace", a, owner[o].todo, file, owner[o].graph)
    BY <1>2, <2>1, <2>2 DEF Steps
  <2>3. CASE \/ a.kind \in {"revoke", "demote"} /\ MovesOn(o, "project")
             \/ MovesOn(o, "record")
    BY <1>3, <2>1, <2>3
  <2> QED
    BY <1>1, <1>6, <2>2, <2>3, ReadMoves
<1>7. CASE ReplaceRecords(o)
  <2>1. owner[o].pc = "replace" /\ a \in Actions
    BY <1>0, <1>7 DEF ReplaceRecords, OwnerFits
  <2> DEFINE To(pc) == Moves(o, pc, a, owner[o].todo, NoFile, owner[o].graph)
  <2>2. CASE a.kind = "revoke" /\ To("read edges")
    BY <1>2, <2>1, <2>2 DEF Steps
  <2>3. CASE a.kind = "demote" /\ To("project")
    BY <1>2, <2>1, <2>3 DEF Steps
  <2>4. CASE To("record")
    BY <1>2, <2>1, <2>4 DEF Steps
  <2> QED
    BY <1>1, <1>7, <2>2, <2>3, <2>4, ReplaceMoves
<1>8. CASE ReadEdges(o) \/ TruncateEdges(o) \/ WriteEdges(o)
  <2>1. owner[o].pc \in {"read edges", "truncate", "write edges"} /\ a \in Actions /\ a.kind = "revoke"
    BY <1>0, <1>8 DEF ReadEdges, TruncateEdges, WriteEdges, OwnerFits
  <2>2. CASE MovesOn(o, "project")
    BY <1>3, <2>1, <2>2
  <2>3. CASE Moves(o, "truncate", a, owner[o].todo, owner[o].seen, edges)
    BY <1>2, <2>1, <2>3 DEF Steps
  <2>4. CASE MovesOn(o, "write edges") /\ TruncateEdges(o)
    BY <1>3, <2>1, <2>4 DEF TruncateEdges
  <2>5. CASE Moves(o, "project", a, owner[o].todo, owner[o].seen, NoGraph)
    BY <1>2, <2>1, <2>5 DEF Steps
  <2> QED
    BY <1>8, <2>2, <2>3, <2>4, <2>5, EdgesMoves
<1>9. CASE Project(o) \/ UpdateEdgeState(o) \/ UpdateTimesOut(o)
  BY <1>1, <1>3, <1>9, OtherMoves DEF Project, UpdateEdgeState, UpdateTimesOut
<1>10. CASE ReadEdgeState(o)
  BY <1>1, <1>3, <1>10, OtherMoves DEF ReadEdgeState
<1>11. CASE RecordAction(o) \/ OwnerCrashes(o)
  BY <1>1, <1>11, OtherMoves
<1> QED
  BY <1>4, <1>5, <1>6, <1>7, <1>8, <1>9, <1>10, <1>11 DEF OwnerStep

-----------------------------------------------------------------------------
(* The steps of the cognitive loop.                                          *)

LoopFits ==
    /\ loop.pc = "replace" => loop.record \in Records
    /\ loop.pc = "append edge" => proposed < MaxEdges
    /\ loop.pc = "insert edge" => loop.record \in 1..proposed

\* The loop does not wait to write: it lists, goes on with the next record or rests.
LoopLooks == loop' \in LoopState /\ loop'.pc \in {"idle", "next"} /\ loop'.seen \in {NoFile, loop.seen}

LEMMA LoopGoingOn ==
    ASSUME TypeOK, NEW r \in Records, LoopGoesOn(r)
    PROVE  LoopLooks
<1>0. loop \in LoopState
  BY DEF TypeOK
<1>1. AtRest \in LoopState /\ AtRest.pc = "idle" /\ AtRest.seen = NoFile
  BY NothingTyped DEF AtRest
<1> DEFINE st == [loop EXCEPT !.pc = "next", !.todo = loop.todo \ {r}, !.record = 0, !.seen = NoFile]
<1>2. st \in LoopState /\ st.pc = "next" /\ st.seen = NoFile
  BY <1>0, NothingTyped DEF LoopState
<1>3. loop' = AtRest \/ loop' = st
  BY DEF LoopGoesOn
<1> QED
  BY <1>1, <1>2, <1>3 DEF LoopLooks

LEMMA LoopMoves ==
    ASSUME TypeOK, LoopFits
    PROVE  /\ \A job \in Jobs : ListRecords(job) => LoopLooks
           /\ \A r \in Records : LoopReads(r) =>
                \/ LoopLooks
                \/ loop' \in LoopState /\ loop'.pc = "replace" /\ loop'.record = r /\ loop'.seen = file
           /\ LoopReplaces \/ AppendFails \/ InsertEdge \/ LoopCrashes => LoopLooks
           /\ ProposeEdge =>
                /\ loop' \in LoopState /\ loop'.pc = "append edge" /\ loop'.seen = loop.seen
                /\ loop'.edge.state # "absent"
           /\ AppendEdge =>
                LET edge == [loop.edge EXCEPT !.late = \E r \in loop.edge.ends : ~IsActive(file, r)] IN
                /\ loop' \in LoopState /\ loop'.pc = "insert edge" /\ loop'.seen = loop.seen
                /\ loop'.edge = edge /\ loop'.record = proposed + 1 /\ edge \in EdgeType
<1>0. loop \in LoopState /\ file \in [Records -> RecordType] /\ MaxEdges \in Nat /\ proposed \in Nat
  BY BoundsAreNumbers DEF TypeOK
<1>1. AtRest \in LoopState /\ AtRest.pc = "idle" /\ AtRest.seen = NoFile
  BY NothingTyped DEF AtRest
<1>2. ASSUME NEW job \in Jobs, ListRecords(job) PROVE LoopLooks
  <2>1. PICK due \in SUBSET {r \in Records : IsProvisional(file, r)} \ {{}} :
          loop' = [loop EXCEPT !.pc = "next", !.job = job, !.todo = due]
    BY <1>2 DEF ListRecords
  <2>2. job \in {"promote", "expire"} /\ due \in SUBSET Records
    BY JobsAssumption
  <2> DEFINE st == [loop EXCEPT !.pc = "next", !.job = job, !.todo = due]
  <2>3. st \in LoopState /\ st.pc = "next" /\ st.seen = loop.seen
    BY <1>0, <2>2 DEF LoopState
  <2> QED
    BY <2>1, <2>3 DEF LoopLooks
<1>3. ASSUME NEW r \in Records, LoopReads(r)
      PROVE  \/ LoopLooks
             \/ loop' \in LoopState /\ loop'.pc = "replace" /\ loop'.record = r /\ loop'.seen = file
  <2> DEFINE st == [loop EXCEPT !.pc = "replace", !.record = r, !.seen = file]
  <2>1. st \in LoopState /\ st.pc = "replace" /\ st.record = r /\ st.seen = file
    BY <1>0 DEF LoopState
  <2>2. loop' = st \/ LoopGoesOn(r)
    BY <1>3 DEF LoopReads
  <2> HIDE DEF st
  <2> QED
    BY <2>1, <2>2, LoopGoingOn
<1>4. LoopReplaces \/ AppendFails \/ InsertEdge \/ LoopCrashes => LoopLooks
  <2>1. LoopReplaces => LoopLooks
    BY LoopGoingOn DEF LoopReplaces, LoopFits
  <2>2. AppendFails \/ InsertEdge \/ LoopCrashes => loop' = AtRest
    BY DEF AppendFails, InsertEdge, LoopCrashes
  <2> QED
    BY <1>1, <2>1, <2>2 DEF LoopLooks
<1>5. ASSUME ProposeEdge
      PROVE  /\ loop' \in LoopState /\ loop'.pc = "append edge" /\ loop'.seen = loop.seen
             /\ loop'.edge.state # "absent"
  <2>1. PICK ends \in SUBSET index.records, auto \in BOOLEAN :
          loop' = [loop EXCEPT !.pc = "append edge", !.edge =
                      [state |-> IF auto THEN "active" ELSE "candidate",
                       ends |-> ends, auto |-> auto, late |-> FALSE]]
    BY <1>5 DEF ProposeEdge
  <2> DEFINE state == IF auto THEN "active" ELSE "candidate"
             edge == [state |-> state, ends |-> ends, auto |-> auto, late |-> FALSE]
             st == [loop EXCEPT !.pc = "append edge", !.edge = edge]
  <2>2. state \in EdgeStates \ {"absent"} /\ ends \in SUBSET Records
    BY DEF EdgeStates, TypeOK
  <2>3. loop' = st
    BY <2>1
  <2> HIDE DEF state
  <2>4. edge \in EdgeType /\ edge.state = state
    BY <2>2 DEF EdgeType
  <2> HIDE DEF edge
  <2>5. st \in LoopState /\ st.pc = "append edge" /\ st.seen = loop.seen /\ st.edge = edge
    BY <1>0, <2>4 DEF LoopState
  <2> QED
    BY <2>2, <2>3, <2>4, <2>5
<1>6. ASSUME AppendEdge
      PROVE  LET edge == [loop.edge EXCEPT !.late = \E r \in loop.edge.ends : ~IsActive(file, r)] IN
             /\ loop' \in LoopState /\ loop'.pc = "insert edge" /\ loop'.seen = loop.seen
             /\ loop'.edge = edge /\ loop'.record = proposed + 1 /\ edge \in EdgeType
  <2> DEFINE late == \E r \in loop.edge.ends : ~IsActive(file, r)
             edge == [loop.edge EXCEPT !.late = late]
             st == [loop EXCEPT !.pc = "insert edge", !.edge = edge, !.record = proposed + 1]
  <2>1. loop' = st
    BY <1>6 DEF AppendEdge
  <2>2. late \in BOOLEAN
    OBVIOUS
  <2> HIDE DEF late
  <2>3. edge \in EdgeType
    BY <1>0, <2>2 DEF LoopState, EdgeType
  <2> HIDE DEF edge
  <2>4. proposed < MaxEdges
    BY <1>6 DEF AppendEdge, LoopFits
  <2>5. proposed + 1 \in Edges
    BY <1>0, <2>4 DEF Edges
  <2>6. st \in LoopState /\ st.pc = "insert edge" /\ st.seen = loop.seen /\ st.edge = edge
        /\ st.record = proposed + 1
    BY <1>0, <2>3, <2>5 DEF LoopState
  <2> QED
    BY <2>1, <2>3, <2>6 DEF late, edge
<1> QED
  BY <1>2, <1>3, <1>4, <1>5, <1>6

-----------------------------------------------------------------------------
(* Every step keeps the types.                                               *)

LEMMA AppendTyped ==
    ASSUME TypeOK, NEW c \in Candidates, NEW by \in Actions \cup {NoAction, Resolver},
           NEW provisional \in BOOLEAN, AppendRecord(c, by, provisional)
    PROVE  file' \in [Records -> RecordType] /\ written' \in 0..MaxRecords
<1> DEFINE new == [state |-> "active", by |-> by, candidate |-> c,
                   provisional |-> provisional, invalidated |-> FALSE]
<1>1. new \in RecordType
  BY DEF RecordType, RecordStates
<1> HIDE DEF new
<1>2. file' = [file EXCEPT ![written + 1] = new]
  BY DEF AppendRecord, new
<1>3. written' \in 0..MaxRecords
  BY BoundsAreNumbers DEF AppendRecord, TypeOK
<1> QED
  BY <1>1, <1>2, <1>3 DEF TypeOK

LEMMA InvalidatedTyped ==
    ASSUME NEW g \in [Edges -> EdgeType], NEW r
    PROVE  Invalidated(g, r) \in [Edges -> EdgeType]
<1>1. \A e \in Edges : [g[e] EXCEPT !.state = "invalidated"] \in EdgeType /\ g[e] \in EdgeType
  BY DEF EdgeType, EdgeStates
<1> QED
  BY <1>1 DEF Invalidated

IndexType == [records: SUBSET Records, edges: [Edges -> EdgeType]]

LEMMA IndexTyped ==
    ASSUME TypeOK, OwnersFit, LoopFits
    PROVE  /\ \A o \in Owners : UpdateEdgeState(o) => index' \in IndexType
           /\ InsertEdge => index' \in IndexType
           /\ SyncEdges => index' \in IndexType
<1>0. /\ index \in IndexType /\ edges \in [Edges -> EdgeType] /\ loop \in LoopState
      /\ sync.records \in SUBSET Records /\ proposed \in 0..MaxEdges
  BY DEF TypeOK, IndexType
<1>1. ASSUME NEW o \in Owners, UpdateEdgeState(o) PROVE index' \in IndexType
  <2> DEFINE e == owner[o].action.target
             new == NewState(owner[o].action)
  <2>1. new \in EdgeStates
    BY DEF NewState, EdgeStates
  <2>2. index' = [index EXCEPT !.edges[e].state = new] \/ index' = index
    BY <1>1 DEF UpdateEdgeState
  <2> HIDE DEF e, new
  <2>3. \A x \in EdgeType : [x EXCEPT !.state = new] \in EdgeType
    BY <2>1 DEF EdgeType
  <2>4. [index.edges EXCEPT ![e].state = new] \in [Edges -> EdgeType]
    BY <1>0, <2>3 DEF IndexType
  <2>5. [index EXCEPT !.edges = [index.edges EXCEPT ![e].state = new]] \in IndexType
    BY <1>0, <2>4 DEF IndexType
  <2> QED
    BY <1>0, <2>2, <2>5
<1>2. ASSUME InsertEdge PROVE index' \in IndexType
  <2>1. index' = [index EXCEPT !.edges[loop.record] = loop.edge] \/ index' = index
    BY <1>2 DEF InsertEdge
  <2>2. loop.edge \in EdgeType
    BY <1>0 DEF LoopState
  <2>3. [index.edges EXCEPT ![loop.record] = loop.edge] \in [Edges -> EdgeType]
    BY <1>0, <2>2 DEF IndexType
  <2>4. [index EXCEPT !.edges = [index.edges EXCEPT ![loop.record] = loop.edge]] \in IndexType
    BY <1>0, <2>3 DEF IndexType
  <2> QED
    BY <1>0, <2>1, <2>4
<1>3. SyncEdges => index' \in IndexType
  BY <1>0 DEF SyncEdges, IndexType
<1> QED
  BY <1>1, <1>2, <1>3

LEMMA LostTyped ==
    ASSUME TypeOK, NEW what \in {"records", "edges"}, NEW changed, Lose(what, changed)
    PROVE  lost' \subseteq {"records", "edges"} /\ lost \subseteq lost'
BY DEF Lose, TypeOK

Typed == TypeOK /\ OwnersFit /\ LoopFits

LEMMA OwnerTyped ==
    ASSUME Typed, NEW o \in Owners, OwnerStep(o) \/ OwnerCrashes(o)
    PROVE  Typed'
<1> DEFINE a == owner[o].action
<1> USE DEF Typed, files, history
<1>0. owner[o].pc # "idle" => a \in Actions
  BY OwnerAction
<1>1. OwnersFit' /\ owner' \in [Owners -> OwnerState]
  BY OwnersStayFit
<1>2. UNCHANGED <<loop, proposed>>
  BY DEF OwnerStep, StartAction, ApproveNext, ReadRecords, ReplaceRecords, ReadEdges, TruncateEdges,
         WriteEdges, Project, ReadEdgeState, UpdateEdgeState, UpdateTimesOut, RecordAction, OwnerCrashes
<1>3. LoopFits'
  BY <1>2 DEF LoopFits
<1>4. CASE StartAction(o)
  <2>1. actions' \in 0..MaxActions
    BY <1>4, BoundsAreNumbers DEF StartAction, TypeOK
  <2>2. overlapped' \in BOOLEAN
    BY <1>4, StartBegins DEF Begins
  <2> QED
    BY <1>1, <1>3, <1>4, <2>1, <2>2 DEF StartAction, TypeOK
<1>5. CASE ApproveNext(o)
  <2>1. PICK c \in Candidates : Approves(o, c)
    BY <1>5, NextIsApproved
  <2>2. a \in Actions
    BY <1>0, <2>1 DEF Approves
  <2>3. file' \in [Records -> RecordType] /\ written' \in 0..MaxRecords
    BY <2>1, <2>2, AppendTyped DEF Approves
  <2> QED
    BY <1>1, <1>3, <1>5, <2>3 DEF ApproveNext, TypeOK
<1>6. CASE ReadRecords(o) \/ Project(o) \/ ReadEdgeState(o) \/ UpdateTimesOut(o)
  BY <1>1, <1>3, <1>6 DEF ReadRecords, Project, ReadEdgeState, UpdateTimesOut, TypeOK
<1>7. CASE ReplaceRecords(o)
  <2>1. owner[o].pc = "replace" /\ owner[o].seen \in [Records -> RecordType]
    BY <1>7 DEF ReplaceRecords, TypeOK, OwnerState
  <2>2. file' \in [Records -> RecordType]
    BY <1>7, <2>1, OwnerAction, ChangedTyped DEF ReplaceRecords, Replace
  <2>3. lost' \subseteq {"records", "edges"}
    BY <1>7, LostTyped DEF ReplaceRecords, Replace
  <2> QED
    BY <1>1, <1>3, <1>7, <2>2, <2>3 DEF ReplaceRecords, TypeOK
<1>8. CASE ReadEdges(o)
  <2>1. lost' \subseteq {"records", "edges"}
    BY <1>8, LostTyped DEF ReadEdges
  <2> QED
    BY <1>1, <1>3, <1>8, <2>1 DEF ReadEdges, TypeOK
<1>9. CASE TruncateEdges(o)
  <2>1. lost' \subseteq {"records", "edges"}
    BY <1>9, LostTyped DEF TruncateEdges
  <2> QED
    BY <1>1, <1>3, <1>9, <2>1, NothingTyped DEF TruncateEdges, TypeOK
<1>10. CASE WriteEdges(o)
  <2>1. lost' \subseteq {"records", "edges"}
    BY <1>10, LostTyped DEF WriteEdges
  <2>2. owner[o].graph \in [Edges -> EdgeType]
    BY DEF TypeOK, OwnerState
  <2>3. edges' \in [Edges -> EdgeType]
    BY <1>10, <2>2, InvalidatedTyped DEF WriteEdges
  <2> QED
    BY <1>1, <1>3, <1>10, <2>1, <2>3 DEF WriteEdges, TypeOK
<1>11. CASE UpdateEdgeState(o)
  <2>1. index' \in [records: SUBSET Records, edges: [Edges -> EdgeType]]
    BY <1>11, IndexTyped DEF IndexType
  <2> QED
    BY <1>1, <1>3, <1>11, <2>1 DEF UpdateEdgeState, TypeOK
<1>12. CASE RecordAction(o)
  <2>1. ledger' \subseteq Actions
    BY <1>0, <1>12 DEF RecordAction, TypeOK
  <2> QED
    BY <1>1, <1>3, <1>12, <2>1 DEF RecordAction, TypeOK
<1>13. CASE OwnerCrashes(o)
  <2>1. lost' \subseteq {"records", "edges"}
    BY <1>13, LostTyped DEF OwnerCrashes
  <2>2. crashes' \in 0..MaxCrashes
    <3>1. crashes < MaxCrashes /\ crashes' = crashes + 1
      BY <1>13 DEF OwnerCrashes
    <3>2. crashes \in 0..MaxCrashes
      BY DEF TypeOK
    <3> QED
      BY <3>1, <3>2, BoundsAreNumbers
  <2> QED
    BY <1>1, <1>3, <1>13, <2>1, <2>2 DEF OwnerCrashes, TypeOK
<1> QED
  BY <1>4, <1>5, <1>6, <1>7, <1>8, <1>9, <1>10, <1>11, <1>12, <1>13 DEF OwnerStep

LEMMA ResolverTyped ==
    ASSUME Typed, NEW c \in Candidates, Resolve(c)
    PROVE  Typed'
<1> USE DEF Typed, files, history
<1>1. file' \in [Records -> RecordType] /\ written' \in 0..MaxRecords
  BY AppendTyped DEF Resolve
<1>2. TypeOK'
  BY <1>1 DEF Resolve, TypeOK
<1> QED
  BY <1>2 DEF Resolve, OwnersFit, OwnerFits, LoopFits

LEMMA LoopTyped ==
    ASSUME Typed, LoopStep \/ LoopCrashes
    PROVE  Typed'
<1> USE DEF Typed, files, history
<1>0. UNCHANGED <<owner, written, sync, ledger, actions, overlapped>>
  BY DEF LoopStep, LoopCrashes, ListRecords, LoopReads, LoopReplaces, ProposeEdge, AppendFails,
         AppendEdge, InsertEdge
<1>1. OwnersFit'
  BY <1>0 DEF OwnersFit, OwnerFits
<1>2. ASSUME LoopLooks PROVE LoopFits' /\ loop' \in LoopState
  BY <1>2 DEF LoopLooks, LoopFits
<1>3. CASE \E job \in Jobs : ListRecords(job)
  <2>1. LoopLooks
    BY <1>3, LoopMoves
  <2> QED
    BY <1>1, <1>2, <1>3, <2>1 DEF ListRecords, TypeOK
<1>4. CASE \E r \in Records : LoopReads(r)
  <2>1. PICK r \in Records : LoopReads(r)
    BY <1>4
  <2>2. CASE LoopLooks
    BY <1>1, <1>2, <2>1, <2>2 DEF LoopReads, TypeOK
  <2>3. CASE loop' \in LoopState /\ loop'.pc = "replace" /\ loop'.record = r
    <3>1. LoopFits'
      BY <2>3 DEF LoopFits
    <3> QED
      BY <1>1, <2>1, <2>3, <3>1 DEF LoopReads, TypeOK
  <2> QED
    BY <2>1, <2>2, <2>3, LoopMoves
<1>5. CASE LoopReplaces
  <2>1. loop.seen \in [Records -> RecordType] /\ loop.record \in Records
    BY <1>5 DEF LoopReplaces, LoopFits, TypeOK, LoopState
  <2>2. file' \in [Records -> RecordType]
    BY <1>5, <2>1, ChangedTyped DEF LoopReplaces, Replace
  <2>3. lost' \subseteq {"records", "edges"}
    BY <1>5, LostTyped DEF LoopReplaces, Replace
  <2> QED
    BY <1>1, <1>2, <1>5, <2>2, <2>3, LoopMoves DEF LoopReplaces, TypeOK
<1>6. CASE ProposeEdge
  <2>1. loop' \in LoopState /\ LoopFits'
    BY <1>6, LoopMoves DEF ProposeEdge, LoopFits
  <2> QED
    BY <1>1, <1>6, <2>1 DEF ProposeEdge, TypeOK
<1>7. CASE AppendFails
  BY <1>1, <1>2, <1>7, LoopMoves DEF AppendFails, TypeOK
<1>8. CASE AppendEdge
  <2> DEFINE edge == [loop.edge EXCEPT !.late = \E r \in loop.edge.ends : ~IsActive(file, r)]
  <2>1. /\ loop' \in LoopState /\ loop'.pc = "insert edge" /\ loop'.record = proposed + 1
        /\ edge \in EdgeType
    BY <1>8, LoopMoves
  <2>2. edges' = [edges EXCEPT ![proposed + 1] = edge] /\ proposed' = proposed + 1 /\ proposed < MaxEdges
    BY <1>8 DEF AppendEdge, LoopFits
  <2> HIDE DEF edge
  <2>3. proposed \in 0..MaxEdges /\ edges \in [Edges -> EdgeType]
    BY DEF TypeOK
  <2>4. proposed' \in 0..MaxEdges /\ proposed + 1 \in 1..proposed'
    BY <2>2, <2>3, BoundsAreNumbers
  <2>5. LoopFits'
    BY <2>1, <2>4 DEF LoopFits
  <2>6. edges' \in [Edges -> EdgeType]
    BY <2>1, <2>2, <2>3
  <2> QED
    BY <1>1, <1>8, <2>1, <2>4, <2>5, <2>6 DEF AppendEdge, TypeOK
<1>9. CASE InsertEdge
  <2>1. index' \in [records: SUBSET Records, edges: [Edges -> EdgeType]]
    BY <1>9, IndexTyped DEF IndexType
  <2> QED
    BY <1>1, <1>2, <1>9, <2>1, LoopMoves DEF InsertEdge, TypeOK
<1>10. CASE LoopCrashes
  <2>1. crashes' \in 0..MaxCrashes
    BY <1>10, BoundsAreNumbers DEF LoopCrashes, TypeOK
  <2> QED
    BY <1>1, <1>2, <1>10, <2>1, LoopMoves DEF LoopCrashes, TypeOK
<1> QED
  BY <1>3, <1>4, <1>5, <1>6, <1>7, <1>8, <1>9, <1>10 DEF LoopStep

LEMMA SyncTyped ==
    ASSUME Typed, SyncStep \/ SyncCrashes
    PROVE  Typed'
<1> USE DEF Typed, files, history
<1>1. OwnersFit' /\ LoopFits'
  BY DEF SyncStep, SyncRecords, SyncEdges, SyncCrashes, OwnersFit, OwnerFits, LoopFits
<1>2. index' \in [records: SUBSET Records, edges: [Edges -> EdgeType]]
  BY IndexTyped DEF SyncStep, SyncRecords, SyncEdges, SyncCrashes, IndexType, TypeOK
<1>3. sync' \in [pc: {"idle", "reading"}, records: SUBSET Records]
  BY DEF SyncStep, SyncRecords, SyncEdges, SyncCrashes
<1>4. crashes' \in 0..MaxCrashes
  BY BoundsAreNumbers DEF SyncStep, SyncRecords, SyncEdges, SyncCrashes, TypeOK
<1> QED
  BY <1>1, <1>2, <1>3, <1>4 DEF SyncStep, SyncRecords, SyncEdges, SyncCrashes, TypeOK

LEMMA InitTyped == ASSUME Init PROVE Typed
<1>1. 0 \in 0..MaxRecords /\ 0 \in 0..MaxEdges /\ 0 \in 0..MaxActions /\ 0 \in 0..MaxCrashes
  BY BoundsAreNumbers
<1>2. owner \in [Owners -> OwnerState] /\ loop \in LoopState
  BY NothingTyped DEF Init
<1>3. index \in [records: SUBSET Records, edges: [Edges -> EdgeType]]
  BY NothingTyped DEF Init
<1>4. TypeOK
  BY <1>1, <1>2, <1>3, NothingTyped DEF Init, TypeOK
<1> QED
  BY <1>4 DEF Init, Typed, OwnersFit, OwnerFits, LoopFits, Idle, AtRest

LEMMA NextTyped == ASSUME Typed, [Next]_vars PROVE Typed'
<1>1. CASE UNCHANGED vars
  BY <1>1 DEF Typed, TypeOK, OwnersFit, OwnerFits, LoopFits, vars, files, history
<1> QED
  BY <1>1, OwnerTyped, ResolverTyped, LoopTyped, SyncTyped DEF Next

\* Every variable keeps its type: a decision in hand is one of the owner's, for a target of
\* its kind, and records and edges only get the states that the rest of the code knows.
THEOREM TypeCorrect == Spec => []TypeOK
<1>1. Typed => TypeOK
  BY DEF Typed
<1>2. Init => Typed
  BY InitTyped
<1>3. Typed /\ [Next]_vars => Typed'
  BY NextTyped
<1> QED
  BY <1>1, <1>2, <1>3, PTL DEF Spec

-----------------------------------------------------------------------------
(* What becomes of the records' file, and of the copies that were read.      *)

\* The views after a step are views from before it, or of nothing.
LEMMA ViewsAreOld ==
    ASSUME Typed, [Next]_vars
    PROVE  /\ \A o \in Owners : owner'[o].seen \in {NoFile, owner[o].seen, file}
           /\ \A o \in Owners : owner'[o].graph \in {NoGraph, owner[o].graph, edges}
           /\ loop'.seen \in {NoFile, loop.seen, file}
<1> USE DEF files, history
<1>1. ASSUME NEW o \in Owners, OwnerStep(o) \/ OwnerCrashes(o)
      PROVE  /\ \A q \in Owners : q # o => owner'[q] = owner[q]
             /\ owner'[o].seen \in {NoFile, owner[o].seen, file}
             /\ owner'[o].graph \in {NoGraph, owner[o].graph, edges}
  <2>1. StartAction(o) => \E a \in Actions : Begins(o, a)
    BY StartBegins DEF Typed
  <2>2. ApproveNext(o) => \E c \in Candidates : Approves(o, c)
    BY NextIsApproved DEF Typed
  <2> QED
    BY <1>1, <2>1, <2>2, ReadMoves, ReplaceMoves, EdgesMoves, OtherMoves
       DEF OwnerStep, Begins, Approves, Stops, MovesOn, Moves, Typed
<1>2. ASSUME NEW o \in Owners, OwnerStep(o) \/ OwnerCrashes(o) PROVE UNCHANGED loop
  BY <1>2 DEF OwnerStep, StartAction, ApproveNext, ReadRecords, ReplaceRecords, ReadEdges, TruncateEdges,
         WriteEdges, Project, ReadEdgeState, UpdateEdgeState, UpdateTimesOut, RecordAction, OwnerCrashes
<1>3. ASSUME LoopStep \/ LoopCrashes PROVE loop'.seen \in {NoFile, loop.seen, file} /\ UNCHANGED owner
  <2>1. UNCHANGED owner
    BY <1>3 DEF LoopStep, LoopCrashes, ListRecords, LoopReads, LoopReplaces, ProposeEdge, AppendFails,
         AppendEdge, InsertEdge
  <2> QED
    BY <1>3, <2>1, LoopMoves DEF LoopStep, LoopLooks, Typed
<1>4. ASSUME (\E c \in Candidates : Resolve(c)) \/ SyncStep \/ SyncCrashes \/ UNCHANGED vars
      PROVE  UNCHANGED <<owner, loop>>
  BY <1>4 DEF Resolve, SyncStep, SyncRecords, SyncEdges, SyncCrashes, vars
<1>5. CASE \E o \in Owners : OwnerStep(o) \/ OwnerCrashes(o)
  <2>1. PICK o \in Owners : OwnerStep(o) \/ OwnerCrashes(o)
    BY <1>5
  <2> QED
    BY <1>1, <1>2, <2>1
<1>6. CASE LoopStep \/ LoopCrashes
  BY <1>3, <1>6
<1>7. CASE (\E c \in Candidates : Resolve(c)) \/ SyncStep \/ SyncCrashes \/ UNCHANGED vars
  BY <1>4, <1>7
<1> QED
  BY <1>5, <1>6, <1>7 DEF Next

Replacing(seen) ==
    /\ \E kind \in {owner[o].action.kind : o \in Owners} \cup {loop.job}, r \in Records : Replace(seen, kind, r)
    /\ UNCHANGED written

\* A step leaves the records, appends one or replaces the file by a view that is changed.
LEMMA FileEffects ==
    ASSUME Typed, [Next]_vars
    PROVE  /\ lost \subseteq lost'
           /\ \/ UNCHANGED <<file, written>>
              \/ \E c \in Candidates, provisional \in BOOLEAN : AppendRecord(c, Resolver, provisional)
              \/ \E o \in Owners, c \in Candidates : ApproveNext(o) /\ Approves(o, c)
              \/ \E o \in Owners : ReplaceRecords(o) /\ Replacing(owner[o].seen)
              \/ LoopReplaces /\ Replacing(loop.seen)
<1> USE DEF files, history
<1>1. lost \subseteq lost'
  BY DEF Next, OwnerStep, StartAction, ApproveNext, ReadRecords, ReplaceRecords, ReadEdges, TruncateEdges,
         WriteEdges, Project, ReadEdgeState, UpdateEdgeState, UpdateTimesOut, RecordAction, OwnerCrashes,
         Resolve, LoopStep, LoopCrashes, ListRecords, LoopReads, LoopReplaces, ProposeEdge, AppendFails,
         AppendEdge, InsertEdge, SyncStep, SyncRecords, SyncEdges, SyncCrashes, vars, Replace, Lose
<1>2. ASSUME NEW o \in Owners, OwnerStep(o) \/ OwnerCrashes(o)
      PROVE  UNCHANGED <<file, written>> \/ ApproveNext(o) \/ ReplaceRecords(o)
  BY <1>2 DEF OwnerStep, StartAction, ReadRecords, ReadEdges, TruncateEdges,
         WriteEdges, Project, ReadEdgeState, UpdateEdgeState, UpdateTimesOut, RecordAction, OwnerCrashes
<1>3. ASSUME LoopStep \/ LoopCrashes PROVE UNCHANGED <<file, written>> \/ LoopReplaces
  BY <1>3 DEF LoopStep, LoopCrashes, ListRecords, LoopReads, ProposeEdge, AppendFails, AppendEdge, InsertEdge
<1>4. ASSUME SyncStep \/ SyncCrashes \/ UNCHANGED vars PROVE UNCHANGED <<file, written>>
  BY <1>4 DEF SyncStep, SyncRecords, SyncEdges, SyncCrashes, vars
<1>5. ASSUME NEW c \in Candidates, Resolve(c) PROVE AppendRecord(c, Resolver, TRUE)
  BY <1>5 DEF Resolve
<1>6. ASSUME NEW o \in Owners, ApproveNext(o) PROVE \E c \in Candidates : Approves(o, c)
  BY <1>6, NextIsApproved DEF Typed
<1>7. ASSUME NEW o \in Owners, ReplaceRecords(o) PROVE Replacing(owner[o].seen)
  <2>1. Replace(owner[o].seen, owner[o].action.kind, owner[o].action.target) /\ owner[o].pc = "replace"
        /\ UNCHANGED written
    BY <1>7 DEF ReplaceRecords
  <2>2. owner[o].action.target \in Records
    BY <2>1, OwnerAction DEF Typed
  <2> QED
    BY <2>1, <2>2 DEF Replacing
<1>8. ASSUME LoopReplaces PROVE Replacing(loop.seen)
  <2>1. Replace(loop.seen, loop.job, loop.record) /\ loop.record \in Records /\ UNCHANGED written
    BY <1>8 DEF LoopReplaces, LoopFits, Typed
  <2> QED
    BY <2>1 DEF Replacing
<1> QED
  BY <1>1, <1>2, <1>3, <1>4, <1>5, <1>6, <1>7, <1>8 DEF Next

\* Records are written one after the other, and no view has one that was not written.
BoundedBy(f, n) == \A r \in Records : r > n => f[r] = Absent
GraphBoundedBy(g, n) == \A e \in Edges : e > n => g[e].state = "absent"

ViewsBounded ==
    /\ BoundedBy(file, written) /\ BoundedBy(loop.seen, written)
    /\ \A o \in Owners : BoundedBy(owner[o].seen, written)

LEMMA ChangedElsewhere ==
    ASSUME NEW f \in [Records -> RecordType], NEW r \in Records, NEW kind
    PROVE  /\ \A q \in Records : q # r => Changed(f, kind, r)[q] = f[q]
           /\ f[r] = Absent => Changed(f, kind, r) = f
           /\ Changed(f, kind, r)[r].by = f[r].by
           /\ Changed(f, kind, r)[r].candidate = f[r].candidate
<1>1. \A q \in Records : q # r => Changed(f, kind, r)[q] = f[q]
  BY DEF Changed
<1>2. f[r] = Absent => Changed(f, kind, r) = f
  BY DEF Changed, Absent, IsActive
<1>3. f[r] \in RecordType
  OBVIOUS
<1>4. CASE kind = "revoke" /\ IsActive(f, r)
  <2>1. Changed(f, kind, r) = [f EXCEPT ![r] = [f[r] EXCEPT !.state = "owner_revoked"]]
    BY <1>4 DEF Changed
  <2> QED
    BY <1>1, <1>2, <1>3, <2>1 DEF RecordType
<1>5. CASE kind = "demote" /\ IsActive(f, r)
  <2>1. Changed(f, kind, r) = [f EXCEPT ![r] = [f[r] EXCEPT !.state = "demoted"]]
    BY <1>5 DEF Changed
  <2> QED
    BY <1>1, <1>2, <1>3, <2>1 DEF RecordType
<1>6. CASE kind \in {"expire", "reject provisional"} /\ IsActive(f, r)
  <2> DEFINE s == IF kind = "expire" THEN "provisional_expired" ELSE "provisional_rejected"
  <2>1. Changed(f, kind, r) = [f EXCEPT ![r] = [f[r] EXCEPT !.invalidated = TRUE, !.state = s]]
    BY <1>6 DEF Changed
  <2> HIDE DEF s
  <2> QED
    BY <1>1, <1>2, <1>3, <2>1 DEF RecordType
<1>7. CASE kind \in {"confirm", "confirm by reply", "promote"} /\ f[r].provisional
  <2> DEFINE s == IF f[r].state \in {"provisional_expired", "provisional_rejected"} THEN "active" ELSE f[r].state
  <2>1. Changed(f, kind, r) = [f EXCEPT ![r] = [f[r] EXCEPT !.provisional = FALSE, !.state = s]]
    BY <1>7 DEF Changed
  <2> HIDE DEF s
  <2> QED
    BY <1>1, <1>2, <1>3, <2>1 DEF RecordType
<1>8. CASE Changed(f, kind, r) = f
  BY <1>8
<1> QED
  BY <1>1, <1>2, <1>4, <1>5, <1>6, <1>7, <1>8 DEF Changed

LEMMA SeenTyped ==
    ASSUME TypeOK
    PROVE  loop.seen \in [Records -> RecordType] /\ \A o \in Owners : owner[o].seen \in [Records -> RecordType]
BY DEF TypeOK, OwnerState, LoopState

LEMMA ViewsStayBounded ==
    ASSUME Typed, ViewsBounded, [Next]_vars
    PROVE  ViewsBounded'
<1>0. /\ written \in Nat /\ file \in [Records -> RecordType]
      /\ \A o \in Owners : owner[o].seen \in [Records -> RecordType]
      /\ loop.seen \in [Records -> RecordType]
  BY SeenTyped, BoundsAreNumbers DEF Typed, TypeOK
<1>1. BoundedBy(NoFile, written)
  BY DEF BoundedBy, NoFile
<1>2. ASSUME written' = written, BoundedBy(file', written) PROVE ViewsBounded'
  BY <1>1, <1>2, ViewsAreOld DEF ViewsBounded, BoundedBy
<1>3. ASSUME NEW seen \in [Records -> RecordType], BoundedBy(seen, written), Replacing(seen) PROVE ViewsBounded'
  <2>1. PICK r \in Records : \E kind : Replace(seen, kind, r)
    BY <1>3 DEF Replacing
  <2>2. BoundedBy(file', written)
    BY <1>3, <2>1, ChangedElsewhere DEF Replace, BoundedBy
  <2> QED
    BY <1>2, <1>3, <2>2 DEF Replacing
<1>4. ASSUME written' = written + 1, \A r \in Records : r # written + 1 => file'[r] = file[r] PROVE ViewsBounded'
  <2>1. \A f : BoundedBy(f, written) => BoundedBy(f, written')
    BY <1>0, <1>4 DEF BoundedBy, Records
  <2>2. BoundedBy(file', written')
    BY <1>0, <1>4 DEF BoundedBy, ViewsBounded, Records
  <2> QED
    BY <1>1, <2>1, <2>2, ViewsAreOld DEF ViewsBounded
<1>5. ASSUME NEW c, NEW by, NEW provisional, AppendRecord(c, by, provisional) PROVE ViewsBounded'
  <2>1. written' = written + 1 /\ \A r \in Records : r # written + 1 => file'[r] = file[r]
    BY <1>0, <1>5 DEF AppendRecord
  <2> QED
    BY <1>4, <2>1
<1>6. CASE UNCHANGED <<file, written>>
  BY <1>2, <1>6 DEF ViewsBounded
<1> QED
  BY <1>0, <1>3, <1>5, <1>6, FileEffects DEF ViewsBounded, Approves

-----------------------------------------------------------------------------
(* Decisions hold.                                                           *)

\* An expired or rejected record was invalidated, so a confirmation shows.
Flagged(f) ==
    \A r \in Records : f[r].state \in {"provisional_expired", "provisional_rejected"} => f[r].invalidated

Put(f, r)     == f[r].state # "absent" /\ (~IsActive(f, r) \/ f[r].invalidated)
Made(f, a, c) == \E r \in Records : f[r].state # "absent" /\ f[r].by = a /\ f[r].candidate = c

\* What was decided holds in f ...
Done(f, a) ==
    /\ \A c \in Approved(a) : Made(f, a, c)
    /\ a.kind \in {"revoke", "demote"} => Put(f, a.target)

\* ... or does so far, while a process is at it.
Underway(f, st) ==
    /\ st.pc = "approve" => \A c \in Approved(st.action) \ st.todo : Made(f, st.action, c)
    /\ st.pc = "record" => Done(f, st.action)
    /\ st.pc \in {"read edges", "truncate", "write edges", "project"} => Put(f, st.action.target)
    /\ st.pc = "replace" => st.seen[st.action.target].state # "absent"

DecisionsStand ==
    "records" \notin lost =>
        /\ Flagged(file)
        /\ \A a \in ledger : Done(file, a)
        /\ \A o \in Owners : Underway(file, owner[o])

\* g has what f had.
Keeps(f, g) ==
    \A r \in Records : f[r].state # "absent" =>
        /\ g[r].state # "absent" /\ g[r].by = f[r].by /\ g[r].candidate = f[r].candidate
        /\ Put(f, r) => Put(g, r)

LEMMA ChangedAt ==
    ASSUME NEW f \in [Records -> RecordType], Flagged(f), NEW r \in Records, NEW kind
    PROVE  LET g == Changed(f, kind, r) IN
           /\ g[r].state \in {"provisional_expired", "provisional_rejected"} => g[r].invalidated
           /\ f[r].state # "absent" => g[r].state # "absent"
           /\ Put(f, r) => Put(g, r)
           /\ kind \in {"revoke", "demote"} /\ f[r].state # "absent" => Put(g, r)
<1> DEFINE g == Changed(f, kind, r)
<1>1. f[r] \in RecordType
  OBVIOUS
<1>2. ASSUME NEW s \in {"owner_revoked", "demoted"}, g = [f EXCEPT ![r] = [f[r] EXCEPT !.state = s]]
      PROVE  g[r].state = s /\ Put(g, r)
  BY <1>1, <1>2 DEF RecordType, Put, IsActive, Inactive
<1>3. CASE kind = "revoke" /\ IsActive(f, r)
  BY <1>2, <1>3 DEF Changed
<1>4. CASE kind = "demote" /\ IsActive(f, r)
  BY <1>2, <1>4 DEF Changed
<1>5. CASE kind \in {"expire", "reject provisional"} /\ IsActive(f, r)
  <2> DEFINE s == IF kind = "expire" THEN "provisional_expired" ELSE "provisional_rejected"
  <2>1. g = [f EXCEPT ![r] = [f[r] EXCEPT !.invalidated = TRUE, !.state = s]]
    BY <1>5 DEF Changed
  <2>2. s # "absent"
    OBVIOUS
  <2> HIDE DEF s
  <2>3. g[r].invalidated = TRUE /\ g[r].state = s
    BY <1>1, <2>1 DEF RecordType
  <2> QED
    BY <1>5, <2>2, <2>3 DEF Put
<1>6. CASE kind \in {"confirm", "confirm by reply", "promote"} /\ f[r].provisional
  <2> DEFINE s == IF f[r].state \in {"provisional_expired", "provisional_rejected"} THEN "active" ELSE f[r].state
  <2>1. g = [f EXCEPT ![r] = [f[r] EXCEPT !.provisional = FALSE, !.state = s]]
    BY <1>6 DEF Changed
  <2>2. /\ s \notin {"provisional_expired", "provisional_rejected"}
        /\ f[r].state # "absent" => s # "absent"
        /\ s # f[r].state => f[r].invalidated
    BY DEF Flagged
  <2> HIDE DEF s
  <2>3. g[r].invalidated = f[r].invalidated /\ g[r].state = s
    BY <1>1, <2>1 DEF RecordType
  <2>4. CASE s = f[r].state
    BY <1>6, <2>2, <2>3, <2>4 DEF Put, IsActive
  <2>5. CASE s # f[r].state
    BY <1>6, <2>2, <2>3, <2>5 DEF Put
  <2> QED
    BY <2>4, <2>5
<1>7. CASE g = f
  <2>1. ASSUME kind \in {"revoke", "demote"} PROVE ~IsActive(f, r)
    <3> SUFFICES ASSUME IsActive(f, r) PROVE FALSE
      OBVIOUS
    <3>1. \E s \in {"owner_revoked", "demoted"} : g = [f EXCEPT ![r] = [f[r] EXCEPT !.state = s]]
      BY <2>1 DEF Changed
    <3>2. f[r].state \in {"owner_revoked", "demoted"}
      BY <1>2, <1>7, <3>1
    <3> QED
      BY <3>2 DEF IsActive, Inactive
  <2>2. kind \in {"revoke", "demote"} /\ f[r].state # "absent" => Put(f, r)
    BY <2>1 DEF Put
  <2>3. f[r].state \in {"provisional_expired", "provisional_rejected"} => f[r].invalidated
    BY DEF Flagged
  <2> HIDE DEF g
  <2>4. /\ g[r].state \in {"provisional_expired", "provisional_rejected"} => g[r].invalidated
        /\ f[r].state # "absent" => g[r].state # "absent"
        /\ Put(f, r) => Put(g, r)
        /\ kind \in {"revoke", "demote"} /\ f[r].state # "absent" => Put(g, r)
    BY <1>7, <2>2, <2>3
  <2> QED
    BY <2>4 DEF g
<1> QED
  BY <1>3, <1>4, <1>5, <1>6, <1>7 DEF Changed

LEMMA ChangedKeeps ==
    ASSUME NEW f \in [Records -> RecordType], Flagged(f), NEW r \in Records, NEW kind
    PROVE  Keeps(f, Changed(f, kind, r)) /\ Flagged(Changed(f, kind, r))
<1> DEFINE g == Changed(f, kind, r)
<1>1. /\ \A q \in Records : q # r => g[q] = f[q]
      /\ g[r].by = f[r].by /\ g[r].candidate = f[r].candidate
  BY ChangedElsewhere
<1>2. /\ g[r].state \in {"provisional_expired", "provisional_rejected"} => g[r].invalidated
      /\ f[r].state # "absent" => g[r].state # "absent"
      /\ Put(f, r) => Put(g, r)
  BY ChangedAt
<1>3. \A q \in Records : q # r => (Put(f, q) => Put(g, q))
  BY <1>1 DEF Put, IsActive
<1> HIDE DEF g
<1>4. Keeps(f, g)
  BY <1>1, <1>2, <1>3 DEF Keeps
<1>5. Flagged(g)
  BY <1>1, <1>2 DEF Flagged
<1> QED
  BY <1>4, <1>5 DEF g

LEMMA AppendKeeps ==
    ASSUME Typed, ViewsBounded, Flagged(file), NEW c, NEW by, NEW provisional, AppendRecord(c, by, provisional)
    PROVE  Keeps(file, file') /\ Flagged(file') /\ Made(file', by, c)
<1>0. written \in Nat /\ file \in [Records -> RecordType] /\ written + 1 \in Records
  BY BoundsAreNumbers DEF Typed, TypeOK, AppendRecord, Records
<1>1. file[written + 1].state = "absent"
  BY <1>0 DEF ViewsBounded, BoundedBy, Absent
<1>2. /\ \A r \in Records : r # written + 1 => file'[r] = file[r]
      /\ file'[written + 1].state = "active" /\ file'[written + 1].by = by
      /\ file'[written + 1].candidate = c
  BY <1>0 DEF AppendRecord
<1>3. Keeps(file, file')
  BY <1>1, <1>2 DEF Keeps, Put, IsActive
<1>4. Flagged(file')
  BY <1>2 DEF Flagged
<1>5. Made(file', by, c)
  BY <1>0, <1>2 DEF Made
<1> QED
  BY <1>3, <1>4, <1>5

LEMMA RecordsAreKept ==
    ASSUME Typed, ViewsBounded, [Next]_vars, Flagged(file), "records" \notin lost'
    PROVE  "records" \notin lost /\ Keeps(file, file') /\ Flagged(file')
<1>0. file \in [Records -> RecordType]
  BY DEF Typed, TypeOK
<1>1. Keeps(file, file)
  BY DEF Keeps
<1>2. ASSUME NEW seen, Replacing(seen) PROVE Keeps(file, file') /\ Flagged(file')
  <2>1. PICK r \in Records : \E kind : Replace(seen, kind, r)
    BY <1>2 DEF Replacing
  <2>2. PICK kind : Replace(seen, kind, r)
    BY <2>1
  <2>3. seen = file /\ file' = Changed(seen, kind, r)
    BY <2>2 DEF Replace, Lose
  <2> QED
    BY <1>0, <2>3, ChangedKeeps
<1>3. ASSUME UNCHANGED file PROVE Keeps(file, file') /\ Flagged(file')
  BY <1>1, <1>3
<1>4. ASSUME NEW c, NEW by, NEW provisional, AppendRecord(c, by, provisional)
      PROVE  Keeps(file, file') /\ Flagged(file')
  BY <1>4, AppendKeeps
<1>5. "records" \notin lost
  BY FileEffects
<1> QED
  BY <1>2, <1>3, <1>4, <1>5, FileEffects DEF Approves

LEMMA KeptIsDone ==
    ASSUME NEW f, NEW g, Keeps(f, g), NEW a \in Actions
    PROVE  /\ \A c : Made(f, a, c) => Made(g, a, c)
           /\ a.kind \in {"revoke", "demote"} /\ Put(f, a.target) => Put(g, a.target)
           /\ Done(f, a) => Done(g, a)
<1>1. \A c : Made(f, a, c) => Made(g, a, c)
  BY DEF Made, Keeps
<1>2. a.kind \in {"revoke", "demote"} => a.target \in Records
  BY ActionKinds DEF RecordKinds
<1>3. a.kind \in {"revoke", "demote"} /\ Put(f, a.target) => Put(g, a.target)
  BY <1>2 DEF Keeps, Put
<1> QED
  BY <1>1, <1>3 DEF Done

LEMMA KeptIsUnderway ==
    ASSUME NEW f, NEW g, Keeps(f, g), NEW st, OwnerFits(st), Underway(f, st)
    PROVE  Underway(g, st)
<1>1. CASE st.pc = "idle"
  BY <1>1 DEF Underway
<1>2. CASE st.pc # "idle"
  <2>1. st.action \in Actions
    BY <1>2 DEF OwnerFits
  <2>2. st.pc \in {"read edges", "truncate", "write edges", "project"} => st.action.kind \in {"revoke", "demote"}
    BY DEF OwnerFits
  <2> QED
    BY <2>1, <2>2, KeptIsDone DEF Underway
<1> QED
  BY <1>1, <1>2

LEMMA NothingToHold ==
    ASSUME NEW a, a.kind \notin {"approve candidate", "approve cluster", "revoke", "demote"}, NEW f
    PROVE  Done(f, a)
BY DEF Done, Approved

LEMMA UnderwayAfterMove ==
    ASSUME NEW o \in Owners, NEW pc, NEW action, NEW todo, NEW seen, NEW graph, NEW f,
           Moves(o, pc, action, todo, seen, graph),
           pc = "approve" => \A c \in Approved(action) \ todo : Made(f, action, c),
           pc = "record" => Done(f, action),
           pc \in {"read edges", "truncate", "write edges", "project"} => Put(f, action.target),
           pc = "replace" => seen[action.target].state # "absent"
    PROVE  Underway(f, owner'[o])
BY DEF Moves, Underway

LEMMA OwnerUnderway ==
    ASSUME Typed, ViewsBounded, NEW o \in Owners, OwnerStep(o) \/ OwnerCrashes(o),
           "records" \notin lost', Flagged(file), Keeps(file, file'), Underway(file, owner[o])
    PROVE  Underway(file', owner'[o])
<1> DEFINE a == owner[o].action
           p  == owner[o].pc
<1>0. /\ file \in [Records -> RecordType] /\ OwnerFits(owner[o]) /\ TypeOK /\ OwnersFit
      /\ p # "idle" => a \in Actions
      /\ p \in {"read", "replace", "read edges", "truncate", "write edges", "project"} => a.target \in Records
  BY OwnerAction DEF Typed, TypeOK, OwnersFit
<1>1. CASE Stops(o)
  BY <1>1, UnderwayAfterMove DEF Stops
<1>2. ASSUME p \in {"read edges", "truncate", "write edges", "project"} PROVE Put(file', a.target)
  BY <1>0, <1>2 DEF Underway, Keeps, Put
<1>3. ASSUME p \in {"read edges", "truncate", "write edges", "project"}, Put(file', a.target)
      PROVE  Done(file', a)
  <2>1. a.kind \in {"revoke", "demote"}
    BY <1>0, <1>3 DEF OwnerFits
  <2> QED
    BY <1>3, <2>1 DEF Done, Approved
<1>4. CASE StartAction(o)
  <2>1. PICK b \in Actions : Begins(o, b)
    BY <1>0, <1>4, StartBegins
  <2>2. FirstStep(b) = "record" => Done(file', b)
    BY FirstSteps, NothingToHold
  <2> QED
    BY <2>1, <2>2, FirstSteps, UnderwayAfterMove DEF Begins
<1>5. CASE ApproveNext(o)
  <2>1. PICK c \in Candidates : Approves(o, c)
    BY <1>0, <1>5, NextIsApproved
  <2>2. p = "approve" /\ a \in Actions /\ a.kind \in {"approve candidate", "approve cluster"}
    BY <1>0, <2>1 DEF Approves, OwnerFits
  <2>3. Made(file', a, c)
    BY <2>1, AppendKeeps DEF Approves
  <2>4. \A d \in Approved(a) \ owner[o].todo : Made(file', a, d)
    BY <2>2, KeptIsDone DEF Underway
  <2>5. \A d \in Approved(a) \ (owner[o].todo \ {c}) : Made(file', a, d)
    BY <2>3, <2>4
  <2>6. owner[o].todo = {c} => Done(file', a)
    BY <2>2, <2>5 DEF Done
  <2> DEFINE q == IF owner[o].todo = {c} THEN "record" ELSE "approve"
  <2>7. q = "record" => Done(file', a)
    BY <2>6
  <2>8. q \in {"record", "approve"}
    OBVIOUS
  <2>9. Moves(o, q, a, owner[o].todo \ {c}, owner[o].seen, owner[o].graph)
    BY <2>1 DEF Approves
  <2> HIDE DEF q
  <2> QED
    BY <2>5, <2>7, <2>8, <2>9, UnderwayAfterMove
<1>6. CASE ReadRecords(o)
  <2>1. p = "read" /\ a \in Actions /\ a.kind \in RecordKinds /\ UNCHANGED file
    BY <1>0, <1>6 DEF ReadRecords, OwnerFits, files
  <2>2. CASE Exists(a.target) /\ Moves(o, "replace", a, owner[o].todo, file, owner[o].graph)
    BY <2>1, <2>2 DEF Exists, Moves, Underway
  <2>3. CASE /\ Exists(a.target) /\ Changed(file, a.kind, a.target) = file
             /\ a.kind \in {"revoke", "demote"} /\ MovesOn(o, "project")
    <3>1. Put(file, a.target)
      BY <1>0, <2>1, <2>3, ChangedAt DEF Exists
    <3>2. Put(file', a.target)
      BY <2>1, <3>1 DEF Put, IsActive
    <3> QED
      BY <2>3, <3>2 DEF MovesOn, Moves, Underway
  <2>4. CASE a.kind \notin {"revoke", "demote"} /\ MovesOn(o, "record")
    <3>1. Done(file', a)
      BY <2>1, <2>4, NothingToHold DEF RecordKinds
    <3> QED
      BY <2>4, <3>1 DEF MovesOn, Moves, Underway
  <2> QED
    BY <1>0, <1>1, <1>6, <2>2, <2>3, <2>4, ReadMoves
<1>7. CASE ReplaceRecords(o)
  <2>1. p = "replace" /\ a \in Actions /\ a.kind \in RecordKinds /\ a.target \in Records
    BY <1>0, <1>7 DEF ReplaceRecords, OwnerFits
  <2>2. owner[o].seen = file /\ file' = Changed(file, a.kind, a.target)
    BY <1>7 DEF ReplaceRecords, Replace, Lose
  <2>3. a.kind \in {"revoke", "demote"} => Put(file', a.target)
    BY <1>0, <2>1, <2>2, ChangedAt DEF Underway
  <2>4. a.kind \notin {"revoke", "demote"} => Done(file', a)
    BY <2>1, NothingToHold DEF RecordKinds
  <2> DEFINE To(pc) == Moves(o, pc, a, owner[o].todo, NoFile, owner[o].graph)
  <2>5. CASE a.kind = "revoke" /\ To("read edges")
    BY <2>3, <2>5 DEF Moves, Underway
  <2>6. CASE a.kind = "demote" /\ To("project")
    BY <2>3, <2>6 DEF Moves, Underway
  <2>7. CASE a.kind \notin {"revoke", "demote"} /\ To("record")
    BY <2>4, <2>7 DEF Moves, Underway
  <2> QED
    BY <1>0, <1>1, <1>7, <2>5, <2>6, <2>7, ReplaceMoves
<1>8. CASE ReadEdges(o) \/ TruncateEdges(o) \/ WriteEdges(o)
  <2>1. Put(file', a.target)
    BY <1>2, <1>8 DEF ReadEdges, TruncateEdges, WriteEdges
  <2>2. ASSUME NEW pc \in {"truncate", "write edges", "project"}, NEW graph,
               Moves(o, pc, a, owner[o].todo, owner[o].seen, graph)
        PROVE  Underway(file', owner'[o])
    BY <2>1, <2>2, UnderwayAfterMove
  <2> QED
    BY <1>0, <1>8, <2>2, EdgesMoves DEF MovesOn
<1>9. CASE Project(o)
  <2>1. Done(file', a)
    BY <1>2, <1>3, <1>9 DEF Project
  <2> QED
    BY <1>0, <1>1, <1>9, <2>1, OtherMoves DEF MovesOn, Moves, Underway
<1>10. CASE ReadEdgeState(o) \/ UpdateEdgeState(o) \/ UpdateTimesOut(o)
  <2>1. a.kind \in EdgeKinds
    BY <1>0, <1>10 DEF ReadEdgeState, UpdateEdgeState, UpdateTimesOut, OwnerFits
  <2>2. Done(file', a)
    BY <2>1, NothingToHold DEF EdgeKinds
  <2>3. ASSUME NEW pc \in {"update", "record"}, MovesOn(o, pc) PROVE Underway(file', owner'[o])
    BY <2>2, <2>3, UnderwayAfterMove DEF MovesOn
  <2> QED
    BY <1>0, <1>10, <2>3, OtherMoves
<1>11. CASE RecordAction(o) \/ OwnerCrashes(o)
  BY <1>0, <1>1, <1>11, OtherMoves
<1> QED
  BY <1>4, <1>5, <1>6, <1>7, <1>8, <1>9, <1>10, <1>11 DEF OwnerStep

\* Which decisions the ledger gets.
LEMMA LedgerGrows ==
    ASSUME [Next]_vars
    PROVE  ledger' = ledger \/ \E o \in Owners : RecordAction(o) /\ ledger' = ledger \cup {owner[o].action}
<1> USE DEF files, history
<1>1. ASSUME NEW o \in Owners, OwnerStep(o) \/ OwnerCrashes(o)
      PROVE  ledger' = ledger \/ RecordAction(o)
  BY <1>1 DEF OwnerStep, StartAction, ApproveNext, ReadRecords, ReplaceRecords, ReadEdges, TruncateEdges,
         WriteEdges, Project, ReadEdgeState, UpdateEdgeState, UpdateTimesOut, OwnerCrashes
<1>2. ASSUME \/ \E c \in Candidates : Resolve(c)
             \/ LoopStep \/ LoopCrashes \/ SyncStep \/ SyncCrashes \/ UNCHANGED vars
      PROVE  ledger' = ledger
  BY <1>2 DEF Resolve, LoopStep, LoopCrashes, ListRecords, LoopReads, LoopReplaces, ProposeEdge, AppendFails,
         AppendEdge, InsertEdge, SyncStep, SyncRecords, SyncEdges, SyncCrashes, vars
<1> QED
  BY <1>1, <1>2 DEF Next, RecordAction

\* Every step is one of an owner process or leaves all of them as they are.
LEMMA OneOwnerMoves ==
    ASSUME Typed, [Next]_vars
    PROVE  \/ owner' = owner
           \/ \E o \in Owners : /\ OwnerStep(o) \/ OwnerCrashes(o)
                                /\ \A q \in Owners : q # o => owner'[q] = owner[q]
<1> USE DEF files, history
<1>1. ASSUME NEW o \in Owners, OwnerStep(o) \/ OwnerCrashes(o)
      PROVE  \A q \in Owners : q # o => owner'[q] = owner[q]
  <2>1. StartAction(o) => \E a \in Actions : Begins(o, a)
    BY StartBegins DEF Typed
  <2>2. ApproveNext(o) => \E c \in Candidates : Approves(o, c)
    BY NextIsApproved DEF Typed
  <2> QED
    BY <1>1, <2>1, <2>2, ReadMoves, ReplaceMoves, EdgesMoves, OtherMoves
       DEF OwnerStep, Begins, Approves, Stops, MovesOn, Moves, Typed
<1>2. ASSUME \/ \E c \in Candidates : Resolve(c)
             \/ LoopStep \/ LoopCrashes \/ SyncStep \/ SyncCrashes \/ UNCHANGED vars
      PROVE  owner' = owner
  BY <1>2 DEF Resolve, LoopStep, LoopCrashes, ListRecords, LoopReads, LoopReplaces, ProposeEdge, AppendFails,
         AppendEdge, InsertEdge, SyncStep, SyncRecords, SyncEdges, SyncCrashes, vars
<1> QED
  BY <1>1, <1>2 DEF Next

LEMMA DecisionsStayStanding ==
    ASSUME Typed, ViewsBounded, DecisionsStand, [Next]_vars
    PROVE  DecisionsStand'
<1> SUFFICES ASSUME "records" \notin lost' PROVE
        /\ Flagged(file') /\ \A a \in ledger' : Done(file', a)
        /\ \A o \in Owners : Underway(file', owner'[o])
  BY DEF DecisionsStand
<1>1. "records" \notin lost /\ lost \subseteq lost'
  BY FileEffects
<1>2. Flagged(file) /\ (\A a \in ledger : Done(file, a)) /\ \A o \in Owners : Underway(file, owner[o])
  BY <1>1 DEF DecisionsStand
<1>3. Keeps(file, file') /\ Flagged(file')
  BY <1>2, RecordsAreKept
<1>4. ledger \subseteq Actions /\ OwnersFit
  BY DEF Typed, TypeOK
<1>5. \A o \in Owners : Underway(file', owner[o])
  BY <1>2, <1>3, <1>4, KeptIsUnderway DEF OwnersFit
<1>6. \A a \in ledger' : Done(file', a)
  <2>1. \A a \in ledger : Done(file', a)
    BY <1>2, <1>3, <1>4, KeptIsDone
  <2>2. \A o \in Owners : RecordAction(o) => Done(file', owner[o].action)
    BY <1>5 DEF RecordAction, Underway
  <2> QED
    BY <2>1, <2>2, LedgerGrows
<1>7. \A o \in Owners : Underway(file', owner'[o])
  <2>1. ASSUME NEW o \in Owners, OwnerStep(o) \/ OwnerCrashes(o) PROVE Underway(file', owner'[o])
    BY <1>2, <1>3, <2>1, OwnerUnderway
  <2> QED
    BY <1>5, <2>1, OneOwnerMoves
<1> QED
  BY <1>3, <1>6, <1>7

\* A decision that the ledger has holds in the file of records, for any number of processes
\* that apply decisions beside the loop, whatever they do and however many are killed, as long
\* as no writer of the file replaced one that it had not read.
THEOREM DecisionsAlwaysHold == Spec => []DecisionsHold
<1> DEFINE Stand == Typed /\ ViewsBounded /\ DecisionsStand
<1>1. Init => Stand
  <2> SUFFICES ASSUME Init PROVE ViewsBounded /\ DecisionsStand
    BY InitTyped
  <2>1. ViewsBounded
    BY DEF Init, ViewsBounded, BoundedBy, Idle, AtRest, NoFile
  <2>2. DecisionsStand
    BY DEF Init, DecisionsStand, Flagged, Underway, Idle, NoFile, Absent
  <2> QED
    BY <2>1, <2>2
<1>2. Stand /\ [Next]_vars => Stand'
  BY NextTyped, ViewsStayBounded, DecisionsStayStanding
<1>3. Stand => DecisionsHold
  <2> SUFFICES ASSUME Stand, "records" \notin lost, NEW a \in ledger PROVE
          /\ \A c \in Approved(a) : RecordsBy(a, c) # {}
          /\ a.kind \in {"revoke", "demote"} => ~IsActive(file, a.target) \/ file[a.target].invalidated
    BY DEF DecisionsHold
  <2>1. Done(file, a)
    BY DEF DecisionsStand
  <2> QED
    BY <2>1 DEF Done, Made, Put, RecordsBy
<1> HIDE DEF Stand
<1>4. QED
  BY <1>1, <1>2, <1>3, PTL DEF Spec

-----------------------------------------------------------------------------
(* One record per decision.                                                  *)

Views == {file, loop.seen} \cup {owner[o].seen : o \in Owners}

\* No decision is applied by two processes at once, or again once it is noted.
Distinct == \A o, q \in Owners : o # q /\ owner[o].action # NoAction => owner[q].action # owner[o].action
Unnoted  == \A o \in Owners : owner[o].action \notin ledger

\* The records of a decision are there because it is noted or being applied; those of the
\* candidates that remain are not there yet.
Accounted ==
    \A f \in Views, r \in Records : f[r].by \in Actions =>
        \/ f[r].by \in ledger
        \/ \E o \in Owners : owner[o].action = f[r].by /\ owner[o].pc \in {"approve", "record"}
Remaining ==
    \A f \in Views, r \in Records, o \in Owners :
        owner[o].pc = "approve" /\ f[r].by = owner[o].action => f[r].candidate \notin owner[o].todo

\* All views have the same record of a decision and a candidate.
Unique ==
    \A f, g \in Views, r, q \in Records :
        f[r].by \in Actions /\ g[q].by = f[r].by /\ g[q].candidate = f[r].candidate => q = r

OneByOne == Distinct /\ Unnoted /\ Accounted /\ Remaining /\ Unique

\* A process goes on with a decision that approves no candidate, or gives it up.
Proceeds(o) ==
    /\ owner[o].pc \notin {"idle", "approve", "record"} /\ owner'[o].pc # "approve"
    /\ owner'[o].action \in {owner[o].action, NoAction}
    /\ \A q \in Owners : q # o => owner'[q] = owner[q]
    /\ ledger' = ledger

Notes(o) == owner[o].pc = "record" /\ Stops(o) /\ ledger' = ledger \cup {owner[o].action}

LEMMA OwnerEffects ==
    ASSUME Typed, NEW o \in Owners, OwnerStep(o)
    PROVE  \/ (\E a \in Actions : Begins(o, a)) /\ ledger' = ledger
           \/ (\E c \in Candidates : Approves(o, c)) /\ ledger' = ledger
           \/ Notes(o)
           \/ Proceeds(o)
<1>0. TypeOK /\ OwnersFit
  BY DEF Typed
<1>1. CASE StartAction(o)
  BY <1>0, <1>1, StartBegins DEF StartAction
<1>2. CASE ApproveNext(o)
  BY <1>0, <1>2, NextIsApproved DEF ApproveNext
<1>3. CASE RecordAction(o)
  BY <1>0, <1>3, OtherMoves DEF RecordAction, Notes
<1>4. CASE ReadRecords(o)
  <2>1. owner[o].pc = "read" /\ ledger' = ledger
    BY <1>4 DEF ReadRecords
  <2> QED
    BY <1>0, <1>4, <2>1, ReadMoves DEF Proceeds, Moves, MovesOn, Stops
<1>5. CASE ReplaceRecords(o)
  <2>1. owner[o].pc = "replace" /\ ledger' = ledger
    BY <1>5 DEF ReplaceRecords
  <2> QED
    BY <1>0, <1>5, <2>1, ReplaceMoves DEF Proceeds, Moves, Stops
<1>6. CASE ReadEdges(o) \/ TruncateEdges(o) \/ WriteEdges(o)
  <2>1. owner[o].pc \in {"read edges", "truncate", "write edges"} /\ ledger' = ledger
    BY <1>6 DEF ReadEdges, TruncateEdges, WriteEdges
  <2> QED
    BY <1>0, <1>6, <2>1, EdgesMoves DEF Proceeds, Moves, MovesOn
<1>7. CASE Project(o) \/ ReadEdgeState(o) \/ UpdateEdgeState(o) \/ UpdateTimesOut(o)
  <2>1. owner[o].pc \in {"project", "transition", "update"} /\ ledger' = ledger
    BY <1>7 DEF Project, ReadEdgeState, UpdateEdgeState, UpdateTimesOut
  <2> QED
    BY <1>0, <1>7, <2>1, OtherMoves DEF Proceeds, Moves, MovesOn, Stops
<1> QED
  BY <1>1, <1>2, <1>3, <1>4, <1>5, <1>6, <1>7 DEF OwnerStep

\* A record of a decision in a view after a step was in one before it, or is appended.
Inherits(f) ==
    \A r \in Records : f[r].by \in Actions =>
        \E g \in Views : g[r].by = f[r].by /\ g[r].candidate = f[r].candidate

Appends(o, c, f) ==
    \A r \in Records : f[r].by \in Actions =>
        \/ \E g \in Views : g[r].by = f[r].by /\ g[r].candidate = f[r].candidate
        \/ r = written + 1 /\ f[r].by = owner[o].action /\ f[r].candidate = c

LEMMA ViewsInherit ==
    /\ Inherits(NoFile)
    /\ \A f \in Views : Inherits(f)
    /\ \A f : Inherits(f) => \A o, c : Appends(o, c, f)
<1>1. NoAction \notin Actions
  BY ActionKinds
<1> QED
  BY <1>1 DEF Inherits, Appends, NoFile, Absent

LEMMA ViewsAfterStep ==
    ASSUME Typed, [Next]_vars
    PROVE  \A f \in Views' : f \in Views \cup {NoFile} \/ f = file'
<1> QED
  BY ViewsAreOld DEF Views

LEMMA NewFile ==
    ASSUME Typed, ViewsBounded, [Next]_vars
    PROVE  \/ Inherits(file')
           \/ \E o \in Owners, c \in Candidates : ApproveNext(o) /\ Approves(o, c) /\ Appends(o, c, file')
<1>0. /\ file \in [Records -> RecordType] /\ written \in Nat /\ Resolver \notin Actions
      /\ loop.seen \in [Records -> RecordType] /\ \A o \in Owners : owner[o].seen \in [Records -> RecordType]
  BY ActionKinds, SeenTyped DEF Typed, TypeOK
<1>1. CASE UNCHANGED file
  BY <1>1, ViewsInherit DEF Views, Inherits
<1>2. ASSUME NEW seen \in Views, seen \in [Records -> RecordType], Replacing(seen) PROVE Inherits(file')
  <2>1. PICK r \in Records : \E kind : Replace(seen, kind, r)
    BY <1>2 DEF Replacing
  <2>2. PICK kind : Replace(seen, kind, r)
    BY <2>1
  <2>3. \A q \in Records : file'[q].by = seen[q].by /\ file'[q].candidate = seen[q].candidate
    BY <1>2, <2>2, ChangedElsewhere DEF Replace
  <2> QED
    BY <1>2, <2>3 DEF Inherits
<1>3. ASSUME NEW c \in Candidates, NEW by, NEW provisional, AppendRecord(c, by, provisional)
      PROVE  /\ \A r \in Records : r # written + 1 => file'[r] = file[r]
             /\ written + 1 \in Records => file'[written + 1].by = by /\ file'[written + 1].candidate = c
  BY <1>0, <1>3 DEF AppendRecord
<1>4. ASSUME NEW c \in Candidates, NEW provisional, AppendRecord(c, Resolver, provisional)
      PROVE  Inherits(file')
  BY <1>0, <1>3, <1>4 DEF Inherits, Views
<1>5. ASSUME NEW o \in Owners, NEW c \in Candidates, Approves(o, c) PROVE Appends(o, c, file')
  BY <1>0, <1>3, <1>5 DEF Appends, Approves, Views
<1>6. loop.seen \in Views /\ \A o \in Owners : owner[o].seen \in Views
  BY DEF Views
<1> QED
  BY <1>0, <1>1, <1>2, <1>4, <1>5, <1>6, FileEffects

LEMMA OldViews ==
    ASSUME NEW f \in Views \cup {NoFile}, NEW r \in Records, f[r].by \in Actions
    PROVE  f \in Views
BY ActionKinds DEF NoFile, Absent

\* Whatever a step does to the views, it leaves the records of decisions as they are ...
LEMMA InheritedUnique ==
    ASSUME Typed, [Next]_vars, Unique, Inherits(file')
    PROVE  /\ Unique'
           /\ \A f \in Views', r \in Records : f[r].by \in Actions =>
                \E g \in Views : g[r].by = f[r].by /\ g[r].candidate = f[r].candidate
<1>1. ASSUME NEW f \in Views', NEW r \in Records, f[r].by \in Actions
      PROVE  \E g \in Views : g[r].by = f[r].by /\ g[r].candidate = f[r].candidate
  <2>1. CASE f \in Views \cup {NoFile}
    BY <1>1, <2>1, OldViews
  <2>2. CASE f = file'
    BY <1>1, <2>2 DEF Inherits
  <2> QED
    BY <2>1, <2>2, ViewsAfterStep
<1>2. ASSUME NEW f \in Views', NEW h \in Views', NEW r \in Records, NEW q \in Records,
             f[r].by \in Actions, h[q].by = f[r].by, h[q].candidate = f[r].candidate
      PROVE  q = r
  <2>1. PICK g \in Views : g[r].by = f[r].by /\ g[r].candidate = f[r].candidate
    BY <1>1, <1>2
  <2>2. PICK k \in Views : k[q].by = h[q].by /\ k[q].candidate = h[q].candidate
    BY <1>1, <1>2
  <2> QED
    BY <1>2, <2>1, <2>2 DEF Unique
<1> QED
  BY <1>1, <1>2 DEF Unique

\* ... or adds that of a candidate that had none.
LEMMA AppendedUnique ==
    ASSUME Typed, [Next]_vars, Unique, Remaining, NEW o \in Owners, NEW c \in Candidates,
           Approves(o, c), Appends(o, c, file')
    PROVE  /\ Unique'
           /\ \A f \in Views', r \in Records : f[r].by \in Actions =>
                \/ \E g \in Views : g[r].by = f[r].by /\ g[r].candidate = f[r].candidate
                \/ f[r].by = owner[o].action /\ f[r].candidate = c
<1>1. ASSUME NEW f \in Views', NEW r \in Records, f[r].by \in Actions
      PROVE  \/ \E g \in Views : g[r].by = f[r].by /\ g[r].candidate = f[r].candidate
             \/ r = written + 1 /\ f[r].by = owner[o].action /\ f[r].candidate = c
  <2>1. CASE f \in Views \cup {NoFile}
    BY <1>1, <2>1, OldViews
  <2>2. CASE f = file'
    BY <1>1, <2>2 DEF Appends
  <2> QED
    BY <2>1, <2>2, ViewsAfterStep
<1>2. \A g \in Views, r \in Records : g[r].by = owner[o].action => g[r].candidate # c
  BY DEF Remaining, Approves
<1>3. ASSUME NEW f \in Views', NEW h \in Views', NEW r \in Records, NEW q \in Records,
             f[r].by \in Actions, h[q].by = f[r].by, h[q].candidate = f[r].candidate
      PROVE  q = r
  <2>1. CASE f[r].by = owner[o].action /\ f[r].candidate = c
    BY <1>1, <1>2, <1>3, <2>1
  <2>2. CASE ~(f[r].by = owner[o].action /\ f[r].candidate = c)
    <3>1. PICK g \in Views : g[r].by = f[r].by /\ g[r].candidate = f[r].candidate
      BY <1>1, <1>3, <2>2
    <3>2. PICK k \in Views : k[q].by = h[q].by /\ k[q].candidate = h[q].candidate
      BY <1>1, <1>3, <2>2
    <3> QED
      BY <1>3, <3>1, <3>2 DEF Unique
  <2> QED
    BY <2>1, <2>2
<1> QED
  BY <1>1, <1>3 DEF Unique

\* Inherited views with owners whose hold on decisions did not change.
Steady ==
    \A f \in Views', r \in Records : f[r].by \in Actions =>
        \E g \in Views : g[r].by = f[r].by /\ g[r].candidate = f[r].candidate

LEMMA StayingSingle ==
    ASSUME Typed, OneByOne, Steady, Unique', owner' = owner, ledger' = ledger
    PROVE  OneByOne'
<1>1. Distinct' /\ Unnoted'
  BY DEF OneByOne, Distinct, Unnoted
<1>2. Accounted'
  BY DEF OneByOne, Accounted, Steady
<1>3. ASSUME NEW f \in Views', NEW r \in Records, NEW o \in Owners,
             owner[o].pc = "approve", f[r].by = owner[o].action, f[r].by \in Actions
      PROVE  f[r].candidate \notin owner[o].todo
  BY <1>3 DEF OneByOne, Remaining, Steady
<1>4. \A o \in Owners : owner[o].pc = "approve" => owner[o].action \in Actions
  BY DEF Typed, OwnersFit, OwnerFits
<1>5. Remaining'
  BY <1>3, <1>4 DEF Remaining
<1> QED
  BY <1>1, <1>2, <1>5 DEF OneByOne

LEMMA NotedSingle ==
    ASSUME Typed, OneByOne, Steady, Unique', NEW o \in Owners, Notes(o)
    PROVE  OneByOne'
<1> DEFINE a == owner[o].action
<1>0. /\ a \in Actions /\ a # NoAction /\ owner'[o].action = NoAction /\ owner'[o].pc = "idle"
      /\ \A q \in Owners : q # o => owner'[q] = owner[q]
      /\ ledger' = ledger \cup {a} /\ NoAction \notin ledger
  BY ActionKinds DEF Notes, Stops, Moves, Typed, TypeOK, OwnersFit, OwnerFits
<1>1. Distinct'
  BY <1>0 DEF OneByOne, Distinct
<1>2. Unnoted'
  BY <1>0 DEF OneByOne, Distinct, Unnoted
<1>3. ASSUME NEW f \in Views', NEW r \in Records, f[r].by \in Actions
      PROVE  \/ f[r].by \in ledger'
             \/ \E q \in Owners : owner'[q].action = f[r].by /\ owner'[q].pc \in {"approve", "record"}
  <2>1. PICK g \in Views : g[r].by = f[r].by /\ g[r].candidate = f[r].candidate
    BY <1>3 DEF Steady
  <2>2. \/ g[r].by \in ledger
        \/ \E q \in Owners : owner[q].action = g[r].by /\ owner[q].pc \in {"approve", "record"}
    BY <1>3, <2>1 DEF OneByOne, Accounted
  <2> QED
    BY <1>0, <2>1, <2>2
<1>4. ASSUME NEW f \in Views', NEW r \in Records, NEW q \in Owners,
             owner'[q].pc = "approve", f[r].by = owner'[q].action
      PROVE  f[r].candidate \notin owner'[q].todo
  <2>1. q # o /\ owner'[q] = owner[q]
    BY <1>0, <1>4
  <2>2. f[r].by \in Actions
    BY <1>4, <2>1 DEF Typed, OwnersFit, OwnerFits
  <2> QED
    BY <1>4, <2>1, <2>2 DEF OneByOne, Remaining, Steady
<1> QED
  BY <1>1, <1>2, <1>3, <1>4 DEF OneByOne, Accounted, Remaining

LEMMA ProceedingSingle ==
    ASSUME Typed, OneByOne, Steady, Unique', NEW o \in Owners, Proceeds(o)
    PROVE  OneByOne'
<1>0. /\ owner[o].action \in Actions /\ owner[o].action # NoAction /\ NoAction \notin ledger
      /\ owner'[o].action \in {owner[o].action, NoAction}
      /\ owner[o].pc \notin {"approve", "record"} /\ owner'[o].pc # "approve"
      /\ \A q \in Owners : q # o => owner'[q] = owner[q]
      /\ ledger' = ledger
  BY ActionKinds DEF Proceeds, Typed, TypeOK, OwnersFit, OwnerFits
<1>1. Distinct'
  BY <1>0 DEF OneByOne, Distinct
<1>2. Unnoted'
  BY <1>0 DEF OneByOne, Unnoted
<1>3. ASSUME NEW f \in Views', NEW r \in Records, f[r].by \in Actions
      PROVE  \/ f[r].by \in ledger'
             \/ \E q \in Owners : owner'[q].action = f[r].by /\ owner'[q].pc \in {"approve", "record"}
  <2>1. PICK g \in Views : g[r].by = f[r].by /\ g[r].candidate = f[r].candidate
    BY <1>3 DEF Steady
  <2>2. \/ g[r].by \in ledger
        \/ \E q \in Owners : owner[q].action = g[r].by /\ owner[q].pc \in {"approve", "record"}
    BY <1>3, <2>1 DEF OneByOne, Accounted
  <2> QED
    BY <1>0, <2>1, <2>2
<1>4. ASSUME NEW f \in Views', NEW r \in Records, NEW q \in Owners,
             owner'[q].pc = "approve", f[r].by = owner'[q].action
      PROVE  f[r].candidate \notin owner'[q].todo
  <2>1. q # o /\ owner'[q] = owner[q]
    BY <1>0, <1>4
  <2>2. f[r].by \in Actions
    BY <1>4, <2>1 DEF Typed, OwnersFit, OwnerFits
  <2> QED
    BY <1>4, <2>1, <2>2 DEF OneByOne, Remaining, Steady
<1> QED
  BY <1>1, <1>2, <1>3, <1>4 DEF OneByOne, Accounted, Remaining

LEMMA BegunSingle ==
    ASSUME Typed, OneByOne, Steady, Unique', NEW o \in Owners, NEW a \in Actions, Begins(o, a),
           ~overlapped', ledger' = ledger
    PROVE  OneByOne'
<1>0. /\ owner[o].action = NoAction /\ owner[o].pc = "idle"
      /\ a \notin ledger /\ \A q \in Owners : owner[q].action # a
      /\ owner'[o].action = a
      /\ \A q \in Owners : q # o => owner'[q] = owner[q]
  BY DEF Begins, Moves, Typed, OwnersFit, OwnerFits
<1>1. Distinct'
  BY <1>0 DEF OneByOne, Distinct
<1>2. Unnoted'
  BY <1>0 DEF OneByOne, Unnoted
<1>3. ASSUME NEW f \in Views', NEW r \in Records, f[r].by \in Actions
      PROVE  /\ \/ f[r].by \in ledger
                \/ \E q \in Owners : owner'[q].action = f[r].by /\ owner'[q].pc \in {"approve", "record"}
             /\ f[r].by # a
  <2>1. PICK g \in Views : g[r].by = f[r].by /\ g[r].candidate = f[r].candidate
    BY <1>3 DEF Steady
  <2>2. \/ g[r].by \in ledger
        \/ \E q \in Owners : owner[q].action = g[r].by /\ owner[q].pc \in {"approve", "record"}
    BY <1>3, <2>1 DEF OneByOne, Accounted
  <2> QED
    BY <1>0, <2>1, <2>2
<1>4. ASSUME NEW f \in Views', NEW r \in Records, NEW q \in Owners,
             owner'[q].pc = "approve", f[r].by = owner'[q].action
      PROVE  f[r].candidate \notin owner'[q].todo
  <2>1. CASE q = o
    BY <1>0, <1>3, <1>4, <2>1
  <2>2. CASE q # o
    <3>1. f[r].by \in Actions /\ owner'[q] = owner[q]
      BY <1>0, <1>4, <2>2 DEF Typed, OwnersFit, OwnerFits
    <3> QED
      BY <1>4, <3>1 DEF OneByOne, Remaining, Steady
  <2> QED
    BY <2>1, <2>2
<1> QED
  BY <1>1, <1>2, <1>3, <1>4 DEF OneByOne, Accounted, Remaining

LEMMA ApprovedSingle ==
    ASSUME Typed, OneByOne, Unique', NEW o \in Owners, NEW c \in Candidates, Approves(o, c), ledger' = ledger,
           \A f \in Views', r \in Records : f[r].by \in Actions =>
                \/ \E g \in Views : g[r].by = f[r].by /\ g[r].candidate = f[r].candidate
                \/ f[r].by = owner[o].action /\ f[r].candidate = c
    PROVE  OneByOne'
<1> DEFINE a == owner[o].action
<1>0. /\ a \in Actions /\ a # NoAction /\ owner[o].pc = "approve"
      /\ owner'[o].action = a /\ owner'[o].pc \in {"approve", "record"}
      /\ owner'[o].todo = owner[o].todo \ {c}
      /\ \A q \in Owners : q # o => owner'[q] = owner[q]
  BY ActionKinds DEF Approves, Moves, Typed, OwnersFit, OwnerFits
<1>1. Distinct'
  BY <1>0 DEF OneByOne, Distinct
<1>2. Unnoted'
  BY <1>0 DEF OneByOne, Unnoted
<1>3. ASSUME NEW f \in Views', NEW r \in Records, f[r].by \in Actions
      PROVE  \/ f[r].by \in ledger'
             \/ \E q \in Owners : owner'[q].action = f[r].by /\ owner'[q].pc \in {"approve", "record"}
  <2>1. CASE f[r].by = a
    BY <1>0, <2>1
  <2>2. CASE f[r].by # a
    <3>1. PICK g \in Views : g[r].by = f[r].by
      BY <1>3, <2>2
    <3>2. \/ g[r].by \in ledger
          \/ \E q \in Owners : owner[q].action = g[r].by /\ owner[q].pc \in {"approve", "record"}
      BY <1>3, <3>1 DEF OneByOne, Accounted
    <3> QED
      BY <1>0, <3>1, <3>2
  <2> QED
    BY <2>1, <2>2
<1>4. ASSUME NEW f \in Views', NEW r \in Records, NEW q \in Owners,
             owner'[q].pc = "approve", f[r].by = owner'[q].action
      PROVE  f[r].candidate \notin owner'[q].todo
  <2>1. owner'[q].action = owner[q].action /\ owner[q].pc = "approve"
        /\ owner'[q].todo \subseteq owner[q].todo /\ f[r].by \in Actions
    BY <1>0, <1>4 DEF Typed, OwnersFit, OwnerFits
  <2>2. CASE f[r].by = a /\ f[r].candidate = c
    <3>1. q = o
      BY <1>0, <1>4, <2>1, <2>2 DEF OneByOne, Distinct
    <3> QED
      BY <1>0, <2>2, <3>1
  <2>3. CASE ~(f[r].by = a /\ f[r].candidate = c)
    <3>1. PICK g \in Views : g[r].by = f[r].by /\ g[r].candidate = f[r].candidate
      BY <2>1, <2>3
    <3> QED
      BY <1>4, <2>1, <3>1 DEF OneByOne, Remaining
  <2> QED
    BY <2>2, <2>3
<1> QED
  BY <1>1, <1>2, <1>3, <1>4 DEF OneByOne, Accounted, Remaining

LEMMA WhoMoves ==
    ASSUME [Next]_vars
    PROVE  \/ \E o \in Owners : OwnerStep(o) \/ OwnerCrashes(o)
           \/ UNCHANGED <<owner, ledger>>
<1> USE DEF files, history
<1>1. ASSUME \/ \E c \in Candidates : Resolve(c)
             \/ LoopStep \/ LoopCrashes \/ SyncStep \/ SyncCrashes \/ UNCHANGED vars
      PROVE  UNCHANGED <<owner, ledger>>
  BY <1>1 DEF Resolve, LoopStep, LoopCrashes, ListRecords, LoopReads, LoopReplaces, ProposeEdge, AppendFails,
         AppendEdge, InsertEdge, SyncStep, SyncRecords, SyncEdges, SyncCrashes, vars
<1> QED
  BY <1>1 DEF Next

LEMMA HistoryGrows ==
    ASSUME TypeOK, [Next]_vars
    PROVE  /\ crashes \in Nat /\ (crashes' = 0 => crashes = 0)
           /\ ~overlapped' => ~overlapped
           /\ crashes' = 0 => \A o \in Owners : ~OwnerCrashes(o)
<1>0. crashes \in Nat
  BY BoundsAreNumbers DEF TypeOK
<1>1. crashes' = crashes \/ crashes' = crashes + 1
  BY DEF Next, OwnerStep, StartAction, ApproveNext, ReadRecords, ReplaceRecords, ReadEdges, TruncateEdges,
         WriteEdges, Project, ReadEdgeState, UpdateEdgeState, UpdateTimesOut, RecordAction, OwnerCrashes,
         Resolve, LoopStep, LoopCrashes, ListRecords, LoopReads, LoopReplaces, ProposeEdge, AppendFails,
         AppendEdge, InsertEdge, SyncStep, SyncRecords, SyncEdges, SyncCrashes, vars, files, history
<1>2. overlapped' = overlapped \/ \E o \in Owners : StartAction(o)
  BY DEF Next, OwnerStep, ApproveNext, ReadRecords, ReplaceRecords, ReadEdges, TruncateEdges,
         WriteEdges, Project, ReadEdgeState, UpdateEdgeState, UpdateTimesOut, RecordAction, OwnerCrashes,
         Resolve, LoopStep, LoopCrashes, ListRecords, LoopReads, LoopReplaces, ProposeEdge, AppendFails,
         AppendEdge, InsertEdge, SyncStep, SyncRecords, SyncEdges, SyncCrashes, vars, files, history
<1>3. ~overlapped' => ~overlapped
  BY <1>2 DEF StartAction
<1>4. \A o \in Owners : OwnerCrashes(o) => crashes' = crashes + 1
  BY DEF OwnerCrashes
<1> QED
  BY <1>0, <1>1, <1>3, <1>4

SoFarSingle == crashes = 0 /\ ~overlapped => OneByOne

LEMMA StillSingle ==
    ASSUME Typed, ViewsBounded, SoFarSingle, [Next]_vars
    PROVE  SoFarSingle'
<1> SUFFICES ASSUME crashes' = 0, ~overlapped' PROVE OneByOne'
  BY DEF SoFarSingle
<1>0. OneByOne /\ \A o \in Owners : ~OwnerCrashes(o)
  BY HistoryGrows DEF Typed, SoFarSingle
<1>1. ASSUME NEW o \in Owners, NEW c \in Candidates, ApproveNext(o), Approves(o, c), Appends(o, c, file')
      PROVE  OneByOne'
  <2>1. ledger' = ledger
    BY <1>1 DEF ApproveNext
  <2> QED
    BY <1>0, <1>1, <2>1, AppendedUnique, ApprovedSingle DEF OneByOne
<1>2. CASE Inherits(file')
  <2>1. Unique' /\ Steady
    BY <1>0, <1>2, InheritedUnique DEF OneByOne, Steady
  <2>2. ASSUME NEW o \in Owners, OwnerStep(o) PROVE OneByOne'
    <3>1. ASSUME NEW a \in Actions, Begins(o, a), ledger' = ledger PROVE OneByOne'
      BY <1>0, <2>1, <3>1, BegunSingle
    <3>2. ASSUME NEW c \in Candidates, Approves(o, c), ledger' = ledger PROVE OneByOne'
      BY <1>0, <2>1, <3>2, ApprovedSingle DEF Steady
    <3>3. ASSUME Notes(o) PROVE OneByOne'
      BY <1>0, <2>1, <3>3, NotedSingle
    <3>4. ASSUME Proceeds(o) PROVE OneByOne'
      BY <1>0, <2>1, <3>4, ProceedingSingle
    <3> QED
      BY <2>2, <3>1, <3>2, <3>3, <3>4, OwnerEffects
  <2>3. CASE UNCHANGED <<owner, ledger>>
    BY <1>0, <2>1, <2>3, StayingSingle
  <2> QED
    BY <1>0, <2>2, <2>3, WhoMoves
<1> QED
  BY <1>1, <1>2, NewFile

LEMMA InitSingle == ASSUME Init PROVE OneByOne
<1>1. Views \subseteq {NoFile} /\ ledger = {} /\ \A o \in Owners : owner[o] = Idle
  BY DEF Init, Views, Idle, AtRest
<1>2. \A f \in Views, r \in Records : f[r].by \notin Actions
  BY <1>1, ActionKinds DEF NoFile, Absent
<1>3. Distinct /\ Unnoted /\ Remaining
  BY <1>1 DEF Distinct, Unnoted, Remaining, Idle
<1>4. Accounted /\ Unique
  BY <1>2 DEF Accounted, Unique
<1> QED
  BY <1>3, <1>4 DEF OneByOne

\* No decision makes two records of a candidate, for any number of processes that apply
\* decisions at once, unless one is killed or takes up what another is applying.
THEOREM OneRecordPerDecisionAlways == Spec => []OneRecordPerDecision
<1> DEFINE Single == Typed /\ ViewsBounded /\ SoFarSingle
<1>1. Init => Single
  <2> SUFFICES ASSUME Init PROVE ViewsBounded /\ OneByOne
    BY InitTyped DEF SoFarSingle
  <2>1. ViewsBounded
    BY DEF Init, ViewsBounded, BoundedBy, Idle, AtRest, NoFile
  <2> QED
    BY <2>1, InitSingle
<1>2. Single /\ [Next]_vars => Single'
  BY NextTyped, ViewsStayBounded, StillSingle
<1>3. Single => OneRecordPerDecision
  <2> SUFFICES ASSUME Single, crashes = 0, ~overlapped, NEW a \in Actions, NEW c \in Candidates
               PROVE  Cardinality(RecordsBy(a, c)) <= 1
    BY DEF OneRecordPerDecision
  <2>1. file \in Views /\ Unique
    BY DEF SoFarSingle, OneByOne, Views
  <2>2. \A r, q \in RecordsBy(a, c) : r = q
    BY <2>1 DEF RecordsBy, Unique
  <2>3. CASE RecordsBy(a, c) = {}
    BY <2>3, FS_EmptySet
  <2>4. CASE RecordsBy(a, c) # {}
    <3>1. PICK r : r \in RecordsBy(a, c)
      BY <2>4
    <3>2. RecordsBy(a, c) = {r}
      BY <2>2, <3>1
    <3>3. Cardinality({r}) = 1
      BY FS_Singleton
    <3> QED
      BY <3>2, <3>3
  <2> QED
    BY <2>3, <2>4
<1> HIDE DEF Single
<1>4. QED
  BY <1>1, <1>2, <1>3, PTL DEF Spec

-----------------------------------------------------------------------------
(* The index can be rebuilt.                                                 *)

\* No edge has a number that was not given yet.
GraphsBounded ==
    /\ GraphBoundedBy(edges, proposed) /\ GraphBoundedBy(index.edges, proposed)
    /\ \A o \in Owners : GraphBoundedBy(owner[o].graph, proposed)

\* What becomes of the edges' file.
LEMMA EdgeEffects ==
    ASSUME [Next]_vars
    PROVE  \/ UNCHANGED <<edges, proposed>>
           \/ AppendEdge
           \/ \E o \in Owners : TruncateEdges(o) \/ WriteEdges(o)
<1> USE DEF files, history
<1>1. ASSUME NEW o \in Owners, OwnerStep(o) \/ OwnerCrashes(o)
      PROVE  UNCHANGED <<edges, proposed>> \/ TruncateEdges(o) \/ WriteEdges(o)
  BY <1>1 DEF OwnerStep, StartAction, ApproveNext, ReadRecords, ReplaceRecords, ReadEdges, Project,
         ReadEdgeState, UpdateEdgeState, UpdateTimesOut, RecordAction, OwnerCrashes
<1>2. ASSUME LoopStep \/ LoopCrashes PROVE UNCHANGED <<edges, proposed>> \/ AppendEdge
  BY <1>2 DEF LoopStep, LoopCrashes, ListRecords, LoopReads, LoopReplaces, ProposeEdge, AppendFails, InsertEdge
<1>3. ASSUME (\E c \in Candidates : Resolve(c)) \/ SyncStep \/ SyncCrashes \/ UNCHANGED vars
      PROVE  UNCHANGED <<edges, proposed>>
  BY <1>3 DEF Resolve, SyncStep, SyncRecords, SyncEdges, SyncCrashes, vars
<1> QED
  BY <1>1, <1>2, <1>3 DEF Next

LEMMA GraphsTyped ==
    ASSUME Typed
    PROVE  /\ edges \in [Edges -> EdgeType] /\ proposed \in Nat /\ loop.edge \in EdgeType
           /\ \A o \in Owners : owner[o].graph \in [Edges -> EdgeType]
<1>1. edges \in [Edges -> EdgeType] /\ proposed \in 0..MaxEdges /\ loop \in LoopState /\ owner \in [Owners -> OwnerState]
  BY DEF Typed, TypeOK
<1>2. proposed \in Nat
  BY <1>1, BoundsAreNumbers
<1>3. loop.edge \in EdgeType
  BY <1>1 DEF LoopState
<1>4. \A o \in Owners : owner[o].graph \in [Edges -> EdgeType]
  BY <1>1 DEF OwnerState
<1> QED
  BY <1>1, <1>2, <1>3, <1>4

LEMMA Appended ==
    ASSUME Typed, AppendEdge
    PROVE  /\ proposed \in Nat /\ proposed' = proposed + 1 /\ proposed + 1 \in Edges /\ UNCHANGED <<owner, lost>>
           /\ \A e \in Edges : e # proposed + 1 => edges'[e] = edges[e]
           /\ edges'[proposed + 1] = [loop.edge EXCEPT !.late = \E r \in loop.edge.ends : ~IsActive(file, r)]
           /\ edges'[proposed + 1].state = loop.edge.state /\ edges'[proposed + 1].ends = loop.edge.ends
<1>0. proposed \in Nat /\ proposed + 1 \in Edges /\ edges \in [Edges -> EdgeType] /\ loop.edge \in EdgeType
  <2>1. proposed < MaxEdges /\ proposed \in Nat /\ MaxEdges \in Nat
    BY GraphsTyped, BoundsAreNumbers DEF Typed, LoopFits, AppendEdge
  <2> QED
    BY <2>1, GraphsTyped DEF Edges
<1>1. /\ proposed' = proposed + 1 /\ UNCHANGED <<owner, lost>>
      /\ edges' = [edges EXCEPT ![proposed + 1] =
                     [loop.edge EXCEPT !.late = \E r \in loop.edge.ends : ~IsActive(file, r)]]
  BY DEF AppendEdge, history
<1> DEFINE late == \E r \in loop.edge.ends : ~IsActive(file, r)
<1>2. edges'[proposed + 1] = [loop.edge EXCEPT !.late = late]
  BY <1>0, <1>1
<1>3. \A b : [loop.edge EXCEPT !.late = b].state = loop.edge.state /\ [loop.edge EXCEPT !.late = b].ends = loop.edge.ends
  BY <1>0 DEF EdgeType
<1> HIDE DEF late
<1>4. edges'[proposed + 1].state = loop.edge.state /\ edges'[proposed + 1].ends = loop.edge.ends
  BY <1>2, <1>3
<1> QED
  BY <1>0, <1>1, <1>4

LEMMA InvalidatedAt ==
    ASSUME NEW g \in [Edges -> EdgeType], NEW r, NEW e \in Edges
    PROVE  LET h == Invalidated(g, r) IN
           /\ h[e].state = "absent" <=> g[e].state = "absent"
           /\ h[e].ends = g[e].ends /\ h[e].late = g[e].late
           /\ h[e].state = "active" => g[e].state = "active" /\ r \notin g[e].ends
<1>1. g[e] \in EdgeType
  OBVIOUS
<1>2. CASE e \in ActiveAt(g, r)
  <2>1. Invalidated(g, r)[e] = [g[e] EXCEPT !.state = "invalidated"]
    BY <1>2 DEF Invalidated
  <2>2. g[e].state = "active"
    BY <1>2 DEF ActiveAt
  <2> QED
    BY <1>1, <2>1, <2>2 DEF EdgeType
<1>3. CASE e \notin ActiveAt(g, r)
  <2>1. Invalidated(g, r)[e] = g[e]
    BY <1>3 DEF Invalidated
  <2> QED
    BY <1>1, <1>3, <2>1 DEF ActiveAt
<1> QED
  BY <1>2, <1>3

\* What the index gets is in it already, is read from the file or was just appended to it.
LEMMA IndexEffects ==
    ASSUME Typed, [Next]_vars
    PROVE  /\ \A e \in Edges : index'.edges[e].state # "absent" =>
                index.edges[e].state # "absent" \/ edges[e].state # "absent" \/ e \in 1..proposed
           /\ index'.records \in {index.records, sync.records}
           /\ sync'.records \in {{}, sync.records, {r \in Records : IsActive(file, r)}}
<1> USE DEF files, history
<1>0. index \in IndexType /\ edges \in [Edges -> EdgeType] /\ sync \in [pc: {"idle", "reading"}, records: SUBSET Records]
  BY DEF Typed, TypeOK, IndexType
<1>1. sync'.records \in {{}, sync.records, {r \in Records : IsActive(file, r)}}
  <2>1. sync' = sync \/ SyncStep \/ SyncCrashes
    BY DEF Next, OwnerStep, StartAction, ApproveNext, ReadRecords, ReplaceRecords, ReadEdges, TruncateEdges,
         WriteEdges, Project, ReadEdgeState, UpdateEdgeState, UpdateTimesOut, RecordAction, OwnerCrashes,
         Resolve, LoopStep, LoopCrashes, ListRecords, LoopReads, LoopReplaces, ProposeEdge, AppendFails,
         AppendEdge, InsertEdge, vars
  <2> QED
    BY <2>1 DEF SyncStep, SyncRecords, SyncEdges, SyncCrashes
<1>2. ASSUME NEW o \in Owners, OwnerStep(o) \/ OwnerCrashes(o)
      PROVE  UNCHANGED index \/ UpdateEdgeState(o)
  BY <1>2 DEF OwnerStep, StartAction, ApproveNext, ReadRecords, ReplaceRecords, ReadEdges, TruncateEdges,
         WriteEdges, Project, ReadEdgeState, UpdateTimesOut, RecordAction, OwnerCrashes
<1>3. ASSUME LoopStep \/ LoopCrashes PROVE UNCHANGED index \/ InsertEdge
  BY <1>3 DEF LoopStep, LoopCrashes, ListRecords, LoopReads, LoopReplaces, ProposeEdge, AppendFails, AppendEdge
<1>4. ASSUME (\E c \in Candidates : Resolve(c)) \/ SyncStep \/ SyncCrashes \/ UNCHANGED vars
      PROVE  UNCHANGED index \/ SyncEdges
  BY <1>4 DEF Resolve, SyncStep, SyncRecords, SyncCrashes, vars
<1>5. ASSUME NEW o \in Owners, UpdateEdgeState(o)
      PROVE  /\ \A e \in Edges : index'.edges[e].state # "absent" => index.edges[e].state # "absent"
             /\ index'.records = index.records
  <2> DEFINE t == owner[o].action.target
             new == NewState(owner[o].action)
             h == [index.edges EXCEPT ![t].state = new]
  <2>1. \/ index' = index
        \/ index.edges[t].state # "absent" /\ index' = [index EXCEPT !.edges = h]
    BY <1>5 DEF UpdateEdgeState
  <2>2. \A e \in Edges : e # t => h[e] = index.edges[e]
    BY <1>0 DEF IndexType
  <2> HIDE DEF h, t
  <2>3. [index EXCEPT !.edges = h].edges = h /\ [index EXCEPT !.edges = h].records = index.records
    BY <1>0 DEF IndexType
  <2> QED
    BY <2>1, <2>2, <2>3
<1>6. ASSUME InsertEdge
      PROVE  /\ \A e \in Edges : index'.edges[e].state # "absent" => index.edges[e].state # "absent" \/ e \in 1..proposed
             /\ index'.records = index.records
  <2> DEFINE h == [index.edges EXCEPT ![loop.record] = loop.edge]
  <2>1. index' = index \/ index' = [index EXCEPT !.edges = h]
    BY <1>6 DEF InsertEdge
  <2>2. loop.record \in 1..proposed
    BY <1>6 DEF Typed, LoopFits, InsertEdge
  <2>3. \A e \in Edges : e # loop.record => h[e] = index.edges[e]
    BY <1>0 DEF IndexType
  <2> HIDE DEF h
  <2>4. [index EXCEPT !.edges = h].edges = h /\ [index EXCEPT !.edges = h].records = index.records
    BY <1>0 DEF IndexType
  <2> QED
    BY <2>1, <2>2, <2>3, <2>4
<1>7. SyncEdges => index'.edges = edges /\ index'.records = sync.records
  BY DEF SyncEdges
<1>8. \/ UNCHANGED index \/ SyncEdges \/ InsertEdge
      \/ \E o \in Owners : UpdateEdgeState(o)
  BY <1>2, <1>3, <1>4 DEF Next
<1>9. /\ \A e \in Edges : index'.edges[e].state # "absent" =>
                index.edges[e].state # "absent" \/ edges[e].state # "absent" \/ e \in 1..proposed
      /\ index'.records \in {index.records, sync.records}
  BY <1>5, <1>6, <1>7, <1>8
<1> QED
  BY <1>1, <1>9

LEMMA GraphsStayBounded ==
    ASSUME Typed, GraphsBounded, [Next]_vars
    PROVE  GraphsBounded' /\ proposed <= proposed'
<1>0. edges \in [Edges -> EdgeType] /\ proposed \in Nat /\ \A o \in Owners : owner[o].graph \in [Edges -> EdgeType]
  BY GraphsTyped
<1>1. proposed' = proposed \/ proposed' = proposed + 1
  BY EdgeEffects DEF AppendEdge, TruncateEdges, WriteEdges
<1>2. proposed' \in Nat /\ proposed <= proposed'
  BY <1>0, <1>1
<1>3. \A g : GraphBoundedBy(g, proposed) => GraphBoundedBy(g, proposed')
  BY <1>0, <1>2 DEF GraphBoundedBy, Edges
<1>4. GraphBoundedBy(edges', proposed')
  <2>1. CASE UNCHANGED <<edges, proposed>>
    BY <2>1 DEF GraphsBounded
  <2>2. CASE AppendEdge
    BY <1>0, <2>2, Appended DEF GraphBoundedBy, GraphsBounded, Edges
  <2>3. ASSUME NEW o \in Owners, TruncateEdges(o) PROVE GraphBoundedBy(edges', proposed')
    BY <2>3 DEF TruncateEdges, GraphBoundedBy, NoGraph, NoEdge
  <2>4. ASSUME NEW o \in Owners, WriteEdges(o) PROVE GraphBoundedBy(edges', proposed')
    <3>1. edges' = Invalidated(owner[o].graph, owner[o].action.target) /\ proposed' = proposed
      BY <2>4 DEF WriteEdges
    <3> QED
      BY <1>0, <3>1, InvalidatedAt DEF GraphBoundedBy, GraphsBounded
  <2> QED
    BY <2>1, <2>2, <2>3, <2>4, EdgeEffects
<1>5. GraphBoundedBy(index'.edges, proposed')
  <2>1. \A e \in Edges : e > proposed' => e > proposed /\ e \notin 1..proposed
    BY <1>0, <1>2 DEF Edges
  <2> QED
    BY <2>1, IndexEffects DEF GraphsBounded, GraphBoundedBy
<1>6. GraphBoundedBy(NoGraph, proposed)
  BY DEF GraphBoundedBy, NoGraph, NoEdge
<1>7. \A o \in Owners : GraphBoundedBy(owner'[o].graph, proposed')
  BY <1>3, <1>6, ViewsAreOld DEF GraphsBounded
<1> QED
  BY <1>2, <1>4, <1>5, <1>7 DEF GraphsBounded

\* Where a process is with the edges, and where it comes from.
LEMMA WritersMove ==
    ASSUME Typed, [Next]_vars, NEW o \in Owners
    PROVE  /\ owner[o].pc = "write edges" => owner'[o] = owner[o] \/ WriteEdges(o) \/ OwnerCrashes(o)
           /\ owner'[o].pc = "write edges" =>
                \/ owner'[o] = owner[o]
                \/ TruncateEdges(o) /\ owner'[o].graph = owner[o].graph /\ owner'[o].action = owner[o].action
           /\ owner'[o].pc = "truncate" =>
                \/ owner'[o] = owner[o]
                \/ ReadEdges(o) /\ owner'[o].graph = edges /\ ActiveAt(edges, owner[o].action.target) # {}
           /\ WriteEdges(o) => owner'[o].pc = "project" /\ \A q \in Owners : q # o => owner'[q] = owner[q]
           /\ TruncateEdges(o) => /\ owner'[o].pc = "write edges" /\ owner'[o].graph = owner[o].graph
                                  /\ \A q \in Owners : q # o => owner'[q] = owner[q]
<1>0. TypeOK /\ OwnersFit
  BY DEF Typed
<1>1. owner'[o] = owner[o] \/ OwnerStep(o) \/ OwnerCrashes(o)
  BY OneOwnerMoves
<1>2. CASE StartAction(o)
  <2>1. PICK a \in Actions : Begins(o, a)
    BY <1>0, <1>2, StartBegins
  <2>2. owner[o].pc = "idle" /\ owner'[o].pc \notin {"truncate", "write edges"}
    BY <2>1, FirstSteps DEF Begins, Moves
  <2> QED
    BY <2>2 DEF WriteEdges, TruncateEdges
<1>3. CASE ApproveNext(o)
  <2>1. PICK c \in Candidates : Approves(o, c)
    BY <1>0, <1>3, NextIsApproved
  <2>2. owner[o].pc = "approve" /\ owner'[o].pc \in {"approve", "record"}
    BY <2>1 DEF Approves, Moves
  <2> QED
    BY <2>2 DEF WriteEdges, TruncateEdges
<1>4. CASE ReadRecords(o) \/ ReplaceRecords(o)
  <2>1. owner[o].pc \in {"read", "replace"}
    BY <1>4 DEF ReadRecords, ReplaceRecords
  <2>2. owner'[o].pc \notin {"truncate", "write edges"}
    BY <1>0, <1>4, ReadMoves, ReplaceMoves DEF Moves, MovesOn, Stops
  <2> QED
    BY <2>1, <2>2 DEF WriteEdges, TruncateEdges
<1>5. CASE ReadEdges(o)
  <2>1. owner[o].pc = "read edges"
    BY <1>5 DEF ReadEdges
  <2>2. \/ owner'[o].pc = "project"
        \/ owner'[o].pc = "truncate" /\ owner'[o].graph = edges /\ ActiveAt(edges, owner[o].action.target) # {}
    BY <1>0, <1>5, EdgesMoves DEF Moves, MovesOn
  <2> QED
    BY <1>5, <2>1, <2>2 DEF WriteEdges, TruncateEdges
<1>6. CASE TruncateEdges(o)
  <2>1. owner[o].pc = "truncate"
    BY <1>6 DEF TruncateEdges
  <2> QED
    BY <1>0, <1>6, <2>1, EdgesMoves DEF Moves, MovesOn, WriteEdges
<1>7. CASE WriteEdges(o)
  <2>1. owner[o].pc = "write edges"
    BY <1>7 DEF WriteEdges
  <2> QED
    BY <1>0, <1>7, <2>1, EdgesMoves DEF Moves, TruncateEdges
<1>8. CASE Project(o) \/ ReadEdgeState(o) \/ UpdateEdgeState(o) \/ UpdateTimesOut(o) \/ RecordAction(o)
  <2>1. owner[o].pc \in {"project", "transition", "update", "record"}
    BY <1>8 DEF Project, ReadEdgeState, UpdateEdgeState, UpdateTimesOut, RecordAction
  <2>2. owner'[o].pc \notin {"truncate", "write edges"}
    BY <1>0, <1>8, OtherMoves DEF Moves, MovesOn, Stops
  <2> QED
    BY <2>1, <2>2 DEF WriteEdges, TruncateEdges
<1>9. CASE OwnerCrashes(o)
  <2>1. owner'[o].pc = "idle"
    BY <1>0, <1>9, OtherMoves DEF Moves, Stops
  <2>2. owner'[o].pc = "idle" /\ WriteEdges(o) => FALSE
    BY <1>0, EdgesMoves DEF Moves
  <2>3. owner'[o].pc = "idle" /\ TruncateEdges(o) => FALSE
    BY <1>0, EdgesMoves DEF Moves, MovesOn
  <2> QED
    BY <1>9, <2>1, <2>2, <2>3
<1>10. CASE owner'[o] = owner[o]
  BY <1>0, <1>10, EdgesMoves DEF Moves, MovesOn
<1> QED
  BY <1>1, <1>2, <1>3, <1>4, <1>5, <1>6, <1>7, <1>8, <1>9, <1>10 DEF OwnerStep

LEMMA NothingLost ==
    ASSUME NEW what, NEW changed, Lose(what, changed), what \notin lost'
    PROVE  ~changed
BY DEF Lose

\* Every edge is in the file, or in the hands of a process that has emptied it.
EdgesHeld ==
    "edges" \notin lost =>
        \A e \in 1..proposed :
            \/ edges[e].state # "absent"
            \/ \E o \in Owners : owner[o].pc = "write edges" /\ owner[o].graph[e].state # "absent"

EdgeIsProposed == loop.pc = "append edge" => loop.edge.state # "absent"

LEMMA EdgeStaysProposed ==
    ASSUME Typed, EdgeIsProposed, [Next]_vars
    PROVE  EdgeIsProposed'
<1> USE DEF files, history
<1>1. ASSUME NEW o \in Owners, OwnerStep(o) \/ OwnerCrashes(o) PROVE UNCHANGED loop
  BY <1>1 DEF OwnerStep, StartAction, ApproveNext, ReadRecords, ReplaceRecords, ReadEdges, TruncateEdges,
         WriteEdges, Project, ReadEdgeState, UpdateEdgeState, UpdateTimesOut, RecordAction, OwnerCrashes
<1>2. ASSUME (\E c \in Candidates : Resolve(c)) \/ SyncStep \/ SyncCrashes \/ UNCHANGED vars
      PROVE  UNCHANGED loop
  BY <1>2 DEF Resolve, SyncStep, SyncRecords, SyncEdges, SyncCrashes, vars
<1>3. ASSUME LoopStep \/ LoopCrashes PROVE loop'.pc = "append edge" => loop'.edge.state # "absent"
  BY <1>3, LoopMoves DEF LoopStep, LoopLooks, Typed
<1> QED
  BY <1>1, <1>2, <1>3 DEF Next, EdgeIsProposed

LEMMA EdgesStayHeld ==
    ASSUME Typed, GraphsBounded, EdgeIsProposed, EdgesHeld, [Next]_vars
    PROVE  EdgesHeld'
<1> SUFFICES ASSUME "edges" \notin lost', NEW e \in 1..proposed'
             PROVE  \/ edges'[e].state # "absent"
                    \/ \E o \in Owners : owner'[o].pc = "write edges" /\ owner'[o].graph[e].state # "absent"
  BY DEF EdgesHeld
<1>0. /\ edges \in [Edges -> EdgeType] /\ proposed \in Nat
      /\ \A o \in Owners : owner[o].graph \in [Edges -> EdgeType]
      /\ "edges" \notin lost
  BY GraphsTyped, FileEffects
<1>1. e \in 1..proposed =>
        \/ edges[e].state # "absent"
        \/ \E o \in Owners : owner[o].pc = "write edges" /\ owner[o].graph[e].state # "absent"
  BY <1>0 DEF EdgesHeld
<1>2. e \in Edges
  <2>1. proposed' \in 0..MaxEdges
    BY NextTyped DEF Typed, TypeOK
  <2> QED
    BY <2>1, BoundsAreNumbers DEF Edges
<1>3. CASE AppendEdge
  <2>1. CASE e = proposed + 1
    BY <1>3, <2>1, Appended DEF EdgeIsProposed, AppendEdge
  <2>2. CASE e # proposed + 1
    <3>1. proposed' = proposed + 1 /\ edges'[e] = edges[e] /\ owner' = owner
      BY <1>2, <1>3, <2>2, Appended
    <3>2. e \in 1..proposed
      BY <1>0, <2>2, <3>1
    <3> QED
      BY <1>1, <3>1, <3>2
  <2> QED
    BY <2>1, <2>2
<1>4. ASSUME NEW o \in Owners, TruncateEdges(o)
      PROVE  \E q \in Owners : owner'[q].pc = "write edges" /\ owner'[q].graph[e].state # "absent"
  <2>1. edges = owner[o].graph /\ proposed' = proposed /\ owner[o].pc = "truncate"
    BY <1>4, NothingLost DEF TruncateEdges
  <2>2. /\ owner'[o].pc = "write edges" /\ owner'[o].graph = owner[o].graph
        /\ \A q \in Owners : q # o => owner'[q] = owner[q]
    BY <1>4, WritersMove
  <2> QED
    BY <1>1, <2>1, <2>2
<1>5. ASSUME NEW o \in Owners, WriteEdges(o)
      PROVE  \/ edges'[e].state # "absent"
             \/ \E q \in Owners : owner'[q].pc = "write edges" /\ owner'[q].graph[e].state # "absent"
  <2>1. /\ edges = NoGraph /\ proposed' = proposed /\ owner[o].pc = "write edges"
        /\ edges' = Invalidated(owner[o].graph, owner[o].action.target)
    BY <1>5, NothingLost DEF WriteEdges
  <2>2. \A q \in Owners : q # o => owner'[q] = owner[q]
    BY <1>5, WritersMove
  <2>3. edges[e].state = "absent"
    BY <1>2, <2>1 DEF NoGraph, NoEdge
  <2>4. PICK q \in Owners : owner[q].pc = "write edges" /\ owner[q].graph[e].state # "absent"
    BY <1>1, <2>1, <2>3
  <2>5. CASE q = o
    <3>1. owner[o].graph \in [Edges -> EdgeType] /\ owner[o].graph[e].state # "absent"
      BY <1>0, <2>4, <2>5
    <3>2. Invalidated(owner[o].graph, owner[o].action.target)[e].state # "absent"
      BY <1>2, <3>1, InvalidatedAt
    <3> QED
      BY <2>1, <3>2
  <2>6. CASE q # o
    BY <2>2, <2>4, <2>6
  <2> QED
    BY <2>5, <2>6
<1>6. CASE UNCHANGED <<edges, proposed>> /\ ~\E o \in Owners : TruncateEdges(o) \/ WriteEdges(o)
  <2>1. \A o \in Owners : OwnerCrashes(o) => owner[o].pc # "write edges"
    BY NothingLost DEF OwnerCrashes
  <2>2. \A o \in Owners : owner[o].pc = "write edges" => owner'[o] = owner[o]
    BY <1>6, <2>1, WritersMove
  <2> QED
    BY <1>1, <1>6, <2>2
<1> QED
  BY <1>3, <1>4, <1>5, <1>6, EdgeEffects

\* The records that the index has, or is about to get, are in the file.
RecordsIndexed == "records" \notin lost => \A r \in index.records \cup sync.records : Exists(r)

LEMMA RecordsStayIndexed ==
    ASSUME Typed, ViewsBounded, DecisionsStand, RecordsIndexed, [Next]_vars
    PROVE  RecordsIndexed'
<1> SUFFICES ASSUME "records" \notin lost', NEW r \in index'.records \cup sync'.records PROVE file'[r].state # "absent"
  BY DEF RecordsIndexed, Exists
<1>1. "records" \notin lost
  BY FileEffects
<1>2. Keeps(file, file')
  BY <1>1, RecordsAreKept DEF DecisionsStand
<1>3. index.records \cup sync.records \subseteq Records
  BY DEF Typed, TypeOK
<1>4. r \in Records /\ file[r].state # "absent"
  BY <1>1, <1>3, IndexEffects DEF RecordsIndexed, Exists, IsActive
<1> QED
  BY <1>2, <1>4 DEF Keeps

\* The index can be rebuilt from the files at any time but while a revocation has emptied that
\* of the edges, for any number of processes and whoever is killed, unless a change was lost.
THEOREM IndexIsAlwaysRebuildable == Spec => []IndexIsRebuildable
<1> DEFINE Whole == /\ Typed /\ ViewsBounded /\ DecisionsStand /\ GraphsBounded
                    /\ EdgeIsProposed /\ EdgesHeld /\ RecordsIndexed
<1>1. Init => Whole
  <2> SUFFICES ASSUME Init PROVE Whole
    OBVIOUS
  <2>1. Typed
    BY InitTyped
  <2>2. ViewsBounded
    BY DEF Init, ViewsBounded, BoundedBy, Idle, AtRest, NoFile
  <2>3. DecisionsStand
    BY DEF Init, DecisionsStand, Flagged, Underway, Idle, NoFile, Absent
  <2>4. GraphsBounded
    BY DEF Init, GraphsBounded, GraphBoundedBy, Idle, NoGraph, NoEdge
  <2>5. EdgeIsProposed
    BY DEF Init, EdgeIsProposed, AtRest
  <2>6. proposed = 0 /\ index.records = {} /\ sync.records = {}
    BY DEF Init
  <2>7. EdgesHeld
    <3>1. 1..proposed = {}
      BY <2>6
    <3> QED
      BY <3>1 DEF EdgesHeld
  <2>8. RecordsIndexed
    BY <2>6 DEF RecordsIndexed
  <2> QED
    BY <2>1, <2>2, <2>3, <2>4, <2>5, <2>7, <2>8
<1>2. Whole /\ [Next]_vars => Whole'
  BY NextTyped, ViewsStayBounded, DecisionsStayStanding, GraphsStayBounded, EdgeStaysProposed,
     EdgesStayHeld, RecordsStayIndexed
<1>3. Whole => IndexIsRebuildable
  <2> SUFFICES ASSUME Whole PROVE IndexIsRebuildable
    OBVIOUS
  <2>1. ASSUME "edges" \notin lost, \A o \in Owners : owner[o].pc # "write edges",
               NEW e \in Edges, index.edges[e].state # "absent"
        PROVE  edges[e].state # "absent"
    <3>1. ~(e > proposed)
      BY <2>1 DEF GraphsBounded, GraphBoundedBy
    <3>2. e \in 1..proposed
      BY <3>1, GraphsTyped DEF Edges
    <3> QED
      BY <2>1, <3>2 DEF EdgesHeld
  <2> QED
    BY <2>1 DEF IndexIsRebuildable, RecordsIndexed
<1> HIDE DEF Whole
<1>4. QED
  BY <1>1, <1>2, <1>3, PTL DEF Spec

-----------------------------------------------------------------------------
(* A revoked record has no active edges.                                     *)

Clean(g, r) == \A e \in ActiveAt(g, r) : g[e].late

\* A process revokes r, and has changed the record.
AtEdges(o, r) ==
    /\ owner[o].action.kind = "revoke" /\ owner[o].action.target = r
    /\ owner[o].pc \in {"read edges", "truncate", "write edges"}

OneWriter == \A o, q \in Owners : owner[o].pc = "write edges" /\ owner[q].pc = "write edges" => o = q

\* Who is about to empty the file has found an edge there, which is not there any more
\* if another was first: that would be a change lost.
FoundEdges == \A o \in Owners : owner[o].pc = "truncate" => \E e \in Edges : owner[o].graph[e].state # "absent"
Behind ==
    \A o, q \in Owners : owner[o].pc = "write edges" /\ owner[q].pc = "truncate" =>
        \E e \in Edges : owner[q].graph[e].state # "absent" /\ edges[e].state = "absent"

\* The edges of a revoked record are dealt with, or a process is at it.
Revoked ==
    \A r \in Records : file[r].state = "owner_revoked" =>
        \/ \E o \in Owners : AtEdges(o, r)
        \/ /\ Clean(edges, r)
           /\ \A o \in Owners : owner[o].pc = "write edges" => Clean(owner[o].graph, r)

Orderly == OneWriter /\ FoundEdges /\ Behind /\ Revoked

LEMMA WritersStayOne ==
    ASSUME Typed, GraphsBounded, OneWriter, FoundEdges, Behind, [Next]_vars, lost' = {}
    PROVE  OneWriter' /\ FoundEdges' /\ Behind'
<1>0. /\ edges \in [Edges -> EdgeType] /\ proposed \in Nat
      /\ \A o \in Owners : owner[o].graph \in [Edges -> EdgeType]
  BY GraphsTyped
<1>1. ASSUME NEW o \in Owners, TruncateEdges(o)
      PROVE  edges = owner[o].graph /\ owner[o].pc = "truncate" /\ edges' = NoGraph
  BY <1>1, NothingLost DEF TruncateEdges
<1>2. ASSUME NEW o \in Owners, ReadEdges(o) PROVE \A q \in Owners : owner[q].pc # "write edges"
  BY <1>2, NothingLost DEF ReadEdges
<1>3. ASSUME NEW o \in Owners, TruncateEdges(o), NEW q \in Owners, q # o PROVE owner'[q].pc # "write edges"
  <2>1. owner[q].pc # "write edges"
    BY <1>1, <1>3 DEF Behind
  <2> QED
    BY <1>3, <2>1, WritersMove
<1>4. OneWriter'
  <2> SUFFICES ASSUME NEW o \in Owners, NEW q \in Owners,
                      owner'[o].pc = "write edges", owner'[q].pc = "write edges", o # q
               PROVE  FALSE
    BY DEF OneWriter
  <2>1. owner'[o] = owner[o] /\ owner'[q] = owner[q]
    BY <1>3, WritersMove
  <2> QED
    BY <2>1 DEF OneWriter
<1>5. FoundEdges'
  <2> SUFFICES ASSUME NEW o \in Owners, owner'[o].pc = "truncate"
               PROVE  \E e \in Edges : owner'[o].graph[e].state # "absent"
    BY DEF FoundEdges
  <2>1. CASE owner'[o] = owner[o]
    BY <2>1 DEF FoundEdges
  <2>2. CASE owner'[o].graph = edges /\ ActiveAt(edges, owner[o].action.target) # {}
    BY <2>2 DEF ActiveAt
  <2> QED
    BY <2>1, <2>2, WritersMove
<1>6. \A e : e = proposed + 1 => e > proposed
  BY <1>0
<1>7. ASSUME NEW o \in Owners, TruncateEdges(o) PROVE \A e \in Edges : edges'[e].state = "absent"
  BY <1>1, <1>7 DEF NoGraph, NoEdge
<1>8. Behind'
  <2> SUFFICES ASSUME NEW o \in Owners, NEW q \in Owners,
                      owner'[o].pc = "write edges", owner'[q].pc = "truncate"
               PROVE  \E e \in Edges : owner'[q].graph[e].state # "absent" /\ edges'[e].state = "absent"
    BY DEF Behind
  <2>1. ~ReadEdges(q)
    <3> SUFFICES ASSUME ReadEdges(q) PROVE FALSE
      OBVIOUS
    <3>1. owner[o].pc # "write edges" /\ owner[q].pc = "read edges" /\ edges' = edges
      BY <1>2 DEF ReadEdges, files
    <3>2. TruncateEdges(o)
      BY <3>1, WritersMove
    <3>3. \A p \in Owners : p # o => owner'[p] = owner[p]
      BY <3>2, WritersMove
    <3>4. owner[o].pc = "truncate"
      BY <3>2 DEF TruncateEdges
    <3> QED
      BY <3>1, <3>3, <3>4
  <2>2. owner'[q] = owner[q]
    BY <2>1, WritersMove
  <2>3. CASE TruncateEdges(o)
    <3>1. \A e \in Edges : edges'[e].state = "absent"
      BY <1>7, <2>3
    <3>2. owner[q].pc = "truncate"
      BY <2>2
    <3>3. PICK e \in Edges : owner[q].graph[e].state # "absent"
      BY <3>2 DEF FoundEdges
    <3> QED
      BY <2>2, <3>1, <3>3
  <2>4. CASE owner'[o] = owner[o]
    <3>1. PICK e \in Edges : owner[q].graph[e].state # "absent" /\ edges[e].state = "absent"
      BY <2>2, <2>4 DEF Behind
    <3>2. CASE AppendEdge
      <4>1. e # proposed + 1
        <5>1. ~(e > proposed)
          BY <3>1 DEF GraphsBounded, GraphBoundedBy
        <5> QED
          BY <1>6, <5>1
      <4> QED
        BY <2>2, <3>1, <3>2, <4>1, Appended
    <3>3. ASSUME NEW p \in Owners, TruncateEdges(p) PROVE edges'[e].state = "absent"
      BY <1>7, <3>3
    <3>4. ASSUME NEW p \in Owners, WriteEdges(p) PROVE FALSE
      <4>1. owner[p].pc = "write edges" /\ owner'[p].pc = "project"
        BY <3>4, WritersMove DEF WriteEdges
      <4> QED
        BY <2>4, <4>1 DEF OneWriter
    <3>5. UNCHANGED <<edges, proposed>> => edges'[e] = edges[e]
      OBVIOUS
    <3> HIDE <1>0, <1>1, <1>2, <1>3
    <3> QED
      BY <2>2, <3>1, <3>2, <3>3, <3>4, <3>5, EdgeEffects
  <2> QED
    BY <2>3, <2>4, WritersMove
<1> QED
  BY <1>4, <1>5, <1>8

\* Only a revocation makes a record revoked.
LEMMA ChangedRevoked ==
    ASSUME NEW f \in [Records -> RecordType], NEW r \in Records, NEW q \in Records, NEW kind,
           Changed(f, kind, q)[r].state = "owner_revoked", f[r].state # "owner_revoked"
    PROVE  kind = "revoke" /\ q = r
<1>1. q = r
  BY ChangedElsewhere
<1>2. f[r] \in RecordType
  OBVIOUS
<1>3. CASE kind = "demote" /\ IsActive(f, r)
  <2>1. Changed(f, kind, r) = [f EXCEPT ![r] = [f[r] EXCEPT !.state = "demoted"]]
    BY <1>3 DEF Changed
  <2> QED
    BY <1>1, <1>2, <2>1 DEF RecordType
<1>4. CASE kind \in {"expire", "reject provisional"} /\ IsActive(f, r)
  <2> DEFINE s == IF kind = "expire" THEN "provisional_expired" ELSE "provisional_rejected"
  <2>1. Changed(f, kind, r) = [f EXCEPT ![r] = [f[r] EXCEPT !.invalidated = TRUE, !.state = s]]
    BY <1>4 DEF Changed
  <2>2. s # "owner_revoked"
    OBVIOUS
  <2> HIDE DEF s
  <2> QED
    BY <1>1, <1>2, <2>1, <2>2 DEF RecordType
<1>5. CASE kind \in {"confirm", "confirm by reply", "promote"} /\ f[r].provisional
  <2> DEFINE s == IF f[r].state \in {"provisional_expired", "provisional_rejected"} THEN "active" ELSE f[r].state
  <2>1. Changed(f, kind, r) = [f EXCEPT ![r] = [f[r] EXCEPT !.provisional = FALSE, !.state = s]]
    BY <1>5 DEF Changed
  <2>2. s # "owner_revoked"
    OBVIOUS
  <2> HIDE DEF s
  <2> QED
    BY <1>1, <1>2, <2>1, <2>2 DEF RecordType
<1>6. CASE kind # "revoke" /\ Changed(f, kind, r) = f
  BY <1>1, <1>6
<1>7. CASE kind = "revoke"
  BY <1>1, <1>7
<1> QED
  BY <1>3, <1>4, <1>5, <1>6, <1>7 DEF Changed

LEMMA NewlyRevoked ==
    ASSUME Typed, ViewsBounded, [Next]_vars, lost' = {}, NEW r \in Records,
           file'[r].state = "owner_revoked", file[r].state # "owner_revoked"
    PROVE  \E o \in Owners : AtEdges(o, r)'
<1>0. /\ file \in [Records -> RecordType] /\ written \in Nat /\ loop \in LoopState
      /\ TypeOK /\ OwnersFit /\ LoopFits
  BY BoundsAreNumbers DEF Typed, TypeOK
<1>1. ASSUME NEW c, NEW by, NEW provisional, AppendRecord(c, by, provisional) PROVE FALSE
  <2>1. r # written + 1 => file'[r] = file[r]
    BY <1>0, <1>1 DEF AppendRecord
  <2>2. r = written + 1 => file'[r].state = "active"
    BY <1>0, <1>1 DEF AppendRecord
  <2> QED
    BY <2>1, <2>2
<1>2. ASSUME LoopReplaces PROVE FALSE
  <2>1. loop.record \in Records /\ loop.job # "revoke"
    BY <1>0, <1>2 DEF LoopReplaces, LoopFits, LoopState
  <2>2. loop.seen = file /\ file' = Changed(loop.seen, loop.job, loop.record)
    BY <1>2, NothingLost DEF LoopReplaces, Replace
  <2> QED
    BY <1>0, <2>1, <2>2, ChangedRevoked
<1>3. ASSUME NEW o \in Owners, ReplaceRecords(o) PROVE AtEdges(o, r)'
  <2> DEFINE a == owner[o].action
  <2>1. owner[o].pc = "replace" /\ a.target \in Records
    BY <1>0, <1>3, OwnerAction DEF ReplaceRecords
  <2>2. owner[o].seen = file /\ file' = Changed(owner[o].seen, a.kind, a.target)
    BY <1>3, NothingLost DEF ReplaceRecords, Replace
  <2>3. a.kind = "revoke" /\ a.target = r
    BY <1>0, <2>1, <2>2, ChangedRevoked
  <2>4. Moves(o, "read edges", a, owner[o].todo, NoFile, owner[o].graph)
    BY <1>0, <1>3, <2>3, ReplaceMoves
  <2> QED
    BY <2>3, <2>4 DEF AtEdges, Moves
<1> QED
  BY <1>1, <1>2, <1>3, FileEffects DEF Approves

\* Who has changed a revoked record goes on until its edges are clean.
LEMMA RevokerGoesOn ==
    ASSUME Typed, OneWriter, [Next]_vars, lost' = {}, NEW o \in Owners, NEW r \in Records, AtEdges(o, r),
           ~OwnerCrashes(o)
    PROVE  \/ AtEdges(o, r)'
           \/ /\ Clean(edges', r)
              /\ \A q \in Owners : owner'[q].pc = "write edges" => Clean(owner'[q].graph, r)
<1>0. TypeOK /\ owner[o].pc \in {"read edges", "truncate", "write edges"} /\ owner[o].action.target = r
      /\ owner[o].graph \in [Edges -> EdgeType]
  BY GraphsTyped DEF Typed, AtEdges
<1>1. CASE owner'[o] = owner[o]
  BY <1>1 DEF AtEdges
<1>2. CASE ReadEdges(o)
  <2>1. \A q \in Owners : owner[q].pc # "write edges"
    BY <1>2, NothingLost DEF ReadEdges
  <2>2. CASE ActiveAt(edges, r) = {} /\ MovesOn(o, "project")
    <3>1. edges' = edges /\ Clean(edges, r)
      BY <1>2, <2>2 DEF ReadEdges, files, Clean
    <3>2. \A q \in Owners : owner'[q].pc # "write edges"
      BY <2>1, <2>2 DEF MovesOn, Moves
    <3> QED
      BY <3>1, <3>2
  <2>3. CASE Moves(o, "truncate", owner[o].action, owner[o].todo, owner[o].seen, edges)
    BY <2>3 DEF Moves, AtEdges
  <2> QED
    BY <1>0, <1>2, <2>2, <2>3, EdgesMoves
<1>3. CASE TruncateEdges(o)
  BY <1>0, <1>3, EdgesMoves DEF MovesOn, Moves, AtEdges
<1>4. CASE WriteEdges(o)
  <2>1. edges' = Invalidated(owner[o].graph, r) /\ owner[o].pc = "write edges"
    BY <1>0, <1>4 DEF WriteEdges
  <2>2. ActiveAt(edges', r) = {}
    BY <1>0, <2>1, InvalidatedAt, ZenonT(60) DEF ActiveAt
  <2>3. \A q \in Owners : owner'[q].pc # "write edges"
    <3>1. owner'[o].pc = "project" /\ \A q \in Owners : q # o => owner'[q] = owner[q]
      BY <1>4, WritersMove
    <3> QED
      BY <2>1, <3>1 DEF OneWriter
  <2> QED
    BY <2>2, <2>3 DEF Clean
<1>5. OwnerStep(o) => ReadEdges(o) \/ TruncateEdges(o) \/ WriteEdges(o)
  BY <1>0 DEF OwnerStep, StartAction, ApproveNext, ReadRecords, ReplaceRecords, Project,
         ReadEdgeState, UpdateEdgeState, UpdateTimesOut, RecordAction
<1> QED
  BY <1>1, <1>2, <1>3, <1>4, <1>5, OneOwnerMoves

LEMMA InvalidatedClean ==
    ASSUME NEW g \in [Edges -> EdgeType], NEW q, NEW r, Clean(g, r)
    PROVE  Clean(Invalidated(g, q), r)
<1> DEFINE h == Invalidated(g, q)
<1>1. \A e \in Edges : /\ h[e].ends = g[e].ends /\ h[e].late = g[e].late
                       /\ h[e].state = "active" => g[e].state = "active"
  BY InvalidatedAt
<1> HIDE DEF h
<1>2. Clean(h, r)
  BY <1>1 DEF Clean, ActiveAt
<1> QED
  BY <1>2 DEF h

\* Edges that are clean stay so, whoever writes them.
LEMMA CleanStays ==
    ASSUME Typed, [Next]_vars, lost' = {}, NEW r \in Records, file[r].state = "owner_revoked",
           Clean(edges, r), \A o \in Owners : owner[o].pc = "write edges" => Clean(owner[o].graph, r)
    PROVE  /\ Clean(edges', r)
           /\ \A q \in Owners : owner'[q].pc = "write edges" => Clean(owner'[q].graph, r)
<1>0. /\ edges \in [Edges -> EdgeType] /\ loop.edge \in EdgeType
      /\ \A o \in Owners : owner[o].graph \in [Edges -> EdgeType]
  BY GraphsTyped
<1>1. ASSUME NEW o \in Owners, TruncateEdges(o) PROVE edges = owner[o].graph /\ edges' = NoGraph
  BY <1>1, NothingLost DEF TruncateEdges
<1>2. \A q \in Owners : owner'[q].pc = "write edges" => Clean(owner'[q].graph, r)
  BY <1>1, WritersMove, ZenonT(60)
<1>3. ActiveAt(NoGraph, r) = {}
  BY DEF ActiveAt, NoGraph, NoEdge
<1>4. ~IsActive(file, r)
  BY DEF IsActive, Inactive
<1>5. ASSUME AppendEdge PROVE Clean(edges', r)
  <2> SUFFICES ASSUME NEW e \in Edges, edges'[e].state = "active", r \in edges'[e].ends
               PROVE  edges'[e].late
    BY DEF Clean, ActiveAt
  <2>1. CASE e # proposed + 1
    BY <1>5, <2>1, Appended DEF Clean, ActiveAt
  <2>2. CASE e = proposed + 1
    <3> DEFINE late == \E q \in loop.edge.ends : ~IsActive(file, q)
    <3>1. r \in loop.edge.ends
      BY <1>5, <2>2, Appended
    <3>2. late
      BY <1>4, <3>1
    <3>3. edges'[e] = [loop.edge EXCEPT !.late = late]
      BY <1>5, <2>2, Appended
    <3> HIDE DEF late
    <3> QED
      BY <1>0, <3>2, <3>3 DEF EdgeType
  <2> QED
    BY <2>1, <2>2
<1>6. ASSUME NEW o \in Owners, TruncateEdges(o) PROVE Clean(edges', r)
  BY <1>1, <1>3, <1>6 DEF Clean
<1>7. ASSUME NEW o \in Owners, WriteEdges(o) PROVE Clean(edges', r)
  <2>1. /\ edges' = Invalidated(owner[o].graph, owner[o].action.target)
        /\ Clean(owner[o].graph, r) /\ owner[o].graph \in [Edges -> EdgeType]
    BY <1>0, <1>7 DEF WriteEdges
  <2> QED
    BY <2>1, InvalidatedClean
<1>8. UNCHANGED <<edges, proposed>> => Clean(edges', r)
  OBVIOUS
<1> QED
  BY <1>2, <1>5, <1>6, <1>7, <1>8, EdgeEffects

SoFarOrderly == crashes = 0 /\ lost = {} => Orderly

LEMMA StillOrderly ==
    ASSUME Typed, ViewsBounded, GraphsBounded, SoFarOrderly, [Next]_vars
    PROVE  SoFarOrderly'
<1> SUFFICES ASSUME crashes' = 0, lost' = {} PROVE Orderly'
  BY DEF SoFarOrderly
<1>0. Orderly /\ \A o \in Owners : ~OwnerCrashes(o)
  <2>1. lost = {}
    BY FileEffects
  <2> QED
    BY <2>1, HistoryGrows DEF Typed, SoFarOrderly
<1>1. OneWriter' /\ FoundEdges' /\ Behind'
  BY <1>0, WritersStayOne DEF Orderly
<1>2. Revoked'
  <2> SUFFICES ASSUME NEW r \in Records, file'[r].state = "owner_revoked"
               PROVE  \/ \E o \in Owners : AtEdges(o, r)'
                      \/ /\ Clean(edges', r)
                         /\ \A q \in Owners : owner'[q].pc = "write edges" => Clean(owner'[q].graph, r)
    BY DEF Revoked
  <2>1. CASE file[r].state # "owner_revoked"
    BY <2>1, NewlyRevoked
  <2>2. ASSUME NEW o \in Owners, AtEdges(o, r)
        PROVE  \/ AtEdges(o, r)'
               \/ /\ Clean(edges', r)
                  /\ \A q \in Owners : owner'[q].pc = "write edges" => Clean(owner'[q].graph, r)
    BY <1>0, <2>2, RevokerGoesOn DEF Orderly
  <2>3. CASE /\ file[r].state = "owner_revoked" /\ Clean(edges, r)
             /\ \A o \in Owners : owner[o].pc = "write edges" => Clean(owner[o].graph, r)
    BY <2>3, CleanStays
  <2> QED
    BY <1>0, <2>1, <2>2, <2>3 DEF Orderly, Revoked
<1> QED
  BY <1>1, <1>2 DEF Orderly

LEMMA SameAction ==
    ASSUME NEW a \in Actions, NEW b \in Actions, a.kind = b.kind, a.target = b.target
    PROVE  a = b
<1>1. PICK k \in Kinds : \E t \in Targets(k) : a = [kind |-> k, target |-> t]
  BY DEF Actions
<1>2. PICK l \in Kinds : \E t \in Targets(l) : b = [kind |-> l, target |-> t]
  BY DEF Actions
<1> QED
  BY <1>1, <1>2

\* Once a revocation is noted, the record has no active edge but late ones, whatever other
\* processes revoke and the loop relates at the same time, as long as none is killed, none
\* loses a change and none takes up a decision that another is applying.
THEOREM RevokedNeverHasActiveEdges == Spec => []RevokedHasNoActiveEdges
<1> DEFINE Whole == Typed /\ ViewsBounded /\ GraphsBounded /\ SoFarSingle /\ SoFarOrderly
<1>1. Init => Whole
  <2> SUFFICES ASSUME Init PROVE Whole
    OBVIOUS
  <2>1. Typed
    BY InitTyped
  <2>2. ViewsBounded
    BY DEF Init, ViewsBounded, BoundedBy, Idle, AtRest, NoFile
  <2>3. GraphsBounded
    BY DEF Init, GraphsBounded, GraphBoundedBy, Idle, NoGraph, NoEdge
  <2>4. \A o \in Owners : owner[o].pc = "idle"
    BY DEF Init, Idle
  <2>5. OneWriter /\ FoundEdges /\ Behind
    BY <2>4 DEF OneWriter, FoundEdges, Behind
  <2>6. Revoked
    BY DEF Init, Revoked, NoFile, Absent
  <2>7. SoFarSingle
    BY InitSingle DEF SoFarSingle
  <2> QED
    BY <2>1, <2>2, <2>3, <2>5, <2>6, <2>7 DEF SoFarOrderly, Orderly
<1>2. Whole /\ [Next]_vars => Whole'
  BY NextTyped, ViewsStayBounded, GraphsStayBounded, StillSingle, StillOrderly
<1>3. Whole => RevokedHasNoActiveEdges
  <2> SUFFICES ASSUME Whole, crashes = 0, ~overlapped, lost = {}, NEW a \in ledger,
                      a.kind = "revoke", file[a.target].state = "owner_revoked"
               PROVE  \A e \in ActiveAt(edges, a.target) : edges[e].late
    BY DEF RevokedHasNoActiveEdges
  <2>1. a \in Actions /\ a.target \in Records
    BY ActionKinds DEF Typed, TypeOK, RecordKinds
  <2>2. ASSUME NEW o \in Owners, AtEdges(o, a.target) PROVE FALSE
    <3>1. owner[o].action \in Actions
      BY <2>2 DEF AtEdges, Typed, OwnersFit, OwnerFits
    <3>2. owner[o].action = a
      BY <2>1, <2>2, <3>1, SameAction DEF AtEdges
    <3> QED
      BY <3>2 DEF SoFarSingle, OneByOne, Unnoted
  <2>3. Clean(edges, a.target)
    BY <2>1, <2>2 DEF SoFarOrderly, Orderly, Revoked
  <2> QED
    BY <2>3 DEF Clean
<1> HIDE DEF Whole
<1>4. QED
  BY <1>1, <1>2, <1>3, PTL DEF Spec
=============================================================================
