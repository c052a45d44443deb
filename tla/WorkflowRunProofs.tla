-------------------------- MODULE WorkflowRunProofs --------------------------
(***************************************************************************)
(* Theorems about WorkflowRun: types, the question a waiting run has, what *)
(* it takes to repeat an effect, and that branches run as selected.        *)
(***************************************************************************)
EXTENDS WorkflowRun, FiniteSetTheorems, SequenceTheorems, TLAPS

LEMMA AppendToOne ==
    ASSUME NEW S, NEW a \in S, NEW b \in S
    PROVE  Append(<<a>>, b) = <<a, b>>
<1> DEFINE s == Append(<<a>>, b)
           t == <<a, b>>
<1>1. <<a>> \in Seq(S) /\ Len(<<a>>) = 1 /\ <<a>>[1] = a
  OBVIOUS
<1>2. s \in Seq(S) /\ Len(s) = 2
  BY <1>1
<1>3. s[1] = a /\ s[2] = b
  BY <1>1
<1>4. t \in Seq(S) /\ Len(t) = 2 /\ t[1] = a /\ t[2] = b
  OBVIOUS
<1> HIDE DEF s, t
<1>5. \A i \in 1..Len(s) : s[i] = t[i]
  BY <1>2, <1>3, <1>4
<1>6. s = t
  BY <1>2, <1>4, <1>5, SeqEqual
<1> QED
  BY <1>6 DEF s, t

-----------------------------------------------------------------------------
(* The library.                                                            *)

LEMMA OrderFacts ==
    ASSUME NEW name \in DOMAIN Library
    PROVE  /\ Order[name] \in Seq(Range(Library[name]))
           /\ Len(Order[name]) \in Nat
           /\ \A i \in 1..Len(Order[name]) : Order[name][i] \in Range(Library[name])
           /\ \A i, j \in 1..Len(Order[name]) : Order[name][i].id = Order[name][j].id => i = j
<1>1. Order[name] \in Seq(Range(Library[name]))
  BY OrderAssumption
<1>2. DOMAIN Order[name] = 1..Len(Order[name])
  BY <1>1
<1> QED
  BY <1>1, <1>2, OrderAssumption

LEMMA NodeFacts ==
    ASSUME NEW name \in DOMAIN Library, NEW n \in Range(Library[name])
    PROVE  /\ n \in Nodes
           /\ n.id \in Ids(name)
           /\ n.id \in STRING
           /\ <<n.id>> \in Paths
           /\ n.type = "workflow_call" =>
                /\ n.calls \in DOMAIN Library
                /\ \A m \in Range(Library[n.calls]) : <<n.id, m.id>> \in Paths
<1>1. Library[name] \in Seq(Nodes)
  BY LibraryAssumption
<1>2. n \in Nodes
  BY <1>1 DEF Range
<1>3. n.id \in Ids(name)
  BY DEF Ids
<1>4. <<n.id>> \in Paths
  BY <1>3 DEF Paths
<1>5. ASSUME n.type = "workflow_call"
      PROVE  /\ n.calls \in DOMAIN Library
             /\ \A m \in Range(Library[n.calls]) : <<n.id, m.id>> \in Paths
  <2>1. n.calls \in DOMAIN Library
    BY <1>5, LibraryAssumption
  <2>2. n \in UNION {Range(Library[a]) : a \in DOMAIN Library}
    OBVIOUS
  <2>3. ASSUME NEW m \in Range(Library[n.calls])
        PROVE  <<n.id, m.id>> \in Paths
    <3>1. m.id \in Ids(n.calls)
      BY DEF Ids
    <3>2. n \in {k \in UNION {Range(Library[a]) : a \in DOMAIN Library} : k.type = "workflow_call"}
      BY <2>2, <1>5
    <3>3. <<n.id, m.id>> \in {<<n.id, id>> : id \in Ids(n.calls)}
      BY <3>1
    <3> QED
      BY <3>2, <3>3 DEF Paths
  <2> QED
    BY <2>1, <2>3
<1> QED
  BY <1>2, <1>3, <1>4, <1>5 DEF Nodes

-----------------------------------------------------------------------------
(* The frames of the transaction.                                          *)

\* A frame is that of the call its caller has come to.
CalledFrom(frame, caller) ==
    /\ caller.at \in 1..Len(Order[caller.name])
    /\ LET node == Order[caller.name][caller.at] IN
         /\ node.type = "workflow_call"
         /\ frame.name = node.calls /\ frame.prefix = <<node.id>>

\* The first frame is the run's own workflow, each other one is called by the one below
\* it; n is the number of steps.
FramesFit(frames, n) ==
    /\ Len(frames) >= 1
    /\ frames[1].name = workflow /\ frames[1].prefix = <<>>
    /\ \A d \in 2..Len(frames) :
        CalledFrom(frames[d], frames[d - 1]) /\ frames[d].step \in 1..n

LEMMA PastFacts ==
    ASSUME NEW frame \in Frame, NEW done \in SUBSET STRING, NEW skipped \in SUBSET STRING
    PROVE  /\ Past(frame, done, skipped) \in Frame
           /\ Past(frame, done, skipped).name = frame.name
           /\ Past(frame, done, skipped).prefix = frame.prefix
           /\ Past(frame, done, skipped).step = frame.step
           /\ Past(frame, done, skipped).at = frame.at + 1
<1>1. frame.at + 1 \in Nat \ {0}
  BY DEF Frame
<1>2. frame.outputs \cup done \in SUBSET STRING /\ frame.skipped \cup skipped \in SUBSET STRING
  BY DEF Frame
<1> QED
  BY <1>1, <1>2 DEF Past, Frame

\* The frames after the last one has moved past its node ...
Moved(frames, done, skipped) ==
    [frames EXCEPT ![Len(frames)] = Past(frames[Len(frames)], done, skipped)]

\* ... and after it has returned to its caller.
Popped(frames, done) ==
    Append(SubSeq(frames, 1, Len(frames) - 2), Past(frames[Len(frames) - 1], done, {}))

LEMMA MovedFramesFit ==
    ASSUME NEW frames \in Seq(Frame), NEW n \in Nat, NEW m \in Nat, n <= m, FramesFit(frames, n),
           NEW done \in SUBSET STRING, NEW skipped \in SUBSET STRING
    PROVE  /\ Moved(frames, done, skipped) \in Seq(Frame)
           /\ Len(Moved(frames, done, skipped)) = Len(frames)
           /\ FramesFit(Moved(frames, done, skipped), m)
<1> DEFINE k == Len(frames)
           top == Past(frames[k], done, skipped)
           moved == Moved(frames, done, skipped)
<1>1. k \in Nat /\ k >= 1 /\ DOMAIN frames = 1..k
  BY DEF FramesFit
<1>2. frames[k] \in Frame
  BY <1>1
<1>3. top \in Frame /\ top.name = frames[k].name /\ top.prefix = frames[k].prefix /\ top.step = frames[k].step
  BY <1>2, PastFacts
<1> HIDE DEF top
<1>4. moved = [frames EXCEPT ![k] = top]
  BY DEF top, Moved
<1> HIDE DEF moved
<1>5. moved \in Seq(Frame) /\ Len(moved) = k
  BY <1>1, <1>3, <1>4
<1>6. \A d \in 1..k : moved[d] = IF d = k THEN top ELSE frames[d]
  BY <1>1, <1>4
<1>9. k = Len(frames)
  OBVIOUS
<1> HIDE DEF k
<1>7. moved[1].name = workflow /\ moved[1].prefix = <<>>
  BY <1>1, <1>3, <1>6 DEF FramesFit
<1>8. ASSUME NEW d \in 2..k
      PROVE  CalledFrom(moved[d], moved[d - 1]) /\ moved[d].step \in 1..m
  <2>1. moved[d - 1] = frames[d - 1]
    BY <1>1, <1>6
  <2>2. moved[d].name = frames[d].name /\ moved[d].prefix = frames[d].prefix /\ moved[d].step = frames[d].step
    BY <1>1, <1>3, <1>6
  <2>3. CalledFrom(frames[d], frames[d - 1]) /\ frames[d].step \in 1..n
    BY <1>9 DEF FramesFit
  <2> QED
    BY <2>1, <2>2, <2>3 DEF CalledFrom
<1>10. FramesFit(moved, m)
  BY <1>1, <1>5, <1>7, <1>8 DEF FramesFit
<1> QED
  BY <1>5, <1>9, <1>10 DEF moved

LEMMA PushedFramesFit ==
    ASSUME NEW frames \in Seq(Frame), NEW n \in Nat, NEW m \in Nat, n <= m, FramesFit(frames, n),
           NEW frame \in Frame, CalledFrom(frame, frames[Len(frames)]), frame.step \in 1..m
    PROVE  Append(frames, frame) \in Seq(Frame) /\ FramesFit(Append(frames, frame), m)
<1> DEFINE k == Len(frames)
           pushed == Append(frames, frame)
<1>1. k \in Nat /\ k >= 1
  BY DEF FramesFit
<1>2. pushed \in Seq(Frame) /\ Len(pushed) = k + 1 /\ pushed[k + 1] = frame
  OBVIOUS
<1>3. \A d \in 1..k : pushed[d] = frames[d]
  OBVIOUS
<1> HIDE DEF pushed
<1>4. pushed[1].name = workflow /\ pushed[1].prefix = <<>>
  BY <1>1, <1>3 DEF FramesFit
<1>5. ASSUME NEW d \in 2..(k + 1)
      PROVE  CalledFrom(pushed[d], pushed[d - 1]) /\ pushed[d].step \in 1..m
  <2>1. CASE d = k + 1
    BY <2>1, <1>1, <1>2, <1>3
  <2>2. CASE d # k + 1
    <3>1. d \in 2..k /\ d \in 1..k /\ d - 1 \in 1..k
      BY <2>2, <1>1
    <3>2. pushed[d] = frames[d] /\ pushed[d - 1] = frames[d - 1]
      BY <3>1, <1>3
    <3> QED
      BY <3>1, <3>2 DEF FramesFit
  <2> QED
    BY <2>1, <2>2
<1> QED
  BY <1>1, <1>2, <1>4, <1>5 DEF FramesFit, pushed

LEMMA PoppedFramesFit ==
    ASSUME NEW frames \in Seq(Frame), NEW n \in Nat, NEW m \in Nat, n <= m, FramesFit(frames, n),
           Len(frames) > 1, NEW done \in SUBSET STRING
    PROVE  /\ Popped(frames, done) \in Seq(Frame)
           /\ Len(Popped(frames, done)) = Len(frames) - 1
           /\ FramesFit(Popped(frames, done), m)
<1> DEFINE k == Len(frames) - 1
           top == Past(frames[k], done, {})
           popped == Popped(frames, done)
<1>1. k \in Nat /\ k >= 1 /\ DOMAIN frames = 1..(k + 1)
  OBVIOUS
<1>2. frames[k] \in Frame
  BY <1>1
<1>3. top \in Frame /\ top.name = frames[k].name /\ top.prefix = frames[k].prefix /\ top.step = frames[k].step
  BY <1>2, PastFacts
<1> HIDE DEF top
<1>4. popped = Append(SubSeq(frames, 1, k - 1), top)
  <2>1. Len(frames) - 2 = k - 1
    OBVIOUS
  <2> QED
    BY <2>1 DEF top, Popped
<1> HIDE DEF popped
<1>5. SubSeq(frames, 1, k - 1) \in Seq(Frame) /\ Len(SubSeq(frames, 1, k - 1)) = k - 1
      /\ \A d \in 1..(k - 1) : SubSeq(frames, 1, k - 1)[d] = frames[d]
  BY <1>1
<1>6. popped \in Seq(Frame) /\ Len(popped) = k /\ popped[k] = top
  BY <1>1, <1>3, <1>4, <1>5
<1>7. \A d \in 1..k : popped[d] = IF d = k THEN top ELSE frames[d]
  <2> DEFINE kept == SubSeq(frames, 1, k - 1)
  <2>1. popped = Append(kept, top) /\ kept \in Seq(Frame) /\ Len(kept) = k - 1
        /\ \A d \in 1..(k - 1) : kept[d] = frames[d]
    BY <1>4, <1>5
  <2> HIDE DEF kept
  <2>2. \A d \in 1..(k - 1) : popped[d] = kept[d]
    BY <2>1, <1>1, <1>3
  <2> HIDE DEF k
  <2>3. \A d \in 1..k : d # k => d \in 1..(k - 1)
    BY <1>1
  <2> QED
    BY <1>6, <2>1, <2>2, <2>3
<1> HIDE DEF k
<1>8. popped[1].name = workflow /\ popped[1].prefix = <<>>
  BY <1>1, <1>3, <1>7 DEF FramesFit
<1>9. ASSUME NEW d \in 2..k
      PROVE  CalledFrom(popped[d], popped[d - 1]) /\ popped[d].step \in 1..m
  <2>1. popped[d - 1] = frames[d - 1]
    BY <1>1, <1>7
  <2>2. popped[d].name = frames[d].name /\ popped[d].prefix = frames[d].prefix /\ popped[d].step = frames[d].step
    BY <1>1, <1>3, <1>7
  <2>3. d \in 2..Len(frames)
    BY <1>1 DEF k
  <2>4. CalledFrom(frames[d], frames[d - 1]) /\ frames[d].step \in 1..n
    BY <2>3 DEF FramesFit
  <2>5. CalledFrom(popped[d], popped[d - 1])
    BY <2>1, <2>2, <2>4, Zenon DEF CalledFrom
  <2>6. \A i \in 1..n : i \in 1..m
    OBVIOUS
  <2>7. popped[d].step \in 1..m
    BY <2>2, <2>4, <2>6, Zenon
  <2> QED
    BY <2>5, <2>7
<1>10. Len(popped) = Len(frames) - 1
  BY <1>6 DEF k
<1>11. FramesFit(popped, m)
  BY <1>1, <1>6, <1>8, <1>9 DEF FramesFit
<1> QED
  BY <1>6, <1>10, <1>11 DEF popped

-----------------------------------------------------------------------------
(* The invariant behind the types.                                         *)

RequestsFit(aRequests, n) == \A r \in 1..Len(aRequests) : aRequests[r].step \in 1..n

\* The transaction has frames that fit and never has fewer rows than the database.
WorkFits ==
    \/ work = NoWork
    \/ /\ work.owner \in Resumers
       /\ FramesFit(work.frames, Len(work.steps))
       /\ RequestsFit(work.requests, Len(work.steps))
       /\ Len(steps) <= Len(work.steps) /\ Len(requests) <= Len(work.requests)

\* What a process has chosen is there.
ProcessesFit ==
    \A p \in Resumers \cup Bots :
        /\ process[p].pc \in {"answer", "cancel"} => process[p].chosen \in 1..Len(requests)
        /\ process[p].pc = "rewind" => process[p].chosen \in 1..Len(steps)

\* A run that has not started has no rows.
AbsentIsEmpty == status = "absent" => steps = <<>> /\ requests = <<>>

Typed == TypeOK /\ WorkFits /\ ProcessesFit /\ AbsentIsEmpty

Working == work # NoWork

LEMMA WorkingFacts ==
    ASSUME TypeOK, WorkFits, Working
    PROVE  /\ work.owner \in Resumers
           /\ FramesFit(work.frames, Len(work.steps))
           /\ RequestsFit(work.requests, Len(work.steps))
           /\ Len(steps) <= Len(work.steps) /\ Len(requests) <= Len(work.requests)
           /\ work.steps \in Seq(Step) /\ work.requests \in Seq(Request)
           /\ work.frames \in Seq(Frame)
           /\ Len(work.steps) \in Nat /\ Len(work.requests) \in Nat
           /\ Depth \in Nat \ {0} /\ DOMAIN work.frames = 1..Depth
           /\ Top \in Frame /\ Top.name \in DOMAIN Library /\ Top.at \in Nat \ {0}
           /\ Top.outputs \in SUBSET STRING /\ Top.skipped \in SUBSET STRING
<1>1. work.steps \in Seq(Step) /\ work.requests \in Seq(Request) /\ work.frames \in Seq(Frame)
  BY DEF TypeOK
<1>2. /\ work.owner \in Resumers
      /\ FramesFit(work.frames, Len(work.steps))
      /\ RequestsFit(work.requests, Len(work.steps))
      /\ Len(steps) <= Len(work.steps) /\ Len(requests) <= Len(work.requests)
  BY DEF WorkFits, Working
<1>3. Len(work.frames) >= 1
  BY <1>2 DEF FramesFit
<1>4. Depth \in Nat \ {0} /\ DOMAIN work.frames = 1..Depth
  BY <1>1, <1>3 DEF Depth
<1>5. Top \in Frame
  BY <1>1, <1>4 DEF Top
<1>6. Top.name \in DOMAIN Library /\ Top.at \in Nat \ {0} /\ Top.outputs \in SUBSET STRING
      /\ Top.skipped \in SUBSET STRING
  BY <1>5 DEF Frame
<1>7. Len(work.steps) \in Nat /\ Len(work.requests) \in Nat
  BY <1>1
<1> QED
  BY <1>1, <1>2, <1>4, <1>5, <1>6, <1>7

LEMMA OwnersWork ==
    ASSUME NEW p \in Resumers, work.owner = p
    PROVE  Working
BY ProcessAssumption DEF Working, NoWork

\* The node that the transaction has come to, and its path.
LEMMA HereFacts ==
    ASSUME TypeOK, WorkFits, Working, ~AtEnd
    PROVE  /\ Top.at \in 1..Len(Order[Top.name])
           /\ Here \in Range(Library[Top.name])
           /\ Here \in Nodes
           /\ Here.id \in STRING
           /\ Path \in Paths
           /\ Depth = 1 => Top.name = workflow /\ Path = <<Here.id>>
           /\ Depth > 1 =>
                LET caller == work.frames[Depth - 1]
                    call == Order[caller.name][caller.at] IN
                /\ caller \in Frame
                /\ CalledFrom(Top, caller)
                /\ call \in Range(Library[caller.name]) /\ call.type = "workflow_call"
                /\ Path = <<call.id, Here.id>>
                /\ Top.step \in 1..Len(work.steps)
<1>1. /\ FramesFit(work.frames, Len(work.steps)) /\ work.frames \in Seq(Frame)
      /\ Depth \in Nat \ {0} /\ Top \in Frame /\ Top.name \in DOMAIN Library /\ Top.at \in Nat \ {0}
  BY WorkingFacts
<1>2. Top.at \in 1..Len(Order[Top.name])
  BY <1>1, OrderFacts DEF AtEnd
<1>3. Here \in Range(Library[Top.name])
  BY <1>1, <1>2, OrderFacts DEF Here
<1>4. Here \in Nodes /\ Here.id \in STRING /\ <<Here.id>> \in Paths
  BY <1>1, <1>3, NodeFacts
<1>5. ASSUME Depth = 1
      PROVE  Top.name = workflow /\ Path = <<Here.id>>
  <2>1. Top.name = workflow /\ Top.prefix = <<>>
    BY <1>5, <1>1 DEF FramesFit, Top
  <2>2. Append(<<>>, Here.id) = <<Here.id>>
    BY <1>4
  <2> QED
    BY <2>1, <2>2 DEF Path
<1>6. ASSUME Depth > 1
      PROVE  LET caller == work.frames[Depth - 1]
                 call == Order[caller.name][caller.at] IN
             /\ caller \in Frame
             /\ CalledFrom(Top, caller)
             /\ call \in Range(Library[caller.name]) /\ call.type = "workflow_call"
             /\ Path = <<call.id, Here.id>> /\ Path \in Paths
             /\ Top.step \in 1..Len(work.steps)
  <2> DEFINE caller == work.frames[Depth - 1]
             call == Order[caller.name][caller.at]
  <2>1. caller \in Frame
    BY <1>1, <1>6 DEF Depth
  <2>2. CalledFrom(Top, caller) /\ Top.step \in 1..Len(work.steps)
    BY <1>1, <1>6 DEF FramesFit, Top, Depth
  <2> HIDE DEF caller
  <2>3. caller.name \in DOMAIN Library
    BY <2>1 DEF Frame
  <2>4. call \in Range(Library[caller.name])
    BY <2>2, <2>3, OrderFacts DEF CalledFrom
  <2>5. call.type = "workflow_call" /\ Top.name = call.calls /\ Top.prefix = <<call.id>>
    BY <2>2 DEF CalledFrom
  <2> HIDE DEF call
  <2>6. call.id \in STRING /\ <<call.id, Here.id>> \in Paths
    BY <1>3, <2>3, <2>4, <2>5, NodeFacts
  <2>7. Path = <<call.id, Here.id>>
    <3>1. Append(<<call.id>>, Here.id) = <<call.id, Here.id>>
      BY <2>6, <1>4, AppendToOne
    <3> QED
      BY <2>5, <3>1 DEF Path
  <2> QED
    BY <2>1, <2>2, <2>4, <2>5, <2>6, <2>7 DEF caller, call
<1>7. Path \in Paths
  <2>1. CASE Depth = 1
    BY <2>1, <1>4, <1>5
  <2>2. CASE Depth # 1
    <3>1. Depth > 1
      BY <2>2, <1>1
    <3> QED
      BY <3>1, <1>6
  <2> QED
    BY <2>1, <2>2
<1> QED
  BY <1>2, <1>3, <1>4, <1>5, <1>6, <1>7

-----------------------------------------------------------------------------
(* The four things that a step does with the transaction.                  *)

CountersTyped ==
    /\ executed \in [Paths -> Nat]
    /\ late \in Nat /\ rewinds \in Nat
    /\ commands \in 0..MaxCommands /\ crashes \in 0..MaxCrashes

\* It goes on,
LEMMA WorksFits ==
    ASSUME Typed, Working, UNCHANGED <<workflow, committed, process>>, CountersTyped',
           NEW s \in Seq(Step), NEW q \in Seq(Request), NEW f \in Seq(Frame),
           Len(work.steps) <= Len(s), Len(work.requests) <= Len(q),
           RequestsFit(q, Len(s)), FramesFit(f, Len(s)), Works(s, q, f)
    PROVE  Typed'
<1>1. TypeOK /\ WorkFits /\ ProcessesFit
  BY DEF Typed
<1>2. /\ work.owner \in Resumers /\ Len(work.steps) \in Nat /\ Len(work.requests) \in Nat
      /\ Len(steps) <= Len(work.steps) /\ Len(requests) <= Len(work.requests)
  BY <1>1, WorkingFacts
<1>3. /\ work'.owner = work.owner /\ work'.steps = s /\ work'.requests = q /\ work'.frames = f
  BY DEF Works
<1>4. Len(steps) <= Len(s) /\ Len(requests) <= Len(q)
  <2>1. steps \in Seq(Step) /\ requests \in Seq(Request)
    BY <1>1 DEF TypeOK
  <2>2. Len(steps) \in Nat /\ Len(requests) \in Nat /\ Len(s) \in Nat /\ Len(q) \in Nat
    BY <2>1
  <2> QED
    BY <1>2, <2>2
<1>5. TypeOK'
  BY <1>1, <1>2, <1>3 DEF TypeOK, CountersTyped, committed
<1>6. FramesFit(f, Len(s))'
  BY DEF FramesFit, CalledFrom
<1>7. WorkFits'
  <2>1. work'.owner \in Resumers /\ FramesFit(work.frames, Len(work.steps))'
        /\ RequestsFit(work.requests, Len(work.steps))'
    BY <1>2, <1>3, <1>6 DEF FramesFit, CalledFrom, RequestsFit
  <2>2. Len(steps)' <= Len(work.steps)' /\ Len(requests)' <= Len(work.requests)'
    BY <1>3, <1>4 DEF committed
  <2> QED
    BY <2>1, <2>2 DEF WorkFits
<1>8. ProcessesFit'
  BY <1>1 DEF ProcessesFit, committed
<1>9. AbsentIsEmpty'
  BY DEF Typed, AbsentIsEmpty, committed
<1> QED
  BY <1>5, <1>7, <1>8, <1>9 DEF Typed

\* it is committed,
LEMMA CommitFits ==
    ASSUME Typed, UNCHANGED <<workflow, process>>, CountersTyped',
           NEW end \in {"waiting_input", "completed", "failed", "cancelled"},
           NEW s \in Seq(Step), NEW q \in Seq(Request),
           Len(steps) <= Len(s), Len(requests) <= Len(q),
           RequestsFit(q, Len(s)), Commit(end, s, q)
    PROVE  Typed'
<1>1. TypeOK /\ WorkFits /\ ProcessesFit
  BY DEF Typed
<1>2. status' = end /\ steps' = s /\ requests' = q /\ work' = NoWork
  BY DEF Commit
<1>3. steps \in Seq(Step) /\ requests \in Seq(Request) /\ Len(steps) \in Nat /\ Len(requests) \in Nat
      /\ Len(s) \in Nat /\ Len(q) \in Nat
  BY <1>1 DEF TypeOK
<1>4. \A r \in Range(q) : r.step \in 1..Len(s)
  <2>1. DOMAIN q = 1..Len(q)
    OBVIOUS
  <2> QED
    BY <2>1 DEF Range, RequestsFit
<1>5. NoWork.owner = Nobody /\ NoWork.steps \in Seq(Step) /\ NoWork.requests \in Seq(Request)
      /\ NoWork.frames \in Seq(Frame)
  BY DEF NoWork
<1>6. TypeOK'
  BY <1>1, <1>2, <1>4, <1>5 DEF TypeOK, CountersTyped
<1>7. WorkFits'
  BY <1>2 DEF WorkFits
<1>8. ProcessesFit'
  <2>1. \A k \in 1..Len(steps) : k \in 1..Len(s)
    BY <1>3
  <2>2. \A k \in 1..Len(requests) : k \in 1..Len(q)
    BY <1>3
  <2> QED
    BY <1>1, <1>2, <2>1, <2>2 DEF ProcessesFit
<1>9. AbsentIsEmpty'
  BY <1>2 DEF AbsentIsEmpty
<1> QED
  BY <1>6, <1>7, <1>8, <1>9 DEF Typed

LEMMA TopFrameFits ==
    ASSUME TypeOK, NEW outputs \in SUBSET STRING, NEW skipped \in SUBSET STRING, NEW at \in Nat \ {0},
           NEW n \in Nat
    PROVE  /\ <<TopFrame(outputs, skipped, at)>> \in Seq(Frame)
           /\ FramesFit(<<TopFrame(outputs, skipped, at)>>, n)
<1> DEFINE frame == TopFrame(outputs, skipped, at)
<1>1. workflow \in DOMAIN Library
  BY LibraryAssumption DEF TypeOK
<1>2. <<>> \in Seq(STRING)
  OBVIOUS
<1>3. frame \in Frame
  BY <1>1, <1>2 DEF TopFrame, Frame
<1>4. frame.name = workflow /\ frame.prefix = <<>>
  BY DEF TopFrame
<1> HIDE DEF frame
<1>5. <<frame>> \in Seq(Frame) /\ Len(<<frame>>) = 1 /\ <<frame>>[1] = frame
  BY <1>3
<1>6. FramesFit(<<frame>>, n)
  BY <1>4, <1>5 DEF FramesFit
<1> QED
  BY <1>5, <1>6 DEF frame

\* it is opened.
LEMMA OpenFits ==
    ASSUME Typed, ProcessesFit', UNCHANGED <<workflow, committed>>, CountersTyped',
           process' \in [Resumers \cup Bots -> [pc: {"idle", "answer", "rewind", "cancel"}, chosen: Nat,
                                                outputs: SUBSET STRING]],
           NEW p \in Resumers, NEW s \in Seq(Step), NEW q \in Seq(Request),
           Len(steps) <= Len(s), Len(requests) <= Len(q), RequestsFit(q, Len(s)),
           NEW outputs \in SUBSET STRING, NEW skipped \in SUBSET STRING, NEW at \in Nat \ {0},
           Open(p, s, q, TopFrame(outputs, skipped, at))
    PROVE  Typed'
<1> DEFINE frames == <<TopFrame(outputs, skipped, at)>>
<1>1. TypeOK /\ WorkFits /\ ProcessesFit
  BY DEF Typed
<1>6. Len(s) \in Nat
  OBVIOUS
<1>2. frames \in Seq(Frame) /\ FramesFit(frames, Len(s))
  BY <1>1, <1>6, TopFrameFits
<1>3. work'.owner = p /\ work'.steps = s /\ work'.requests = q /\ work'.frames = frames
  BY DEF Open
<1> HIDE DEF frames
<1>4. TypeOK'
  BY <1>1, <1>2, <1>3 DEF TypeOK, CountersTyped, committed
<1>5. WorkFits'
  <2>1. FramesFit(work.frames, Len(work.steps))' /\ RequestsFit(work.requests, Len(work.steps))'
    BY <1>2, <1>3 DEF FramesFit, CalledFrom, RequestsFit
  <2>2. Len(steps)' <= Len(work.steps)' /\ Len(requests)' <= Len(work.requests)'
    BY <1>3 DEF committed
  <2> QED
    BY <1>3, <2>1, <2>2 DEF WorkFits
<1>7. AbsentIsEmpty'
  BY DEF Typed, AbsentIsEmpty, committed
<1> QED
  BY <1>4, <1>5, <1>7 DEF Typed

\* or it is left alone.
LEMMA OthersFit ==
    ASSUME Typed, ProcessesFit', UNCHANGED <<workflow, steps, work>>, CountersTyped',
           Len(requests') = Len(requests), requests' \in Seq(Request),
           RequestsFit(requests', Len(steps)), Working => UNCHANGED requests,
           status' = "absent" => UNCHANGED <<status, requests>>,
           status' \in {"absent", "waiting_input", "completed", "failed", "cancelled"},
           process' \in [Resumers \cup Bots -> [pc: {"idle", "answer", "rewind", "cancel"}, chosen: Nat,
                                                outputs: SUBSET STRING]]
    PROVE  Typed'
<1>1. TypeOK /\ WorkFits /\ ProcessesFit
  BY DEF Typed
<1>2. \A r \in Range(requests') : r.step \in 1..Len(steps)
  <2>1. DOMAIN requests' = 1..Len(requests')
    OBVIOUS
  <2> QED
    BY <2>1 DEF Range, RequestsFit
<1>3. TypeOK'
  BY <1>1, <1>2 DEF TypeOK, CountersTyped
<1>4. WorkFits'
  BY <1>1 DEF WorkFits, FramesFit, CalledFrom, RequestsFit
<1>5. AbsentIsEmpty'
  BY DEF Typed, AbsentIsEmpty
<1> QED
  BY <1>3, <1>4, <1>5 DEF Typed

-----------------------------------------------------------------------------
(* The rows that a step writes.                                            *)

LEMMA StepTyped ==
    ASSUME NEW path \in Paths,
           NEW end \in {"running", "waiting_input", "completed", "failed", "skipped"},
           NEW value \in {"", "true", "false"}
    PROVE  NewStep(path, end, value) \in Step
BY DEF NewStep, Step

LEMMA StepChanged ==
    ASSUME NEW step \in Step,
           NEW end \in {"running", "waiting_input", "completed", "failed", "skipped"}
    PROVE  /\ [step EXCEPT !.status = end] \in Step
           /\ [step EXCEPT !.status = end].node = step.node
           /\ [step EXCEPT !.status = end].status = end
BY DEF Step

LEMMA FunctionIsASeq ==
    ASSUME NEW S, NEW n \in Nat, NEW f \in [1..n -> S]
    PROVE  f \in Seq(S) /\ Len(f) = n
<1>1. f \in Seq(S)
  OBVIOUS
<1>2. DOMAIN f = 1..n
  OBVIOUS
<1> QED
  BY <1>1, <1>2, LenProperties

LEMMA StepAdded ==
    ASSUME NEW s \in Seq(Step), NEW step \in Step
    PROVE  /\ Append(s, step) \in Seq(Step)
           /\ Len(Append(s, step)) = Len(s) + 1 /\ Len(s) \in Nat
           /\ Len(s) <= Len(Append(s, step))
<1>1. Append(s, step) \in Seq(Step) /\ Len(Append(s, step)) = Len(s) + 1 /\ Len(s) \in Nat
  OBVIOUS
<1> QED
  BY <1>1

\* t has the steps of s, perhaps with other statuses, and perhaps more.
Keeps(t, s, n) == \A k \in 1..n : t[k].node = s[k].node

LEMMA AppendKeeps ==
    ASSUME NEW s \in Seq(Step), NEW step \in Step
    PROVE  /\ Keeps(Append(s, step), s, Len(s)) /\ Len(s) \in Nat
           /\ Append(s, step)[Len(s) + 1] = step
BY DEF Keeps

LEMMA StatusChanged ==
    ASSUME NEW s \in Seq(Step), NEW k \in 1..Len(s),
           NEW end \in {"running", "waiting_input", "completed", "failed", "skipped"}
    PROVE  /\ [s EXCEPT ![k].status = end] \in Seq(Step)
           /\ Len([s EXCEPT ![k].status = end]) = Len(s)
           /\ Keeps([s EXCEPT ![k].status = end], s, Len(s))
<1> DEFINE old == s[k]
           new == [old EXCEPT !.status = end]
           t == [s EXCEPT ![k].status = end]
<1>1. old \in Step
  OBVIOUS
<1>2. t = [s EXCEPT ![k] = new]
  OBVIOUS
<1>3. new \in Step /\ new.node = s[k].node
  <2>1. old.node = s[k].node
    OBVIOUS
  <2> HIDE DEF old
  <2>2. new \in Step /\ new.node = old.node
    BY <1>1, StepChanged
  <2> QED
    BY <2>1, <2>2
<1> HIDE DEF old, new, t
<1>4. t \in Seq(Step) /\ Len(t) = Len(s)
  BY <1>2, <1>3
<1>5. \A i \in 1..Len(s) : t[i] = IF i = k THEN new ELSE s[i]
  BY <1>2, <1>3
<1>6. Keeps(t, s, Len(s))
  BY <1>3, <1>5 DEF Keeps
<1> QED
  BY <1>4, <1>6 DEF t

LEMMA RequestsStillFit ==
    ASSUME NEW q, NEW n \in Nat, NEW m \in Nat, n <= m, RequestsFit(q, n)
    PROVE  RequestsFit(q, m)
<1>1. \A i \in 1..n : i \in 1..m
  OBVIOUS
<1> QED
  BY <1>1, Zenon DEF RequestsFit

LEMMA RequestChanged ==
    ASSUME NEW q \in Request, NEW end \in {"pending", "answered", "cancelled"}
    PROVE  /\ [q EXCEPT !.status = end] \in Request
           /\ [q EXCEPT !.status = end].step = q.step
           /\ [q EXCEPT !.status = end].status = end
BY DEF Request

LEMMA RequestAdded ==
    ASSUME NEW q \in Seq(Request), NEW n \in Nat, RequestsFit(q, n)
    PROVE  /\ Append(q, NewRequest(n + 1)) \in Seq(Request)
           /\ Len(Append(q, NewRequest(n + 1))) = Len(q) + 1 /\ Len(q) \in Nat
           /\ Len(q) <= Len(Append(q, NewRequest(n + 1)))
           /\ RequestsFit(Append(q, NewRequest(n + 1)), n + 1)
<1> DEFINE new == NewRequest(n + 1)
           all == Append(q, new)
<1>1. new \in Request /\ new.step = n + 1 /\ n + 1 \in 1..(n + 1)
  BY DEF NewRequest, Request
<1> HIDE DEF new
<1>2. all \in Seq(Request) /\ Len(all) = Len(q) + 1 /\ Len(q) \in Nat
      /\ all[Len(q) + 1] = new /\ \A i \in 1..Len(q) : all[i] = q[i]
  BY <1>1
<1> HIDE DEF all
<1>3. RequestsFit(q, n + 1)
  BY RequestsStillFit
<1>4. \A i \in 1..Len(all) : i \in 1..Len(q) \/ i = Len(q) + 1
  BY <1>2
<1>5. RequestsFit(all, n + 1)
  BY <1>1, <1>2, <1>3, <1>4 DEF RequestsFit
<1>6. Len(q) <= Len(all)
  BY <1>2
<1> QED
  BY <1>2, <1>5, <1>6 DEF all, new

\* The node's step is written and the loop goes on.
LEMMA GoFits ==
    ASSUME Typed, Working, ~AtEnd, UNCHANGED <<workflow, committed, process>>, CountersTyped',
           NEW step \in Step, NEW q \in Seq(Request), Len(work.requests) <= Len(q),
           RequestsFit(q, Len(work.steps) + 1), NEW skipped \in SUBSET STRING,
           Go(step, q, skipped)
    PROVE  Typed'
<1> DEFINE s == Append(work.steps, step)
           f == [work.frames EXCEPT ![Depth] = Past(Top, {Here.id}, skipped)]
<1>1. TypeOK /\ WorkFits
  BY DEF Typed
<1>2. /\ work.steps \in Seq(Step) /\ Len(work.steps) \in Nat /\ work.frames \in Seq(Frame)
      /\ FramesFit(work.frames, Len(work.steps))
  BY <1>1, WorkingFacts
<1>3. {Here.id} \in SUBSET STRING
  BY <1>1, HereFacts
<1>4. s \in Seq(Step) /\ Len(s) = Len(work.steps) + 1 /\ Len(work.steps) <= Len(s) /\ Len(s) \in Nat
  BY <1>2, StepAdded
<1>5. f = Moved(work.frames, {Here.id}, skipped)
  BY DEF Depth, Top, Moved
<1>6. Works(s, q, f)
  BY DEF Go
<1> HIDE DEF s, f
<1>7. f \in Seq(Frame) /\ FramesFit(f, Len(s))
  BY <1>2, <1>3, <1>4, <1>5, MovedFramesFit
<1> QED
  BY <1>4, <1>6, <1>7, WorksFits

\* The run fails.
LEMMA FailFacts ==
    ASSUME TypeOK, WorkFits, Working, NEW more \in Seq(Step), Fail(more)
    PROVE  /\ Commit("failed", steps', work.requests)
           /\ steps' \in Seq(Step) /\ Len(work.steps) <= Len(steps') /\ Len(steps') \in Nat
           /\ Keeps(steps', work.steps, Len(work.steps))
<1> DEFINE open == {work.frames[d].step : d \in 2..Depth}
           n == Len(work.steps)
           failed == [k \in 1..n |->
                        IF k \in open THEN [work.steps[k] EXCEPT !.status = "failed"] ELSE work.steps[k]]
<1>1. work.steps \in Seq(Step) /\ n \in Nat
  BY WorkingFacts
<1>2. steps' = failed \o more /\ Commit("failed", steps', work.requests)
  BY DEF Fail, Commit
<1> HIDE DEF open
<1>3. ASSUME NEW k \in 1..n
      PROVE  failed[k] \in Step /\ failed[k].node = work.steps[k].node
  <2> DEFINE old == work.steps[k]
  <2>1. old \in Step
    BY <1>1
  <2> DEFINE new == [old EXCEPT !.status = "failed"]
  <2>2. failed[k] = IF k \in open THEN new ELSE old
    OBVIOUS
  <2>3. old = work.steps[k]
    OBVIOUS
  <2> HIDE DEF old, failed
  <2>4. new \in Step /\ new.node = old.node
    BY <2>1, StepChanged
  <2> HIDE DEF new
  <2> QED
    BY <2>1, <2>2, <2>3, <2>4
<1>4. DOMAIN failed = 1..n /\ failed = [k \in 1..n |-> failed[k]]
  OBVIOUS
<1> HIDE DEF n, failed
<1>5. failed \in [1..n -> Step]
  BY <1>3, <1>4
<1>6. failed \in Seq(Step) /\ Len(failed) = n
  BY <1>1, <1>5, FunctionIsASeq
<1>7. steps' \in Seq(Step) /\ Len(steps') = n + Len(more) /\ Len(more) \in Nat
  <2>1. failed \o more \in Seq(Step) /\ Len(failed \o more) = Len(failed) + Len(more)
        /\ Len(more) \in Nat
    BY <1>6
  <2>2. steps' = failed \o more
    BY <1>2
  <2> QED
    BY <1>6, <2>1, <2>2, Zenon
<1>10. \A k \in 1..n : steps'[k] = failed[k]
  <2>1. steps' = failed \o more
    BY <1>2
  <2> QED
    BY <1>1, <1>6, <2>1
<1>8. Len(steps') \in Nat /\ n <= Len(steps')
  BY <1>1, <1>7
<1>9. Keeps(steps', work.steps, n)
  BY <1>3, <1>10 DEF Keeps
<1> QED
  BY <1>2, <1>7, <1>8, <1>9 DEF n

LEMMA FailFits ==
    ASSUME Typed, Working, UNCHANGED <<workflow, process>>, CountersTyped',
           NEW more \in Seq(Step), Fail(more)
    PROVE  Typed'
<1>1. TypeOK /\ WorkFits
  BY DEF Typed
<1>2. /\ work.requests \in Seq(Request) /\ Len(work.steps) \in Nat
      /\ RequestsFit(work.requests, Len(work.steps))
      /\ Len(steps) <= Len(work.steps) /\ Len(requests) <= Len(work.requests)
  BY <1>1, WorkingFacts
<1> DEFINE s == steps'
<1>3. /\ Commit("failed", s, work.requests) /\ s \in Seq(Step)
      /\ Len(work.steps) <= Len(s) /\ Len(s) \in Nat
  BY <1>1, FailFacts
<1>4. Len(steps) \in Nat
  BY <1>1 DEF TypeOK
<1> HIDE DEF s
<1>5. Len(steps) <= Len(s) /\ RequestsFit(work.requests, Len(s))
  BY <1>2, <1>3, <1>4, RequestsStillFit
<1> QED
  BY <1>2, <1>3, <1>5, CommitFits

\* The frame of a call.
CallFrame ==
    [name |-> Here.calls, prefix |-> <<Here.id>>, step |-> Len(work.steps) + 1, at |-> 1,
     outputs |-> {}, skipped |-> {}]

LEMMA CallFrameFits ==
    ASSUME TypeOK, WorkFits, Working, ~AtEnd, Here.type = "workflow_call"
    PROVE  /\ CallFrame \in Frame /\ CalledFrom(CallFrame, Top)
           /\ CallFrame.step = Len(work.steps) + 1
<1>1. /\ Here \in Range(Library[Top.name]) /\ Here.id \in STRING /\ Top.at \in 1..Len(Order[Top.name])
      /\ Top.name \in DOMAIN Library /\ Len(work.steps) \in Nat
  BY HereFacts, WorkingFacts
<1>2. Here.calls \in DOMAIN Library
  BY <1>1, NodeFacts
<1>3. <<Here.id>> \in Seq(STRING)
  BY <1>1
<1>4. Len(work.steps) + 1 \in Nat /\ 1 \in Nat \ {0}
  BY <1>1
<1>5. CallFrame \in Frame
  BY <1>2, <1>3, <1>4 DEF Frame, CallFrame
<1>6. CalledFrom(CallFrame, Top) /\ CallFrame.step = Len(work.steps) + 1
  BY <1>1 DEF CalledFrom, Here, CallFrame
<1> QED
  BY <1>5, <1>6

LEMMA PathFacts ==
    ASSUME NEW path \in Paths
    PROVE  Len(path) \in {1, 2} /\ path[1] \in STRING
<1>1. CASE path \in {<<id>> : id \in UNION {Ids(name) : name \in DOMAIN Library}}
  <2>1. PICK name \in DOMAIN Library : \E id \in Ids(name) : path = <<id>>
    BY <1>1
  <2>2. PICK n \in Range(Library[name]) : path = <<n.id>>
    BY <2>1 DEF Ids
  <2> QED
    BY <2>2, NodeFacts
<1>2. CASE path \in UNION {{<<n.id, id>> : id \in Ids(n.calls)} :
                     n \in {m \in UNION {Range(Library[name]) : name \in DOMAIN Library} :
                                m.type = "workflow_call"}}
  <2>1. PICK name \in DOMAIN Library :
            \E n \in Range(Library[name]) : \E id \in Ids(n.calls) : path = <<n.id, id>>
    BY <1>2
  <2>2. PICK n \in Range(Library[name]) : \E id \in Ids(n.calls) : path = <<n.id, id>>
    BY <2>1
  <2>3. n.id \in STRING
    BY NodeFacts
  <2>4. PICK id : path = <<n.id, id>>
    BY <2>2
  <2> QED
    BY <2>3, <2>4
<1> QED
  BY <1>1, <1>2 DEF Paths

LEMMA PositionFacts ==
    ASSUME TypeOK, NEW path
    PROVE  Position(path) \in 0..Len(Order[workflow]) /\ Position(path) + 1 \in Nat \ {0}
<1>1. workflow \in DOMAIN Library
  BY LibraryAssumption DEF TypeOK
<1>2. Len(Order[workflow]) \in Nat /\ DOMAIN Order[workflow] = 1..Len(Order[workflow])
  BY <1>1, OrderFacts
<1>3. Position(path) \in 0..Len(Order[workflow])
  BY <1>2 DEF Position
<1> QED
  BY <1>2, <1>3

LEMMA NodesWithTyped ==
    ASSUME TypeOK, NEW end
    PROVE  NodesWith(end) \in SUBSET STRING
<1>1. workflow \in DOMAIN Library
  BY LibraryAssumption DEF TypeOK
<1>2. \A id \in Ids(workflow) : id \in STRING
  BY <1>1, NodeFacts DEF Ids
<1> QED
  BY <1>2 DEF NodesWith

-----------------------------------------------------------------------------
(* Types.                                                                  *)

LEMMA InitTyped ==
    ASSUME Init
    PROVE  Typed
<1>1. NoWork.owner = Nobody /\ NoWork.steps \in Seq(Step) /\ NoWork.requests \in Seq(Request)
      /\ NoWork.frames \in Seq(Frame)
  BY DEF NoWork
<1>2. Idle \in [pc: {"idle", "answer", "rewind", "cancel"}, chosen: Nat, outputs: SUBSET STRING]
      /\ Idle.pc = "idle"
  BY DEF Idle
<1> HIDE DEF NoWork, Idle
<1>3. steps \in Seq(Step) /\ requests \in Seq(Request) /\ DOMAIN requests = {}
  BY DEF Init
<1>4. \A r \in Range(requests) : r.step \in 1..Len(steps)
  BY <1>3 DEF Range
<1>5. TypeOK
  BY <1>1, <1>2, <1>3, <1>4, BoundsAssumption DEF Init, TypeOK
<1>6. WorkFits
  BY DEF Init, WorkFits
<1>7. ProcessesFit
  BY <1>2 DEF Init, ProcessesFit
<1>8. AbsentIsEmpty
  BY DEF Init, AbsentIsEmpty
<1> QED
  BY <1>5, <1>6, <1>7, <1>8 DEF Typed

LEMMA EffectCounted ==
    ASSUME TypeOK, Path \in Paths, TakesEffect, UNCHANGED bounds
    PROVE  CountersTyped'
BY DEF TypeOK, TakesEffect, CountersTyped, bounds

LEMMA NothingCounted ==
    ASSUME TypeOK, UNCHANGED <<executed, bounds>>
    PROVE  CountersTyped'
BY DEF TypeOK, CountersTyped, bounds

\* A step of the loop.
LEMMA LoopTyped ==
    ASSUME Typed, NEW p \in Resumers,
           \/ SkipNode(p) \/ RunNode(p) \/ Branch(p) \/ Ask(p) \/ AskInCall(p) \/ Call(p)
           \/ Finish(p) \/ Return(p) \/ EndWithoutFinal(p) \/ NodeFails(p) \/ GraphFails(p)
    PROVE  Typed'
<1>0. /\ work.owner = p /\ Working /\ TypeOK /\ WorkFits
      /\ work.steps \in Seq(Step) /\ work.requests \in Seq(Request) /\ work.frames \in Seq(Frame)
      /\ Len(work.steps) \in Nat /\ Len(work.requests) \in Nat
      /\ Depth \in Nat \ {0} /\ Top \in Frame
      /\ FramesFit(work.frames, Len(work.steps))
      /\ RequestsFit(work.requests, Len(work.steps))
      /\ Len(steps) <= Len(work.steps) /\ Len(requests) <= Len(work.requests)
  <2>1. TypeOK /\ WorkFits /\ work.owner = p
    BY DEF Typed, SkipNode, RunNode, Branch, Ask, AskInCall, Call, Finish, Return, EndWithoutFinal,
           NodeFails, GraphFails, AtNode, Executing
  <2>2. Working
    BY <2>1, OwnersWork
  <2> QED
    BY <2>1, <2>2, WorkingFacts
<1>1. ~AtEnd => Path \in Paths /\ Here \in Nodes /\ Here \in Range(Library[Top.name])
                /\ Here.id \in STRING /\ Top.at \in 1..Len(Order[Top.name])
  BY <1>0, HereFacts
<1>2. Len(steps) \in Nat /\ Len(requests) \in Nat
  BY <1>0 DEF TypeOK
<1>3. RequestsFit(work.requests, Len(work.steps) + 1)
  BY <1>0, RequestsStillFit
<1>4. ASSUME SkipNode(p)
      PROVE  Typed'
  <2> DEFINE s == IF \E t \in Range(work.steps) : t.node = Path /\ t.status = "skipped"
                  THEN work.steps ELSE Append(work.steps, NewStep(Path, "skipped", ""))
             f == [work.frames EXCEPT ![Depth] = Past(Top, {}, {Here.id})]
  <2>1. ~AtEnd
    BY <1>4 DEF SkipNode
  <2>2. NewStep(Path, "skipped", "") \in Step
    BY <1>1, <2>1, StepTyped
  <2>3. s \in Seq(Step) /\ Len(work.steps) <= Len(s) /\ Len(s) \in Nat
    <3> DEFINE written == Append(work.steps, NewStep(Path, "skipped", ""))
    <3>1. written \in Seq(Step) /\ Len(work.steps) <= Len(written)
      BY <1>0, <2>2, StepAdded
    <3>2. s \in {work.steps, written}
      OBVIOUS
    <3> HIDE DEF s, written
    <3> QED
      BY <1>0, <3>1, <3>2
  <2>4. Works(s, work.requests, f)
    BY <1>4 DEF SkipNode
  <2>5. f = Moved(work.frames, {}, {Here.id}) /\ {Here.id} \in SUBSET STRING /\ {} \in SUBSET STRING
    BY <1>1, <2>1 DEF Depth, Top, Moved
  <2> HIDE DEF s, f
  <2>6. f \in Seq(Frame) /\ FramesFit(f, Len(s))
    BY <1>0, <1>1, <2>1, <2>3, <2>5, MovedFramesFit
  <2>7. RequestsFit(work.requests, Len(s))
    BY <1>0, <2>3, RequestsStillFit
  <2>8. UNCHANGED <<workflow, committed, process>> /\ CountersTyped'
    BY <1>0, <1>4, NothingCounted DEF SkipNode
  <2> QED
    BY <1>0, <2>3, <2>4, <2>6, <2>7, <2>8, WorksFits
<1>5. ASSUME RunNode(p)
      PROVE  Typed'
  <2>1. ~AtEnd
    BY <1>5 DEF RunNode, AtNode
  <2>2. NewStep(Path, "completed", "") \in Step
    BY <1>1, <2>1, StepTyped
  <2>3. UNCHANGED <<workflow, committed, process>> /\ CountersTyped'
    BY <1>0, <1>1, <1>5, <2>1, EffectCounted DEF RunNode
  <2> DEFINE step == NewStep(Path, "completed", "")
  <2>4. Go(step, work.requests, {}) /\ {} \in SUBSET STRING
    BY <1>5 DEF RunNode
  <2>5. step \in Step
    BY <2>2
  <2> HIDE DEF step
  <2>6. Len(work.requests) <= Len(work.requests)
    BY <1>0
  <2> QED
    BY <1>0, <1>3, <2>1, <2>3, <2>4, <2>5, <2>6, GoFits
<1>6. ASSUME Branch(p)
      PROVE  Typed'
  <2>1. ~AtEnd
    BY <1>6 DEF Branch, AtNode
  <2>2. PICK value \in {"true", "false"} :
            Go(NewStep(Path, "completed", value), work.requests, Unselected(value))
    BY <1>6 DEF Branch
  <2>3. NewStep(Path, "completed", value) \in Step
    BY <1>1, <2>1, StepTyped
  <2>4. Unselected(value) \in SUBSET STRING
    BY <1>1, <2>1 DEF Unselected, Targets, Nodes
  <2>5. UNCHANGED <<workflow, committed, process>> /\ CountersTyped'
    BY <1>0, <1>6, NothingCounted DEF Branch
  <2> QED
    BY <1>0, <1>3, <2>1, <2>2, <2>3, <2>4, <2>5, GoFits
<1>7. ASSUME Ask(p)
      PROVE  Typed'
  <2> DEFINE s == Append(work.steps, NewStep(Path, "waiting_input", ""))
             q == Append(work.requests, NewRequest(Len(work.steps) + 1))
  <2>1. NewStep(Path, "waiting_input", "") \in Step
    BY <1>1, <1>7, StepTyped DEF Ask, AtNode
  <2>2. s \in Seq(Step) /\ Len(s) = Len(work.steps) + 1 /\ Len(steps) <= Len(s)
    <3>1. s \in Seq(Step) /\ Len(s) = Len(work.steps) + 1
      BY <1>0, <2>1, StepAdded
    <3> HIDE DEF s
    <3> QED
      BY <1>0, <1>2, <3>1
  <2>3. q \in Seq(Request) /\ RequestsFit(q, Len(work.steps) + 1) /\ Len(requests) <= Len(q)
    BY <1>0, <1>2, RequestAdded
  <2>4. Commit("waiting_input", s, q)
    BY <1>7 DEF Ask
  <2> HIDE DEF s, q
  <2>5. UNCHANGED <<workflow, process>> /\ CountersTyped'
    BY <1>0, <1>7, NothingCounted DEF Ask
  <2> QED
    BY <2>2, <2>3, <2>4, <2>5, CommitFits
<1>8. ASSUME AskInCall(p)
      PROVE  Typed'
  <2> DEFINE q == Append(work.requests, NewRequest(Len(work.steps) + 1))
  <2>1. ~AtEnd
    BY <1>8 DEF AskInCall, AtNode
  <2>2. NewStep(Path, "waiting_input", "") \in Step
    BY <1>1, <2>1, StepTyped
  <2>3. q \in Seq(Request) /\ RequestsFit(q, Len(work.steps) + 1) /\ Len(work.requests) <= Len(q)
    BY <1>0, RequestAdded
  <2> DEFINE step == NewStep(Path, "waiting_input", "")
  <2>4. Go(step, q, {}) /\ {} \in SUBSET STRING
    BY <1>8 DEF AskInCall
  <2>6. step \in Step
    BY <2>2
  <2> HIDE DEF q, step
  <2>5. UNCHANGED <<workflow, committed, process>> /\ CountersTyped'
    BY <1>0, <1>8, NothingCounted DEF AskInCall
  <2> QED
    BY <1>0, <2>1, <2>3, <2>4, <2>5, <2>6, GoFits
<1>9. ASSUME Call(p)
      PROVE  Typed'
  <2> DEFINE s == Append(work.steps, NewStep(Path, "running", ""))
             f == Append(work.frames, CallFrame)
  <2>1. ~AtEnd /\ Here.type = "workflow_call"
    BY <1>9 DEF Call, AtNode
  <2>2. NewStep(Path, "running", "") \in Step
    BY <1>1, <2>1, StepTyped
  <2>3. s \in Seq(Step) /\ Len(s) = Len(work.steps) + 1 /\ Len(work.steps) <= Len(s)
    BY <1>0, <2>2, StepAdded
  <2>4. CallFrame \in Frame /\ CalledFrom(CallFrame, Top) /\ CallFrame.step = Len(work.steps) + 1
    BY <1>0, <2>1, CallFrameFits
  <2>5. Works(s, work.requests, f)
    BY <1>9 DEF Call, CallFrame
  <2> HIDE DEF s
  <2>6. Top = work.frames[Len(work.frames)] /\ CallFrame.step \in 1..Len(s) /\ Len(s) \in Nat
    BY <1>0, <2>3, <2>4 DEF Top, Depth
  <2>7. f \in Seq(Frame) /\ FramesFit(f, Len(s))
    BY <1>0, <2>3, <2>4, <2>6, PushedFramesFit
  <2> HIDE DEF f
  <2>8. RequestsFit(work.requests, Len(s))
    BY <1>3, <2>3
  <2>9. UNCHANGED <<workflow, committed, process>> /\ CountersTyped'
    BY <1>0, <1>9, NothingCounted DEF Call
  <2> QED
    BY <1>0, <2>3, <2>5, <2>7, <2>8, <2>9, WorksFits
<1>10. ASSUME Finish(p)
       PROVE  Typed'
  <2> DEFINE s == Append(work.steps, NewStep(Path, "completed", ""))
  <2>1. NewStep(Path, "completed", "") \in Step
    BY <1>1, <1>10, StepTyped DEF Finish, AtNode
  <2>2. s \in Seq(Step) /\ Len(s) = Len(work.steps) + 1 /\ Len(steps) <= Len(s)
    <3>1. s \in Seq(Step) /\ Len(s) = Len(work.steps) + 1
      BY <1>0, <2>1, StepAdded
    <3> HIDE DEF s
    <3> QED
      BY <1>0, <1>2, <3>1
  <2>3. Commit("completed", s, work.requests)
    BY <1>10 DEF Finish
  <2> HIDE DEF s
  <2>4. UNCHANGED <<workflow, process>> /\ CountersTyped'
    BY <1>0, <1>10, NothingCounted DEF Finish
  <2> QED
    BY <1>0, <1>3, <2>2, <2>3, <2>4, CommitFits
<1>11. ASSUME Return(p)
       PROVE  Typed'
  <2> DEFINE caller == work.frames[Depth - 1]
             node == Order[caller.name][caller.at]
             done == [work.steps EXCEPT ![Top.step].status = "completed"]
             s == Append(done, NewStep(Path, "completed", ""))
             f == Append(SubSeq(work.frames, 1, Depth - 2), Past(caller, {node.id}, {}))
  <2>1. ~AtEnd /\ Depth > 1
    BY <1>11 DEF Return, AtNode
  <2>2. caller \in Frame /\ node \in Range(Library[caller.name]) /\ Top.step \in 1..Len(work.steps)
    BY <1>0, <2>1, HereFacts
  <2>3. caller.name \in DOMAIN Library
    BY <2>2 DEF Frame
  <2>4. node.id \in STRING
    BY <2>2, <2>3, NodeFacts
  <2>6. done \in Seq(Step) /\ Len(done) = Len(work.steps)
    BY <1>0, <2>2, StatusChanged
  <2>7. NewStep(Path, "completed", "") \in Step
    BY <1>1, <2>1, StepTyped
  <2>8. Works(s, work.requests, f)
    BY <1>11 DEF Return
  <2> HIDE DEF done
  <2>9. s \in Seq(Step) /\ Len(s) = Len(work.steps) + 1 /\ Len(work.steps) <= Len(s)
    BY <1>0, <2>6, <2>7, StepAdded
  <2>10. {node.id} \in SUBSET STRING
    BY <2>4
  <2> HIDE DEF node, s
  <2>11. f = Popped(work.frames, {node.id}) /\ Len(work.frames) > 1
    BY <2>1 DEF Depth, Popped
  <2> HIDE DEF f
  <2>12. Len(s) \in Nat
    BY <2>9
  <2>13. f \in Seq(Frame) /\ FramesFit(f, Len(s))
    BY <1>0, <2>9, <2>10, <2>11, <2>12, PoppedFramesFit
  <2>14. UNCHANGED <<workflow, committed, process>> /\ CountersTyped'
    BY <1>0, <1>11, NothingCounted DEF Return
  <2> QED
    BY <1>0, <1>3, <2>8, <2>9, <2>13, <2>14, WorksFits
<1>12. ASSUME EndWithoutFinal(p)
       PROVE  Typed'
  <2>1. UNCHANGED <<workflow, process>> /\ CountersTyped'
    BY <1>0, <1>12, NothingCounted DEF EndWithoutFinal
  <2> QED
    BY <1>0, <1>12, <2>1, CommitFits DEF EndWithoutFinal
<1>13. ASSUME NodeFails(p)
       PROVE  Typed'
  <2>1. <<NewStep(Path, "failed", "")>> \in Seq(Step)
    <3> DEFINE step == NewStep(Path, "failed", "")
    <3>1. step \in Step
      BY <1>1, <1>13, StepTyped DEF NodeFails, AtNode
    <3> HIDE DEF step
    <3>2. <<step>> \in Seq(Step)
      BY <3>1
    <3> QED
      BY <3>2 DEF step
  <2>2. UNCHANGED <<workflow, process, bounds>> /\ (TakesEffect \/ UNCHANGED executed)
        /\ Fail(<<NewStep(Path, "failed", "")>>)
    BY <1>13 DEF NodeFails
  <2>3. CountersTyped'
    BY <1>0, <1>1, <1>13, <2>2, EffectCounted, NothingCounted DEF NodeFails, AtNode
  <2> QED
    BY <1>0, <2>1, <2>2, <2>3, FailFits
<1>14. ASSUME GraphFails(p)
       PROVE  Typed'
  <2>1. <<>> \in Seq(Step)
    OBVIOUS
  <2>2. UNCHANGED <<workflow, process>> /\ CountersTyped' /\ Fail(<<>>)
    BY <1>0, <1>14, NothingCounted DEF GraphFails
  <2> QED
    BY <1>0, <2>1, <2>2, FailFits
<1> QED
  BY <1>4, <1>5, <1>6, <1>7, <1>8, <1>9, <1>10, <1>11, <1>12, <1>13, <1>14

ProcessesTyped ==
    process \in [Resumers \cup Bots -> [pc: {"idle", "answer", "rewind", "cancel"}, chosen: Nat,
                                        outputs: SUBSET STRING]]

\* What a process does to its own state.
LEMMA ProcessChosen ==
    ASSUME Typed, NEW p \in Resumers \cup Bots,
           NEW new \in [pc: {"idle", "answer", "rewind", "cancel"}, chosen: Nat, outputs: SUBSET STRING],
           new.pc \in {"answer", "cancel"} => new.chosen \in 1..Len(requests),
           new.pc = "rewind" => new.chosen \in 1..Len(steps),
           process' = [process EXCEPT ![p] = new],
           Len(requests') = Len(requests), steps' = steps
    PROVE  ProcessesFit' /\ ProcessesTyped'
<1>1. process \in [Resumers \cup Bots -> [pc: {"idle", "answer", "rewind", "cancel"}, chosen: Nat,
                                          outputs: SUBSET STRING]]
      /\ ProcessesFit
  BY DEF Typed, TypeOK
<1>2. \A o \in Resumers \cup Bots : process'[o] = IF o = p THEN new ELSE process[o]
  BY <1>1
<1>3. ProcessesTyped'
  BY <1>1 DEF ProcessesTyped
<1>4. ProcessesFit'
  BY <1>1, <1>2 DEF ProcessesFit
<1> QED
  BY <1>3, <1>4

LEMMA IdleTyped ==
    Idle \in [pc: {"idle", "answer", "rewind", "cancel"}, chosen: Nat, outputs: SUBSET STRING]
    /\ Idle.pc = "idle"
BY DEF Idle

LEMMA CommandCounted ==
    ASSUME TypeOK, Command, UNCHANGED <<executed, late, rewinds, crashes>>
    PROVE  CountersTyped'
<1>1. commands' = commands + 1 /\ commands < MaxCommands /\ commands \in 0..MaxCommands
  BY DEF Command, TypeOK
<1>2. commands' \in 0..MaxCommands
  BY <1>1, BoundsAssumption
<1> QED
  BY <1>2 DEF TypeOK, CountersTyped

\* Reading, opening, cancelling and being killed.
LEMMA OthersTyped ==
    ASSUME Typed,
           \/ \E p \in Resumers : \/ StartRun(p) \/ ReadQuestion(p) \/ Answer(p)
                                  \/ ReadCheckpoint(p) \/ Rewind(p) \/ Crash(p)
           \/ Cancel \/ \E b \in Bots : ReadToCancel(b) \/ CommitCancel(b)
    PROVE  Typed'
<1>1. TypeOK /\ WorkFits /\ ProcessesFit /\ AbsentIsEmpty
  BY DEF Typed
<1>2. /\ steps \in Seq(Step) /\ requests \in Seq(Request) /\ Len(steps) \in Nat
      /\ Len(requests) \in Nat /\ RequestsFit(requests, Len(steps)) /\ ProcessesTyped
  <2>1. steps \in Seq(Step) /\ requests \in Seq(Request) /\ ProcessesTyped
    BY <1>1 DEF TypeOK, ProcessesTyped
  <2>2. \A r \in Range(requests) : r.step \in 1..Len(steps)
    BY <1>1 DEF TypeOK
  <2>3. DOMAIN requests = 1..Len(requests)
    BY <2>1
  <2>4. RequestsFit(requests, Len(steps))
    BY <2>2, <2>3 DEF RequestsFit, Range
  <2> QED
    BY <2>1, <2>4
<1>3. status \in {"absent", "waiting_input", "completed", "failed", "cancelled"}
  BY <1>1 DEF TypeOK
<1>4. NodesWith("completed") \in SUBSET STRING /\ NodesWith("skipped") \in SUBSET STRING
  BY <1>1, NodesWithTyped
<1>5. \A path : Position(path) + 1 \in Nat \ {0}
  BY <1>1, PositionFacts
<1>6. UNCHANGED <<process, steps, requests>> => ProcessesFit' /\ ProcessesTyped'
  BY <1>1, <1>2 DEF ProcessesFit, ProcessesTyped
<1>7. ASSUME NEW p \in Resumers, StartRun(p)
      PROVE  Typed'
  <2>1. Open(p, <<>>, <<>>, TopFrame({}, {}, 1)) /\ status = "absent"
        /\ UNCHANGED <<workflow, committed, process, executed, bounds>>
    BY <1>7 DEF StartRun
  <2>2. steps = <<>> /\ requests = <<>>
    BY <1>1, <2>1 DEF AbsentIsEmpty
  <2>3. ProcessesFit' /\ ProcessesTyped' /\ CountersTyped' /\ UNCHANGED <<workflow, committed>>
    BY <1>1, <1>6, <2>1, NothingCounted DEF committed
  <2>4. {} \in SUBSET STRING /\ 1 \in Nat \ {0}
    OBVIOUS
  <2>5. Open(p, steps, requests, TopFrame({}, {}, 1))
    BY <2>1, <2>2
  <2>6. Len(steps) <= Len(steps) /\ Len(requests) <= Len(requests)
    BY <1>2
  <2> QED
    BY <1>2, <2>3, <2>4, <2>5, <2>6, OpenFits DEF ProcessesTyped
<1>8. ASSUME NEW p \in Resumers, ReadQuestion(p)
      PROVE  Typed'
  <2>1. PICK r \in Pending : process' = [process EXCEPT ![p] = [pc |-> "answer", chosen |-> r,
                                                               outputs |-> NodesWith("completed")]]
    BY <1>8 DEF ReadQuestion
  <2> DEFINE new == [pc |-> "answer", chosen |-> r, outputs |-> NodesWith("completed")]
  <2>2. r \in 1..Len(requests) /\ r \in Nat
    BY <1>2 DEF Pending
  <2>3. new \in [pc: {"idle", "answer", "rewind", "cancel"}, chosen: Nat, outputs: SUBSET STRING]
        /\ new.pc = "answer" /\ new.chosen \in 1..Len(requests)
    BY <1>4, <2>2
  <2>4. process' = [process EXCEPT ![p] = new] /\ p \in Resumers \cup Bots
    BY <2>1
  <2> HIDE DEF new
  <2>5. UNCHANGED <<workflow, status, steps, requests, work>> /\ CountersTyped'
    BY <1>1, <1>8, CommandCounted DEF ReadQuestion, committed
  <2>6. ProcessesFit' /\ ProcessesTyped'
    BY <2>3, <2>4, <2>5, ProcessChosen
  <2> QED
    BY <1>2, <1>3, <2>5, <2>6, OthersFit DEF ProcessesTyped
<1>9. ASSUME NEW p \in Resumers, Answer(p)
      PROVE  Typed'
  <2> DEFINE r == process[p].chosen
             k == requests[r].step
             path == steps[k].node
             s == [steps EXCEPT ![k].status = "completed"]
             q == [requests EXCEPT ![r].status = "answered"]
             outputs == process[p].outputs \cup (IF Len(path) = 1 THEN {path[1]} ELSE {})
             at == Position(path) + 1
  <2>1. /\ process[p].pc = "answer"
        /\ Open(p, s, q, TopFrame(outputs, NodesWith("skipped"), at))
        /\ process' = [process EXCEPT ![p] = Idle]
        /\ late' = IF requests[r].status = "pending" THEN late ELSE late + 1
        /\ UNCHANGED <<workflow, committed, executed, rewinds, commands, crashes>>
    BY <1>9 DEF Answer
  <2>2. r \in 1..Len(requests) /\ process[p].outputs \in SUBSET STRING
    BY <1>1, <1>2, <2>1 DEF ProcessesFit, ProcessesTyped
  <2>3. k \in 1..Len(steps) /\ requests[r] \in Request
    BY <1>2, <2>2 DEF RequestsFit
  <2> HIDE DEF r
  <2>4. steps[k] \in Step
    BY <1>2, <2>3
  <2>5. path \in Paths
    BY <2>4 DEF Step
  <2>6. s \in Seq(Step) /\ Len(s) = Len(steps)
    BY <1>2, <2>3, StatusChanged
  <2>7. q \in Seq(Request) /\ Len(q) = Len(requests) /\ RequestsFit(q, Len(steps))
    <3> DEFINE old == requests[r]
               new == [old EXCEPT !.status = "answered"]
    <3>1. new \in Request /\ new.step = requests[r].step
      BY <2>3, RequestChanged
    <3>2. q = [requests EXCEPT ![r] = new]
      OBVIOUS
    <3> HIDE DEF new, q
    <3>3. q \in Seq(Request) /\ Len(q) = Len(requests)
      BY <1>2, <2>2, <3>1, <3>2
    <3>4. \A i \in 1..Len(requests) : q[i].step = requests[i].step
      BY <1>2, <2>2, <3>1, <3>2
    <3> QED
      BY <1>2, <3>3, <3>4 DEF RequestsFit
  <2>8. outputs \in SUBSET STRING
    BY <2>2, <2>5, PathFacts
  <2> HIDE DEF k, path, s, q, outputs
  <2>9. at \in Nat \ {0}
    BY <1>5
  <2> HIDE DEF at
  <2>10. ProcessesFit' /\ ProcessesTyped'
    BY <2>1, IdleTyped, ProcessChosen DEF committed
  <2>11. CountersTyped'
    BY <1>1, <2>1 DEF CountersTyped, TypeOK
  <2>12. RequestsFit(q, Len(s)) /\ Len(steps) <= Len(s) /\ Len(requests) <= Len(q)
    BY <1>2, <2>6, <2>7
  <2>13. Open(p, s, q, TopFrame(outputs, NodesWith("skipped"), at)) /\ UNCHANGED <<workflow, committed>>
    BY <2>1
  <2> QED
    BY <1>4, <2>6, <2>7, <2>8, <2>9, <2>10, <2>11, <2>12, <2>13, OpenFits DEF ProcessesTyped
<1>10. ASSUME NEW p \in Resumers, ReadCheckpoint(p)
       PROVE  Typed'
  <2>1. PICK k \in 1..Len(steps) :
            process' = [process EXCEPT ![p] = [pc |-> "rewind", chosen |-> k,
                outputs |-> {id \in NodesWith("completed") : Position(<<id>>) <= Position(steps[k].node)}]]
    BY <1>10 DEF ReadCheckpoint
  <2> DEFINE outputs == {id \in NodesWith("completed") : Position(<<id>>) <= Position(steps[k].node)}
             new == [pc |-> "rewind", chosen |-> k, outputs |-> outputs]
  <2>2. k \in Nat /\ outputs \in SUBSET STRING
    BY <1>2, <1>4
  <2>3. process' = [process EXCEPT ![p] = new] /\ p \in Resumers \cup Bots
    BY <2>1
  <2> HIDE DEF outputs
  <2>4. new \in [pc: {"idle", "answer", "rewind", "cancel"}, chosen: Nat, outputs: SUBSET STRING]
        /\ new.pc = "rewind" /\ new.chosen \in 1..Len(steps)
    BY <2>2
  <2> HIDE DEF new
  <2>5. UNCHANGED <<workflow, status, steps, requests, work>> /\ CountersTyped'
    BY <1>1, <1>10, CommandCounted DEF ReadCheckpoint, committed
  <2>6. ProcessesFit' /\ ProcessesTyped'
    BY <2>3, <2>4, <2>5, ProcessChosen
  <2> QED
    BY <1>2, <1>3, <2>5, <2>6, OthersFit DEF ProcessesTyped
<1>11. ASSUME NEW p \in Resumers, Rewind(p)
       PROVE  Typed'
  <2> DEFINE at == Position(steps[process[p].chosen].node) + 1
             outputs == process[p].outputs
  <2>1. /\ Open(p, steps, requests, TopFrame(outputs, NodesWith("skipped"), at))
        /\ process' = [process EXCEPT ![p] = Idle]
        /\ rewinds' = rewinds + 1
        /\ UNCHANGED <<workflow, committed, executed, late, commands, crashes>>
    BY <1>11 DEF Rewind
  <2>2. at \in Nat \ {0} /\ outputs \in SUBSET STRING
    BY <1>2, <1>5 DEF ProcessesTyped
  <2> HIDE DEF at, outputs
  <2>3. ProcessesFit' /\ ProcessesTyped'
    BY <2>1, IdleTyped, ProcessChosen DEF committed
  <2>4. CountersTyped'
    BY <1>1, <2>1 DEF CountersTyped, TypeOK
  <2>5. Len(steps) <= Len(steps) /\ Len(requests) <= Len(requests)
    BY <1>2
  <2> QED
    BY <1>2, <1>4, <2>1, <2>2, <2>3, <2>4, <2>5, OpenFits DEF ProcessesTyped
<1>12. ASSUME NEW p \in Resumers, Crash(p)
       PROVE  Typed'
  <2>1. UNCHANGED <<workflow, status, steps, requests, process>> /\ work' = NoWork
        /\ UNCHANGED <<executed, late, rewinds, commands>> /\ crashes' = crashes + 1 /\ crashes < MaxCrashes
    BY <1>12 DEF Crash, committed
  <2>2. crashes' \in 0..MaxCrashes
    BY <1>1, <2>1, BoundsAssumption DEF TypeOK
  <2>3. NoWork.owner = Nobody /\ NoWork.steps \in Seq(Step) /\ NoWork.requests \in Seq(Request)
        /\ NoWork.frames \in Seq(Frame)
    BY DEF NoWork
  <2> HIDE DEF NoWork
  <2>4. TypeOK'
    BY <1>1, <2>1, <2>2, <2>3 DEF TypeOK
  <2>5. WorkFits' /\ ProcessesFit' /\ AbsentIsEmpty'
    BY <1>1, <2>1 DEF WorkFits, ProcessesFit, AbsentIsEmpty
  <2> QED
    BY <2>4, <2>5 DEF Typed
<1>13. ASSUME Cancel
       PROVE  Typed'
  <2>1. UNCHANGED <<workflow, steps, requests, work, process>> /\ status' = "cancelled" /\ CountersTyped'
    BY <1>1, <1>13, CommandCounted DEF Cancel
  <2> QED
    BY <1>2, <1>6, <2>1, OthersFit DEF ProcessesTyped
<1>14. ASSUME NEW b \in Bots, ReadToCancel(b)
       PROVE  Typed'
  <2>1. PICK r \in Pending :
            process' = [process EXCEPT ![b] = [Idle EXCEPT !.pc = "cancel", !.chosen = r]]
    BY <1>14 DEF ReadToCancel
  <2> DEFINE new == [Idle EXCEPT !.pc = "cancel", !.chosen = r]
  <2>2. r \in 1..Len(requests) /\ r \in Nat
    BY <1>2 DEF Pending
  <2>3. new \in [pc: {"idle", "answer", "rewind", "cancel"}, chosen: Nat, outputs: SUBSET STRING]
        /\ new.pc = "cancel" /\ new.chosen \in 1..Len(requests)
    BY <2>2 DEF Idle
  <2>4. process' = [process EXCEPT ![b] = new] /\ b \in Resumers \cup Bots
    BY <2>1
  <2> HIDE DEF new
  <2>5. UNCHANGED <<workflow, status, steps, requests, work>> /\ CountersTyped'
    BY <1>1, <1>14, CommandCounted DEF ReadToCancel, committed
  <2>6. ProcessesFit' /\ ProcessesTyped'
    BY <2>3, <2>4, <2>5, ProcessChosen
  <2> QED
    BY <1>2, <1>3, <2>5, <2>6, OthersFit DEF ProcessesTyped
<1>15. ASSUME NEW b \in Bots, CommitCancel(b)
       PROVE  Typed'
  <2> DEFINE r == process[b].chosen
  <2>1. /\ process[b].pc = "cancel" /\ work = NoWork /\ status' = "cancelled"
        /\ requests' = [requests EXCEPT ![r].status = "cancelled"]
        /\ process' = [process EXCEPT ![b] = Idle]
        /\ UNCHANGED <<workflow, steps, work, executed, bounds>>
    BY <1>15 DEF CommitCancel
  <2>2. r \in 1..Len(requests)
    BY <1>1, <2>1 DEF ProcessesFit
  <2> HIDE DEF r
  <2> DEFINE old == requests[r]
             new == [old EXCEPT !.status = "cancelled"]
  <2>10. old \in Request
    BY <1>2, <2>2
  <2>4. requests' = [requests EXCEPT ![r] = new]
    BY <2>1
  <2>3. new \in Request /\ new.step = requests[r].step
    <3>1. old = requests[r]
      OBVIOUS
    <3> HIDE DEF old
    <3> QED
      BY <2>10, <3>1, RequestChanged
  <2> HIDE DEF new
  <2>5. requests' \in Seq(Request) /\ Len(requests') = Len(requests)
    BY <1>2, <2>2, <2>3, <2>4
  <2>6. \A i \in 1..Len(requests) : requests'[i].step = requests[i].step
    BY <1>2, <2>2, <2>3, <2>4
  <2>7. RequestsFit(requests', Len(steps))
    BY <1>2, <2>5, <2>6 DEF RequestsFit
  <2>8. ProcessesFit' /\ ProcessesTyped'
    BY <2>1, <2>5, IdleTyped, ProcessChosen
  <2>9. CountersTyped'
    BY <1>1, <2>1, NothingCounted
  <2> QED
    BY <2>1, <2>5, <2>7, <2>8, <2>9, OthersFit DEF ProcessesTyped, Working
<1> QED
  BY <1>7, <1>8, <1>9, <1>10, <1>11, <1>12, <1>13, <1>14, <1>15

\* The types are an invariant: rows are well formed and refer to rows that exist.
LEMMA TypedAlways == Spec => []Typed
<1>1. Init => Typed
  BY InitTyped
<1>2. Typed /\ [Next]_vars => Typed'
  <2> SUFFICES ASSUME Typed, [Next]_vars
               PROVE  Typed'
    OBVIOUS
  <2>1. CASE Next
    BY <2>1, LoopTyped, OthersTyped DEF Next, ResumerStep
  <2>2. CASE UNCHANGED vars
    BY <2>2 DEF vars, committed, bounds, Typed, TypeOK, WorkFits, FramesFit, CalledFrom, RequestsFit,
                ProcessesFit, AbsentIsEmpty
  <2> QED
    BY <2>1, <2>2
<1> QED
  BY <1>1, <1>2, PTL DEF Spec

\* The state of a run is well formed: its frames are those of a chain of calls, its requests
\* belong to steps it has, and what a process read is still there when it uses it.
THEOREM TypeCorrect == Spec => []TypeOK
BY TypedAlways, PTL DEF Typed

-----------------------------------------------------------------------------
(* The question of a waiting run.                                          *)

\* A run that waits for input can be answered: whatever was answered, rewound, cancelled or
\* lost before, one of its own questions is pending.
THEOREM WaitingRunAlwaysHasQuestion == Spec => []WaitingRunHasQuestion
<1>1. Init => WaitingRunHasQuestion
  BY DEF Init, WaitingRunHasQuestion
<1>2. WaitingRunHasQuestion /\ Typed /\ [Next]_vars => WaitingRunHasQuestion'
  <2> SUFFICES ASSUME WaitingRunHasQuestion, Typed, [Next]_vars
               PROVE  WaitingRunHasQuestion'
    OBVIOUS
  <2>1. ASSUME NEW p \in Resumers, Ask(p)
        PROVE  WaitingRunHasQuestion'
    <3> DEFINE n == Len(work.steps) + 1
               r == Len(work.requests) + 1
    <3>1. /\ steps' = Append(work.steps, NewStep(Path, "waiting_input", ""))
          /\ requests' = Append(work.requests, NewRequest(n))
      BY <2>1 DEF Ask, Commit
    <3>2. TypeOK /\ WorkFits /\ Working /\ ~AtEnd /\ Depth = 1
      BY <2>1, OwnersWork DEF Ask, AtNode, Executing, Typed
    <3>3. work.steps \in Seq(Step) /\ work.requests \in Seq(Request)
          /\ Len(work.steps) \in Nat /\ Len(work.requests) \in Nat
      BY <3>2, WorkingFacts
    <3>4. Path = <<Here.id>> /\ Path \in Paths
      BY <3>2, HereFacts
    <3>5. Len(Path) = 1
      BY <3>4
    <3>6. NewStep(Path, "waiting_input", "") \in Step
          /\ NewStep(Path, "waiting_input", "").status = "waiting_input"
          /\ NewStep(Path, "waiting_input", "").node = Path
      BY <3>4, StepTyped DEF NewStep
    <3>7. NewRequest(n) \in Request /\ NewRequest(n).step = n /\ NewRequest(n).status = "pending"
      BY <3>3 DEF NewRequest, Request
    <3>8. steps'[n] = NewStep(Path, "waiting_input", "")
      <4> DEFINE new == NewStep(Path, "waiting_input", "")
      <4>1. steps' = Append(work.steps, new) /\ new \in Step
        BY <3>1, <3>6
      <4> HIDE DEF new
      <4>2. steps'[Len(work.steps) + 1] = new
        BY <3>3, <4>1
      <4> QED
        BY <4>2 DEF new
    <3>9. requests'[r] = NewRequest(n) /\ Len(requests') = r /\ r \in 1..r
      <4> DEFINE new == NewRequest(n)
      <4>1. requests' = Append(work.requests, new) /\ new \in Request
        BY <3>1, <3>7
      <4> HIDE DEF new
      <4>2. requests'[r] = new /\ Len(requests') = r
        BY <3>3, <4>1
      <4>3. r \in 1..r
        BY <3>3
      <4> QED
        BY <4>2, <4>3 DEF new
    <3>10. r \in Pending'
      BY <3>7, <3>9 DEF Pending
    <3> QED
      BY <3>5, <3>6, <3>7, <3>8, <3>9, <3>10 DEF WaitingRunHasQuestion
  <2>2. ASSUME \/ status' \in {"completed", "failed", "cancelled"}
               \/ UNCHANGED committed
        PROVE  WaitingRunHasQuestion'
    <3>1. CASE status' \in {"completed", "failed", "cancelled"}
      BY <3>1 DEF WaitingRunHasQuestion
    <3>2. CASE UNCHANGED committed
      BY <3>2 DEF WaitingRunHasQuestion, committed, Pending
    <3> QED
      BY <2>2, <3>1, <3>2
  <2>3. ASSUME NEW p \in Resumers, ResumerStep(p), ~Ask(p)
        PROVE  status' \in {"completed", "failed", "cancelled"} \/ UNCHANGED committed
    BY <2>3 DEF ResumerStep, StartRun, ReadQuestion, Answer, ReadCheckpoint, Rewind, SkipNode, RunNode,
                Branch, AskInCall, Call, Finish, Return, EndWithoutFinal, NodeFails, GraphFails,
                Fail, Commit
  <2>4. ASSUME NEW p \in Resumers, Crash(p)
        PROVE  UNCHANGED committed
    BY <2>4 DEF Crash
  <2>5. ASSUME Cancel \/ \E b \in Bots : ReadToCancel(b) \/ CommitCancel(b)
        PROVE  status' \in {"completed", "failed", "cancelled"} \/ UNCHANGED committed
    BY <2>5 DEF Cancel, ReadToCancel, CommitCancel
  <2>6. CASE UNCHANGED vars
    BY <2>2, <2>6 DEF vars
  <2> QED
    BY <2>1, <2>2, <2>3, <2>4, <2>5, <2>6 DEF Next
<1> QED
  BY <1>1, <1>2, TypedAlways, PTL DEF Spec

-----------------------------------------------------------------------------
(* What it takes to repeat an effect: the accounting.  Each node of a run  *)
(* may take effect once, and once more per rewind, crash and late answer.  *)
(* What it may still do is owed by the transaction, if the node is ahead   *)
(* of it, and by each pending question before the node.                    *)

\* A called workflow calls none: the path of a step has one name of the caller, so that deeper
\* calls could have the path of another node's.
Flat ==
    \A name \in DOMAIN Library : \A n \in Range(Library[name]) :
        n.type = "workflow_call" => \A m \in Range(Library[n.calls]) : m.type # "workflow_call"

Budget == rewinds + crashes + late

Num(b) == IF b THEN 1 ELSE 0

\* Where in the order of the run the node is, or the node that calls it.
Places(path) == {i \in 1..Len(Order[workflow]) : Order[workflow][i].id = path[1]}

\* The pending requests whose answer leads to the node.
Waits(aRequests, aSteps, path) ==
    {r \in 1..Len(aRequests) :
        /\ aRequests[r].status = "pending"
        /\ \E i \in Places(path) : Position(aSteps[aRequests[r].step].node) < i}

\* A transaction with these frames may still come to the node of the path.
Ahead(frames, path) ==
    \E i \in Places(path) :
        \/ frames[1].at < i
        \/ frames[1].at = i /\ Len(frames) = 1
        \/ /\ frames[1].at = i /\ Len(frames) > 1 /\ Len(path) = 2
           /\ \E j \in 1..Len(Order[frames[2].name]) :
                Order[frames[2].name][j].id = path[2] /\ frames[2].at <= j

\* What is owed if the transaction commits, and if it is lost.
WorkPaid ==
    Working => \A path \in Paths :
        executed[path] + Cardinality(Waits(work.requests, work.steps, path)) + Num(Ahead(work.frames, path))
            <= 1 + Budget

CommittedPaid ==
    \A path \in Paths :
        executed[path] + Cardinality(Waits(requests, steps, path)) + Num(status = "absent")
            <= 1 + Budget + Num(Working /\ ~Ahead(work.frames, path))

Paid == WorkPaid /\ CommittedPaid

LEMMA WaitsFinite ==
    ASSUME NEW q \in Seq(Request), NEW s, NEW path
    PROVE  IsFiniteSet(Waits(q, s, path)) /\ Cardinality(Waits(q, s, path)) \in Nat
<1>1. Len(q) \in Nat
  OBVIOUS
<1>2. IsFiniteSet(1..Len(q))
  BY <1>1, FS_Interval
<1>3. Waits(q, s, path) \subseteq 1..Len(q)
  BY DEF Waits
<1> QED
  BY <1>2, <1>3, FS_Subset, FS_CardinalityType

LEMMA NumFacts == \A b \in BOOLEAN : Num(b) \in {0, 1} /\ (b => Num(b) = 1) /\ (~b => Num(b) = 0)
BY DEF Num

LEMMA PlacesFacts ==
    ASSUME TypeOK, NEW path, NEW i \in Places(path)
    PROVE  i \in 1..Len(Order[workflow]) /\ i \in Nat /\ \A j \in Places(path) : j = i
<1>1. workflow \in DOMAIN Library
  BY LibraryAssumption DEF TypeOK
<1> QED
  BY <1>1, OrderFacts DEF Places

LEMMA PositionOfNode ==
    ASSUME TypeOK, NEW i \in 1..Len(Order[workflow])
    PROVE  Position(<<Order[workflow][i].id>>) = i
<1>1. workflow \in DOMAIN Library
  BY LibraryAssumption DEF TypeOK
<1>2. DOMAIN Order[workflow] = 1..Len(Order[workflow])
  BY <1>1, OrderFacts
<1>3. \A j \in DOMAIN Order[workflow] : <<Order[workflow][j].id>> = <<Order[workflow][i].id>> => j = i
  BY <1>1, <1>2, OrderFacts
<1> QED
  BY <1>2, <1>3 DEF Position

LEMMA PositionOfCall ==
    ASSUME TypeOK, NEW path, Len(path) = 2
    PROVE  Position(path) = Len(Order[workflow])
<1>1. \A a : Len(<<a>>) = 1
  OBVIOUS
<1>2. \A a : <<a>> # path
  BY <1>1
<1> QED
  BY <1>2 DEF Position

LEMMA WaitsKept ==
    ASSUME NEW q, NEW s, NEW t, NEW n, RequestsFit(q, n), Keeps(t, s, n), NEW path
    PROVE  Waits(q, t, path) = Waits(q, s, path)
BY DEF RequestsFit, Keeps, Waits

LEMMA WaitsAdded ==
    ASSUME NEW q \in Seq(Request), NEW s, NEW t, NEW n \in Nat, RequestsFit(q, n), Keeps(t, s, n),
           NEW path
    PROVE  Waits(Append(q, NewRequest(n + 1)), t, path) =
               Waits(q, s, path) \cup
               (IF \E i \in Places(path) : Position(t[n + 1].node) < i THEN {Len(q) + 1} ELSE {})
<1> DEFINE new == NewRequest(n + 1)
           all == Append(q, new)
           before == \E i \in Places(path) : Position(t[n + 1].node) < i
<1>1. new \in Request /\ new.step = n + 1 /\ new.status = "pending"
  BY DEF NewRequest, Request
<1> HIDE DEF new
<1>2. all \in Seq(Request) /\ Len(all) = Len(q) + 1 /\ Len(q) \in Nat
      /\ all[Len(q) + 1] = new /\ \A r \in 1..Len(q) : all[r] = q[r]
  BY <1>1
<1> HIDE DEF all
<1>3. \A r : r \in 1..Len(all) <=> (r \in 1..Len(q) \/ r = Len(q) + 1)
  BY <1>2
<1>4. Len(q) + 1 \notin 1..Len(q)
  BY <1>2
<1>5. \A r \in 1..Len(q) : r \in Waits(all, t, path) <=> r \in Waits(q, s, path)
  BY <1>2, <1>3 DEF RequestsFit, Keeps, Waits
<1>6. Len(q) + 1 \in Waits(all, t, path) <=> before
  BY <1>1, <1>2, <1>3 DEF Waits
<1>7. \A r \in Waits(q, s, path) : r \in 1..Len(q)
  BY DEF Waits
<1>8. \A r \in Waits(all, t, path) : r \in 1..Len(q) \/ r = Len(q) + 1
  BY <1>3 DEF Waits
<1> HIDE DEF before
<1>9. Waits(all, t, path) = Waits(q, s, path) \cup (IF before THEN {Len(q) + 1} ELSE {})
  BY <1>5, <1>6, <1>7, <1>8
<1> QED
  BY <1>9 DEF all, new, before

\* The requests when one of them is answered or cancelled.
Closed(q, r, end) == [q EXCEPT ![r].status = end]

LEMMA WaitsClosed ==
    ASSUME NEW q \in Seq(Request), NEW s, NEW t, NEW n, RequestsFit(q, n), Keeps(t, s, n),
           NEW r \in 1..Len(q), NEW end \in {"answered", "cancelled"}, NEW path
    PROVE  Waits(Closed(q, r, end), t, path) = Waits(q, s, path) \ {r}
<1> DEFINE old == q[r]
           new == [old EXCEPT !.status = end]
           all == Closed(q, r, end)
<1>1. old \in Request
  OBVIOUS
<1>2. all = [q EXCEPT ![r] = new]
  BY DEF Closed
<1>3. new.status = end /\ new.step = old.step /\ new \in Request
  <2> HIDE DEF old
  <2> QED
    BY <1>1, RequestChanged
<1> HIDE DEF new, all
<1>4. all \in Seq(Request) /\ Len(all) = Len(q) /\ all[r] = new
      /\ \A o \in 1..Len(q) : o # r => all[o] = q[o]
  BY <1>2, <1>3
<1>5. \A o : o \in Waits(all, t, path) <=> (o \in Waits(q, s, path) /\ o # r)
  BY <1>3, <1>4 DEF Waits, RequestsFit, Keeps
<1> QED
  BY <1>5 DEF all

-----------------------------------------------------------------------------
(* The effects of steps on the accounting.                                 *)

LEMMA PaidNumbers ==
    ASSUME TypeOK
    PROVE  /\ Budget \in Nat
           /\ \A path \in Paths : executed[path] \in Nat
           /\ \A path : Cardinality(Waits(requests, steps, path)) \in Nat
           /\ \A path : Cardinality(Waits(work.requests, work.steps, path)) \in Nat
<1>1. requests \in Seq(Request) /\ work.requests \in Seq(Request)
  BY DEF TypeOK
<1>2. Budget \in Nat
  BY DEF TypeOK, Budget
<1>3. \A path \in Paths : executed[path] \in Nat
  BY DEF TypeOK
<1> QED
  BY <1>1, <1>2, <1>3, WaitsFinite

LEMMA GoesPaid ==
    ASSUME TypeOK, TypeOK', Paid, UNCHANGED <<workflow, committed, bounds>>, Working, Working',
           \A path \in Paths :
               Waits(work'.requests, work'.steps, path) = Waits(work.requests, work.steps, path),
           \A path \in Paths : Ahead(work'.frames, path) => Ahead(work.frames, path),
           \A path \in Paths :
               \/ executed'[path] = executed[path]
               \/ /\ executed'[path] = executed[path] + 1
                  /\ Ahead(work.frames, path) /\ ~Ahead(work'.frames, path)
    PROVE  Paid'
<1>1. Budget' = Budget /\ Budget \in Nat
  BY PaidNumbers DEF Budget, bounds
<1>2. ASSUME NEW path \in Paths
      PROVE  /\ executed'[path] + Cardinality(Waits(work'.requests, work'.steps, path))
                + Num(Ahead(work'.frames, path)) <= 1 + Budget
             /\ executed'[path] + Cardinality(Waits(requests, steps, path)) + Num(status = "absent")
                <= 1 + Budget + Num(~Ahead(work'.frames, path))
  <2> DEFINE w == Cardinality(Waits(work.requests, work.steps, path))
             c == Cardinality(Waits(requests, steps, path))
             a == Num(status = "absent")
             old == Num(Ahead(work.frames, path))
             new == Num(Ahead(work'.frames, path))
             notOld == Num(~Ahead(work.frames, path))
             notNew == Num(~Ahead(work'.frames, path))
  <2>1. w \in Nat /\ c \in Nat /\ executed[path] \in Nat
    BY PaidNumbers
  <2>2. executed[path] + w + old <= 1 + Budget /\ executed[path] + c + a <= 1 + Budget + notOld
    BY DEF Paid, WorkPaid, CommittedPaid
  <2>3. a \in {0, 1} /\ old \in {0, 1} /\ new \in {0, 1} /\ notOld = 1 - old /\ notNew = 1 - new
    BY DEF Num
  <2>4. new <= old
    BY DEF Num
  <2>5. executed'[path] = executed[path] \/ (executed'[path] = executed[path] + 1 /\ old = 1 /\ new = 0)
    BY DEF Num
  <2>6. Cardinality(Waits(work'.requests, work'.steps, path)) = w
    OBVIOUS
  <2> HIDE DEF w, c, a, old, new, notOld, notNew
  <2>7. executed'[path] + w + new <= 1 + Budget /\ executed'[path] + c + a <= 1 + Budget + notNew
    BY <1>1, <2>1, <2>2, <2>3, <2>4, <2>5
  <2> QED
    BY <2>6, <2>7 DEF w, c, a, old, new, notOld, notNew
<1>3. \A path : /\ Waits(work.requests, work.steps, path)' = Waits(work'.requests, work'.steps, path)
                /\ Waits(requests, steps, path)' = Waits(requests, steps, path)
                /\ Ahead(work.frames, path)' = Ahead(work'.frames, path)
  BY SMTT(30), ZenonT(60) DEF Waits, Places, Position, Ahead, committed
<1>4. WorkPaid'
  BY <1>1, <1>2, <1>3 DEF WorkPaid
<1>5. CommittedPaid'
  BY <1>1, <1>2, <1>3 DEF CommittedPaid, committed
<1> QED
  BY <1>4, <1>5 DEF Paid

\* The transaction commits.
LEMMA EndsPaid ==
    ASSUME TypeOK, TypeOK', Paid, UNCHANGED <<workflow, bounds>>, Working, work' = NoWork,
           status' # "absent",
           \A path \in Paths :
               executed'[path] + Cardinality(Waits(requests', steps', path))
                   <= executed[path] + Cardinality(Waits(work.requests, work.steps, path))
                      + Num(Ahead(work.frames, path))
    PROVE  Paid'
<1>1. Budget' = Budget /\ Budget \in Nat
  BY PaidNumbers DEF Budget, bounds
<1>2. \A path : Waits(requests, steps, path)' = Waits(requests', steps', path)
  BY DEF Waits, Places, Position
<1>3. ASSUME NEW path \in Paths
      PROVE  executed'[path] + Cardinality(Waits(requests', steps', path)) <= 1 + Budget
  <2> DEFINE w == Cardinality(Waits(work.requests, work.steps, path))
             c == Cardinality(Waits(requests', steps', path))
             a == Num(Ahead(work.frames, path))
  <2>1. w \in Nat /\ executed[path] \in Nat
    BY PaidNumbers
  <2>2. requests' \in Seq(Request) /\ executed'[path] \in Nat
    BY DEF TypeOK
  <2>3. c \in Nat
    BY <2>2, WaitsFinite
  <2>4. a \in {0, 1}
    BY DEF Num
  <2>5. executed[path] + w + a <= 1 + Budget
    BY DEF Paid, WorkPaid
  <2>6. executed'[path] + c <= executed[path] + w + a
    OBVIOUS
  <2> HIDE DEF w, c, a
  <2>7. executed'[path] + c <= 1 + Budget
    BY <1>1, <2>1, <2>2, <2>3, <2>4, <2>5, <2>6
  <2> QED
    BY <2>7 DEF c
<1>4. WorkPaid'
  BY DEF WorkPaid, Working
<1>5. ASSUME NEW path \in Paths
      PROVE  executed'[path] + Cardinality(Waits(requests, steps, path)') + Num(status' = "absent")
                <= 1 + Budget' + Num(Working' /\ ~Ahead(work.frames, path)')
  <2> DEFINE c == Cardinality(Waits(requests', steps', path))
  <2>1. executed'[path] + c <= 1 + Budget
    BY <1>3
  <2>2. requests' \in Seq(Request) /\ executed'[path] \in Nat
    BY DEF TypeOK
  <2>3. c \in Nat
    BY <2>2, WaitsFinite
  <2>4. Num(status' = "absent") = 0 /\ Num(Working' /\ ~Ahead(work.frames, path)') = 0
    BY DEF Num, Working
  <2> HIDE DEF c
  <2>5. executed'[path] + c + 0 <= 1 + Budget + 0
    BY <1>1, <2>1, <2>2, <2>3
  <2> QED
    BY <1>1, <1>2, <2>4, <2>5 DEF c
<1>6. CommittedPaid'
  BY <1>5 DEF CommittedPaid
<1> QED
  BY <1>4, <1>6 DEF Paid

\* It is opened, at a node that was waited for, or after a rewind or for a late answer.
LEMMA OpensPaid ==
    ASSUME TypeOK, TypeOK', Paid, UNCHANGED <<workflow, committed, executed>>, ~Working, Working',
           NEW more \in Nat, Budget' = Budget + more,
           \A path \in Paths :
               Cardinality(Waits(work'.requests, work'.steps, path)) + Num(Ahead(work'.frames, path))
                   <= Cardinality(Waits(requests, steps, path)) + Num(status = "absent") + more
    PROVE  Paid'
<1>1. Budget \in Nat
  BY PaidNumbers
<1>2. \A path : /\ Waits(work.requests, work.steps, path)' = Waits(work'.requests, work'.steps, path)
                /\ Waits(requests, steps, path)' = Waits(requests, steps, path)
                /\ Ahead(work.frames, path)' = Ahead(work'.frames, path)
  BY SMTT(30), ZenonT(60) DEF Waits, Places, Position, Ahead, committed
<1>3. ASSUME NEW path \in Paths
      PROVE  /\ executed[path] + Cardinality(Waits(work'.requests, work'.steps, path))
                + Num(Ahead(work'.frames, path)) <= 1 + Budget'
             /\ executed[path] + Cardinality(Waits(requests, steps, path)) + Num(status = "absent")
                <= 1 + Budget' + Num(~Ahead(work'.frames, path))
  <2> DEFINE w == Cardinality(Waits(work'.requests, work'.steps, path))
             c == Cardinality(Waits(requests, steps, path))
             n == Num(status = "absent")
             a == Num(Ahead(work'.frames, path))
             b == Num(~Ahead(work'.frames, path))
  <2>1. c \in Nat /\ executed[path] \in Nat
    BY PaidNumbers
  <2>2. work'.requests \in Seq(Request)
    BY DEF TypeOK
  <2>3. w \in Nat
    BY <2>2, WaitsFinite
  <2>4. a \in {0, 1} /\ n \in {0, 1} /\ b \in {0, 1}
    BY DEF Num
  <2>5. executed[path] + c + n <= 1 + Budget
    <3>1. Num(Working /\ ~Ahead(work.frames, path)) = 0
      BY DEF Num
    <3>2. executed[path] + c + n <= 1 + Budget + Num(Working /\ ~Ahead(work.frames, path))
      BY DEF Paid, CommittedPaid
    <3> HIDE DEF c, n
    <3> QED
      BY <1>1, <2>1, <2>4, <3>1, <3>2
  <2>6. w + a <= c + n + more
    OBVIOUS
  <2> HIDE DEF w, c, a, b, n
  <2>7. executed[path] + w + a <= 1 + Budget' /\ executed[path] + c + n <= 1 + Budget' + b
    BY <1>1, <2>1, <2>3, <2>4, <2>5, <2>6
  <2> QED
    BY <2>7 DEF w, c, a, b, n
<1>4. WorkPaid'
  BY <1>2, <1>3 DEF WorkPaid
<1>5. CommittedPaid'
  BY <1>2, <1>3 DEF CommittedPaid, committed
<1> QED
  BY <1>4, <1>5 DEF Paid

\* It is lost.
LEMMA LostPaid ==
    ASSUME TypeOK, TypeOK', Paid, UNCHANGED <<workflow, committed, executed>>, work' = NoWork,
           Budget' = Budget + 1
    PROVE  Paid'
<1>1. Budget \in Nat
  BY PaidNumbers
<1>2. \A path : Waits(requests, steps, path)' = Waits(requests, steps, path)
  BY DEF Waits, Places, Position, committed
<1>3. ASSUME NEW path \in Paths
      PROVE  executed[path] + Cardinality(Waits(requests, steps, path)) + Num(status = "absent")
                <= 1 + Budget'
  <2> DEFINE c == Cardinality(Waits(requests, steps, path))
             n == Num(status = "absent")
             b == Num(Working /\ ~Ahead(work.frames, path))
  <2>1. c \in Nat /\ executed[path] \in Nat
    BY PaidNumbers
  <2>2. n \in {0, 1} /\ b \in {0, 1}
    BY DEF Num
  <2>3. executed[path] + c + n <= 1 + Budget + b
    BY DEF Paid, CommittedPaid
  <2> HIDE DEF c, n, b
  <2>4. executed[path] + c + n <= 1 + Budget'
    BY <1>1, <2>1, <2>2, <2>3
  <2> QED
    BY <2>4 DEF c, n
<1>4. WorkPaid'
  BY DEF WorkPaid, Working
<1>5. \A path \in Paths : Num(Working' /\ ~Ahead(work.frames, path)') = 0
  BY DEF Num, Working
<1>6. 1 + Budget' + 0 = 1 + Budget'
  BY <1>1
<1>7. CommittedPaid'
  BY <1>2, <1>3, <1>5, <1>6 DEF CommittedPaid, committed
<1> QED
  BY <1>4, <1>7 DEF Paid

\* No transaction changes; a request may be cancelled.
LEMMA RestPaid ==
    ASSUME TypeOK, TypeOK', Paid, UNCHANGED <<workflow, steps, work, executed, late, rewinds, crashes>>,
           status' \in {status, "cancelled"},
           \A path \in Paths : Cardinality(Waits(requests', steps', path))
                                 <= Cardinality(Waits(requests, steps, path))
    PROVE  Paid'
<1>1. Budget' = Budget /\ Budget \in Nat
  BY PaidNumbers DEF Budget
<1>2. \A path : /\ Waits(work.requests, work.steps, path)' = Waits(work.requests, work.steps, path)
                /\ Waits(requests, steps, path)' = Waits(requests', steps', path)
                /\ Ahead(work.frames, path)' = Ahead(work.frames, path)
  BY DEF Waits, Places, Position, Ahead
<1>3. ASSUME NEW path \in Paths
      PROVE  executed[path] + Cardinality(Waits(requests', steps', path)) + Num(status' = "absent")
                <= 1 + Budget + Num(Working /\ ~Ahead(work.frames, path))
  <2> DEFINE c == Cardinality(Waits(requests, steps, path))
             d == Cardinality(Waits(requests', steps', path))
             m == Num(status = "absent")
             n == Num(status' = "absent")
             b == Num(Working /\ ~Ahead(work.frames, path))
  <2>1. c \in Nat /\ executed[path] \in Nat
    BY PaidNumbers
  <2>2. requests' \in Seq(Request)
    BY DEF TypeOK
  <2>3. d \in Nat
    BY <2>2, WaitsFinite
  <2>4. m \in {0, 1} /\ n \in {0, 1} /\ n <= m /\ b \in {0, 1}
    BY DEF Num
  <2>5. executed[path] + c + m <= 1 + Budget + b
    BY DEF Paid, CommittedPaid
  <2>6. d <= c
    OBVIOUS
  <2> HIDE DEF c, d, m, n, b
  <2>7. executed[path] + d + n <= 1 + Budget + b
    BY <1>1, <2>1, <2>3, <2>4, <2>5, <2>6
  <2> QED
    BY <2>7 DEF d, n, b
<1>4. WorkPaid'
  BY <1>1, <1>2 DEF Paid, WorkPaid, Working
<1>5. CommittedPaid'
  BY <1>1, <1>2, <1>3 DEF CommittedPaid, Working
<1> QED
  BY <1>4, <1>5 DEF Paid

-----------------------------------------------------------------------------
(* Where the transaction has come to.                                      *)

LEMMA FramesFacts ==
    ASSUME TypeOK, WorkFits, Working
    PROVE  /\ work.frames[1] \in Frame /\ work.frames[1].name = workflow /\ work.frames[1].at \in Nat
           /\ Depth > 1 => /\ work.frames[2] \in Frame /\ work.frames[2].at \in Nat
                           /\ work.frames[2].name \in DOMAIN Library
                           /\ CalledFrom(work.frames[2], work.frames[1])
<1>1. FramesFit(work.frames, Len(work.steps)) /\ work.frames \in Seq(Frame) /\ Depth \in Nat \ {0}
      /\ Depth = Len(work.frames)
  BY WorkingFacts DEF Depth
<1>2. work.frames[1] \in Frame /\ work.frames[1].name = workflow
  BY <1>1 DEF FramesFit
<1>3. ASSUME Depth > 1
      PROVE  work.frames[2] \in Frame /\ CalledFrom(work.frames[2], work.frames[1])
  <2>1. 2 \in 2..Len(work.frames) /\ 2 \in 1..Len(work.frames) /\ 2 - 1 = 1
    BY <1>1, <1>3
  <2>2. CalledFrom(work.frames[2], work.frames[2 - 1])
    BY <1>1, <2>1 DEF FramesFit
  <2> QED
    BY <1>1, <2>1, <2>2
<1> QED
  BY <1>2, <1>3 DEF Frame

LEMMA FlatDepth ==
    ASSUME Flat, TypeOK, WorkFits, Working
    PROVE  Depth \in {1, 2}
<1>1. FramesFit(work.frames, Len(work.steps)) /\ work.frames \in Seq(Frame) /\ Depth \in Nat \ {0}
      /\ Depth = Len(work.frames)
  BY WorkingFacts DEF Depth
<1>2. ASSUME Depth > 2
      PROVE  FALSE
  <2> DEFINE one == work.frames[1]
             two == work.frames[2]
             three == work.frames[3]
             call == Order[one.name][one.at]
             node == Order[two.name][two.at]
  <2>1. 3 \in 2..Len(work.frames) /\ 3 - 1 = 2
    BY <1>1, <1>2
  <2>2. CalledFrom(work.frames[3], work.frames[3 - 1])
    BY <1>1, <2>1 DEF FramesFit
  <2>3. CalledFrom(three, two)
    BY <2>1, <2>2
  <2>8. Depth > 1
    BY <1>1, <1>2
  <2>4. CalledFrom(two, one) /\ one \in Frame /\ two \in Frame
    BY <2>8, FramesFacts
  <2> HIDE DEF one, two, three
  <2>5. one.name \in DOMAIN Library /\ two.name \in DOMAIN Library
    BY <2>4 DEF Frame
  <2>6. call.type = "workflow_call" /\ two.name = call.calls /\ call \in Range(Library[one.name])
    BY <2>4, <2>5, OrderFacts DEF CalledFrom
  <2>7. node.type = "workflow_call" /\ node \in Range(Library[two.name])
    BY <2>3, <2>5, OrderFacts DEF CalledFrom
  <2> HIDE DEF call, node
  <2> QED
    BY <2>5, <2>6, <2>7 DEF Flat
<1>3. Depth \in Nat \ {0}
  BY <1>1
<1>4. ~(Depth > 2)
  BY <1>2
<1> QED
  BY <1>3, <1>4

\* The node that the transaction has come to is ahead of it.
LEMMA HereIsAhead ==
    ASSUME Flat, TypeOK, WorkFits, Working, ~AtEnd
    PROVE  Ahead(work.frames, Path)
<1>1. /\ Top.at \in 1..Len(Order[Top.name]) /\ Path \in Paths /\ Depth \in {1, 2}
      /\ Depth = Len(work.frames) /\ Top = work.frames[Depth]
  BY HereFacts, FlatDepth DEF Depth, Top
<1>2. CASE Depth = 1
  <2>1. Top = work.frames[1] /\ Top.name = workflow /\ Path = <<Here.id>> /\ Len(work.frames) = 1
    BY <1>1, <1>2, HereFacts
  <2>2. Path[1] = Here.id
    BY <2>1
  <2>3. Top.at \in Places(Path)
    BY <1>1, <2>1, <2>2 DEF Places, Here
  <2> QED
    BY <2>1, <2>3 DEF Ahead
<1>3. CASE Depth = 2
  <2> DEFINE caller == work.frames[1]
             call == Order[caller.name][caller.at]
  <2>1. Top = work.frames[2] /\ Len(work.frames) = 2
    BY <1>1, <1>3
  <2>2. caller.name = workflow /\ caller.at \in 1..Len(Order[caller.name])
    BY <1>3, FramesFacts DEF CalledFrom
  <2>3. Path = <<call.id, Here.id>>
    <3>1. Depth > 1 /\ Depth - 1 = 1
      BY <1>3
    <3> QED
      BY <3>1, HereFacts
  <2>4. Path[1] = call.id /\ Path[2] = Here.id /\ Len(Path) = 2
    BY <2>3
  <2>5. caller.at \in Places(Path)
    BY <2>2, <2>4 DEF Places
  <2>6. Order[Top.name][Top.at].id = Path[2] /\ Top.at <= Top.at
    BY <1>1, <2>4, WorkingFacts DEF Here
  <2> HIDE DEF call
  <2>7. work.frames[1].at = caller.at /\ Len(work.frames) > 1
    BY <2>1
  <2> QED
    BY <1>1, <2>1, <2>4, <2>5, <2>6, <2>7 DEF Ahead
<1> QED
  BY <1>1, <1>2, <1>3

\* Past its node, the transaction has no more ahead of it than before, and not this node.
LEMMA MovedIsNotAhead ==
    ASSUME Flat, TypeOK, WorkFits, Working, ~AtEnd,
           NEW done \in SUBSET STRING, NEW skipped \in SUBSET STRING,
           NEW frames, frames = Moved(work.frames, done, skipped)
    PROVE  /\ ~Ahead(frames, Path)
           /\ \A path \in Paths : Ahead(frames, path) => Ahead(work.frames, path)
<1> DEFINE top == Past(Top, done, skipped)
<1>1. /\ Top \in Frame /\ Top.at \in 1..Len(Order[Top.name]) /\ Depth \in {1, 2}
      /\ Depth = Len(work.frames) /\ Top = work.frames[Depth] /\ work.frames \in Seq(Frame)
      /\ Top.name \in DOMAIN Library
  BY HereFacts, FlatDepth, WorkingFacts DEF Depth, Top
<1>2. top.name = Top.name /\ top.at = Top.at + 1 /\ top \in Frame
  BY <1>1, PastFacts, ZenonT(60)
<1>3. frames = [work.frames EXCEPT ![Depth] = top]
  BY <1>1 DEF Moved
<1> HIDE DEF top
<1>4. Len(frames) = Depth /\ \A d \in 1..Depth : frames[d] = IF d = Depth THEN top ELSE work.frames[d]
  BY <1>1, <1>2, <1>3
<1>5. Top.at \in Nat /\ top.at \in Nat
  BY <1>1, <1>2, WorkingFacts
<1>6. CASE Depth = 1
  <2>1. frames[1] = top /\ Len(frames) = 1 /\ Top = work.frames[1] /\ Len(work.frames) = 1
    BY <1>1, <1>4, <1>6
  <2>2. Top.name = workflow /\ Path = <<Here.id>>
    BY <1>6, HereFacts
  <2>3. Path[1] = Here.id
    BY <2>2
  <2>4. Top.at \in Places(Path)
    BY <1>1, <2>2, <2>3 DEF Places, Here
  <2>5. \A i \in Places(Path) : i = Top.at
    BY <2>4, PlacesFacts
  <2>6. ~Ahead(frames, Path)
    BY <1>2, <1>5, <2>1, <2>5 DEF Ahead
  <2>7. ASSUME NEW path \in Paths, Ahead(frames, path)
        PROVE  Ahead(work.frames, path)
    <3>1. PICK i \in Places(path) : top.at < i \/ top.at = i
      BY <2>1, <2>7 DEF Ahead
    <3>2. i \in Nat
      BY PlacesFacts
    <3>3. work.frames[1].at < i
      BY <1>2, <1>5, <2>1, <3>1, <3>2
    <3> QED
      BY <3>3 DEF Ahead
  <2> QED
    BY <2>6, <2>7
<1>7. CASE Depth = 2
  <2> DEFINE caller == work.frames[1]
             call == Order[caller.name][caller.at]
  <2>1. frames[1] = caller /\ frames[2] = top /\ Len(frames) = 2 /\ Top = work.frames[2]
        /\ Len(work.frames) = 2
    BY <1>1, <1>4, <1>7
  <2>2. caller.name = workflow /\ caller.at \in 1..Len(Order[caller.name]) /\ caller.at \in Nat
    BY <1>7, FramesFacts DEF CalledFrom
  <2>3. Path = <<call.id, Here.id>>
    <3>1. Depth > 1 /\ Depth - 1 = 1
      BY <1>7
    <3> QED
      BY <3>1, HereFacts
  <2>4. Path[1] = call.id /\ Path[2] = Here.id /\ Len(Path) = 2
    BY <2>3
  <2>5. caller.at \in Places(Path)
    BY <2>2, <2>4 DEF Places
  <2>6. \A i \in Places(Path) : i = caller.at
    BY <2>5, PlacesFacts
  <2>7. \A j \in 1..Len(Order[Top.name]) : Order[Top.name][j].id = Path[2] => j = Top.at
    BY <1>1, <2>4, OrderFacts, SMTT(60) DEF Here
  <2> HIDE DEF call
  <2>8. ~Ahead(frames, Path)
    <3>1. SUFFICES ASSUME Ahead(frames, Path)
                   PROVE  FALSE
      OBVIOUS
    <3>2. ~(caller.at < caller.at)
      BY <2>2
    <3>3. PICK j \in 1..Len(Order[top.name]) : Order[top.name][j].id = Path[2] /\ top.at <= j
      BY <2>1, <2>6, <3>1, <3>2 DEF Ahead
    <3>4. j = Top.at
      BY <1>2, <2>7, <3>3
    <3> QED
      BY <1>2, <1>5, <3>3, <3>4
  <2>9. ASSUME NEW path \in Paths, Ahead(frames, path)
        PROVE  Ahead(work.frames, path)
    <3>1. PICK i \in Places(path) :
            \/ caller.at < i
            \/ /\ caller.at = i /\ Len(path) = 2
               /\ \E j \in 1..Len(Order[top.name]) : Order[top.name][j].id = path[2] /\ top.at <= j
      BY <2>1, <2>9 DEF Ahead
    <3>2. CASE caller.at < i
      BY <3>2 DEF Ahead
    <3>3. CASE /\ caller.at = i /\ Len(path) = 2
               /\ \E j \in 1..Len(Order[top.name]) : Order[top.name][j].id = path[2] /\ top.at <= j
      <4>1. PICK j \in 1..Len(Order[top.name]) : Order[top.name][j].id = path[2] /\ top.at <= j
        BY <3>3
      <4>2. Top.at <= j
        BY <1>1, <1>2, <1>5, <4>1, OrderFacts
      <4>3. Len(work.frames) > 1
        BY <2>1
      <4> QED
        BY <1>2, <2>1, <3>3, <4>1, <4>2, <4>3 DEF Ahead
    <3> QED
      BY <3>1, <3>2, <3>3
  <2> QED
    BY <2>8, <2>9
<1> QED
  BY <1>1, <1>6, <1>7

\* Calls are made by the run's own workflow.
LEMMA CallDepth ==
    ASSUME Flat, TypeOK, WorkFits, Working, ~AtEnd, Here.type = "workflow_call"
    PROVE  Depth = 1
<1>1. Here \in Range(Library[Top.name]) /\ Depth \in {1, 2}
  BY HereFacts, FlatDepth
<1>2. ASSUME Depth = 2
      PROVE  FALSE
  <2> DEFINE caller == work.frames[1]
             call == Order[caller.name][caller.at]
  <2>1. Top = work.frames[2] /\ Depth > 1
    BY <1>2 DEF Top
  <2>2. caller \in Frame /\ CalledFrom(Top, caller)
    BY <2>1, FramesFacts
  <2> HIDE DEF caller
  <2>3. caller.name \in DOMAIN Library
    BY <2>2 DEF Frame
  <2>4. call.type = "workflow_call" /\ Top.name = call.calls /\ call \in Range(Library[caller.name])
    BY <2>2, <2>3, OrderFacts DEF CalledFrom
  <2> HIDE DEF call
  <2> QED
    BY <1>1, <2>3, <2>4 DEF Flat
<1> QED
  BY <1>1, <1>2

LEMMA PushedIsNotAhead ==
    ASSUME TypeOK, WorkFits, Working, Depth = 1, NEW frame \in Frame,
           NEW frames, frames = Append(work.frames, frame), NEW path, Ahead(frames, path)
    PROVE  Ahead(work.frames, path)
<1>1. work.frames \in Seq(Frame) /\ Len(work.frames) = 1
  BY WorkingFacts DEF Depth
<1>2. frames[1] = work.frames[1]
  BY <1>1
<1> QED
  BY <1>1, <1>2 DEF Ahead

LEMMA PoppedIsNotAhead ==
    ASSUME TypeOK, WorkFits, Working, Depth = 2, NEW done \in SUBSET STRING,
           NEW frames, frames = Popped(work.frames, done), NEW path, Ahead(frames, path)
    PROVE  Ahead(work.frames, path)
<1> DEFINE caller == work.frames[1]
           top == Past(caller, done, {})
<1>1. work.frames \in Seq(Frame) /\ Len(work.frames) = 2 /\ FramesFit(work.frames, Len(work.steps))
      /\ Len(work.steps) \in Nat
  BY WorkingFacts DEF Depth
<1>2. caller \in Frame /\ caller.at \in Nat
  BY FramesFacts
<1>3. top \in Frame /\ top.at = caller.at + 1
  BY <1>2, PastFacts
<1>4. frames = Append(SubSeq(work.frames, 1, 0), top)
  <2>1. Len(work.frames) - 2 = 0 /\ Len(work.frames) - 1 = 1
    BY <1>1
  <2> QED
    BY <2>1 DEF Popped
<1> HIDE DEF top
<1>5. SubSeq(work.frames, 1, 0) \in Seq(Frame) /\ Len(SubSeq(work.frames, 1, 0)) = 0
  BY <1>1
<1>6. frames[1] = top
  BY <1>3, <1>4, <1>5
<1>7. Len(frames) = 1
  BY <1>3, <1>4, <1>5
<1>8. PICK i \in Places(path) : top.at < i \/ top.at = i
  BY <1>6, <1>7 DEF Ahead
<1>9. i \in Nat
  BY PlacesFacts
<1>10. caller.at < i
  BY <1>2, <1>3, <1>8, <1>9
<1> QED
  BY <1>10 DEF Ahead

-----------------------------------------------------------------------------
(* What it takes to repeat an effect: the steps.                           *)

LEMMA EffectFacts ==
    ASSUME TypeOK, Path \in Paths, TakesEffect \/ UNCHANGED executed
    PROVE  \A path \in Paths :
               \/ executed'[path] = executed[path]
               \/ executed'[path] = executed[path] + 1 /\ path = Path
BY DEF TypeOK, TakesEffect

LEMMA StillWorking ==
    ASSUME TypeOK, WorkFits, Working, NEW s, NEW q, NEW f, Works(s, q, f)
    PROVE  Working' /\ work'.steps = s /\ work'.requests = q /\ work'.frames = f
<1>1. work.owner \in Resumers
  BY WorkingFacts
<1> QED
  BY <1>1, ProcessAssumption DEF Works, Working, NoWork

\* The node's step is written and the loop goes on.
LEMMA GoPaid ==
    ASSUME Flat, Typed, Typed', Paid, Working, ~AtEnd, UNCHANGED <<workflow, committed, bounds>>,
           TakesEffect \/ UNCHANGED executed,
           NEW step, NEW q, NEW skipped \in SUBSET STRING, Go(step, q, skipped),
           \A path : Waits(q, Append(work.steps, step), path) = Waits(work.requests, work.steps, path)
    PROVE  Paid'
<1> DEFINE f == [work.frames EXCEPT ![Depth] = Past(Top, {Here.id}, skipped)]
           s == Append(work.steps, step)
<1>1. TypeOK /\ TypeOK' /\ WorkFits
  BY DEF Typed
<1>2. Works(s, q, f) /\ f = Moved(work.frames, {Here.id}, skipped)
  BY DEF Go, Moved, Depth, Top
<1>3. Path \in Paths /\ {Here.id} \in SUBSET STRING
  BY <1>1, HereFacts
<1> HIDE DEF f, s
<1>4. Ahead(work.frames, Path) /\ ~Ahead(f, Path)
      /\ \A path \in Paths : Ahead(f, path) => Ahead(work.frames, path)
  BY <1>1, <1>2, <1>3, HereIsAhead, MovedIsNotAhead
<1>5. Working' /\ work'.steps = s /\ work'.requests = q /\ work'.frames = f
  BY <1>1, <1>2, StillWorking
<1>6. \A path : Waits(work'.requests, work'.steps, path) = Waits(work.requests, work.steps, path)
  BY <1>5 DEF s
<1>7. \A path \in Paths :
               \/ executed'[path] = executed[path]
               \/ /\ executed'[path] = executed[path] + 1
                  /\ Ahead(work.frames, path) /\ ~Ahead(work'.frames, path)
  BY <1>1, <1>3, <1>4, <1>5, EffectFacts
<1>8. \A path \in Paths : Ahead(work'.frames, path) => Ahead(work.frames, path)
  BY <1>4, <1>5
<1> QED
  BY <1>1, <1>5, <1>6, <1>7, <1>8, GoesPaid

\* The run ends, perhaps with an effect of the node it has come to.
LEMMA EndPaid ==
    ASSUME Flat, Typed, Typed', Paid, Working, UNCHANGED <<workflow, bounds>>,
           UNCHANGED executed \/ (~AtEnd /\ TakesEffect),
           NEW end \in {"completed", "failed"}, NEW s, Commit(end, s, work.requests),
           Keeps(s, work.steps, Len(work.steps))
    PROVE  Paid'
<1>1. TypeOK /\ TypeOK' /\ WorkFits
  BY DEF Typed
<1>2. work' = NoWork /\ status' # "absent" /\ steps' = s /\ requests' = work.requests
  BY DEF Commit
<1>3. RequestsFit(work.requests, Len(work.steps))
  BY <1>1, WorkingFacts
<1>4. \A path : Waits(requests', steps', path) = Waits(work.requests, work.steps, path)
  BY <1>2, <1>3, WaitsKept
<1>5. ASSUME NEW path \in Paths
      PROVE  executed'[path] <= executed[path] + Num(Ahead(work.frames, path))
  <2>1. executed[path] \in Nat /\ Num(Ahead(work.frames, path)) \in {0, 1}
        /\ (Ahead(work.frames, path) => Num(Ahead(work.frames, path)) = 1)
    BY <1>1, PaidNumbers DEF Num
  <2>2. CASE UNCHANGED executed
    <3>1. executed'[path] = executed[path]
      BY <2>2
    <3> QED
      BY <2>1, <3>1
  <2>3. CASE ~AtEnd /\ TakesEffect
    <3>1. Path \in Paths /\ Ahead(work.frames, Path)
      BY <1>1, <2>3, HereFacts, HereIsAhead
    <3>2. executed'[path] = executed[path]
          \/ (executed'[path] = executed[path] + 1 /\ Ahead(work.frames, path))
      BY <1>1, <2>3, <3>1, EffectFacts
    <3> QED
      BY <2>1, <3>2
  <2> QED
    BY <2>2, <2>3
<1>6. ASSUME NEW path \in Paths
      PROVE  executed'[path] + Cardinality(Waits(requests', steps', path))
                   <= executed[path] + Cardinality(Waits(work.requests, work.steps, path))
                      + Num(Ahead(work.frames, path))
  <2> DEFINE w == Cardinality(Waits(work.requests, work.steps, path))
             a == Num(Ahead(work.frames, path))
  <2>1. executed[path] \in Nat /\ executed'[path] \in Nat /\ w \in Nat /\ a \in {0, 1}
    BY <1>1, PaidNumbers DEF Num, TypeOK
  <2>2. executed'[path] <= executed[path] + a
    BY <1>5
  <2> HIDE DEF w, a
  <2>3. executed'[path] + w <= executed[path] + w + a
    BY <2>1, <2>2
  <2> QED
    BY <1>4, <2>3 DEF w, a
<1> QED
  BY <1>1, <1>2, <1>6, EndsPaid

\* The run asks: the nodes that were ahead of it wait for the new request.
LEMMA AskPaid ==
    ASSUME Flat, Typed, Typed', Paid, NEW p \in Resumers, Ask(p)
    PROVE  Paid'
<1> DEFINE n == Len(work.steps)
           r == Len(work.requests) + 1
           s == Append(work.steps, NewStep(Path, "waiting_input", ""))
           q == Append(work.requests, NewRequest(n + 1))
<1>1. TypeOK /\ TypeOK' /\ WorkFits /\ Working /\ ~AtEnd /\ Depth = 1
      /\ Commit("waiting_input", s, q) /\ UNCHANGED <<workflow, executed, bounds>>
  BY OwnersWork DEF Ask, AtNode, Executing, Typed
<1>2. /\ work.steps \in Seq(Step) /\ work.requests \in Seq(Request) /\ n \in Nat
      /\ RequestsFit(work.requests, n)
  BY <1>1, WorkingFacts
<1>3. /\ Path \in Paths /\ Path = <<Here.id>> /\ Top.name = workflow
      /\ Top.at \in 1..Len(Order[Top.name])
  BY <1>1, HereFacts
<1>4. NewStep(Path, "waiting_input", "") \in Step /\ NewStep(Path, "waiting_input", "").node = Path
  BY <1>3, StepTyped DEF NewStep
<1>5. Keeps(s, work.steps, n) /\ s[n + 1].node = Path
  <2> DEFINE step == NewStep(Path, "waiting_input", "")
  <2>1. step \in Step /\ step.node = Path /\ s = Append(work.steps, step)
    BY <1>4
  <2> HIDE DEF step, s
  <2> QED
    BY <1>2, <2>1, AppendKeeps
<1>6. Position(Path) = Top.at
  BY <1>1, <1>3, PositionOfNode DEF Here
<1>7. status' = "waiting_input" /\ steps' = s /\ requests' = q /\ work' = NoWork
  BY <1>1 DEF Commit
<1> HIDE DEF s
<1>8. ASSUME NEW path \in Paths
      PROVE  Cardinality(Waits(q, s, path))
                <= Cardinality(Waits(work.requests, work.steps, path)) + Num(Ahead(work.frames, path))
  <2> DEFINE old == Waits(work.requests, work.steps, path)
             before == \E i \in Places(path) : Position(s[n + 1].node) < i
  <2>1. Waits(q, s, path) = old \cup (IF before THEN {r} ELSE {})
    BY <1>2, <1>5, WaitsAdded
  <2>2. before => Ahead(work.frames, path)
    BY <1>1, <1>5, <1>6 DEF Ahead, Top
  <2>3. IsFiniteSet(old) /\ Cardinality(old) \in Nat
    BY <1>2, WaitsFinite
  <2>4. Num(Ahead(work.frames, path)) \in {0, 1}
        /\ (Ahead(work.frames, path) => Num(Ahead(work.frames, path)) = 1)
    BY DEF Num
  <2> HIDE DEF old, before, r, q
  <2>5. CASE before
    <3>1. Waits(q, s, path) = old \cup {r}
      BY <2>1, <2>5
    <3>2. Cardinality(old \cup {r}) \in {Cardinality(old), Cardinality(old) + 1}
      BY <2>3, FS_AddElement
    <3>3. Num(Ahead(work.frames, path)) = 1
      BY <2>2, <2>4, <2>5
    <3>4. Cardinality(old \cup {r}) <= Cardinality(old) + Num(Ahead(work.frames, path))
      BY <2>3, <3>2, <3>3
    <3> QED
      BY <3>1, <3>4 DEF old
  <2>6. CASE ~before
    <3>1. Waits(q, s, path) = old
      BY <2>1, <2>6
    <3>2. Cardinality(old) <= Cardinality(old) + Num(Ahead(work.frames, path))
      BY <2>3, <2>4
    <3> QED
      BY <3>1, <3>2 DEF old
  <2> QED
    BY <2>5, <2>6
<1> HIDE DEF q
<1>9. ASSUME NEW path \in Paths
      PROVE  executed'[path] + Cardinality(Waits(requests', steps', path))
                   <= executed[path] + Cardinality(Waits(work.requests, work.steps, path))
                      + Num(Ahead(work.frames, path))
  <2> DEFINE w == Cardinality(Waits(work.requests, work.steps, path))
             c == Cardinality(Waits(q, s, path))
             a == Num(Ahead(work.frames, path))
  <2>1. executed[path] \in Nat /\ w \in Nat /\ a \in {0, 1} /\ executed'[path] = executed[path]
    BY <1>1, PaidNumbers DEF Num
  <2>2. q \in Seq(Request)
    BY <1>1, <1>7 DEF TypeOK
  <2>3. c \in Nat
    BY <2>2, WaitsFinite
  <2>4. c <= w + a
    BY <1>8
  <2> HIDE DEF w, c, a
  <2>5. executed'[path] + c <= executed[path] + w + a
    BY <2>1, <2>3, <2>4
  <2> QED
    BY <1>7, <2>5 DEF w, c, a
<1>10. status' # "absent"
  BY <1>7
<1> QED
  BY <1>1, <1>7, <1>9, <1>10, EndsPaid

LEMMA LoopPaid ==
    ASSUME Flat, Typed, Typed', Paid, NEW p \in Resumers,
           \/ SkipNode(p) \/ RunNode(p) \/ Branch(p) \/ Ask(p) \/ AskInCall(p) \/ Call(p)
           \/ Finish(p) \/ Return(p) \/ EndWithoutFinal(p) \/ NodeFails(p) \/ GraphFails(p)
    PROVE  Paid'
<1>0. /\ work.owner = p /\ Working /\ TypeOK /\ TypeOK' /\ WorkFits
      /\ work.steps \in Seq(Step) /\ work.requests \in Seq(Request) /\ work.frames \in Seq(Frame)
      /\ Len(work.steps) \in Nat
      /\ RequestsFit(work.requests, Len(work.steps))
  <2>1. TypeOK /\ TypeOK' /\ WorkFits /\ work.owner = p
    BY DEF Typed, SkipNode, RunNode, Branch, Ask, AskInCall, Call, Finish, Return, EndWithoutFinal,
           NodeFails, GraphFails, AtNode, Executing
  <2>2. Working
    BY <2>1, OwnersWork
  <2> QED
    BY <2>1, <2>2, WorkingFacts
<1>1. ~AtEnd => Path \in Paths /\ Here.id \in STRING /\ Here \in Nodes
  BY <1>0, HereFacts
<1>2. ASSUME NEW step \in Step
      PROVE  \A path : Waits(work.requests, Append(work.steps, step), path)
                           = Waits(work.requests, work.steps, path)
  BY <1>0, AppendKeeps, WaitsKept
<1>3. \A end \in {"running", "waiting_input", "completed", "failed", "skipped"} :
        \A value \in {"", "true", "false"} : ~AtEnd => NewStep(Path, end, value) \in Step
  BY <1>1, StepTyped
<1>4. ASSUME SkipNode(p)
      PROVE  Paid'
  <2> DEFINE s == IF \E t \in Range(work.steps) : t.node = Path /\ t.status = "skipped"
                  THEN work.steps ELSE Append(work.steps, NewStep(Path, "skipped", ""))
             f == [work.frames EXCEPT ![Depth] = Past(Top, {}, {Here.id})]
  <2>1. ~AtEnd /\ UNCHANGED <<workflow, committed, executed, bounds>> /\ Works(s, work.requests, f)
    BY <1>4 DEF SkipNode
  <2>2. f = Moved(work.frames, {}, {Here.id}) /\ {Here.id} \in SUBSET STRING /\ {} \in SUBSET STRING
    BY <1>1, <2>1 DEF Depth, Top, Moved
  <2>3. \A path : Waits(work.requests, s, path) = Waits(work.requests, work.steps, path)
    BY <1>2, <1>3, <2>1
  <2> HIDE DEF s, f
  <2>4. \A path \in Paths : Ahead(f, path) => Ahead(work.frames, path)
    BY <1>0, <2>1, <2>2, MovedIsNotAhead
  <2>5. Working' /\ work'.steps = s /\ work'.requests = work.requests /\ work'.frames = f
    BY <1>0, <2>1, StillWorking
  <2>6. \A path : Waits(work'.requests, work'.steps, path) = Waits(work.requests, work.steps, path)
    BY <2>3, <2>5
  <2>7. \A path \in Paths : Ahead(work'.frames, path) => Ahead(work.frames, path)
    BY <2>4, <2>5
  <2> QED
    BY <1>0, <2>1, <2>5, <2>6, <2>7, GoesPaid
<1>5. ASSUME RunNode(p)
      PROVE  Paid'
  <2> DEFINE step == NewStep(Path, "completed", "")
  <2>1. ~AtEnd /\ UNCHANGED <<workflow, committed, bounds>> /\ TakesEffect
        /\ Go(step, work.requests, {}) /\ {} \in SUBSET STRING
    BY <1>5 DEF RunNode, AtNode
  <2>2. step \in Step
    BY <1>3, <2>1
  <2> HIDE DEF step
  <2> QED
    BY <1>0, <1>2, <2>1, <2>2, GoPaid
<1>6. ASSUME Branch(p)
      PROVE  Paid'
  <2>1. ~AtEnd /\ UNCHANGED <<workflow, committed, executed, bounds>>
    BY <1>6 DEF Branch, AtNode
  <2>2. PICK value \in {"true", "false"} :
            Go(NewStep(Path, "completed", value), work.requests, Unselected(value))
    BY <1>6 DEF Branch
  <2> DEFINE step == NewStep(Path, "completed", value)
  <2>3. step \in Step
    BY <1>3, <2>1
  <2>4. Unselected(value) \in SUBSET STRING
    BY <1>1, <2>1 DEF Unselected, Targets, Nodes
  <2>5. Go(step, work.requests, Unselected(value))
    BY <2>2
  <2> HIDE DEF step
  <2> QED
    BY <1>0, <1>2, <2>1, <2>3, <2>4, <2>5, GoPaid
<1>7. ASSUME AskInCall(p)
      PROVE  Paid'
  <2> DEFINE step == NewStep(Path, "waiting_input", "")
             n == Len(work.steps)
             q == Append(work.requests, NewRequest(n + 1))
  <2>10. n \in Nat
    BY <1>0
  <2>1. ~AtEnd /\ Depth > 1 /\ UNCHANGED <<workflow, committed, executed, bounds>>
        /\ Go(step, q, {}) /\ {} \in SUBSET STRING
    BY <1>7 DEF AskInCall, AtNode
  <2>2. step \in Step /\ step.node = Path
    BY <1>3, <2>1 DEF NewStep
  <2>3. Path = <<Order[work.frames[Depth - 1].name][work.frames[Depth - 1].at].id, Here.id>>
    BY <1>0, <2>1, HereFacts
  <2>4. Len(Path) = 2
    BY <2>3
  <2>5. Position(Path) = Len(Order[workflow])
    BY <1>0, <2>4, PositionOfCall
  <2> HIDE DEF step
  <2>6. Keeps(Append(work.steps, step), work.steps, n) /\ Append(work.steps, step)[n + 1] = step
        /\ n \in Nat
    BY <1>0, <2>2, AppendKeeps
  <2>7. workflow \in DOMAIN Library
    BY <1>0, LibraryAssumption DEF TypeOK
  <2>8. \A path : ~\E i \in Places(path) : Position(Path) < i
    <3>1. Len(Order[workflow]) \in Nat
      BY <2>7, OrderFacts
    <3>2. \A i \in 1..Len(Order[workflow]) : ~(Len(Order[workflow]) < i)
      BY <3>1
    <3> QED
      BY <2>5, <3>2 DEF Places
  <2>9. ASSUME NEW path
        PROVE  Waits(q, Append(work.steps, step), path) = Waits(work.requests, work.steps, path)
    <3> DEFINE s == Append(work.steps, step)
    <3>3. Keeps(s, work.steps, n) /\ RequestsFit(work.requests, n) /\ work.requests \in Seq(Request)
      BY <1>0, <2>6
    <3> HIDE DEF s, n
    <3>4. Waits(q, s, path) =
              Waits(work.requests, work.steps, path) \cup
              (IF \E i \in Places(path) : Position(s[n + 1].node) < i
               THEN {Len(work.requests) + 1} ELSE {})
      BY <2>10, <3>3, WaitsAdded
    <3>1. Waits(q, Append(work.steps, step), path) =
              Waits(work.requests, work.steps, path) \cup
              (IF \E i \in Places(path) : Position(Append(work.steps, step)[n + 1].node) < i
               THEN {Len(work.requests) + 1} ELSE {})
      BY <3>4 DEF s
    <3>2. ~\E i \in Places(path) : Position(Append(work.steps, step)[n + 1].node) < i
      BY <2>2, <2>6, <2>8
    <3> QED
      BY <3>1, <3>2
  <2> HIDE DEF q
  <2> QED
    BY <2>1, <1>0, <2>9, GoPaid
<1>8. ASSUME Call(p)
      PROVE  Paid'
  <2> DEFINE step == NewStep(Path, "running", "")
             s == Append(work.steps, step)
             f == Append(work.frames, CallFrame)
  <2>1. ~AtEnd /\ Here.type = "workflow_call" /\ UNCHANGED <<workflow, committed, executed, bounds>>
        /\ Works(s, work.requests, f)
    BY <1>8 DEF Call, AtNode, CallFrame
  <2>2. step \in Step
    BY <1>3, <2>1
  <2> HIDE DEF step
  <2>3. \A path : Waits(work.requests, s, path) = Waits(work.requests, work.steps, path)
    BY <1>2, <2>2
  <2>4. CallFrame \in Frame /\ Depth = 1
    BY <1>0, <2>1, CallFrameFits, CallDepth
  <2>5. \A path : Ahead(f, path) => Ahead(work.frames, path)
    BY <1>0, <2>4, PushedIsNotAhead
  <2> HIDE DEF s, f
  <2>6. Working' /\ work'.steps = s /\ work'.requests = work.requests /\ work'.frames = f
    BY <1>0, <2>1, StillWorking
  <2>7. \A path : Waits(work'.requests, work'.steps, path) = Waits(work.requests, work.steps, path)
    BY <2>3, <2>6
  <2>8. \A path \in Paths : Ahead(work'.frames, path) => Ahead(work.frames, path)
    BY <2>5, <2>6
  <2> QED
    BY <1>0, <2>1, <2>6, <2>7, <2>8, GoesPaid
<1>9. ASSUME Finish(p)
      PROVE  Paid'
  <2> DEFINE step == NewStep(Path, "completed", "")
             s == Append(work.steps, step)
  <2>1. ~AtEnd /\ UNCHANGED <<workflow, executed, bounds>> /\ Commit("completed", s, work.requests)
    BY <1>9 DEF Finish, AtNode
  <2>2. step \in Step
    BY <1>3, <2>1
  <2> HIDE DEF step
  <2>3. Keeps(s, work.steps, Len(work.steps))
    BY <1>0, <2>2, AppendKeeps
  <2> HIDE DEF s
  <2> QED
    BY <1>0, <2>1, <2>3, EndPaid
<1>10. ASSUME Return(p)
       PROVE  Paid'
  <2> DEFINE caller == work.frames[Depth - 1]
             node == Order[caller.name][caller.at]
             done == [work.steps EXCEPT ![Top.step].status = "completed"]
             step == NewStep(Path, "completed", "")
             s == Append(done, step)
             f == Append(SubSeq(work.frames, 1, Depth - 2), Past(caller, {node.id}, {}))
  <2>1. ~AtEnd /\ Depth > 1 /\ UNCHANGED <<workflow, committed, executed, bounds>>
        /\ Works(s, work.requests, f)
    BY <1>10 DEF Return, AtNode
  <2>2. caller \in Frame /\ node \in Range(Library[caller.name]) /\ Top.step \in 1..Len(work.steps)
    BY <1>0, <2>1, HereFacts
  <2>3. caller.name \in DOMAIN Library
    BY <2>2 DEF Frame
  <2>4. node.id \in STRING
    BY <2>2, <2>3, NodeFacts
  <2>5. done \in Seq(Step) /\ Len(done) = Len(work.steps) /\ Keeps(done, work.steps, Len(work.steps))
    BY <1>0, <2>2, StatusChanged
  <2>6. step \in Step
    BY <1>3, <2>1
  <2> HIDE DEF done, step
  <2>7. Keeps(s, done, Len(work.steps))
    BY <2>5, <2>6, AppendKeeps
  <2>8. Keeps(s, work.steps, Len(work.steps))
    BY <2>5, <2>7 DEF Keeps
  <2> HIDE DEF node, s
  <2>9. {node.id} \in SUBSET STRING /\ f = Popped(work.frames, {node.id})
    BY <2>4 DEF Depth, Popped
  <2> HIDE DEF f
  <2>10. Depth = 2
    BY <1>0, <2>1, FlatDepth
  <2>11. \A path : Ahead(f, path) => Ahead(work.frames, path)
    BY <1>0, <2>9, <2>10, PoppedIsNotAhead
  <2>12. Working' /\ work'.steps = s /\ work'.requests = work.requests /\ work'.frames = f
    BY <1>0, <2>1, StillWorking
  <2>13. \A path : Waits(work'.requests, work'.steps, path) = Waits(work.requests, work.steps, path)
    BY <1>0, <2>8, <2>12, WaitsKept
  <2>14. \A path \in Paths : Ahead(work'.frames, path) => Ahead(work.frames, path)
    BY <2>11, <2>12
  <2> QED
    BY <1>0, <2>1, <2>12, <2>13, <2>14, GoesPaid
<1>11. ASSUME EndWithoutFinal(p)
       PROVE  Paid'
  <2>1. UNCHANGED <<workflow, executed, bounds>> /\ Commit("completed", work.steps, work.requests)
    BY <1>11 DEF EndWithoutFinal
  <2>2. Keeps(work.steps, work.steps, Len(work.steps))
    BY DEF Keeps
  <2> QED
    BY <1>0, <2>1, <2>2, EndPaid
<1>12. ASSUME NodeFails(p)
       PROVE  Paid'
  <2> DEFINE step == NewStep(Path, "failed", "")
  <2>1. ~AtEnd /\ UNCHANGED <<workflow, bounds>> /\ (TakesEffect \/ UNCHANGED executed) /\ Fail(<<step>>)
    BY <1>12 DEF NodeFails, AtNode
  <2>2. step \in Step
    BY <1>3, <2>1
  <2> HIDE DEF step
  <2>3. <<step>> \in Seq(Step)
    BY <2>2
  <2>4. Commit("failed", steps', work.requests) /\ Keeps(steps', work.steps, Len(work.steps))
    BY <1>0, <2>1, <2>3, FailFacts
  <2> QED
    BY <1>0, <2>1, <2>4, EndPaid
<1>13. ASSUME GraphFails(p)
       PROVE  Paid'
  <2>1. UNCHANGED <<workflow, executed, bounds>> /\ Fail(<<>>) /\ <<>> \in Seq(Step)
    BY <1>13 DEF GraphFails
  <2>2. Commit("failed", steps', work.requests) /\ Keeps(steps', work.steps, Len(work.steps))
    BY <1>0, <2>1, FailFacts
  <2> QED
    BY <1>0, <2>1, <2>2, EndPaid
<1> QED
  BY <1>4, <1>5, <1>6, <1>7, <1>8, <1>9, <1>10, <1>11, <1>12, <1>13, AskPaid

\* A new transaction has ahead of it what comes after the node it was opened at.
LEMMA OpenIsAhead ==
    ASSUME TypeOK, TypeOK', NEW p, NEW s, NEW q, NEW outputs, NEW skipped, NEW n \in Nat,
           Open(p, s, q, TopFrame(outputs, skipped, n + 1)), p \in Resumers
    PROVE  /\ ~Working /\ Working' /\ work'.steps = s /\ work'.requests = q
           /\ \A path : Ahead(work'.frames, path) <=> \E i \in Places(path) : n < i
<1> DEFINE frame == TopFrame(outputs, skipped, n + 1)
<1>1. ~Working /\ work' = [owner |-> p, steps |-> s, requests |-> q, frames |-> <<frame>>]
  BY DEF Open, Working
<1>2. work'.owner = p /\ work'.steps = s /\ work'.requests = q /\ work'.frames = <<frame>>
  BY <1>1
<1>3. Working'
  BY <1>2, ProcessAssumption DEF Working, NoWork
<1>4. frame.at = n + 1
  BY DEF TopFrame
<1> HIDE DEF frame
<1>5. Len(work'.frames) = 1 /\ work'.frames[1] = frame
  BY <1>2
<1>6. ASSUME NEW path
      PROVE  Ahead(work'.frames, path) <=> \E i \in Places(path) : n < i
  <2>1. \A i \in Places(path) : i \in Nat
    BY PlacesFacts
  <2>2. \A i \in Nat : n < i <=> (n + 1 < i \/ n + 1 = i)
    OBVIOUS
  <2>3. Ahead(work'.frames, path) <=> \E i \in Places(path) : n + 1 < i \/ n + 1 = i
    BY <1>4, <1>5 DEF Ahead
  <2> QED
    BY <2>1, <2>2, <2>3
<1> QED
  BY <1>1, <1>2, <1>3, <1>6

LEMMA OthersPaid ==
    ASSUME Flat, Typed, Typed', Paid,
           \/ \E p \in Resumers : \/ StartRun(p) \/ ReadQuestion(p) \/ Answer(p)
                                  \/ ReadCheckpoint(p) \/ Rewind(p) \/ Crash(p)
           \/ Cancel \/ \E b \in Bots : ReadToCancel(b) \/ CommitCancel(b)
    PROVE  Paid'
<1>1. TypeOK /\ TypeOK' /\ WorkFits /\ ProcessesFit
  BY DEF Typed
<1>2. /\ steps \in Seq(Step) /\ requests \in Seq(Request) /\ Budget \in Nat
      /\ late \in Nat /\ rewinds \in Nat /\ crashes \in Nat
      /\ RequestsFit(requests, Len(steps))
  <2>1. steps \in Seq(Step) /\ requests \in Seq(Request) /\ late \in Nat /\ rewinds \in Nat
        /\ crashes \in Nat /\ \A r \in Range(requests) : r.step \in 1..Len(steps)
    BY <1>1 DEF TypeOK
  <2>2. DOMAIN requests = 1..Len(requests)
    BY <2>1
  <2>3. RequestsFit(requests, Len(steps))
    BY <2>1, <2>2 DEF RequestsFit, Range
  <2> QED
    BY <1>1, <2>1, <2>3, PaidNumbers
<1>3. \A path : Position(path) \in Nat
  <2>1. workflow \in DOMAIN Library
    BY <1>1, LibraryAssumption DEF TypeOK
  <2> QED
    BY <1>1, <2>1, PositionFacts, OrderFacts
<1>4. Keeps(steps, steps, Len(steps))
  BY DEF Keeps
<1>5. \A path : Cardinality(Waits(requests, steps, path)) \in Nat
                /\ IsFiniteSet(Waits(requests, steps, path))
  BY <1>2, WaitsFinite
<1>6. \A frames, path : Num(Ahead(frames, path)) \in {0, 1}
        /\ (~Ahead(frames, path) => Num(Ahead(frames, path)) = 0)
  BY DEF Num
<1>7. Num(status = "absent") \in {0, 1} /\ (status = "absent" => Num(status = "absent") = 1)
  BY DEF Num
<1>8. ASSUME NEW p \in Resumers, StartRun(p)
      PROVE  Paid'
  <2>1. Open(p, <<>>, <<>>, TopFrame({}, {}, 1)) /\ status = "absent"
        /\ UNCHANGED <<workflow, committed, executed, bounds>>
    BY <1>8 DEF StartRun
  <2>2. 0 + 1 = 1 /\ 0 \in Nat
    OBVIOUS
  <2>3. Open(p, <<>>, <<>>, TopFrame({}, {}, 0 + 1))
    BY <2>1, <2>2
  <2>4. ~Working /\ Working' /\ work'.steps = <<>> /\ work'.requests = <<>>
    <3> DEFINE none == <<>>
               n == 0
    <3>1. Open(p, none, none, TopFrame({}, {}, n + 1)) /\ n \in Nat
      BY <2>3
    <3> HIDE DEF none, n
    <3>2. ~Working /\ Working' /\ work'.steps = none /\ work'.requests = none
      BY <1>1, <3>1, OpenIsAhead
    <3> QED
      BY <3>2 DEF none
  <2>5. \A path : Waits(work'.requests, work'.steps, path) = {}
    BY <2>4 DEF Waits
  <2>6. Budget' = Budget + 0
    BY <1>2, <2>1 DEF Budget, bounds
  <2>7. ASSUME NEW path \in Paths
        PROVE  Cardinality(Waits(work'.requests, work'.steps, path)) + Num(Ahead(work'.frames, path))
                  <= Cardinality(Waits(requests, steps, path)) + Num(status = "absent") + 0
    <3> DEFINE a == Num(Ahead(work'.frames, path))
               c == Cardinality(Waits(requests, steps, path))
               n == Num(status = "absent")
    <3>1. Cardinality(Waits(work'.requests, work'.steps, path)) = 0
      BY <2>5, FS_EmptySet
    <3>2. a \in {0, 1} /\ c \in Nat /\ n = 1
      BY <1>5, <1>6, <1>7, <2>1
    <3> HIDE DEF a, c, n
    <3>3. 0 + a <= c + n + 0
      BY <3>2
    <3> QED
      BY <3>1, <3>3 DEF a, c, n
  <2> QED
    BY <1>1, <2>1, <2>2, <2>4, <2>6, <2>7, OpensPaid
<1>9. ASSUME NEW p \in Resumers, Answer(p)
      PROVE  Paid'
  <2> DEFINE r == process[p].chosen
             k == requests[r].step
             s == [steps EXCEPT ![k].status = "completed"]
             q == Closed(requests, r, "answered")
             at == Position(steps[k].node)
             outputs == process[p].outputs
                        \cup (IF Len(steps[k].node) = 1 THEN {steps[k].node[1]} ELSE {})
             more == IF requests[r].status = "pending" THEN 0 ELSE 1
  <2>1. /\ process[p].pc = "answer"
        /\ Open(p, s, q, TopFrame(outputs, NodesWith("skipped"), at + 1))
        /\ late' = IF requests[r].status = "pending" THEN late ELSE late + 1
        /\ UNCHANGED <<workflow, committed, executed, rewinds, commands, crashes>>
    BY <1>9 DEF Answer, Closed
  <2>2. r \in 1..Len(requests)
    BY <1>1, <2>1 DEF ProcessesFit
  <2> HIDE DEF r
  <2>3. k \in 1..Len(steps)
    BY <1>2, <2>2 DEF RequestsFit
  <2>4. Keeps(s, steps, Len(steps))
    BY <1>2, <2>3, StatusChanged
  <2>5. at \in Nat
    BY <1>3
  <2>6. \A path : Waits(q, s, path) = Waits(requests, steps, path) \ {r}
    <3> HIDE DEF s
    <3> QED
      BY <1>2, <2>2, <2>4, WaitsClosed
  <2>7. \A path : requests[r].status = "pending" =>
            (r \in Waits(requests, steps, path) <=> \E i \in Places(path) : at < i)
    BY <2>2 DEF Waits
  <2>8. Budget' = Budget + more /\ more \in {0, 1} /\ (requests[r].status # "pending" => more = 1)
    BY <1>2, <2>1 DEF Budget
  <2> HIDE DEF s, q, at, outputs, more, k
  <2>9. ~Working /\ Working' /\ work'.steps = s /\ work'.requests = q
        /\ \A path : Ahead(work'.frames, path) <=> \E i \in Places(path) : at < i
    BY <1>1, <2>1, <2>5, OpenIsAhead
  <2>10. ASSUME NEW path \in Paths
         PROVE  Cardinality(Waits(work'.requests, work'.steps, path)) + Num(Ahead(work'.frames, path))
                  <= Cardinality(Waits(requests, steps, path)) + Num(status = "absent") + more
    <3> DEFINE old == Waits(requests, steps, path)
               a == Num(Ahead(work'.frames, path))
               n == Num(status = "absent")
    <3>1. Waits(work'.requests, work'.steps, path) = old \ {r}
      BY <2>6, <2>9
    <3>2. a \in {0, 1} /\ Cardinality(old) \in Nat /\ IsFiniteSet(old) /\ n \in {0, 1}
      BY <1>5, <1>6, <1>7
    <3>3. (requests[r].status = "pending" /\ r \notin old) => a = 0
      BY <1>6, <2>7, <2>9
    <3> HIDE DEF old, a, n
    <3>4. Cardinality(old \ {r}) = IF r \in old THEN Cardinality(old) - 1 ELSE Cardinality(old)
      BY <3>2, FS_RemoveElement
    <3>5. Cardinality(old \ {r}) + a <= Cardinality(old) + n + more
      BY <2>8, <3>2, <3>3, <3>4
    <3> QED
      BY <3>1, <3>5 DEF old, a, n
  <2>11. more \in Nat
    BY <2>8
  <2> QED
    BY <1>1, <2>1, <2>8, <2>9, <2>10, <2>11, OpensPaid
<1>10. ASSUME NEW p \in Resumers, Rewind(p)
       PROVE  Paid'
  <2> DEFINE at == Position(steps[process[p].chosen].node)
  <2>1. /\ Open(p, steps, requests, TopFrame(process[p].outputs, NodesWith("skipped"), at + 1))
        /\ rewinds' = rewinds + 1
        /\ UNCHANGED <<workflow, committed, executed, late, commands, crashes>>
    BY <1>10 DEF Rewind
  <2>2. at \in Nat
    BY <1>3
  <2> HIDE DEF at
  <2>3. ~Working /\ Working' /\ work'.steps = steps /\ work'.requests = requests
    BY <1>1, <2>1, <2>2, OpenIsAhead
  <2>4. Budget' = Budget + 1
    BY <1>2, <2>1 DEF Budget
  <2>5. ASSUME NEW path \in Paths
        PROVE  Cardinality(Waits(work'.requests, work'.steps, path)) + Num(Ahead(work'.frames, path))
                  <= Cardinality(Waits(requests, steps, path)) + Num(status = "absent") + 1
    <3> DEFINE c == Cardinality(Waits(requests, steps, path))
               a == Num(Ahead(work'.frames, path))
               n == Num(status = "absent")
    <3>1. Cardinality(Waits(work'.requests, work'.steps, path)) = c
      BY <2>3
    <3>2. a \in {0, 1} /\ c \in Nat /\ n \in {0, 1}
      BY <1>5, <1>6, <1>7
    <3> HIDE DEF c, a, n
    <3>3. c + a <= c + n + 1
      BY <3>2
    <3> QED
      BY <3>1, <3>3 DEF c, a, n
  <2> QED
    BY <1>1, <2>1, <2>3, <2>4, <2>5, OpensPaid
<1>11. ASSUME NEW p \in Resumers, Crash(p)
       PROVE  Paid'
  <2>1. UNCHANGED <<workflow, committed, executed, late, rewinds>> /\ work' = NoWork
        /\ crashes' = crashes + 1
    BY <1>11 DEF Crash
  <2>2. Budget' = Budget + 1
    BY <1>2, <2>1 DEF Budget
  <2> QED
    BY <1>1, <2>1, <2>2, LostPaid
<1>12. ASSUME \/ \E p \in Resumers : ReadQuestion(p) \/ ReadCheckpoint(p)
              \/ Cancel \/ \E b \in Bots : ReadToCancel(b)
       PROVE  Paid'
  <2>1. UNCHANGED <<workflow, steps, requests, work, executed, late, rewinds, crashes>>
        /\ status' \in {status, "cancelled"}
    BY <1>12 DEF ReadQuestion, ReadCheckpoint, Cancel, ReadToCancel, committed
  <2>2. \A path \in Paths : Cardinality(Waits(requests', steps', path))
                             <= Cardinality(Waits(requests, steps, path))
    BY <1>5, <2>1
  <2> QED
    BY <1>1, <2>1, <2>2, RestPaid
<1>13. ASSUME NEW b \in Bots, CommitCancel(b)
       PROVE  Paid'
  <2> DEFINE r == process[b].chosen
  <2>1. /\ process[b].pc = "cancel" /\ status' = "cancelled"
        /\ requests' = Closed(requests, r, "cancelled")
        /\ UNCHANGED <<workflow, steps, work, executed, late, rewinds, crashes>>
    BY <1>13 DEF CommitCancel, bounds, Closed
  <2>2. r \in 1..Len(requests)
    BY <1>1, <2>1 DEF ProcessesFit
  <2> HIDE DEF r
  <2>3. \A path : Waits(requests', steps', path) = Waits(requests, steps, path) \ {r}
    BY <1>2, <1>4, <2>1, <2>2, WaitsClosed
  <2>4. ASSUME NEW path \in Paths
        PROVE  Cardinality(Waits(requests', steps', path)) <= Cardinality(Waits(requests, steps, path))
    <3> DEFINE old == Waits(requests, steps, path)
    <3>1. Cardinality(old) \in Nat /\ IsFiniteSet(old)
      BY <1>5
    <3> HIDE DEF old
    <3>2. Cardinality(old \ {r}) = IF r \in old THEN Cardinality(old) - 1 ELSE Cardinality(old)
      BY <3>1, FS_RemoveElement
    <3>3. Cardinality(old \ {r}) <= Cardinality(old)
      BY <3>1, <3>2
    <3> QED
      BY <2>3, <3>3 DEF old
  <2> QED
    BY <1>1, <2>1, <2>4, RestPaid
<1> QED
  BY <1>8, <1>9, <1>10, <1>11, <1>12, <1>13

\* What is owed never exceeds the budget.
LEMMA PaidAlways == ASSUME Flat PROVE Spec => []Paid
<1>1. Init => Paid
  <2> SUFFICES ASSUME Init
               PROVE  Paid
    OBVIOUS
  <2>1. TypeOK
    BY InitTyped DEF Typed
  <2>2. \A path : Waits(requests, steps, path) = {}
    BY DEF Init, Waits
  <2>3. ~Working /\ Budget = 0
    BY DEF Init, Working, Budget
  <2>4. ASSUME NEW path \in Paths
        PROVE  executed[path] + Cardinality(Waits(requests, steps, path)) + Num(status = "absent")
                  <= 1 + Budget + Num(Working /\ ~Ahead(work.frames, path))
    <3>1. executed[path] = 0
      BY DEF Init
    <3>2. Cardinality(Waits(requests, steps, path)) = 0
      BY <2>2, FS_EmptySet
    <3>3. Num(status = "absent") = 1
      BY DEF Init, Num
    <3>4. Num(Working /\ ~Ahead(work.frames, path)) = 0
      BY <2>3 DEF Num
    <3> QED
      BY <2>3, <3>1, <3>2, <3>3, <3>4
  <2> QED
    BY <2>3, <2>4 DEF Paid, WorkPaid, CommittedPaid
<1>2. Paid /\ Typed /\ Typed' /\ [Next]_vars => Paid'
  <2> SUFFICES ASSUME Paid, Typed, Typed', [Next]_vars
               PROVE  Paid'
    OBVIOUS
  <2>1. CASE Next
    BY <2>1, LoopPaid, OthersPaid DEF Next, ResumerStep
  <2>2. CASE UNCHANGED vars
    <3>1. UNCHANGED <<workflow, status, steps, requests, work, executed, late, rewinds, crashes>>
      BY <2>2 DEF vars, committed, bounds
    <3>2. TypeOK /\ TypeOK'
      BY DEF Typed
    <3>3. \A path \in Paths : Cardinality(Waits(requests', steps', path))
                               <= Cardinality(Waits(requests, steps, path))
      BY <3>1, <3>2, PaidNumbers
    <3> QED
      BY <3>1, <3>2, <3>3, RestPaid
  <2> QED
    BY <2>1, <2>2
<1> QED
  BY <1>1, <1>2, TypedAlways, PTL DEF Spec

\* A node of a run takes effect once, and once more for each rewind, crash and late answer, as
\* long as called workflows call none: an answer goes on after its question, whatever was read
\* before the lock, and what a lost transaction did is paid by the crash.
THEOREM RepeatedEffectsAlwaysNeedReruns == ASSUME Flat PROVE Spec => []RepeatedEffectsNeedReruns
<1>1. Paid /\ Typed => RepeatedEffectsNeedReruns
  <2> SUFFICES ASSUME Paid, Typed, NEW path \in Paths
               PROVE  executed[path] <= 1 + rewinds + crashes + late
    BY DEF RepeatedEffectsNeedReruns
  <2>1. TypeOK /\ Budget \in Nat /\ executed[path] \in Nat
    BY PaidNumbers DEF Typed
  <2>2. 1 + rewinds + crashes + late = 1 + Budget
    BY <2>1 DEF Budget, TypeOK
  <2>3. CASE Working
    <3> DEFINE w == Cardinality(Waits(work.requests, work.steps, path))
               a == Num(Ahead(work.frames, path))
    <3>1. w \in Nat /\ a \in {0, 1}
      BY <2>1, PaidNumbers DEF Num
    <3>2. executed[path] + w + a <= 1 + Budget
      BY <2>3 DEF Paid, WorkPaid
    <3> HIDE DEF w, a
    <3> QED
      BY <2>1, <2>2, <3>1, <3>2
  <2>4. CASE ~Working
    <3> DEFINE c == Cardinality(Waits(requests, steps, path))
               n == Num(status = "absent")
               b == Num(Working /\ ~Ahead(work.frames, path))
    <3>1. c \in Nat /\ n \in {0, 1} /\ b = 0
      BY <2>1, <2>4, PaidNumbers DEF Num
    <3>2. executed[path] + c + n <= 1 + Budget + b
      BY DEF Paid, CommittedPaid
    <3> HIDE DEF c, n, b
    <3> QED
      BY <2>1, <2>2, <3>1, <3>2
  <2> QED
    BY <2>3, <2>4
<1> QED
  BY <1>1, TypedAlways, PaidAlways, PTL

-----------------------------------------------------------------------------
(* Branches: the steps of the nodes of the run's own workflow, w.          *)

\* Those of called workflows have a longer path.
Own(s) == {k \in 1..Len(s) : Len(s[k].node) = 1}

\* Where in the order the node of a step is, and that node.
Place(w, s, k)  == CHOOSE i \in 1..Len(Order[w]) : <<Order[w][i].id>> = s[k].node
NodeOf(w, s, k) == Order[w][Place(w, s, k)]

\* The nodes that a step decided against, and those it decided for.
Refused(w, s, k) ==
    IF s[k].value = "" THEN {} ELSE Targets(NodeOf(w, s, k)) \ NodeOf(w, s, k).branch[s[k].value]
Accepted(w, s, k) == IF s[k].value = "" THEN {} ELSE NodeOf(w, s, k).branch[s[k].value]

Values == {"", "true", "false"}

\* Only conditions decide, and they are not skipped.
OwnFits(w, s, k) ==
    /\ ~Cyclic(w)
    /\ Place(w, s, k) \in 1..Len(Order[w])
    /\ s[k].node = <<NodeOf(w, s, k).id>>
    /\ s[k].value # "" => NodeOf(w, s, k).type = "condition" /\ s[k].status # "skipped"

OwnFit(w, s) == \A k \in Own(s) : OwnFits(w, s, k)

\* A step is the same in s and t, up to its status.
Twin(w, s, t, k) ==
    /\ t[k].node = s[k].node /\ t[k].value = s[k].value
    /\ Place(w, t, k) = Place(w, s, k) /\ NodeOf(w, t, k) = NodeOf(w, s, k)
    /\ Refused(w, t, k) = Refused(w, s, k) /\ Accepted(w, t, k) = Accepted(w, s, k)

\* t has the own steps of s; that of c, if there is one, has ended so.
Like(w, s, t, c, end) ==
    /\ Own(t) = Own(s)
    /\ \A k \in Own(s) : k \in Nat /\ Twin(w, s, t, k) /\ t[k].status = IF k = c THEN end ELSE s[k].status

\* t has one own step more, x, which is of the node at place i.
Adds(w, s, t, x, i, end, value) ==
    /\ Own(t) = Own(s) \cup {x} /\ x \notin Own(s) /\ x \in Nat
    /\ \A k \in Own(s) : k \in Nat /\ k < x /\ Twin(w, s, t, k) /\ t[k].status = s[k].status
    /\ i \in 1..Len(Order[w]) /\ ~Cyclic(w)
    /\ t[x].node = <<Order[w][i].id>> /\ Place(w, t, x) = i /\ NodeOf(w, t, x) = Order[w][i]
    /\ t[x].status = end /\ t[x].value = value

LEMMA Twins ==
    ASSUME NEW w, NEW s, NEW t, NEW k, t[k].node = s[k].node, t[k].value = s[k].value
    PROVE  Twin(w, s, t, k)
<1>1. Place(w, t, k) = Place(w, s, k)
  BY Zenon DEF Place
<1>2. NodeOf(w, t, k) = NodeOf(w, s, k)
  BY <1>1, Zenon DEF NodeOf
<1>3. Refused(w, t, k) = Refused(w, s, k) /\ Accepted(w, t, k) = Accepted(w, s, k)
  BY <1>2, Zenon DEF Refused, Accepted
<1> QED
  BY <1>1, <1>2, <1>3, Zenon DEF Twin

LEMMA OwnIndex ==
    ASSUME NEW s \in Seq(Step), NEW k \in Own(s)
    PROVE  /\ k \in 1..Len(s) /\ Len(s) \in Nat /\ k \in Nat /\ k < Len(s) + 1
           /\ s[k] \in Step /\ Len(s[k].node) = 1
<1>1. Len(s) \in Nat /\ k \in 1..Len(s) /\ Len(s[k].node) = 1
  BY DEF Own
<1>2. s[k] \in Step
  BY <1>1
<1>3. k \in Nat /\ k < Len(s) + 1
  BY <1>1
<1> QED
  BY <1>1, <1>2, <1>3

\* Steps of called workflows come and go: the own ones are alike if they keep what they are.
LEMMA LikeFromRows ==
    ASSUME NEW w, NEW s \in Seq(Step), NEW t \in Seq(Step), NEW c, NEW end,
           Len(s) <= Len(t),
           \A k \in 1..Len(s) : t[k].node = s[k].node /\ t[k].value = s[k].value,
           \A k \in Own(s) : t[k].status = IF k = c THEN end ELSE s[k].status,
           \A k \in 1..Len(t) : k > Len(s) => Len(t[k].node) # 1
    PROVE  Like(w, s, t, c, end)
<1>1. Len(s) \in Nat /\ Len(t) \in Nat
  OBVIOUS
<1>2. ASSUME NEW k \in Own(t)
      PROVE  k \in Own(s)
  <2>1. k \in 1..Len(t) /\ Len(t[k].node) = 1
    BY DEF Own
  <2>2. ~(k > Len(s))
    BY <2>1
  <2>3. k \in 1..Len(s)
    BY <1>1, <2>1, <2>2
  <2>4. Len(s[k].node) = 1
    BY <2>1, <2>3, Zenon
  <2> QED
    BY <2>3, <2>4 DEF Own
<1>3. ASSUME NEW k \in Own(s)
      PROVE  k \in Own(t)
  <2>1. k \in 1..Len(s) /\ Len(s[k].node) = 1
    BY DEF Own
  <2>2. k \in 1..Len(t)
    BY <1>1, <2>1
  <2>3. Len(t[k].node) = 1
    BY <2>1, Zenon
  <2> QED
    BY <2>2, <2>3 DEF Own
<1>4. ASSUME NEW k \in Own(s)
      PROVE  k \in Nat /\ Twin(w, s, t, k) /\ t[k].status = IF k = c THEN end ELSE s[k].status
  <2>1. k \in 1..Len(s) /\ k \in Nat
    BY OwnIndex
  <2>2. Twin(w, s, t, k)
    BY <2>1, Twins, Zenon
  <2> QED
    BY <2>1, <2>2, Zenon
<1> QED
  BY <1>2, <1>3, <1>4, Zenon DEF Like

LEMMA PlaceOfNode ==
    ASSUME NEW w \in DOMAIN Library, NEW s, NEW k, NEW i \in 1..Len(Order[w]),
           s[k].node = <<Order[w][i].id>>
    PROVE  Place(w, s, k) = i /\ NodeOf(w, s, k) = Order[w][i]
<1> DEFINE path == s[k].node
<1>1. path = <<Order[w][i].id>>
  OBVIOUS
<1>2. \A j \in 1..Len(Order[w]) : <<Order[w][j].id>> = path => j = i
  BY <1>1, OrderFacts
<1>3. Place(w, s, k) = CHOOSE j \in 1..Len(Order[w]) : <<Order[w][j].id>> = path
  BY DEF Place
<1> HIDE DEF path
<1>4. Place(w, s, k) = i
  BY <1>1, <1>2, <1>3
<1> QED
  BY <1>4, Zenon DEF NodeOf

LEMMA NextIndex ==
    ASSUME NEW n \in Nat
    PROVE  /\ n + 1 \in 1..(n + 1) /\ n + 1 \in Nat /\ n + 1 \notin 1..n
           /\ \A k \in 1..n : k \in Nat /\ k \in 1..(n + 1) /\ k < n + 1
           /\ \A k \in 1..(n + 1) : k \in 1..n \/ k = n + 1
OBVIOUS

LEMMA AppendRow ==
    ASSUME NEW s \in Seq(Step), NEW row \in Step
    PROVE  /\ Append(s, row) \in Seq(Step) /\ Len(s) \in Nat
           /\ Len(Append(s, row)) = Len(s) + 1 /\ Len(s) <= Len(Append(s, row))
           /\ \A k \in 1..Len(s) : Append(s, row)[k] = s[k]
           /\ Append(s, row)[Len(s) + 1] = row
<1> DEFINE t == Append(s, row)
<1>1. t \in Seq(Step) /\ Len(s) \in Nat /\ Len(t) = Len(s) + 1
  OBVIOUS
<1>2. \A k \in 1..Len(s) : t[k] = s[k]
  OBVIOUS
<1>3. t[Len(s) + 1] = row
  OBVIOUS
<1>4. Len(s) <= Len(t)
  BY <1>1
<1> QED
  BY <1>1, <1>2, <1>3, <1>4, Zenon

\* t is s with one row more.
Extended(s, row, t) ==
    Len(t) = Len(s) + 1 /\ t[Len(s) + 1] = row /\ \A k \in 1..Len(s) : t[k] = s[k]

LEMMA AddsFromRows ==
    ASSUME NEW w \in DOMAIN Library, ~Cyclic(w), NEW s \in Seq(Step), NEW row \in Step,
           NEW i \in 1..Len(Order[w]), row.node = <<Order[w][i].id>>,
           NEW t, Extended(s, row, t)
    PROVE  Adds(w, s, t, Len(s) + 1, i, row.status, row.value)
<1> DEFINE x == Len(s) + 1
<1>1. Len(s) \in Nat /\ Len(t) = x /\ t[x] = row /\ \A k \in 1..Len(s) : t[k] = s[k]
  BY DEF Extended
<1>2. /\ x \in 1..x /\ x \in Nat /\ x \notin 1..Len(s)
      /\ \A k \in 1..Len(s) : k \in Nat /\ k \in 1..x /\ k < x
      /\ \A k \in 1..x : k \in 1..Len(s) \/ k = x
  BY <1>1, NextIndex
<1> HIDE DEF x
<1>3. Len(t[x].node) = 1 /\ t[x].node = <<Order[w][i].id>>
  <2>1. t[x].node = <<Order[w][i].id>>
    BY <1>1, Zenon
  <2>2. \A a : Len(<<a>>) = 1
    OBVIOUS
  <2> QED
    BY <2>1, <2>2, Zenon
<1>4. Own(t) = Own(s) \cup {x} /\ x \notin Own(s)
  BY <1>1, <1>2, <1>3, Zenon DEF Own
<1>5. ASSUME NEW k \in Own(s)
      PROVE  k \in Nat /\ k < x /\ Twin(w, s, t, k) /\ t[k].status = s[k].status
  <2>1. k \in 1..Len(s)
    BY DEF Own
  <2>2. t[k] = s[k]
    BY <1>1, <2>1, Zenon
  <2>3. Twin(w, s, t, k)
    BY <2>2, Twins, Zenon
  <2> QED
    BY <1>2, <2>1, <2>2, <2>3, Zenon
<1>6. Place(w, t, x) = i /\ NodeOf(w, t, x) = Order[w][i]
  <2>1. t[x].node = <<Order[w][i].id>>
    BY <1>3
  <2> QED
    BY <2>1, PlaceOfNode
<1>7. t[x].status = row.status /\ t[x].value = row.value
  BY <1>1, Zenon
<1>8. Adds(w, s, t, x, i, row.status, row.value)
  BY <1>2, <1>3, <1>4, <1>5, <1>6, <1>7, Zenon DEF Adds
<1> QED
  BY <1>8 DEF x

LEMMA AddsFromRow ==
    ASSUME NEW w \in DOMAIN Library, ~Cyclic(w), NEW s \in Seq(Step), NEW row \in Step,
           NEW i \in 1..Len(Order[w]), row.node = <<Order[w][i].id>>
    PROVE  Adds(w, s, Append(s, row), Len(s) + 1, i, row.status, row.value)
<1>1. Extended(s, row, Append(s, row))
  BY AppendRow, Zenon DEF Extended
<1> QED
  BY <1>1, AddsFromRows, Zenon

-----------------------------------------------------------------------------
(* Branches: what the steps of an orderly run are like.                    *)

\* The steps are those of the first m nodes, in their order.
Passed(w, s, m) ==
    /\ \A j, k \in Own(s) : j < k => Place(w, s, j) < Place(w, s, k)
    /\ \A k \in Own(s) : Place(w, s, k) <= m
    /\ \A i \in 1..m : \E k \in Own(s) : Place(w, s, k) = i

\* Those before place n are over.
Settled(w, s, n) == \A k \in Own(s) : Place(w, s, k) < n => s[k].status \in {"completed", "skipped"}

\* What was decided against is skipped, and what was decided for is not.
Only(w, s) ==
    \A j, k \in Own(s) : NodeOf(w, s, j).id \in Refused(w, s, k) => s[j].status = "skipped"
Selects(w, s) ==
    \A j, k \in Own(s) : NodeOf(w, s, j).id \in Accepted(w, s, k) => s[j].status # "skipped"

\* The nodes to skip: all that was decided against, and nothing without a reason.
Covers(w, s, skipped) == \A k \in Own(s) : Refused(w, s, k) \subseteq skipped
Reasons(w, s, skipped) ==
    \A id \in skipped :
        \/ \E j \in Own(s) : NodeOf(w, s, j).id = id /\ s[j].status = "skipped"
        \/ /\ \A j \in Own(s) : NodeOf(w, s, j).id # id
           /\ \E k \in Own(s) : id \in Refused(w, s, k)

LEMMA TargetsFollow ==
    ASSUME TargetsWait, NEW w \in Mains, ~Cyclic(w), NEW i \in 1..Len(Order[w]),
           NEW j \in 1..Len(Order[w]), Order[w][i].type = "condition",
           Order[w][j].id \in Targets(Order[w][i])
    PROVE  i < j
BY DEF TargetsWait

LEMMA WellBranchedWaits == WellBranched => TargetsWait
<1> SUFFICES ASSUME WellBranched, NEW w \in Mains, ~Cyclic(w),
                    NEW i \in 1..Len(Order[w]), NEW j \in 1..Len(Order[w]),
                    Order[w][i].type = "condition", Order[w][j].id \in Targets(Order[w][i])
             PROVE  i < j
  BY DEF TargetsWait
<1>1. w \in DOMAIN Library
  BY LibraryAssumption
<1>2. PICK k \in (i + 1)..Len(Order[w]) : Order[w][k].id = Order[w][j].id
  <2>1. \A a \in 1..Len(Order[w]) : Order[w][a].type = "condition" =>
            \A id \in Targets(Order[w][a]) :
                \E b \in (a + 1)..Len(Order[w]) : Order[w][b].id = id /\ Order[w][b].deps = {Order[w][a].id}
    BY Zenon DEF WellBranched
  <2>2. \E b \in (i + 1)..Len(Order[w]) :
            Order[w][b].id = Order[w][j].id /\ Order[w][b].deps = {Order[w][i].id}
    BY <2>1, Zenon
  <2> QED
    BY <2>2, Zenon
<1>3. Len(Order[w]) \in Nat
  BY <1>1, OrderFacts
<1>4. k \in 1..Len(Order[w])
  BY <1>3
<1>5. k = j
  BY <1>1, <1>2, <1>4, OrderFacts
<1> QED
  BY <1>3, <1>5

LEMMA OwnPlace ==
    ASSUME NEW w \in DOMAIN Library, NEW s, OwnFit(w, s), NEW k \in Own(s)
    PROVE  /\ ~Cyclic(w)
           /\ Place(w, s, k) \in 1..Len(Order[w]) /\ Place(w, s, k) \in Nat /\ Place(w, s, k) >= 1
           /\ Len(Order[w]) \in Nat
           /\ s[k].node = <<NodeOf(w, s, k).id>>
           /\ NodeOf(w, s, k) = Order[w][Place(w, s, k)]
           /\ s[k].value # "" => NodeOf(w, s, k).type = "condition" /\ s[k].status # "skipped"
<1>1. OwnFits(w, s, k)
  BY Zenon DEF OwnFit
<1>2. Place(w, s, k) \in 1..Len(Order[w]) /\ Len(Order[w]) \in Nat
  BY <1>1, OrderFacts DEF OwnFits
<1>3. Place(w, s, k) \in Nat /\ Place(w, s, k) >= 1
  BY <1>2
<1> QED
  BY <1>1, <1>2, <1>3, Zenon DEF OwnFits, NodeOf

LEMMA OneRow ==
    ASSUME NEW w \in DOMAIN Library, NEW s \in Seq(Step), OwnFit(w, s), NEW m, Passed(w, s, m),
           NEW j \in Own(s), NEW k \in Own(s), NodeOf(w, s, j).id = NodeOf(w, s, k).id
    PROVE  j = k
<1> DEFINE a == Place(w, s, j)
           b == Place(w, s, k)
<1>1. a \in 1..Len(Order[w]) /\ b \in 1..Len(Order[w]) /\ a \in Nat /\ b \in Nat
      /\ NodeOf(w, s, j) = Order[w][a] /\ NodeOf(w, s, k) = Order[w][b]
  BY OwnPlace, Zenon
<1>2. j < k => a < b
  BY Zenon DEF Passed
<1>3. k < j => b < a
  BY Zenon DEF Passed
<1>4. j \in Nat /\ k \in Nat
  BY OwnIndex
<1> HIDE DEF a, b
<1>5. Order[w][a].id = Order[w][b].id
  BY <1>1, Zenon
<1>6. a = b
  BY <1>1, <1>5, OrderFacts
<1> QED
  BY <1>1, <1>2, <1>3, <1>4, <1>6

LEMMA LikeFits ==
    ASSUME NEW w, NEW s, NEW t, NEW c, NEW end, end # "skipped", Like(w, s, t, c, end), OwnFit(w, s)
    PROVE  OwnFit(w, t)
<1> SUFFICES ASSUME NEW k \in Own(t)
             PROVE  OwnFits(w, t, k)
  BY Zenon DEF OwnFit
<1>1. k \in Own(s)
  BY DEF Like
<1>2. Twin(w, s, t, k) /\ t[k].status = IF k = c THEN end ELSE s[k].status
  BY <1>1, Zenon DEF Like
<1>3. OwnFits(w, s, k)
  BY <1>1, Zenon DEF OwnFit
<1>4. s[k].status # "skipped" => t[k].status # "skipped"
  BY <1>2
<1> QED
  BY <1>2, <1>3, <1>4, Zenon DEF OwnFits, Twin

LEMMA AddsFits ==
    ASSUME NEW w, NEW s, NEW t, NEW x, NEW i, NEW end, NEW value, Adds(w, s, t, x, i, end, value),
           value # "" => Order[w][i].type = "condition" /\ end # "skipped", OwnFit(w, s)
    PROVE  OwnFit(w, t)
<1>1. ASSUME NEW k \in Own(s)
      PROVE  OwnFits(w, t, k)
  <2>1. Twin(w, s, t, k) /\ t[k].status = s[k].status
    BY Zenon DEF Adds
  <2>2. OwnFits(w, s, k)
    BY Zenon DEF OwnFit
  <2> QED
    BY <2>1, <2>2, Zenon DEF OwnFits, Twin
<1>2. OwnFits(w, t, x)
  BY Zenon DEF OwnFits, Adds
<1>3. \A k \in Own(t) : k \in Own(s) \/ k = x
  BY Zenon DEF Adds
<1> QED
  BY <1>1, <1>2, <1>3, Zenon DEF OwnFit

LEMMA LikePassed ==
    ASSUME NEW w, NEW s, NEW t, NEW c, NEW end, Like(w, s, t, c, end), NEW m, Passed(w, s, m)
    PROVE  Passed(w, t, m)
<1>1. Own(t) = Own(s) /\ \A k \in Own(s) : Place(w, t, k) = Place(w, s, k)
  BY Zenon DEF Like, Twin
<1> QED
  BY <1>1, Zenon DEF Passed

LEMMA LikeSettled ==
    ASSUME NEW w, NEW s, NEW t, NEW c, NEW end, Like(w, s, t, c, end),
           NEW n, Settled(w, s, n), c \in Own(s) => ~(Place(w, s, c) < n)
    PROVE  Settled(w, t, n)
<1> SUFFICES ASSUME NEW k \in Own(t), Place(w, t, k) < n
             PROVE  t[k].status \in {"completed", "skipped"}
  BY Zenon DEF Settled
<1>1. k \in Own(s) /\ Place(w, t, k) = Place(w, s, k) /\ t[k].status = IF k = c THEN end ELSE s[k].status
  BY Zenon DEF Like, Twin
<1>2. k # c
  BY <1>1, Zenon
<1>3. t[k].status = s[k].status
  BY <1>1, <1>2, Zenon
<1>4. Place(w, s, k) < n
  BY <1>1, Zenon
<1> QED
  BY <1>1, <1>3, <1>4, Zenon DEF Settled

\* The step of place i ends a row of settled ones.
LEMMA LikeCompleted ==
    ASSUME NEW w \in DOMAIN Library, NEW s \in Seq(Step), OwnFit(w, s), NEW t, NEW c \in Own(s),
           Like(w, s, t, c, "completed"), NEW i \in Nat, Passed(w, s, i), Settled(w, s, i),
           Place(w, s, c) = i
    PROVE  Settled(w, t, i + 1)
<1> SUFFICES ASSUME NEW k \in Own(t), Place(w, t, k) < i + 1
             PROVE  t[k].status \in {"completed", "skipped"}
  BY Zenon DEF Settled
<1>1. k \in Own(s) /\ Place(w, t, k) = Place(w, s, k)
      /\ t[k].status = IF k = c THEN "completed" ELSE s[k].status
  BY Zenon DEF Like, Twin
<1>2. CASE k = c
  BY <1>1, <1>2
<1>3. CASE k # c
  <2>1. Place(w, s, k) \in Nat
    BY <1>1, OwnPlace, Zenon
  <2>2. Place(w, s, k) # i
    <3>1. SUFFICES ASSUME Place(w, s, k) = i
                   PROVE  FALSE
      OBVIOUS
    <3>2. NodeOf(w, s, k).id = NodeOf(w, s, c).id
      BY <3>1, Zenon DEF NodeOf
    <3> QED
      BY <1>1, <1>3, <3>2, OneRow, Zenon
  <2>4. Place(w, s, k) < i + 1
    BY <1>1, Zenon
  <2>3. Place(w, s, k) < i
    BY <2>1, <2>2, <2>4
  <2>5. s[k].status \in {"completed", "skipped"}
    BY <1>1, <2>3, Zenon DEF Settled
  <2> QED
    BY <1>1, <1>3, <2>5, Zenon
<1> QED
  BY <1>2, <1>3

LEMMA AddsPassed ==
    ASSUME NEW w \in DOMAIN Library, NEW s, OwnFit(w, s), NEW t, NEW x, NEW i, NEW end, NEW value,
           Adds(w, s, t, x, i, end, value), Passed(w, s, i - 1), Settled(w, s, i)
    PROVE  /\ Passed(w, t, i) /\ Settled(w, t, i)
           /\ end \in {"completed", "skipped"} => Settled(w, t, i + 1)
<1>1. /\ Own(t) = Own(s) \cup {x} /\ x \notin Own(s) /\ x \in Nat /\ Place(w, t, x) = i
      /\ t[x].status = end
      /\ \A k \in Own(s) : k \in Nat /\ k < x /\ Place(w, t, k) = Place(w, s, k) /\ t[k].status = s[k].status
  BY Zenon DEF Adds, Twin
<1>2. i \in Nat /\ i >= 1
  <2>1. i \in 1..Len(Order[w]) /\ Len(Order[w]) \in Nat
    BY OrderFacts DEF Adds
  <2> QED
    BY <2>1
<1>3. \A k \in Own(s) : Place(w, s, k) \in Nat
  BY OwnPlace, Zenon
<1>4. \A k \in Own(s) : Place(w, s, k) <= i - 1
  BY Zenon DEF Passed
<1>5. \A k \in Own(s) : Place(w, s, k) < i /\ Place(w, s, k) <= i /\ ~(x < k)
  BY <1>1, <1>2, <1>3, <1>4
<1>6. \A j, k \in Own(t) : j < k => Place(w, t, j) < Place(w, t, k)
  <2> TAKE j \in Own(t), k \in Own(t)
  <2>1. CASE j \in Own(s) /\ k \in Own(s)
    BY <1>1, <2>1, Zenon DEF Passed
  <2>2. CASE j \in Own(s) /\ k = x
    BY <1>1, <1>5, <2>2, Zenon
  <2>3. CASE j = x
    <3>1. ~(j < k)
      <4>1. ~(x < x)
        BY <1>1
      <4> QED
        BY <1>1, <1>5, <2>3, <4>1, Zenon
    <3> QED
      BY <3>1
  <2> QED
    BY <1>1, <2>1, <2>2, <2>3, Zenon
<1>7. \A k \in Own(t) : Place(w, t, k) <= i
  <2>1. i <= i
    BY <1>2
  <2> QED
    BY <1>1, <1>5, <2>1, Zenon
<1>8. \A a \in 1..i : \E k \in Own(t) : Place(w, t, k) = a
  <2> TAKE a \in 1..i
  <2>1. a \in 1..(i - 1) \/ a = i
    BY <1>2
  <2>2. CASE a = i
    BY <1>1, <2>2, Zenon
  <2>3. CASE a \in 1..(i - 1)
    <3>1. PICK k \in Own(s) : Place(w, s, k) = a
      BY <2>3, Zenon DEF Passed
    <3> QED
      BY <1>1, <3>1, Zenon
  <2> QED
    BY <2>1, <2>2, <2>3
<1>9. Settled(w, t, i)
  <2> SUFFICES ASSUME NEW k \in Own(t), Place(w, t, k) < i
               PROVE  t[k].status \in {"completed", "skipped"}
    BY Zenon DEF Settled
  <2>1. ~(i < i)
    BY <1>2
  <2>2. k \in Own(s)
    BY <1>1, <2>1, Zenon
  <2>3. Place(w, s, k) < i /\ t[k].status = s[k].status
    BY <1>5, <1>1, <2>2, Zenon
  <2> QED
    BY <2>2, <2>3, Zenon DEF Settled
<1>10. ASSUME end \in {"completed", "skipped"}
       PROVE  Settled(w, t, i + 1)
  <2> SUFFICES ASSUME NEW k \in Own(t)
               PROVE  t[k].status \in {"completed", "skipped"}
    BY Zenon DEF Settled
  <2>1. CASE k = x
    BY <1>1, <1>10, <2>1
  <2>2. CASE k \in Own(s)
    <3>1. Place(w, s, k) < i /\ t[k].status = s[k].status
      BY <1>5, <1>1, <2>2, Zenon
    <3> QED
      BY <2>2, <3>1, Zenon DEF Settled
  <2> QED
    BY <1>1, <2>1, <2>2, Zenon
<1>11. Passed(w, t, i)
  BY <1>6, <1>7, <1>8, Zenon DEF Passed
<1> QED
  BY <1>9, <1>10, <1>11, Zenon
LEMMA PlaceOrder ==
    /\ \A a, b \in Nat : ~(a < a) /\ ~(a <= a - 1) /\ ~(a < b /\ b <= a - 1)
    /\ \A w \in DOMAIN Library : \A i \in 1..Len(Order[w]) : i \in Nat
    /\ \A w \in DOMAIN Library : \A i \in 1..Len(Order[w]) :
          \A j \in (i + 1)..Len(Order[w]) : j \in 1..Len(Order[w])
<1>1. \A a, b \in Nat : ~(a < a) /\ ~(a <= a - 1) /\ ~(a < b /\ b <= a - 1)
  OBVIOUS
<1>2. ASSUME NEW w \in DOMAIN Library, NEW i \in 1..Len(Order[w])
      PROVE  i \in Nat /\ \A j \in (i + 1)..Len(Order[w]) : j \in 1..Len(Order[w])
  <2>1. Len(Order[w]) \in Nat
    BY OrderFacts
  <2> QED
    BY <2>1
<1> QED
  BY <1>1, <1>2

\* What a step decides about are targets of its node.
LEMMA Decides ==
    ASSUME NEW w, NEW s, NEW k, s[k].value \in Values,
           NEW id, id \in Refused(w, s, k) \/ id \in Accepted(w, s, k)
    PROVE  s[k].value # "" /\ id \in Targets(NodeOf(w, s, k))
<1> DEFINE n == NodeOf(w, s, k)
           v == s[k].value
<1>1. Refused(w, s, k) = IF v = "" THEN {} ELSE Targets(n) \ n.branch[v]
  BY DEF Refused
<1>2. Accepted(w, s, k) = IF v = "" THEN {} ELSE n.branch[v]
  BY DEF Accepted
<1>3. v \in {"", "true", "false"}
  BY DEF Values
<1> HIDE DEF n, v
<1>4. v # ""
  BY <1>1, <1>2
<1>5. n.branch[v] \subseteq Targets(n)
  BY <1>3, <1>4 DEF Targets
<1>6. id \in Targets(n)
  BY <1>1, <1>2, <1>4, <1>5
<1> QED
  BY <1>4, <1>6 DEF n, v

\* A condition comes before all it decides about.
LEMMA FreshTargets ==
    ASSUME TargetsWait, NEW w \in Mains, NEW s, NEW t, OwnFit(w, t), OwnFit(w, s), NEW x, NEW i,
           NEW end, NEW value \in Values, Adds(w, s, t, x, i, end, value),
           Passed(w, s, i - 1)
    PROVE  \A id \in Refused(w, t, x) \cup Accepted(w, t, x) : \A j \in Own(t) : NodeOf(w, t, j).id # id
<1> SUFFICES ASSUME NEW id \in Refused(w, t, x) \cup Accepted(w, t, x), NEW j \in Own(t),
                    NodeOf(w, t, j).id = id
             PROVE  FALSE
  BY Zenon
<1>1. w \in DOMAIN Library
  BY LibraryAssumption
<1> DEFINE n == Order[w][i]
           b == Place(w, t, j)
<1>2. /\ Own(t) = Own(s) \cup {x} /\ Place(w, t, x) = i /\ NodeOf(w, t, x) = n
      /\ t[x].value = value
      /\ \A k \in Own(s) : Place(w, t, k) = Place(w, s, k)
  BY Zenon DEF Adds, Twin
<1>3. x \in Own(t)
  BY <1>2
<1>4. t[x].value # "" /\ id \in Targets(n)
  <2>1. t[x].value \in Values
    BY <1>2
  <2>2. id \in Refused(w, t, x) \/ id \in Accepted(w, t, x)
    OBVIOUS
  <2>3. t[x].value # "" /\ id \in Targets(NodeOf(w, t, x))
    BY <2>1, <2>2, Decides, Zenon
  <2> QED
    BY <1>2, <2>3, Zenon
<1>5. n.type = "condition"
  <2>1. NodeOf(w, t, x).type = "condition"
    BY <1>1, <1>3, <1>4, OwnPlace, Zenon
  <2> QED
    BY <1>2, <2>1, Zenon
<1>6. b \in 1..Len(Order[w]) /\ b \in Nat /\ NodeOf(w, t, j) = Order[w][b]
  BY <1>1, OwnPlace, Zenon
<1>7. i \in 1..Len(Order[w]) /\ ~Cyclic(w)
  BY Zenon DEF Adds
<1>8. i < b
  <2>1. Order[w][b].id \in Targets(Order[w][i]) /\ Order[w][i].type = "condition"
    BY <1>4, <1>5, <1>6, Zenon
  <2> HIDE DEF b, n
  <2> QED
    BY <1>6, <1>7, <2>1, TargetsFollow, Zenon
<1>9. i \in Nat
  BY <1>1, <1>7, PlaceOrder, Zenon
<1>10. b \in Nat
  BY <1>6, Zenon
<1>11. CASE j = x
  <2>1. b = i
    BY <1>2, <1>11, Zenon
  <2> HIDE DEF b
  <2> QED
    BY <1>8, <1>9, <2>1, PlaceOrder, Zenon
<1>12. CASE j \in Own(s)
  <2>1. b <= i - 1
    BY <1>2, <1>12, Zenon DEF Passed
  <2> HIDE DEF b
  <2> QED
    BY <1>8, <1>9, <1>10, <2>1, PlaceOrder, Zenon
<1> QED
  BY <1>2, <1>11, <1>12, Zenon

LEMMA AddsOnly ==
    ASSUME TargetsWait, NEW w \in Mains, NEW s, NEW t, OwnFit(w, t), OwnFit(w, s), NEW x, NEW i,
           NEW end, NEW value \in Values, Adds(w, s, t, x, i, end, value),
           Passed(w, s, i - 1), Only(w, s), NEW skipped, Covers(w, s, skipped),
           end # "skipped" => Order[w][i].id \notin skipped
    PROVE  Only(w, t)
<1> SUFFICES ASSUME NEW j \in Own(t), NEW k \in Own(t), NodeOf(w, t, j).id \in Refused(w, t, k)
             PROVE  t[j].status = "skipped"
  BY Zenon DEF Only
<1>1. /\ Own(t) = Own(s) \cup {x}
      /\ NodeOf(w, t, x) = Order[w][i] /\ t[x].status = end
      /\ \A a \in Own(s) : /\ NodeOf(w, t, a) = NodeOf(w, s, a) /\ t[a].status = s[a].status
                           /\ Refused(w, t, a) = Refused(w, s, a)
  BY Zenon DEF Adds, Twin
<1>2. CASE k = x
  <2>1. \A id \in Refused(w, t, x) : NodeOf(w, t, j).id # id
    BY FreshTargets, Zenon
  <2> QED
    BY <1>2, <2>1, Zenon
<1>3. CASE k \in Own(s) /\ j \in Own(s)
  BY <1>1, <1>3, Zenon DEF Only
<1>4. CASE k \in Own(s) /\ j = x
  <2>1. Order[w][i].id \in Refused(w, s, k)
    BY <1>1, <1>4, Zenon
  <2>2. Order[w][i].id \in skipped
    BY <1>4, <2>1, Zenon DEF Covers
  <2> QED
    BY <1>1, <1>4, <2>2, Zenon
<1> QED
  BY <1>1, <1>2, <1>3, <1>4, Zenon

\* A node that was decided for is not skipped: it depends on its condition alone.
LEMMA AddsSelects ==
    ASSUME WellBranched, NEW w \in Mains, NEW s \in Seq(Step), NEW t, OwnFit(w, t), OwnFit(w, s),
           NEW x, NEW i, NEW end, NEW value \in Values,
           Adds(w, s, t, x, i, end, value), Passed(w, s, i - 1), Selects(w, s),
           NEW skipped, Reasons(w, s, skipped),
           end = "skipped" => Order[w][i].id \in skipped \/ Order[w][i].deps \cap skipped # {}
    PROVE  Selects(w, t)
<1> SUFFICES ASSUME NEW j \in Own(t), NEW k \in Own(t), NodeOf(w, t, j).id \in Accepted(w, t, k)
             PROVE  t[j].status # "skipped"
  BY Zenon DEF Selects
<1>1. /\ Own(t) = Own(s) \cup {x} /\ x \notin Own(s)
      /\ NodeOf(w, t, x) = Order[w][i] /\ t[x].status = end
      /\ \A a \in Own(s) : /\ NodeOf(w, t, a) = NodeOf(w, s, a) /\ t[a].status = s[a].status
                           /\ Refused(w, t, a) = Refused(w, s, a)
                           /\ Accepted(w, t, a) = Accepted(w, s, a)
  BY Zenon DEF Adds, Twin
<1>2. TargetsWait /\ w \in DOMAIN Library
  BY WellBranchedWaits, LibraryAssumption
<1>3. CASE k = x
  <2>1. \A id \in Accepted(w, t, x) : NodeOf(w, t, j).id # id
    BY <1>2, FreshTargets, Zenon
  <2> QED
    BY <1>3, <2>1, Zenon
<1>4. CASE k \in Own(s) /\ j \in Own(s)
  BY <1>1, <1>4, Zenon DEF Selects
<1>5. CASE k \in Own(s) /\ j = x
  <2> SUFFICES ASSUME end = "skipped"
               PROVE  FALSE
    BY <1>1, <1>5, Zenon
  <2> DEFINE n == Order[w][i]
             c == NodeOf(w, s, k)
  <2>1. n.id \in Accepted(w, s, k)
    BY <1>1, <1>5, Zenon
  <2>2. /\ ~Cyclic(w) /\ i \in 1..Len(Order[w])
        /\ \A a \in Own(s) : Place(w, t, a) = Place(w, s, a)
    BY Zenon DEF Adds, Twin
  \* No step of this node is there,
  <2>3. \A a \in Own(s) : NodeOf(w, s, a).id # n.id
    <3> SUFFICES ASSUME NEW a \in Own(s), NodeOf(w, s, a).id = n.id
                 PROVE  FALSE
      BY Zenon
    <3> DEFINE b == Place(w, s, a)
    <3>1. b \in 1..Len(Order[w]) /\ NodeOf(w, s, a) = Order[w][b]
      BY <1>2, OwnPlace, Zenon
    <3>2. b <= i - 1
      BY Zenon DEF Passed
    <3>3. Order[w][b].id = Order[w][i].id /\ i \in 1..Len(Order[w])
      BY <2>2, <3>1, Zenon
    <3>4. b \in Nat
      BY <1>2, OwnPlace, Zenon
    <3> HIDE DEF b
    <3>5. b = i
      BY <1>2, <3>1, <3>3, OrderFacts, Zenon
    <3> QED
      BY <3>2, <3>4, <3>5, PlaceOrder, Zenon
  \* and it depends on any condition that decides about it, so that there is one only.
  <2>4. \A a \in Own(s) : n.id \in Refused(w, s, a) \cup Accepted(w, s, a) => n.deps = {NodeOf(w, s, a).id}
    <3> SUFFICES ASSUME NEW a \in Own(s), n.id \in Refused(w, s, a) \cup Accepted(w, s, a)
                 PROVE  n.deps = {NodeOf(w, s, a).id}
      BY Zenon
    <3> DEFINE b == Place(w, s, a)
               d == NodeOf(w, s, a)
    <3>1. b \in 1..Len(Order[w]) /\ Len(Order[w]) \in Nat /\ d = Order[w][b]
      BY <1>2, OwnPlace, Zenon
    <3>2. s[a].value # "" /\ n.id \in Targets(d)
      <4>1. s[a].value \in Values
        <5>1. s[a] \in Step
          BY OwnIndex
        <5> QED
          BY <5>1 DEF Step, Values
      <4>2. n.id \in Refused(w, s, a) \/ n.id \in Accepted(w, s, a)
        OBVIOUS
      <4> QED
        BY <4>1, <4>2, Decides, Zenon
    <3>3. d.type = "condition"
      BY <1>2, <3>2, OwnPlace, Zenon
    <3> HIDE DEF b, d, n
    <3>4. \A e \in 1..Len(Order[w]) : Order[w][e].type = "condition" =>
            \A id \in Targets(Order[w][e]) :
                \E f \in (e + 1)..Len(Order[w]) : Order[w][f].id = id /\ Order[w][f].deps = {Order[w][e].id}
      BY <2>2, Zenon DEF WellBranched
    <3>5. PICK f \in (b + 1)..Len(Order[w]) : Order[w][f].id = n.id /\ Order[w][f].deps = {d.id}
      <4>1. Order[w][b].type = "condition" /\ n.id \in Targets(Order[w][b])
        BY <3>1, <3>2, <3>3, Zenon
      <4>2. \E f \in (b + 1)..Len(Order[w]) : Order[w][f].id = n.id /\ Order[w][f].deps = {Order[w][b].id}
        BY <3>1, <3>4, <4>1, Zenon
      <4> QED
        BY <3>1, <4>2, Zenon
    <3>7. f \in 1..Len(Order[w])
      BY <1>2, <3>1, PlaceOrder, Zenon
    <3>8. Order[w][f].id = Order[w][i].id /\ i \in 1..Len(Order[w])
      BY <2>2, <3>5, Zenon DEF n
    <3>9. f = i
      BY <1>2, <3>7, <3>8, OrderFacts, Zenon
    <3> QED
      BY <3>5, <3>9, Zenon DEF n, d
  <2>5. n.deps = {c.id}
    BY <1>5, <2>1, <2>4, Zenon
  <2>6. s[k].value # "" /\ s[k].status # "skipped"
    <3>1. s[k].value # ""
      BY <2>1, Zenon DEF Accepted
    <3> QED
      BY <1>2, <1>5, <3>1, OwnPlace, Zenon
  <2>7. CASE n.id \in skipped
    <3>1. PICK a \in Own(s) : n.id \in Refused(w, s, a)
      BY <2>3, <2>7, Zenon DEF Reasons
    <3>2. n.deps = {NodeOf(w, s, a).id}
      BY <2>4, <3>1, Zenon
    <3>3. NodeOf(w, s, a).id = NodeOf(w, s, k).id
      BY <2>5, <3>2
    <3>4. a = k
      BY <1>2, <1>5, <3>3, OneRow, Zenon
    <3> QED
      BY <2>1, <3>1, <3>4, Zenon DEF Refused, Accepted
  <2>8. CASE n.deps \cap skipped # {}
    <3>1. c.id \in skipped
      BY <2>5, <2>8
    <3>2. PICK a \in Own(s) : NodeOf(w, s, a).id = c.id /\ s[a].status = "skipped"
      BY <1>5, <3>1, Zenon DEF Reasons
    <3>3. a = k
      BY <1>2, <1>5, <3>2, OneRow, Zenon
    <3> QED
      BY <2>6, <3>2, <3>3, Zenon
  <2> QED
    BY <2>7, <2>8
<1> QED
  BY <1>1, <1>3, <1>4, <1>5, Zenon

LEMMA AddsReasons ==
    ASSUME TargetsWait, NEW w \in Mains, NEW s, NEW t, OwnFit(w, t), OwnFit(w, s), NEW x, NEW i,
           NEW end, NEW value \in Values, Adds(w, s, t, x, i, end, value),
           Passed(w, s, i - 1), NEW skipped, Reasons(w, s, skipped),
           end # "skipped" => Order[w][i].id \notin skipped
    PROVE  Reasons(w, t, skipped \cup IF end = "skipped" THEN {Order[w][i].id} ELSE Refused(w, t, x))
<1> DEFINE n == Order[w][i]
           more == IF end = "skipped" THEN {n.id} ELSE Refused(w, t, x)
<1>1. /\ Own(t) = Own(s) \cup {x}
      /\ NodeOf(w, t, x) = n /\ t[x].status = end
      /\ \A a \in Own(s) : /\ NodeOf(w, t, a) = NodeOf(w, s, a) /\ t[a].status = s[a].status
                           /\ Refused(w, t, a) = Refused(w, s, a)
  BY Zenon DEF Adds, Twin
<1>2. SUFFICES ASSUME NEW id \in skipped \cup more
               PROVE  \/ \E j \in Own(t) : NodeOf(w, t, j).id = id /\ t[j].status = "skipped"
                      \/ /\ \A j \in Own(t) : NodeOf(w, t, j).id # id
                         /\ \E k \in Own(t) : id \in Refused(w, t, k)
  BY Zenon DEF Reasons
<1>3. CASE id = n.id /\ end = "skipped"
  BY <1>1, <1>3, Zenon
<1>4. CASE id \in skipped /\ ~(id = n.id /\ end = "skipped")
  <2>1. id # n.id
    BY <1>4, Zenon
  <2>2. CASE \E j \in Own(s) : NodeOf(w, s, j).id = id /\ s[j].status = "skipped"
    BY <1>1, <2>2, Zenon
  <2>3. CASE /\ \A j \in Own(s) : NodeOf(w, s, j).id # id
             /\ \E k \in Own(s) : id \in Refused(w, s, k)
    <3>1. \E k \in Own(t) : id \in Refused(w, t, k)
      BY <1>1, <2>3, Zenon
    <3>2. \A j \in Own(t) : NodeOf(w, t, j).id # id
      BY <1>1, <2>1, <2>3, Zenon
    <3> QED
      BY <3>1, <3>2
  <2> QED
    BY <1>4, <2>2, <2>3, Zenon DEF Reasons
<1>5. CASE id \in Refused(w, t, x)
  <2>1. \A j \in Own(t) : NodeOf(w, t, j).id # id
    BY <1>5, FreshTargets, Zenon
  <2> QED
    BY <1>1, <1>5, <2>1, Zenon
<1> QED
  BY <1>3, <1>4, <1>5, Zenon
LEMMA LikeOnly ==
    ASSUME NEW w, NEW s, NEW t, NEW c, NEW end, Like(w, s, t, c, end), Only(w, s),
           c \in Own(s) => s[c].status # "skipped"
    PROVE  Only(w, t)
<1> SUFFICES ASSUME NEW j \in Own(t), NEW k \in Own(t), NodeOf(w, t, j).id \in Refused(w, t, k)
             PROVE  t[j].status = "skipped"
  BY Zenon DEF Only
<1>1. /\ j \in Own(s) /\ k \in Own(s) /\ NodeOf(w, t, j) = NodeOf(w, s, j)
      /\ Refused(w, t, k) = Refused(w, s, k) /\ t[j].status = IF j = c THEN end ELSE s[j].status
  BY Zenon DEF Like, Twin
<1>2. s[j].status = "skipped"
  BY <1>1, Zenon DEF Only
<1>3. j # c
  BY <1>1, <1>2, Zenon
<1> QED
  BY <1>1, <1>2, <1>3, Zenon

LEMMA LikeSelects ==
    ASSUME NEW w, NEW s, NEW t, NEW c, NEW end, end # "skipped", Like(w, s, t, c, end), Selects(w, s)
    PROVE  Selects(w, t)
<1> SUFFICES ASSUME NEW j \in Own(t), NEW k \in Own(t), NodeOf(w, t, j).id \in Accepted(w, t, k)
             PROVE  t[j].status # "skipped"
  BY Zenon DEF Selects
<1>1. /\ j \in Own(s) /\ k \in Own(s) /\ NodeOf(w, t, j) = NodeOf(w, s, j)
      /\ Accepted(w, t, k) = Accepted(w, s, k) /\ t[j].status = IF j = c THEN end ELSE s[j].status
  BY Zenon DEF Like, Twin
<1>2. s[j].status # "skipped"
  BY <1>1, Zenon DEF Selects
<1> QED
  BY <1>1, <1>2

LEMMA LikeCovers ==
    ASSUME NEW w, NEW s, NEW t, NEW c, NEW end, Like(w, s, t, c, end), NEW skipped,
           Covers(w, s, skipped)
    PROVE  Covers(w, t, skipped)
BY Zenon DEF Like, Twin, Covers

LEMMA LikeReasons ==
    ASSUME NEW w, NEW s, NEW t, NEW c, NEW end, Like(w, s, t, c, end), NEW skipped,
           Reasons(w, s, skipped), c \in Own(s) => s[c].status # "skipped"
    PROVE  Reasons(w, t, skipped)
<1> SUFFICES ASSUME NEW id \in skipped
             PROVE  \/ \E j \in Own(t) : NodeOf(w, t, j).id = id /\ t[j].status = "skipped"
                    \/ /\ \A j \in Own(t) : NodeOf(w, t, j).id # id
                       /\ \E k \in Own(t) : id \in Refused(w, t, k)
  BY Zenon DEF Reasons
<1>1. /\ Own(t) = Own(s)
      /\ \A k \in Own(s) : /\ NodeOf(w, t, k) = NodeOf(w, s, k) /\ Refused(w, t, k) = Refused(w, s, k)
                           /\ t[k].status = IF k = c THEN end ELSE s[k].status
  BY Zenon DEF Like, Twin
<1>2. CASE \E j \in Own(s) : NodeOf(w, s, j).id = id /\ s[j].status = "skipped"
  <2>1. PICK j \in Own(s) : NodeOf(w, s, j).id = id /\ s[j].status = "skipped"
    BY <1>2
  <2>2. j # c
    BY <2>1, Zenon
  <2>3. NodeOf(w, t, j).id = id /\ t[j].status = "skipped" /\ j \in Own(t)
    BY <1>1, <2>1, <2>2, Zenon
  <2> QED
    BY <2>3, Zenon
<1>3. CASE /\ \A j \in Own(s) : NodeOf(w, s, j).id # id
           /\ \E k \in Own(s) : id \in Refused(w, s, k)
  <2>1. \A j \in Own(t) : NodeOf(w, t, j).id # id
    BY <1>1, <1>3, Zenon
  <2>2. \E k \in Own(t) : id \in Refused(w, t, k)
    BY <1>1, <1>3, Zenon
  <2> QED
    BY <2>1, <2>2
<1> QED
  BY <1>2, <1>3, Zenon DEF Reasons

-----------------------------------------------------------------------------
(* Branches: the questions.                                                *)

\* No question of the run's own was answered; none is open; or one is, that of the last step.
Unanswered(q, s) ==
    \A r \in 1..Len(q) : q[r].step \in Own(s) => s[q[r].step].status = "waiting_input"
Opens(q, s, r) == q[r].status = "pending" /\ q[r].step \in Own(s)
NoneOpen(q, s) == \A r \in 1..Len(q) : ~Opens(q, s, r)
Asked(w, q, s, m) ==
    /\ \A r \in 1..Len(q) : Opens(q, s, r) =>
            s[q[r].step].status = "waiting_input" /\ Place(w, s, q[r].step) = m
    /\ \A r, o \in 1..Len(q) : Opens(q, s, r) /\ Opens(q, s, o) => r = o

\* t comes after s: its own steps include those of s, and none waits that did not.
Follows(s, t) ==
    /\ \A k \in Own(s) : k \in Own(t) /\ (t[k].status = "waiting_input" => s[k].status = "waiting_input")
    /\ \A k \in 1..Len(s) : k \in Own(t) => k \in Own(s)

\* p has the requests of q, and no other of the run's own.
NoNewOwn(q, p, t) ==
    /\ \A r \in 1..Len(q) : r \in 1..Len(p) /\ p[r] = q[r]
    /\ \A r \in 1..Len(p) : r \in 1..Len(q) \/ p[r].step \notin Own(t)

LEMMA LikeFollows ==
    ASSUME NEW w, NEW s, NEW t, NEW c, NEW end, Like(w, s, t, c, end), end # "waiting_input"
    PROVE  Follows(s, t)
<1>1. Own(t) = Own(s) /\ \A k \in Own(s) : t[k].status = IF k = c THEN end ELSE s[k].status
  BY Zenon DEF Like
<1>2. \A k \in Own(s) : t[k].status = "waiting_input" => s[k].status = "waiting_input"
  BY <1>1
<1> QED
  BY <1>1, <1>2, Zenon DEF Follows

LEMMA AddsFollows ==
    ASSUME NEW w, NEW s, NEW t, NEW x, NEW i, NEW end, NEW value, Adds(w, s, t, x, i, end, value),
           x \notin 1..Len(s)
    PROVE  Follows(s, t)
BY Zenon DEF Adds, Follows

LEMMA UnansweredBefore ==
    ASSUME NEW s, NEW t, Follows(s, t), NEW q, NEW p,
           \A r \in 1..Len(q) : r \in 1..Len(p) /\ p[r].step = q[r].step, Unanswered(p, t)
    PROVE  Unanswered(q, s)
BY Zenon DEF Follows, Unanswered

LEMMA NoneOpened ==
    ASSUME NEW s, NEW t, Follows(s, t), NEW q, RequestsFit(q, Len(s)), NEW p, NoNewOwn(q, p, t),
           NoneOpen(q, s)
    PROVE  NoneOpen(p, t)
BY Zenon DEF Follows, NoNewOwn, NoneOpen, Opens, RequestsFit

-----------------------------------------------------------------------------
(* Branches: a run at rest, and one that is ready for its next node.       *)

Rest(w, s, q) ==
    /\ \E m \in Nat : Passed(w, s, m) /\ Settled(w, s, m) /\ Asked(w, q, s, m)
    /\ TargetsWait /\ Unanswered(q, s) => Only(w, s)
    /\ WellBranched => Selects(w, s)

Ready(w, s, q, m, at, skipped) ==
    /\ Passed(w, s, m) /\ Settled(w, s, at) /\ NoneOpen(q, s)
    /\ TargetsWait /\ Unanswered(q, s) => Only(w, s) /\ Covers(w, s, skipped)
    /\ WellBranched => Selects(w, s) /\ Reasons(w, s, skipped)

LEMMA ReadyRests ==
    ASSUME NEW w, NEW s, NEW q, NEW m \in Nat, NEW at, NEW skipped, Ready(w, s, q, m, at, skipped),
           Settled(w, s, m)
    PROVE  Rest(w, s, q)
<1>1. Asked(w, q, s, m)
  BY Zenon DEF Ready, NoneOpen, Asked
<1> QED
  BY <1>1, Zenon DEF Ready, Rest

\* The nodes to skip after the step x of the node at place i.
After(w, t, x, i, end, skipped) ==
    skipped \cup IF end = "skipped" THEN {Order[w][i].id} ELSE Refused(w, t, x)

\* The node that the run is ready for gets its step.
LEMMA ReadyAdds ==
    ASSUME NEW w \in Mains, NEW s \in Seq(Step), OwnFit(w, s), NEW t, OwnFit(w, t), NEW x, NEW i,
           NEW end, NEW value \in Values, Adds(w, s, t, x, i, end, value),
           NEW q, NEW p, Unanswered(p, t) => Unanswered(q, s),
           NEW skipped, Ready(w, s, q, i - 1, i, skipped),
           end # "skipped" => Order[w][i].id \notin skipped,
           end = "skipped" => Order[w][i].id \in skipped \/ Order[w][i].deps \cap skipped # {}
    PROVE  /\ Passed(w, t, i) /\ Settled(w, t, i)
           /\ end \in {"completed", "skipped"} => Settled(w, t, i + 1)
           /\ TargetsWait /\ Unanswered(p, t) => Only(w, t) /\ Covers(w, t, After(w, t, x, i, end, skipped))
           /\ WellBranched => Selects(w, t) /\ Reasons(w, t, After(w, t, x, i, end, skipped))
<1>1. /\ Passed(w, s, i - 1) /\ Settled(w, s, i)
      /\ TargetsWait /\ Unanswered(q, s) => Only(w, s) /\ Covers(w, s, skipped)
      /\ WellBranched => Selects(w, s) /\ Reasons(w, s, skipped)
  BY Zenon DEF Ready
<1>2. w \in DOMAIN Library
  BY LibraryAssumption
<1>3. /\ Passed(w, t, i) /\ Settled(w, t, i)
      /\ end \in {"completed", "skipped"} => Settled(w, t, i + 1)
  BY <1>1, <1>2, AddsPassed, Zenon
<1>4. ASSUME TargetsWait, Unanswered(p, t)
      PROVE  Only(w, t) /\ Covers(w, t, After(w, t, x, i, end, skipped))
  <2>1. Only(w, s) /\ Covers(w, s, skipped)
    BY <1>1, <1>4, Zenon
  <2>2. Only(w, t)
    BY <1>1, <1>4, <2>1, AddsOnly, Zenon
  <2>3. skipped \subseteq After(w, t, x, i, end, skipped)
    BY DEF After
  <2>4. Refused(w, t, x) \subseteq After(w, t, x, i, end, skipped)
    <3>1. CASE end # "skipped"
      BY <3>1 DEF After
    <3>2. CASE end = "skipped"
      <4>1. \A id : id \notin Refused(w, t, x)
        <5> SUFFICES ASSUME NEW id, id \in Refused(w, t, x)
                     PROVE  FALSE
          BY Zenon
        <5>1. t[x].value \in Values /\ t[x].status = end /\ x \in Own(t)
          BY Zenon DEF Adds
        <5>2. t[x].value # ""
          BY <5>1, Decides, Zenon
        <5>3. t[x].status # "skipped"
          BY <1>2, <5>1, <5>2, OwnPlace, Zenon
        <5> QED
          BY <3>2, <5>1, <5>3, Zenon
      <4> QED
        BY <4>1, Zenon
    <3> QED
      BY <3>1, <3>2
  <2>5. Covers(w, t, After(w, t, x, i, end, skipped))
    <3> DEFINE more == After(w, t, x, i, end, skipped)
    <3>1. skipped \subseteq more /\ Refused(w, t, x) \subseteq more
      BY <2>3, <2>4
    <3> HIDE DEF more
    <3>2. /\ Own(t) = Own(s) \cup {x}
          /\ \A k \in Own(s) : Refused(w, t, k) = Refused(w, s, k) /\ Refused(w, s, k) \subseteq skipped
      BY <2>1, Zenon DEF Adds, Twin, Covers
    <3>3. \A k \in Own(t) : Refused(w, t, k) \subseteq more
      BY <3>1, <3>2
    <3> QED
      BY <3>3, Zenon DEF more, Covers
  <2> QED
    BY <2>2, <2>5
<1>5. ASSUME WellBranched
      PROVE  Selects(w, t) /\ Reasons(w, t, After(w, t, x, i, end, skipped))
  <2>1. Selects(w, s) /\ Reasons(w, s, skipped) /\ TargetsWait
    BY <1>1, <1>5, WellBranchedWaits, Zenon
  <2>2. Selects(w, t)
    BY <1>1, <1>5, <2>1, AddsSelects, Zenon
  <2>3. Reasons(w, t, After(w, t, x, i, end, skipped))
    BY <1>1, <2>1, AddsReasons, Zenon DEF After
  <2> QED
    BY <2>2, <2>3, Zenon
<1> QED
  BY <1>3, <1>4, <1>5, Zenon
\* The step ends well, and the run is ready for the next node; or it is a call that is entered.
LEMMA AddsReady ==
    ASSUME NEW w \in Mains, NEW s \in Seq(Step), OwnFit(w, s), NEW t, OwnFit(w, t), NEW x, NEW i,
           NEW end, NEW value \in Values, Adds(w, s, t, x, i, end, value), x \notin 1..Len(s),
           NEW q, NEW p, RequestsFit(q, Len(s)), NoNewOwn(q, p, t),
           NEW skipped, Ready(w, s, q, i - 1, i, skipped),
           end # "skipped" => Order[w][i].id \notin skipped,
           end = "skipped" => Order[w][i].id \in skipped \/ Order[w][i].deps \cap skipped # {}
    PROVE  /\ Ready(w, t, p, i, i, After(w, t, x, i, end, skipped))
           /\ end \in {"completed", "skipped"} =>
                Ready(w, t, p, (i + 1) - 1, i + 1, After(w, t, x, i, end, skipped))
<1>1. Follows(s, t)
  BY AddsFollows, Zenon
<1>2. \A r \in 1..Len(q) : r \in 1..Len(p) /\ p[r].step = q[r].step
  BY Zenon DEF NoNewOwn
<1>3. Unanswered(p, t) => Unanswered(q, s)
  BY <1>1, <1>2, UnansweredBefore, Zenon
<1>4. NoneOpen(p, t)
  BY <1>1, NoneOpened, Zenon DEF Ready
<1>5. /\ Passed(w, t, i) /\ Settled(w, t, i)
      /\ end \in {"completed", "skipped"} => Settled(w, t, i + 1)
      /\ TargetsWait /\ Unanswered(p, t) => Only(w, t) /\ Covers(w, t, After(w, t, x, i, end, skipped))
      /\ WellBranched => Selects(w, t) /\ Reasons(w, t, After(w, t, x, i, end, skipped))
  BY <1>3, ReadyAdds, Zenon
<1>6. (i + 1) - 1 = i
  <2>1. w \in DOMAIN Library /\ i \in 1..Len(Order[w])
    BY LibraryAssumption DEF Adds
  <2>2. i \in Nat
    BY <2>1, PlaceOrder, Zenon
  <2> QED
    BY <2>2
<1> QED
  BY <1>4, <1>5, <1>6, Zenon DEF Ready

\* The step ends the transaction without a question.
LEMMA AddsRests ==
    ASSUME NEW w \in Mains, NEW s \in Seq(Step), OwnFit(w, s), NEW t, OwnFit(w, t), NEW x, NEW i,
           NEW end \in {"completed", "failed"}, NEW value \in Values, Adds(w, s, t, x, i, end, value),
           x \notin 1..Len(s),
           NEW q, RequestsFit(q, Len(s)),
           NEW skipped, Ready(w, s, q, i - 1, i, skipped),
           Order[w][i].id \notin skipped
    PROVE  Rest(w, t, q)
<1>0. end # "skipped"
  OBVIOUS
<1>1. NoNewOwn(q, q, t)
  BY Zenon DEF NoNewOwn
<1>2. Ready(w, t, q, i, i, After(w, t, x, i, end, skipped))
  BY <1>0, <1>1, AddsReady, Zenon
<1>3. i \in Nat
  <2>1. w \in DOMAIN Library /\ i \in 1..Len(Order[w])
    BY LibraryAssumption DEF Adds
  <2> QED
    BY <2>1, PlaceOrder, Zenon
<1>4. Settled(w, t, i)
  BY <1>2, Zenon DEF Ready
<1> QED
  BY <1>2, <1>3, <1>4, ReadyRests, Zenon

\* The step is a question.
LEMMA AddsQuestion ==
    ASSUME NEW w \in Mains, NEW s \in Seq(Step), OwnFit(w, s), NEW t, OwnFit(w, t), NEW x, NEW i,
           NEW end, end \in {"waiting_input"}, NEW value \in Values, Adds(w, s, t, x, i, end, value),
           x \notin 1..Len(s), NEW q, NEW p, RequestsFit(q, Len(s)), NEW new,
           \A r \in 1..Len(q) : r \in 1..Len(p) /\ p[r] = q[r],
           \A r \in 1..Len(p) : r \in 1..Len(q) \/ r = new, p[new].step = x,
           NEW skipped, Ready(w, s, q, i - 1, i, skipped), Order[w][i].id \notin skipped
    PROVE  Rest(w, t, p)
<1>1. Follows(s, t)
  BY AddsFollows, Zenon
<1>2. \A r \in 1..Len(q) : r \in 1..Len(p) /\ p[r].step = q[r].step
  BY Zenon
<1>3. Unanswered(p, t) => Unanswered(q, s)
  BY <1>1, <1>2, UnansweredBefore, Zenon
<1>4. /\ end # "skipped"
      /\ end # "skipped" => Order[w][i].id \notin skipped
      /\ end = "skipped" => Order[w][i].id \in skipped \/ Order[w][i].deps \cap skipped # {}
  OBVIOUS
<1>5. /\ Passed(w, t, i) /\ Settled(w, t, i)
      /\ TargetsWait /\ Unanswered(p, t) => Only(w, t)
      /\ WellBranched => Selects(w, t)
  BY <1>3, <1>4, ReadyAdds, Zenon
<1>6. \A r \in 1..Len(q) : ~Opens(p, t, r)
  BY <1>1, Zenon DEF Follows, Ready, NoneOpen, Opens, RequestsFit
<1>7. \A r \in 1..Len(p) : Opens(p, t, r) => r = new
  BY <1>6, Zenon
<1>8. t[x].status = "waiting_input" /\ Place(w, t, x) = i
  <2>1. t[x].status = end /\ Place(w, t, x) = i
    BY Zenon DEF Adds
  <2> QED
    BY <2>1
<1>9. Asked(w, p, t, i)
  BY <1>7, <1>8, Zenon DEF Asked
<1>10. i \in Nat
  <2>1. w \in DOMAIN Library /\ i \in 1..Len(Order[w])
    BY LibraryAssumption DEF Adds
  <2> QED
    BY <2>1, PlaceOrder, Zenon
<1> QED
  BY <1>5, <1>9, <1>10, Zenon DEF Rest

\* A called workflow makes its steps, and its caller's step c ends.
LEMMA LikeReady ==
    ASSUME NEW w \in Mains, NEW s \in Seq(Step), OwnFit(w, s), NEW t, NEW c, NEW end, NEW i \in Nat,
           Like(w, s, t, c, end), end # "skipped", end # "waiting_input",
           c \in Own(s) => s[c].status # "skipped" /\ Place(w, s, c) = i,
           NEW q, NEW p, RequestsFit(q, Len(s)), NoNewOwn(q, p, t),
           NEW skipped, Ready(w, s, q, i, i, skipped)
    PROVE  /\ Ready(w, t, p, i, i, skipped)
           /\ c \in Own(s) /\ end = "completed" => Ready(w, t, p, (i + 1) - 1, i + 1, skipped)
<1>1. Follows(s, t)
  BY LikeFollows, Zenon
<1>2. \A r \in 1..Len(q) : r \in 1..Len(p) /\ p[r].step = q[r].step
  BY Zenon DEF NoNewOwn
<1>3. Unanswered(p, t) => Unanswered(q, s)
  BY <1>1, <1>2, UnansweredBefore, Zenon
<1>4. NoneOpen(p, t)
  BY <1>1, NoneOpened, Zenon DEF Ready
<1>5. Passed(w, s, i) /\ Settled(w, s, i) /\ w \in DOMAIN Library
  BY LibraryAssumption, Zenon DEF Ready
<1>6. Passed(w, t, i)
  BY <1>5, LikePassed, Zenon
<1>7. ~(i < i) /\ (i + 1) - 1 = i
  OBVIOUS
<1>8. Settled(w, t, i)
  <2>1. c \in Own(s) => ~(Place(w, s, c) < i)
    BY <1>7, Zenon
  <2> QED
    BY <1>5, <2>1, LikeSettled, Zenon
<1>9. c \in Own(s) /\ end = "completed" => Settled(w, t, i + 1)
  BY <1>5, LikeCompleted, Zenon
<1>10. TargetsWait /\ Unanswered(p, t) => Only(w, t) /\ Covers(w, t, skipped)
  BY <1>3, LikeOnly, LikeCovers, Zenon DEF Ready
<1>11. WellBranched => Selects(w, t) /\ Reasons(w, t, skipped)
  BY LikeSelects, LikeReasons, Zenon DEF Ready
<1> QED
  BY <1>4, <1>6, <1>7, <1>8, <1>9, <1>10, <1>11, Zenon DEF Ready

\* A run at rest stays so when only steps of called workflows and the state of requests change.
LEMMA LikeRests ==
    ASSUME NEW w \in Mains, NEW s \in Seq(Step), OwnFit(w, s), NEW t, NEW c, NEW end,
           Like(w, s, t, c, end), c \notin Own(s), end # "skipped", end # "waiting_input",
           NEW q, NEW p, Len(p) = Len(q),
           \A r \in 1..Len(q) : p[r].step = q[r].step /\ (p[r].status = "pending" => q[r].status = "pending"),
           Rest(w, s, q)
    PROVE  Rest(w, t, p)
<1>1. Follows(s, t)
  BY LikeFollows, Zenon
<1>2. \A r \in 1..Len(q) : r \in 1..Len(p) /\ p[r].step = q[r].step
  BY Zenon
<1>3. Unanswered(p, t) => Unanswered(q, s)
  BY <1>1, <1>2, UnansweredBefore, Zenon
<1>4. PICK m \in Nat : Passed(w, s, m) /\ Settled(w, s, m) /\ Asked(w, q, s, m)
  BY Zenon DEF Rest
<1>5. Passed(w, t, m) /\ Settled(w, t, m)
  BY <1>4, LikePassed, LikeSettled, Zenon
<1>6. Asked(w, p, t, m)
  <2>1. \A k \in Own(t) : /\ k \in Own(s) /\ Place(w, t, k) = Place(w, s, k)
                          /\ t[k].status = s[k].status
    BY Zenon DEF Like, Twin
  <2>2. \A r \in 1..Len(p) : Opens(p, t, r) => r \in 1..Len(q) /\ Opens(q, s, r)
    BY <2>1, Zenon DEF Opens
  <2>3. ASSUME NEW r \in 1..Len(p), Opens(p, t, r)
        PROVE  t[p[r].step].status = "waiting_input" /\ Place(w, t, p[r].step) = m
    <3>1. r \in 1..Len(q) /\ Opens(q, s, r) /\ p[r].step = q[r].step
      BY <2>2, <2>3, Zenon
    <3>2. s[q[r].step].status = "waiting_input" /\ Place(w, s, q[r].step) = m
      BY <1>4, <3>1, Zenon DEF Asked
    <3>3. p[r].step \in Own(t)
      BY <2>3, Zenon DEF Opens
    <3> QED
      BY <2>1, <3>1, <3>2, <3>3, Zenon
  <2>4. \A r, o \in 1..Len(p) : Opens(p, t, r) /\ Opens(p, t, o) => r = o
    BY <1>4, <2>2, Zenon DEF Asked
  <2> QED
    BY <2>3, <2>4, Zenon DEF Asked
<1>7. TargetsWait /\ Unanswered(p, t) => Only(w, t)
  BY <1>3, LikeOnly, Zenon DEF Rest
<1>8. WellBranched => Selects(w, t)
  BY LikeSelects, Zenon DEF Rest
<1> QED
  BY <1>4, <1>5, <1>6, <1>7, <1>8, Zenon DEF Rest

\* The run's open question is answered: it is ready for the node after it.
LEMMA AnswerReady ==
    ASSUME NEW w \in Mains, NEW s \in Seq(Step), OwnFit(w, s), NEW t, NEW q, NEW r \in 1..Len(q),
           Opens(q, s, r), Like(w, s, t, q[r].step, "completed"), NEW p, Len(p) = Len(q),
           \A o \in 1..Len(q) : p[o].step = q[o].step /\ (p[o].status = "pending" => q[o].status = "pending"),
           p[r].status # "pending", NEW skipped,
           \A id \in skipped : \E j \in Own(s) : NodeOf(w, s, j).id = id /\ s[j].status = "skipped",
           Rest(w, s, q), NEW i, i = Place(w, s, q[r].step)
    PROVE  Ready(w, t, p, (i + 1) - 1, i + 1, skipped)
<1> DEFINE c == q[r].step
<1>1. c \in Own(s) /\ w \in DOMAIN Library /\ i \in Nat
  <2>1. c \in Own(s) /\ w \in DOMAIN Library
    BY LibraryAssumption DEF Opens
  <2> QED
    BY <2>1, OwnPlace, Zenon
<1>2. PICK m \in Nat : Passed(w, s, m) /\ Settled(w, s, m) /\ Asked(w, q, s, m)
  BY Zenon DEF Rest
<1>3. s[c].status = "waiting_input" /\ m = i
  BY <1>2, Zenon DEF Asked
<1>4. s[c].status # "skipped" /\ "completed" # "skipped"
  BY <1>3
<1>5. Passed(w, t, i)
  BY <1>2, <1>3, LikePassed, Zenon
<1>6. Settled(w, t, i + 1)
  BY <1>1, <1>2, <1>3, LikeCompleted, Zenon
<1>7. NoneOpen(p, t)
  <2> SUFFICES ASSUME NEW o \in 1..Len(p), Opens(p, t, o)
               PROVE  FALSE
    BY Zenon DEF NoneOpen
  <2>1. o \in 1..Len(q) /\ p[o].step = q[o].step
    BY Zenon
  <2>2. Opens(q, s, o)
    BY <2>1, Zenon DEF Opens, Like
  <2>3. o = r
    BY <1>2, <2>1, <2>2, Zenon DEF Asked
  <2> QED
    BY <2>3, Zenon DEF Opens
<1>8. ~Unanswered(p, t)
  <2>1. p[r].step = c /\ r \in 1..Len(p) /\ c \in Own(t) /\ t[c].status = "completed"
    BY <1>1, Zenon DEF Like
  <2>2. t[c].status # "waiting_input"
    BY <2>1
  <2> QED
    BY <2>1, <2>2, Zenon DEF Unanswered
<1>9. WellBranched => Selects(w, t)
  BY <1>4, LikeSelects, Zenon DEF Rest
<1>10. Reasons(w, t, skipped)
  <2>1. Reasons(w, s, skipped)
    BY Zenon DEF Reasons
  <2> QED
    BY <1>4, <2>1, LikeReasons, Zenon
<1>11. (i + 1) - 1 = i
  BY <1>1
<1> QED
  BY <1>5, <1>6, <1>7, <1>8, <1>9, <1>10, <1>11, Zenon DEF Ready

\* Before the first node there is nothing.
LEMMA NothingReady ==
    ASSUME NEW w
    PROVE  OwnFit(w, <<>>) /\ Ready(w, <<>>, <<>>, 1 - 1, 1, {})
<1>1. Own(<<>>) = {} /\ 1..Len(<<>>) = {}
  BY DEF Own
<1>2. 1 - 1 = 0 /\ 1..0 = {}
  OBVIOUS
<1>3. Passed(w, <<>>, 1 - 1) /\ Settled(w, <<>>, 1)
  BY <1>1, <1>2, Zenon DEF Passed, Settled
<1>4. Only(w, <<>>) /\ Covers(w, <<>>, {}) /\ Selects(w, <<>>) /\ NoneOpen(<<>>, <<>>) /\ OwnFit(w, <<>>)
  BY <1>1, Zenon DEF Only, Covers, Selects, NoneOpen, OwnFit
<1>5. Reasons(w, <<>>, {})
  BY DEF Reasons
<1> QED
  BY <1>3, <1>4, <1>5, Zenon DEF Ready
-----------------------------------------------------------------------------
(* Branches: the end of the run.                                           *)

\* The final node of the run's own workflow was executed.
Ended(w, s) == \E k \in Own(s) : s[k].node = <<FinalId(w)>> /\ s[k].status = "completed"

LEMMA FinalFacts ==
    ASSUME NEW w \in DOMAIN Library, NEW n \in Range(Library[w])
    PROVE  n.id = FinalId(w) <=> n.type = "final"
<1> DEFINE final == CHOOSE m \in Range(Library[w]) : m.type = "final"
<1>1. /\ Library[w] \in Seq(Nodes)
      /\ \A i, j \in DOMAIN Library[w] : Library[w][i].id = Library[w][j].id => i = j
      /\ \E m \in Range(Library[w]) : \A o \in Range(Library[w]) : o.type = "final" <=> o = m
  BY LibraryAssumption, Zenon
<1>2. PICK m \in Range(Library[w]) : \A o \in Range(Library[w]) : o.type = "final" <=> o = m
  BY <1>1, Zenon
<1>3. m.type = "final"
  BY <1>2, Zenon
<1>4. final \in Range(Library[w]) /\ final.type = "final"
  BY <1>3, Zenon
<1>5. FinalId(w) = final.id
  BY DEF FinalId
<1> HIDE DEF final
<1>6. ASSUME n.id = final.id
      PROVE  n = final
  <2>1. PICK i \in DOMAIN Library[w] : n = Library[w][i]
    BY DEF Range
  <2>2. PICK j \in DOMAIN Library[w] : final = Library[w][j]
    BY <1>4 DEF Range
  <2>3. i = j
    BY <1>1, <1>6, <2>1, <2>2, Zenon
  <2> QED
    BY <2>1, <2>2, <2>3, Zenon
<1>7. n.type = "final" => n = final
  BY <1>2, <1>4, Zenon
<1> QED
  BY <1>4, <1>5, <1>6, <1>7, Zenon

LEMMA LikeEnded ==
    ASSUME NEW w, NEW s, NEW t, NEW c, NEW end, Like(w, s, t, c, end), Ended(w, s),
           c \in Own(s) => s[c].status # "completed"
    PROVE  Ended(w, t)
<1>1. PICK k \in Own(s) : s[k].node = <<FinalId(w)>> /\ s[k].status = "completed"
  BY Zenon DEF Ended
<1>2. k # c
  BY <1>1, Zenon
<1>3. k \in Own(t) /\ t[k].node = s[k].node /\ t[k].status = s[k].status
  BY <1>2, Zenon DEF Like, Twin
<1> QED
  BY <1>1, <1>3, Zenon DEF Ended

LEMMA AddsEnded ==
    ASSUME NEW w, NEW s, NEW t, NEW x, NEW i, NEW end, NEW value, Adds(w, s, t, x, i, end, value)
    PROVE  /\ Ended(w, s) => Ended(w, t)
           /\ Order[w][i].id = FinalId(w) /\ end = "completed" => Ended(w, t)
<1>1. ASSUME Ended(w, s)
      PROVE  Ended(w, t)
  <2>1. PICK k \in Own(s) : s[k].node = <<FinalId(w)>> /\ s[k].status = "completed"
    BY <1>1, Zenon DEF Ended
  <2>2. k \in Own(t) /\ t[k].node = s[k].node /\ t[k].status = s[k].status
    BY Zenon DEF Adds, Twin
  <2> QED
    BY <2>1, <2>2, Zenon DEF Ended
<1>2. x \in Own(t) /\ t[x].node = <<Order[w][i].id>> /\ t[x].status = end
  BY Zenon DEF Adds
<1> QED
  BY <1>1, <1>2, Zenon DEF Ended

-----------------------------------------------------------------------------
(* Branches: the frames of the transaction.                                *)

LEMMA MovedFirst ==
    ASSUME NEW frames \in Seq(Frame), Len(frames) >= 1, NEW done, NEW skipped
    PROVE  /\ Len(Moved(frames, done, skipped)) = Len(frames)
           /\ Len(frames) = 1 => Moved(frames, done, skipped)[1] = Past(frames[1], done, skipped)
           /\ Len(frames) > 1 => Moved(frames, done, skipped)[1] = frames[1]
           /\ \A d \in 2..Len(frames) : Moved(frames, done, skipped)[d].step = frames[d].step
<1> DEFINE k == Len(frames)
           top == Past(frames[k], done, skipped)
           moved == Moved(frames, done, skipped)
<1>1. k \in Nat /\ k >= 1 /\ DOMAIN frames = 1..k
  OBVIOUS
<1>2. moved = [frames EXCEPT ![k] = top]
  BY DEF Moved
<1>3. Len(moved) = k /\ \A d \in 1..k : moved[d] = IF d = k THEN top ELSE frames[d]
  <2> HIDE DEF top
  <2>1. DOMAIN moved = 1..k /\ \A d \in 1..k : moved[d] = IF d = k THEN top ELSE frames[d]
    BY <1>1, <1>2
  <2>2. moved = [d \in 1..k |-> IF d = k THEN top ELSE frames[d]]
    BY <1>1, <1>2
  <2>3. Len([d \in 1..k |-> IF d = k THEN top ELSE frames[d]]) = k
    BY <1>1
  <2> QED
    BY <2>1, <2>2, <2>3
<1>4. top.step = frames[k].step
  BY <1>1 DEF Past, Frame
<1>5. k = Len(frames)
  OBVIOUS
<1>6. k = 1 => top = Past(frames[1], done, skipped)
  OBVIOUS
<1> HIDE DEF k, top, moved
<1>7. \A d \in 2..k : moved[d].step = frames[d].step
  BY <1>1, <1>3, <1>4
<1>8. k = 1 => moved[1] = top
  BY <1>3
<1>9. k > 1 => moved[1] = frames[1]
  BY <1>1, <1>3
<1> QED
  BY <1>3, <1>5, <1>6, <1>7, <1>8, <1>9 DEF moved

LEMMA PushedFirst ==
    ASSUME NEW frames \in Seq(Frame), Len(frames) >= 1, NEW frame \in Frame
    PROVE  /\ Len(Append(frames, frame)) = Len(frames) + 1
           /\ Append(frames, frame)[1] = frames[1]
           /\ Append(frames, frame)[Len(frames) + 1] = frame
           /\ \A d \in 2..Len(frames) : Append(frames, frame)[d].step = frames[d].step
<1> DEFINE k == Len(frames)
           pushed == Append(frames, frame)
<1>1. k \in Nat /\ k >= 1 /\ Len(pushed) = k + 1 /\ pushed[k + 1] = frame
  OBVIOUS
<1>2. \A d \in 1..k : pushed[d] = frames[d]
  OBVIOUS
<1> HIDE DEF pushed
<1>3. pushed[1] = frames[1] /\ \A d \in 2..k : pushed[d] = frames[d]
  BY <1>1, <1>2
<1> QED
  BY <1>1, <1>3 DEF pushed

LEMMA PoppedFirst ==
    ASSUME NEW frames \in Seq(Frame), Len(frames) > 1, NEW done \in SUBSET STRING
    PROVE  /\ Len(Popped(frames, done)) = Len(frames) - 1
           /\ Len(frames) = 2 => Popped(frames, done)[1] = Past(frames[1], done, {})
           /\ Len(frames) > 2 => Popped(frames, done)[1] = frames[1]
           /\ \A d \in 2..(Len(frames) - 1) : Popped(frames, done)[d].step = frames[d].step
<1> DEFINE k == Len(frames) - 1
           top == Past(frames[k], done, {})
           popped == Popped(frames, done)
           kept == SubSeq(frames, 1, k - 1)
<1>1. k \in Nat /\ k >= 1 /\ DOMAIN frames = 1..(k + 1) /\ Len(frames) = k + 1
  OBVIOUS
<1>2. top \in Frame /\ top.step = frames[k].step
  <2>1. frames[k] \in Frame
    BY <1>1
  <2> QED
    BY <2>1, PastFacts
<1>3. popped = Append(kept, top)
  <2>1. Len(frames) - 2 = k - 1
    OBVIOUS
  <2> QED
    BY <2>1 DEF Popped
<1>4. kept \in Seq(Frame) /\ Len(kept) = k - 1 /\ \A d \in 1..(k - 1) : kept[d] = frames[d]
  BY <1>1
<1>5. k = 1 => top = Past(frames[1], done, {})
  OBVIOUS
<1>12. k = Len(frames) - 1
  OBVIOUS
<1> HIDE DEF top, kept, popped, k
<1>13. k \in Nat
  BY <1>1
<1>6. Len(popped) = k /\ popped[k] = top /\ \A d \in 1..(k - 1) : popped[d] = kept[d]
  <2>1. kept \in Seq(Frame) /\ Len(kept) = k - 1 /\ top \in Frame /\ popped = Append(kept, top)
    BY <1>2, <1>3, <1>4
  <2>2. Len(popped) = k /\ popped[k] = top
    BY <1>13, <2>1
  <2>3. \A d \in 1..(k - 1) : popped[d] = kept[d]
    BY <1>13, <2>1
  <2> QED
    BY <2>2, <2>3
<1>7. \A d \in 1..k : d # k => d \in 1..(k - 1)
  BY <1>1
<1>8. \A d \in 1..k : popped[d] = IF d = k THEN top ELSE frames[d]
  BY <1>4, <1>6, <1>7, Zenon
<1>9. \A d \in 2..k : popped[d].step = frames[d].step
  BY <1>1, <1>2, <1>8
<1>10. (k = 1 => popped[1] = top) /\ (k > 1 => popped[1] = frames[1])
  BY <1>1, <1>8
<1>11. (Len(frames) = 2 <=> k = 1) /\ (Len(frames) > 2 <=> k > 1) /\ k = Len(frames) - 1
  BY <1>1, <1>12
<1> QED
  BY <1>5, <1>6, <1>9, <1>10, <1>11 DEF popped

-----------------------------------------------------------------------------
(* Branches: the invariant.                                                *)

\* The step of the call is open, and those of calls within it are not the run's own.
CallFits(w, f, s) ==
    /\ Len(f) > 1 => /\ f[2].step \in Own(s) /\ Place(w, s, f[2].step) = f[1].at
                     /\ s[f[2].step].status = "running"
    /\ \A d \in 3..Len(f) : f[d].step \notin Own(s)

\* The transaction is past the last node, at one, or in a call.
Going(w, f, s, q) ==
    \/ Len(f) = 1 /\ f[1].at > Len(Order[w]) /\ Rest(w, s, q)
    \/ Len(f) = 1 /\ Ready(w, s, q, f[1].at - 1, f[1].at, f[1].skipped)
    \/ Len(f) > 1 /\ Ready(w, s, q, f[1].at, f[1].at, f[1].skipped)

\* There was no rewind, and no late answer to a question of the run's own is in these rows.
Plain(q, s) == rewinds = 0 /\ (late = 0 \/ Unanswered(q, s))

Branched ==
    /\ OwnFit(workflow, steps)
    /\ Plain(requests, steps) => Rest(workflow, steps, requests)
    /\ \A p \in Resumers \cup Bots :
            FinalId(workflow) \in process[p].outputs => Ended(workflow, steps)
    /\ status = "completed" => Ended(workflow, steps)
    /\ Working =>
        /\ OwnFit(workflow, work.steps) /\ CallFits(workflow, work.frames, work.steps)
        /\ FinalId(workflow) \in work.frames[1].outputs => Ended(workflow, work.steps)
        /\ Ended(workflow, steps) => Ended(workflow, work.steps)
        /\ Plain(work.requests, work.steps) =>
                Going(workflow, work.frames, work.steps, work.requests)

\* The transaction goes on,
LEMMA GoesBranched ==
    ASSUME TypeOK, WorkFits, Working, Branched,
           UNCHANGED <<workflow, committed, process, bounds>>,
           NEW t, NEW p, NEW f, Works(t, p, f), OwnFit(workflow, t), CallFits(workflow, f, t),
           FinalId(workflow) \in f[1].outputs => Ended(workflow, t),
           Ended(workflow, work.steps) => Ended(workflow, t),
           Unanswered(p, t) => Unanswered(work.requests, work.steps),
           Going(workflow, work.frames, work.steps, work.requests) => Going(workflow, f, t, p)
    PROVE  Branched'
<1>1. Working' /\ work'.steps = t /\ work'.requests = p /\ work'.frames = f
  BY StillWorking
<1>2. UNCHANGED <<workflow, status, steps, requests, process, late, rewinds>>
  BY DEF committed, bounds
<1>3. Plain(requests, steps)' => Plain(requests, steps)
  BY <1>2, Zenon DEF Plain
<1>4. Plain(work.requests, work.steps)' => Plain(work.requests, work.steps)
  BY <1>1, <1>2, Zenon DEF Plain
<1>5. OwnFit(workflow, steps)' /\ (Plain(requests, steps)' => Rest(workflow, steps, requests)')
  BY <1>2, <1>3, Zenon DEF Branched
<1>6. (\A o \in Resumers \cup Bots : FinalId(workflow) \in process[o].outputs => Ended(workflow, steps))'
  BY <1>2, Zenon DEF Branched
<1>7. (status = "completed" => Ended(workflow, steps))'
  BY <1>2, Zenon DEF Branched
<1>8. OwnFit(workflow, work.steps)' /\ CallFits(workflow, work.frames, work.steps)'
  BY <1>1, <1>2, Zenon
<1>9. (FinalId(workflow) \in work.frames[1].outputs => Ended(workflow, work.steps))'
  BY <1>1, <1>2, Zenon
<1>10. (Ended(workflow, steps) => Ended(workflow, work.steps))'
  BY <1>1, <1>2, Zenon DEF Branched
<1>11. (Plain(work.requests, work.steps) => Going(workflow, work.frames, work.steps, work.requests))'
  <2>1. Plain(work.requests, work.steps)' => Going(workflow, f, t, p)
    BY <1>4, Zenon DEF Branched
  <2> QED
    BY <1>1, <1>2, <2>1, Zenon
<1> QED
  BY <1>5, <1>6, <1>7, <1>8, <1>9, <1>10, <1>11, Zenon DEF Branched

\* it is committed,
LEMMA EndsBranched ==
    ASSUME Branched, Working, UNCHANGED <<workflow, process, bounds>>,
           NEW end, NEW t, NEW p, Commit(end, t, p), OwnFit(workflow, t),
           end = "completed" => Ended(workflow, t),
           Ended(workflow, work.steps) => Ended(workflow, t),
           Unanswered(p, t) => Unanswered(work.requests, work.steps),
           Going(workflow, work.frames, work.steps, work.requests) => Rest(workflow, t, p)
    PROVE  Branched'
<1>1. ~Working' /\ status' = end /\ steps' = t /\ requests' = p
  BY DEF Commit, Working
<1>2. UNCHANGED <<workflow, process, late, rewinds>>
  BY DEF bounds
<1>3. Plain(requests, steps)' => Plain(work.requests, work.steps)
  BY <1>1, <1>2, Zenon DEF Plain
<1>4. OwnFit(workflow, steps)' /\ (status = "completed" => Ended(workflow, steps))'
  BY <1>1, <1>2, Zenon
<1>5. Plain(requests, steps)' => Rest(workflow, steps, requests)'
  <2>1. Plain(requests, steps)' => Rest(workflow, t, p)
    BY <1>3, Zenon DEF Branched
  <2> QED
    BY <1>1, <1>2, <2>1, Zenon
<1>6. (\A o \in Resumers \cup Bots : FinalId(workflow) \in process[o].outputs => Ended(workflow, steps))'
  <2>1. Ended(workflow, steps) => Ended(workflow, t)
    BY Zenon DEF Branched
  <2>2. \A o \in Resumers \cup Bots : FinalId(workflow) \in process[o].outputs => Ended(workflow, t)
    BY <2>1, Zenon DEF Branched
  <2> QED
    BY <1>1, <1>2, <2>2, Zenon
<1> QED
  BY <1>1, <1>4, <1>5, <1>6, Zenon DEF Branched

\* it is opened,
LEMMA OpensBranched ==
    ASSUME Branched, UNCHANGED <<workflow, committed>>, NEW o \in Resumers,
           NEW t, NEW p, NEW frame, Open(o, t, p, frame), OwnFit(workflow, t),
           \A a \in Resumers \cup Bots :
                FinalId(workflow) \in process'[a].outputs => FinalId(workflow) \in process[a].outputs,
           FinalId(workflow) \in frame.outputs => Ended(workflow, t),
           Ended(workflow, steps) => Ended(workflow, t),
           Plain(requests, steps)' => Plain(requests, steps),
           rewinds' = 0 /\ (late' = 0 \/ Unanswered(p, t)) => Going(workflow, <<frame>>, t, p)
    PROVE  Branched'
<1>1. work'.steps = t /\ work'.requests = p /\ work'.frames = <<frame>>
  BY DEF Open
<1>2. UNCHANGED <<workflow, status, steps, requests>>
  BY DEF committed
<1>3. Len(<<frame>>) = 1 /\ <<frame>>[1] = frame /\ 3..1 = {}
  OBVIOUS
<1>4. ~(1 > 1)
  OBVIOUS
<1>5. OwnFit(workflow, steps)' /\ (status = "completed" => Ended(workflow, steps))'
  BY <1>2, Zenon DEF Branched
<1>6. Plain(requests, steps)' => Rest(workflow, steps, requests)'
  BY <1>2, Zenon DEF Branched
<1>7. (\A a \in Resumers \cup Bots : FinalId(workflow) \in process[a].outputs => Ended(workflow, steps))'
  BY <1>2, Zenon DEF Branched
<1>8. OwnFit(workflow, work.steps)' /\ (Ended(workflow, steps) => Ended(workflow, work.steps))'
  BY <1>1, <1>2, Zenon
<1>9. (FinalId(workflow) \in work.frames[1].outputs => Ended(workflow, work.steps))'
  BY <1>1, <1>2, <1>3, Zenon
<1>10. CallFits(workflow, work.frames, work.steps)'
  <2>1. CallFits(workflow, <<frame>>, t)
    BY <1>3, <1>4, Zenon DEF CallFits
  <2> QED
    BY <1>1, <1>2, <2>1, Zenon
<1>11. (Plain(work.requests, work.steps) => Going(workflow, work.frames, work.steps, work.requests))'
  <2>1. Plain(work.requests, work.steps)' => Going(workflow, <<frame>>, t, p)
    BY <1>1, Zenon DEF Plain
  <2> QED
    BY <1>1, <1>2, <2>1, Zenon
<1> QED
  BY <1>5, <1>6, <1>7, <1>8, <1>9, <1>10, <1>11, Zenon DEF Branched

\* and it is left alone or lost.
LEMMA RestsBranched ==
    ASSUME Branched, UNCHANGED <<workflow, steps, late, rewinds>>,
           work' = work \/ work' = NoWork,
           \A a \in Resumers \cup Bots :
                FinalId(workflow) \in process'[a].outputs => Ended(workflow, steps),
           status' = "completed" => status = "completed",
           Len(requests') = Len(requests),
           \A r \in 1..Len(requests) : /\ requests'[r].step = requests[r].step
                                       /\ requests'[r].status = "pending" => requests[r].status = "pending",
           workflow \in Mains, steps \in Seq(Step)
    PROVE  Branched'
<1>1. OwnFit(workflow, steps)' /\ (status = "completed" => Ended(workflow, steps))'
  BY Zenon DEF Branched
<1>2. (\A a \in Resumers \cup Bots : FinalId(workflow) \in process[a].outputs => Ended(workflow, steps))'
  BY Zenon
<1>3. Plain(requests, steps)' => Rest(workflow, steps, requests)'
  <2>1. \A r \in 1..Len(requests) : r \in 1..Len(requests')
    BY Zenon
  <2>2. \A k \in Own(steps) : k \in 1..Len(steps)
    BY DEF Own
  <2>3. Follows(steps, steps)
    BY Zenon DEF Follows
  <2>4. Unanswered(requests', steps) => Unanswered(requests, steps)
    BY <2>1, <2>3, UnansweredBefore, Zenon
  <2>5. Plain(requests, steps)' => Plain(requests, steps)
    BY <2>4, Zenon DEF Plain
  <2>6. Rest(workflow, steps, requests) => Rest(workflow, steps, requests')
    <3>1. \A k \in Own(steps) : k \in Nat /\ k # 0
      <4> TAKE k \in Own(steps)
      <4>1. k \in 1..Len(steps) /\ Len(steps) \in Nat
        BY OwnIndex, Zenon
      <4> QED
        BY <4>1
    <3>2. Like(workflow, steps, steps, 0, "failed")
      <4>1. \A k \in Own(steps) : Twin(workflow, steps, steps, k)
        BY Twins, Zenon
      <4>2. \A k \in Own(steps) : steps[k].status = IF k = 0 THEN "failed" ELSE steps[k].status
        BY <3>1, Zenon
      <4> QED
        BY <3>1, <4>1, <4>2, Zenon DEF Like
    <3>3. 0 \notin Own(steps) /\ "failed" # "skipped" /\ "failed" # "waiting_input"
      BY <3>1
    <3>4. OwnFit(workflow, steps)
      BY Zenon DEF Branched
    <3> QED
      BY <3>2, <3>3, <3>4, LikeRests, Zenon
  <2>7. Plain(requests, steps)' => Rest(workflow, steps, requests')
    BY <2>5, <2>6, Zenon DEF Branched
  <2> QED
    BY <2>7, Zenon
<1>4. CASE work' = NoWork
  <2>1. ~Working'
    BY <1>4 DEF Working
  <2> QED
    BY <1>1, <1>2, <1>3, <2>1, Zenon DEF Branched
<1>5. CASE work' = work
  <2>1. Working' => Working
    BY <1>5 DEF Working
  <2>2. Plain(work.requests, work.steps)' => Plain(work.requests, work.steps)
    BY <1>5, Zenon DEF Plain
  <2>3. Working =>
        /\ OwnFit(workflow, work.steps)' /\ CallFits(workflow, work.frames, work.steps)'
        /\ (FinalId(workflow) \in work.frames[1].outputs => Ended(workflow, work.steps))'
        /\ (Ended(workflow, steps) => Ended(workflow, work.steps))'
        /\ Plain(work.requests, work.steps)' =>
                Going(workflow, work.frames, work.steps, work.requests)'
    BY <1>5, <2>2, Zenon DEF Branched
  <2> QED
    BY <1>1, <1>2, <1>3, <2>1, <2>3, Zenon DEF Branched
<1> QED
  BY <1>4, <1>5
-----------------------------------------------------------------------------
(* Branches: the steps of the loop.                                        *)

\* What holds of the transaction of p.
InLoop(p) ==
    /\ Working /\ TypeOK /\ WorkFits /\ Branched /\ workflow \in Mains /\ workflow \in DOMAIN Library
    /\ work.steps \in Seq(Step) /\ work.requests \in Seq(Request) /\ work.frames \in Seq(Frame)
    /\ Len(work.steps) \in Nat /\ RequestsFit(work.requests, Len(work.steps))
    /\ Depth \in Nat \ {0} /\ Depth = Len(work.frames) /\ Top = work.frames[Depth] /\ Top \in Frame
    /\ OwnFit(workflow, work.steps) /\ CallFits(workflow, work.frames, work.steps)
    /\ FinalId(workflow) \in work.frames[1].outputs => Ended(workflow, work.steps)

LEMMA LoopFacts ==
    ASSUME Typed, Branched, NEW p \in Resumers, work.owner = p
    PROVE  InLoop(p)
<1>1. Working /\ TypeOK /\ WorkFits
  BY OwnersWork DEF Typed
<1>2. workflow \in Mains /\ workflow \in DOMAIN Library
  BY <1>1, LibraryAssumption DEF TypeOK
<1>3. /\ OwnFit(workflow, work.steps) /\ CallFits(workflow, work.frames, work.steps)
      /\ FinalId(workflow) \in work.frames[1].outputs => Ended(workflow, work.steps)
  BY <1>1, Zenon DEF Branched
<1>4. Depth = Len(work.frames) /\ Top = work.frames[Depth]
  BY DEF Depth, Top
<1> QED
  BY <1>1, <1>2, <1>3, <1>4, WorkingFacts, Zenon DEF InLoop

LEMMA SelfAlike ==
    ASSUME NEW w, NEW s \in Seq(Step)
    PROVE  Like(w, s, s, 0, "failed") /\ 0 \notin Own(s)
<1>1. \A k \in Own(s) : k \in Nat /\ k # 0
  <2> TAKE k \in Own(s)
  <2>1. k \in 1..Len(s) /\ Len(s) \in Nat
    BY OwnIndex, Zenon
  <2> QED
    BY <2>1
<1>2. \A k \in Own(s) : Twin(w, s, s, k)
  BY Twins, Zenon
<1>3. \A k \in Own(s) : s[k].status = IF k = 0 THEN "failed" ELSE s[k].status
  BY <1>1, Zenon
<1> QED
  BY <1>1, <1>2, <1>3, Zenon DEF Like

LEMMA RowAlike ==
    ASSUME NEW w, NEW s \in Seq(Step), NEW row \in Step, Len(row.node) # 1
    PROVE  Like(w, s, Append(s, row), 0, "failed")
<1> DEFINE t == Append(s, row)
<1>1. t \in Seq(Step) /\ Len(s) \in Nat /\ Len(t) = Len(s) + 1 /\ Len(s) <= Len(t)
      /\ t[Len(s) + 1] = row /\ \A k \in 1..Len(s) : t[k] = s[k]
  BY AppendRow, Zenon
<1> HIDE DEF t
<1>2. \A k \in 1..Len(s) : t[k].node = s[k].node /\ t[k].value = s[k].value
  BY <1>1, Zenon
<1>3. \A k \in Own(s) : k \in 1..Len(s) /\ k # 0
  <2> TAKE k \in Own(s)
  <2>1. k \in 1..Len(s) /\ Len(s) \in Nat
    BY OwnIndex, Zenon
  <2> QED
    BY <2>1
<1>4. \A k \in Own(s) : t[k].status = IF k = 0 THEN "failed" ELSE s[k].status
  BY <1>1, <1>3, Zenon
<1>5. \A k \in 1..Len(t) : k > Len(s) => k = Len(s) + 1
  BY <1>1
<1>6. \A k \in 1..Len(t) : k > Len(s) => Len(t[k].node) # 1
  BY <1>1, <1>5, Zenon
<1>7. Like(w, s, t, 0, "failed")
  BY <1>1, <1>2, <1>4, <1>6, LikeFromRows, Zenon
<1> QED
  BY <1>7 DEF t

LEMMA SameRequests ==
    ASSUME NEW q, NEW t
    PROVE  NoNewOwn(q, q, t)
BY Zenon DEF NoNewOwn
\* A called workflow goes on: its steps are not the run's own, and its caller stays.
LEMMA NestedGoes ==
    ASSUME NEW o, InLoop(o), Depth > 1, UNCHANGED <<workflow, committed, process, bounds>>,
           NEW t, Like(workflow, work.steps, t, 0, "failed"),
           NEW p, NoNewOwn(work.requests, p, t),
           NEW f, Works(t, p, f), Len(f) > 1, f[1] = work.frames[1], f[2].step = work.frames[2].step,
           \A d \in 3..Len(f) : f[d].step \notin Own(t)
    PROVE  Branched'
<1> DEFINE s == work.steps
           q == work.requests
           w == workflow
<1>1. /\ Working /\ TypeOK /\ WorkFits /\ Branched /\ w \in Mains /\ s \in Seq(Step)
      /\ RequestsFit(q, Len(s)) /\ OwnFit(w, s) /\ CallFits(w, work.frames, s)
      /\ FinalId(w) \in work.frames[1].outputs => Ended(w, s)
  BY Zenon DEF InLoop
<1>2. Len(work.frames) > 1 /\ Len(work.frames) # 1 /\ work.frames[1].at \in Nat
  <2>1. Len(work.frames) > 1 /\ work.frames \in Seq(Frame) /\ Len(work.frames) # 1
    BY DEF InLoop
  <2>2. work.frames[1] \in Frame
    BY <2>1
  <2> QED
    BY <2>1, <2>2 DEF Frame
<1>3. 0 \notin Own(s) /\ "failed" # "skipped" /\ "failed" # "waiting_input"
  BY <1>1, SelfAlike
<1> HIDE DEF s, q, w
<1>4. Like(w, s, t, 0, "failed") /\ NoNewOwn(q, p, t)
  BY DEF s, q, w
<1>5. OwnFit(w, t)
  BY <1>1, <1>3, <1>4, LikeFits, Zenon
<1>6. CallFits(w, f, t)
  <2>1. /\ work.frames[2].step \in Own(s) /\ Place(w, s, work.frames[2].step) = work.frames[1].at
        /\ s[work.frames[2].step].status = "running"
    BY <1>1, <1>2, Zenon DEF CallFits
  <2>2. work.frames[2].step # 0
    BY <1>3, <2>1, Zenon
  <2>3. /\ f[2].step \in Own(t) /\ Place(w, t, f[2].step) = f[1].at
        /\ t[f[2].step].status = "running"
    BY <1>4, <2>1, <2>2, Zenon DEF Like, Twin
  <2> QED
    BY <2>3, Zenon DEF CallFits
<1>7. Ended(w, s) => Ended(w, t)
  BY <1>3, <1>4, LikeEnded, Zenon
<1>8. FinalId(w) \in f[1].outputs => Ended(w, t)
  BY <1>1, <1>7, Zenon
<1>9. Unanswered(p, t) => Unanswered(q, s)
  <2>1. Follows(s, t)
    BY <1>3, <1>4, LikeFollows, Zenon
  <2>2. \A r \in 1..Len(q) : r \in 1..Len(p) /\ p[r].step = q[r].step
    BY <1>4, Zenon DEF NoNewOwn
  <2> QED
    BY <2>1, <2>2, UnansweredBefore, Zenon
<1>10. Going(w, work.frames, s, q) => Going(w, f, t, p)
  <2> SUFFICES ASSUME Going(w, work.frames, s, q)
               PROVE  Going(w, f, t, p)
    OBVIOUS
  <2>1. Ready(w, s, q, work.frames[1].at, work.frames[1].at, work.frames[1].skipped)
    BY <1>2, Zenon DEF Going
  <2>2. Ready(w, t, p, work.frames[1].at, work.frames[1].at, work.frames[1].skipped)
    <3> DEFINE at == work.frames[1].at
               omitted == work.frames[1].skipped
    <3>1. at \in Nat /\ Ready(w, s, q, at, at, omitted)
      BY <1>2, <2>1
    <3> HIDE DEF at, omitted
    <3>2. 0 \in Own(s) => s[0].status # "skipped" /\ Place(w, s, 0) = at
      BY <1>3
    <3>3. w \in Mains /\ s \in Seq(Step) /\ OwnFit(w, s) /\ RequestsFit(q, Len(s))
      BY <1>1
    <3>4. Ready(w, t, p, at, at, omitted)
      BY <1>3, <1>4, <3>1, <3>2, <3>3, LikeReady, Zenon
    <3> QED
      BY <3>4 DEF at, omitted
  <2> QED
    BY <2>2, Zenon DEF Going
<1> QED
  BY <1>1, <1>5, <1>6, <1>7, <1>8, <1>9, <1>10, GoesBranched, Zenon DEF s, q, w

LEMMA NestedMoves ==
    ASSUME NEW o, InLoop(o), Depth > 1, UNCHANGED <<workflow, committed, process, bounds>>,
           NEW t, Like(workflow, work.steps, t, 0, "failed"),
           NEW p, NoNewOwn(work.requests, p, t),
           NEW done, NEW skipped, Works(t, p, Moved(work.frames, done, skipped))
    PROVE  Branched'
<1> DEFINE f == Moved(work.frames, done, skipped)
<1>1. work.frames \in Seq(Frame) /\ Len(work.frames) > 1 /\ Len(work.frames) >= 1 /\ Len(work.frames) \in Nat
  BY DEF InLoop
<1>2. /\ Len(f) = Len(work.frames) /\ f[1] = work.frames[1]
      /\ \A d \in 2..Len(work.frames) : f[d].step = work.frames[d].step
  <2> DEFINE frames == work.frames
  <2> HIDE DEF frames
  <2>1. frames \in Seq(Frame) /\ Len(frames) > 1 /\ Len(frames) >= 1
    BY <1>1 DEF frames
  <2>2. /\ Len(Moved(frames, done, skipped)) = Len(frames)
        /\ Moved(frames, done, skipped)[1] = frames[1]
        /\ \A d \in 2..Len(frames) : Moved(frames, done, skipped)[d].step = frames[d].step
    BY <2>1, MovedFirst
  <2> QED
    BY <2>2 DEF frames
<1>3. 2 \in 2..Len(work.frames) /\ \A d \in 3..Len(work.frames) : d \in 2..Len(work.frames)
  BY <1>1
<1>4. Works(t, p, f)
  OBVIOUS
<1> HIDE DEF f
<1>5. \A d \in 3..Len(f) : f[d].step \notin Own(t)
  <2>1. \A d \in 3..Len(work.frames) : work.frames[d].step \notin Own(work.steps)
    BY Zenon DEF InLoop, CallFits
  <2>2. Own(t) = Own(work.steps)
    BY Zenon DEF Like
  <2> QED
    BY <1>2, <1>3, <2>1, <2>2, Zenon
<1>6. Len(f) > 1 /\ f[2].step = work.frames[2].step
  BY <1>1, <1>2, <1>3, Zenon
<1> QED
  BY <1>2, <1>4, <1>5, <1>6, NestedGoes, Zenon

\* The path of a node of a called workflow.
LEMMA NestedPath ==
    ASSUME NEW o, InLoop(o), Depth > 1, ~AtEnd, NEW end, NEW value
    PROVE  NewStep(Path, end, value).node = Path /\ Len(Path) = 2 /\ Path \in Paths
<1>1. TypeOK /\ WorkFits /\ Working
  BY Zenon DEF InLoop
<1>2. PICK a, b : Path = <<a, b>>
  BY <1>1, HereFacts, Zenon
<1>3. Path \in Paths
  BY <1>1, HereFacts, Zenon
<1> QED
  BY <1>2, <1>3 DEF NewStep

\* Its steps that the loop writes.
LEMMA NestedGo ==
    ASSUME NEW o, InLoop(o), Depth > 1, ~AtEnd, UNCHANGED <<workflow, committed, process, bounds>>,
           NEW row \in Step, row.node = Path, NEW p,
           NoNewOwn(work.requests, p, Append(work.steps, row)),
           NEW skipped, Go(row, p, skipped)
    PROVE  Branched'
<1> DEFINE t == Append(work.steps, row)
<1>1. Len(row.node) # 1
  <2>1. Len(Path) = 2
    BY NestedPath, Zenon
  <2> QED
    BY <2>1
<1>2. work.steps \in Seq(Step)
  BY Zenon DEF InLoop
<1>3. Like(workflow, work.steps, t, 0, "failed")
  BY <1>1, <1>2, RowAlike, Zenon
<1>4. Works(t, p, Moved(work.frames, {Here.id}, skipped))
  BY Zenon DEF Go, Depth, Top, Moved
<1> HIDE DEF t
<1>5. NoNewOwn(work.requests, p, t)
  BY DEF t
<1> QED
  BY <1>3, <1>4, <1>5, NestedMoves, Zenon
\* The node of the run's own workflow that the transaction has come to.
LEMMA TopFacts ==
    ASSUME NEW o, InLoop(o), Depth = 1, ~AtEnd
    PROVE  /\ Top = work.frames[1] /\ Len(work.frames) = 1 /\ Top.name = workflow
           /\ Top.at \in 1..Len(Order[workflow]) /\ Top.at \in Nat
           /\ Here = Order[workflow][Top.at] /\ Here \in Range(Library[workflow])
           /\ Path = <<Here.id>> /\ Path \in Paths
           /\ Going(workflow, work.frames, work.steps, work.requests) =>
                Ready(workflow, work.steps, work.requests, Top.at - 1, Top.at, Top.skipped)
<1>1. TypeOK /\ WorkFits /\ Working
  BY Zenon DEF InLoop
<1>2. Top = work.frames[1] /\ Len(work.frames) = 1
  BY Zenon DEF InLoop
<1>3. Top.name = workflow /\ Path = <<Here.id>> /\ Top.at \in 1..Len(Order[workflow])
      /\ Here \in Range(Library[workflow]) /\ Path \in Paths
  BY <1>1, HereFacts, Zenon
<1>4. Here = Order[workflow][Top.at]
  BY <1>3, Zenon DEF Here
<1>5. Top.at \in Nat /\ ~(Top.at > Len(Order[workflow]))
  <2>1. Len(Order[workflow]) \in Nat
    BY OrderFacts, Zenon DEF InLoop
  <2> DEFINE at == Top.at
             n == Len(Order[workflow])
  <2>2. at \in 1..n /\ n \in Nat
    BY <1>3, <2>1
  <2> HIDE DEF at, n
  <2>3. at \in Nat /\ ~(at > n)
    BY <2>2
  <2> QED
    BY <2>3 DEF at, n
<1>6. ~(Len(work.frames) > 1)
  BY <1>2
<1>7. Going(workflow, work.frames, work.steps, work.requests) =>
        Ready(workflow, work.steps, work.requests, Top.at - 1, Top.at, Top.skipped)
  BY <1>2, <1>5, <1>6, Zenon DEF Going
<1> QED
  BY <1>2, <1>3, <1>4, <1>5, <1>7

\* Its step.
LEMMA TopAdds ==
    ASSUME NEW o, InLoop(o), Depth = 1, ~AtEnd, ~Cyclic(Top.name),
           NEW row \in Step, row.node = Path, NEW t, Extended(work.steps, row, t),
           row.value # "" => Here.type = "condition" /\ row.status # "skipped"
    PROVE  /\ Adds(workflow, work.steps, t, Len(work.steps) + 1, Top.at, row.status, row.value)
           /\ Len(work.steps) + 1 \notin 1..Len(work.steps)
           /\ row.value \in Values
           /\ OwnFit(workflow, t)
<1>1. /\ workflow \in DOMAIN Library /\ work.steps \in Seq(Step) /\ Len(work.steps) \in Nat
      /\ OwnFit(workflow, work.steps)
  BY Zenon DEF InLoop
<1>2. ~Cyclic(workflow) /\ Top.at \in 1..Len(Order[workflow]) /\ Here = Order[workflow][Top.at]
      /\ row.node = <<Order[workflow][Top.at].id>>
  BY TopFacts, Zenon
<1>3. Adds(workflow, work.steps, t, Len(work.steps) + 1, Top.at, row.status, row.value)
  BY <1>1, <1>2, AddsFromRows, Zenon
<1>4. Len(work.steps) + 1 \notin 1..Len(work.steps)
  BY <1>1, NextIndex, Zenon
<1>5. row.value \in Values
  BY DEF Step, Values
<1>6. row.value # "" => Order[workflow][Top.at].type = "condition" /\ row.status # "skipped"
  BY <1>2, Zenon
<1>7. OwnFit(workflow, t)
  BY <1>1, <1>3, <1>6, AddsFits, Zenon
<1> QED
  BY <1>3, <1>4, <1>5, <1>7, Zenon

LEMMA TwoParts ==
    ASSUME NEW n, n = 2
    PROVE  n # 1
OBVIOUS

LEMMA Depths ==
    ASSUME NEW n \in Nat \ {0}
    PROVE  n = 1 \/ n > 1
OBVIOUS

LEMMA DeepDepths ==
    ASSUME NEW n \in Nat \ {0}, n > 1
    PROVE  n > 2 \/ n = 2
OBVIOUS

LEMMA DeepFrames ==
    ASSUME NEW frames \in Seq(Frame), Len(frames) > 1
    PROVE  ~(Len(frames) = 1) /\ frames[1] \in Frame
<1> DEFINE n == Len(frames)
<1>1. n \in Nat /\ n > 1
  OBVIOUS
<1>2. \A d \in 1..n : frames[d] \in Frame
  OBVIOUS
<1> HIDE DEF n
<1>3. 1 \in 1..n /\ ~(n = 1)
  BY <1>1
<1> QED
  BY <1>2, <1>3 DEF n

LEMMA OneFrame ==
    ASSUME NEW n, n = 1
    PROVE  n >= 1 /\ ~(n > 1) /\ 3..n = {}
OBVIOUS

LEMMA MovedAlone ==
    ASSUME NEW frames \in Seq(Frame), Len(frames) = 1, NEW done, NEW skipped
    PROVE  /\ Len(Moved(frames, done, skipped)) = 1
           /\ Moved(frames, done, skipped)[1] = Past(frames[1], done, skipped)
BY MovedFirst

\* The loop of the run's own workflow goes on.
LEMMA TopMoves ==
    ASSUME NEW o, InLoop(o), Depth = 1, ~AtEnd, ~Cyclic(Top.name),
           UNCHANGED <<workflow, committed, process, bounds>>,
           NEW row \in Step, row.node = Path, row.status \in {"completed", "skipped"},
           row.value # "" => Here.type = "condition" /\ row.status # "skipped",
           NEW t, Extended(work.steps, row, t), NEW done, NEW skipped,
           Works(t, work.requests, Moved(work.frames, done, skipped)),
           FinalId(workflow) \notin done,
           skipped = IF row.status = "skipped" THEN {Here.id}
                     ELSE Refused(workflow, t, Len(work.steps) + 1),
           row.status # "skipped" => Here.id \notin Top.skipped,
           row.status = "skipped" => Here.id \in Top.skipped \/ Here.deps \cap Top.skipped # {}
    PROVE  Branched'
<1> DEFINE s == work.steps
           q == work.requests
           w == workflow
           x == Len(work.steps) + 1
           i == Top.at
           omitted == Top.skipped
           f == Moved(work.frames, done, skipped)
           end == row.status
           value == row.value
<1>1. /\ Working /\ TypeOK /\ WorkFits /\ Branched /\ w \in Mains /\ s \in Seq(Step)
      /\ RequestsFit(q, Len(s)) /\ OwnFit(w, s) /\ work.frames \in Seq(Frame)
      /\ FinalId(w) \in work.frames[1].outputs => Ended(w, s)
  BY Zenon DEF InLoop
<1>2. Adds(w, s, t, x, i, end, value) /\ x \notin 1..Len(s) /\ value \in Values /\ OwnFit(w, t)
  BY TopAdds, Zenon
<1>3. Top = work.frames[1] /\ Len(work.frames) = 1 /\ Here = Order[w][i]
  BY TopFacts, Zenon
<1>4. Going(w, work.frames, s, q) => Ready(w, s, q, i - 1, i, omitted)
  BY TopFacts, Zenon
<1>5. Len(f) = 1 /\ f[1] = Past(Top, done, skipped)
  <2> DEFINE frames == work.frames
  <2>1. frames \in Seq(Frame) /\ Len(frames) = 1
    BY <1>1, <1>3
  <2> HIDE DEF frames
  <2>3. /\ Len(Moved(frames, done, skipped)) = 1
        /\ Moved(frames, done, skipped)[1] = Past(frames[1], done, skipped)
    BY <2>1, MovedAlone, Zenon
  <2>2. Len(f) = 1 /\ f[1] = Past(work.frames[1], done, skipped)
    BY <2>3, Zenon DEF frames
  <2> QED
    BY <1>3, <2>2, Zenon
<1>6. f[1].at = i + 1 /\ f[1].outputs = Top.outputs \cup done /\ f[1].skipped = omitted \cup skipped
  <2>1. Past(Top, done, skipped).at = i + 1 /\ Past(Top, done, skipped).outputs = Top.outputs \cup done
        /\ Past(Top, done, skipped).skipped = omitted \cup skipped
    <3>1. Top \in Frame
      BY Zenon DEF InLoop
    <3> QED
      BY <3>1 DEF Past, Frame
  <2> QED
    BY <1>5, <2>1, Zenon
<1>7. omitted \cup skipped = After(w, t, x, i, end, omitted)
  BY <1>3, Zenon DEF After
<1>8. /\ end # "skipped" => Order[w][i].id \notin omitted
      /\ end = "skipped" => Order[w][i].id \in omitted \/ Order[w][i].deps \cap omitted # {}
  BY <1>3, Zenon
<1>9. end \in {"completed", "skipped"} /\ Works(t, q, f)
  OBVIOUS
<1>10. Ended(w, s) => Ended(w, t)
  BY <1>2, AddsEnded, Zenon
<1>11. FinalId(w) \in f[1].outputs => Ended(w, t)
  <2>1. FinalId(w) \notin done
    OBVIOUS
  <2> QED
    BY <1>1, <1>3, <1>6, <1>10, <2>1, Zenon
<1> HIDE DEF s, q, w, x, i, omitted, f, end, value
<1>12. NoNewOwn(q, q, t)
  BY SameRequests, Zenon
<1>13. CallFits(w, f, t)
  <2>1. ~(Len(f) > 1) /\ 3..Len(f) = {}
    BY <1>5, OneFrame, Zenon
  <2> QED
    BY <2>1, Zenon DEF CallFits
<1>14. Unanswered(q, t) => Unanswered(q, s)
  <2>1. Follows(s, t)
    BY <1>2, AddsFollows, Zenon
  <2>2. \A r \in 1..Len(q) : r \in 1..Len(q) /\ q[r].step = q[r].step
    OBVIOUS
  <2> QED
    BY <2>1, <2>2, UnansweredBefore, Zenon
<1>15. Going(w, work.frames, s, q) => Going(w, f, t, q)
  <2> SUFFICES ASSUME Going(w, work.frames, s, q)
               PROVE  Going(w, f, t, q)
    OBVIOUS
  <2>1. Ready(w, s, q, i - 1, i, omitted)
    BY <1>4, Zenon
  <2>2. Ready(w, t, q, (i + 1) - 1, i + 1, After(w, t, x, i, end, omitted))
    BY <1>1, <1>2, <1>8, <1>9, <1>12, <2>1, AddsReady, Zenon
  <2> QED
    BY <1>5, <1>6, <1>7, <2>2, Zenon DEF Going
<1> QED
  BY <1>1, <1>2, <1>9, <1>10, <1>11, <1>13, <1>14, <1>15, GoesBranched, Zenon DEF s, q, w
LEMMA SkipNodeBranched ==
    ASSUME Typed, Branched, NEW o \in Resumers, SkipNode(o)
    PROVE  Branched'
<1> DEFINE row == NewStep(Path, "skipped", "")
           s == work.steps
           t == IF \E k \in Range(work.steps) : k.node = Path /\ k.status = "skipped"
                THEN work.steps ELSE Append(work.steps, row)
<1>1. work.owner = o /\ ~Cyclic(Top.name) /\ ~AtEnd /\ ~AtNode(o)
  BY DEF SkipNode, Executing
<1>2. InLoop(o)
  BY <1>1, LoopFacts
<1>3. Here.id \in Top.skipped \/ Here.deps \cap Top.skipped # {}
  BY <1>1 DEF AtNode, Executing
<1>4. Works(t, work.requests, Moved(work.frames, {}, {Here.id}))
  BY Zenon DEF SkipNode, Moved, Depth, Top
<1>5. UNCHANGED <<workflow, committed, process, bounds>>
  BY DEF SkipNode
<1>6. /\ Working /\ TypeOK /\ WorkFits /\ s \in Seq(Step) /\ work.frames \in Seq(Frame)
      /\ OwnFit(workflow, s) /\ CallFits(workflow, work.frames, s)
      /\ FinalId(workflow) \in work.frames[1].outputs => Ended(workflow, s)
      /\ Depth \in Nat \ {0} /\ Depth = Len(work.frames)
  BY <1>2, Zenon DEF InLoop
<1>7. row.node = Path /\ row.status = "skipped" /\ row.value = ""
  BY DEF NewStep
<1>8. row \in Step
  BY <1>1, <1>6, HereFacts, StepTyped
<1>9. t = s \/ t = Append(s, row)
  OBVIOUS
<1>10. (~\E k \in Range(s) : k.node = Path /\ k.status = "skipped") => t = Append(s, row)
  OBVIOUS
<1>11. (\E k \in Range(s) : k.node = Path /\ k.status = "skipped") => t = s
  OBVIOUS
<1> HIDE DEF t, row, s
<1>12. CASE Depth > 1
  <2>1. Len(row.node) # 1
    <3>1. Len(Path) = 2
      BY <1>1, <1>2, <1>12, NestedPath, Zenon
    <3>2. row.node = Path
      BY <1>7
    <3> QED
      BY <3>1, <3>2, TwoParts, Zenon
  <2>2. Like(workflow, s, t, 0, "failed")
    BY <1>6, <1>8, <1>9, <2>1, SelfAlike, RowAlike, Zenon
  <2>3. NoNewOwn(work.requests, work.requests, t)
    BY SameRequests, Zenon
  <2> QED
    BY <1>2, <1>4, <1>5, <1>12, <2>2, <2>3, NestedMoves, Zenon DEF s
<1>13. CASE Depth = 1 /\ ~\E k \in Range(s) : k.node = Path /\ k.status = "skipped"
  <2>1. Extended(s, row, t)
    <3>1. t = Append(s, row)
      BY <1>10, <1>13
    <3> QED
      BY <1>6, <1>8, <3>1, AppendRow, Zenon DEF Extended
  <2>2. FinalId(workflow) \notin {}
    OBVIOUS
  <2>3. {Here.id} = IF row.status = "skipped" THEN {Here.id} ELSE Refused(workflow, t, Len(s) + 1)
    BY <1>7
  <2>4. row.status \in {"completed", "skipped"} /\ (row.value # "" => Here.type = "condition" /\ row.status # "skipped")
        /\ (row.status # "skipped" => Here.id \notin Top.skipped)
    BY <1>7
  <2> QED
    BY <1>1, <1>2, <1>3, <1>4, <1>5, <1>7, <1>8, <1>13, <2>1, <2>2, <2>3, <2>4, TopMoves, Zenon DEF s
<1>14. CASE Depth = 1 /\ \E k \in Range(s) : k.node = Path /\ k.status = "skipped"
  <2> DEFINE q == work.requests
             f == Moved(work.frames, {}, {Here.id})
  <2>1. t = s
    BY <1>11, <1>14
  <2>2. Len(f) = 1 /\ f[1] = Past(Top, {}, {Here.id})
    <3> DEFINE frames == work.frames
    <3>1. frames \in Seq(Frame) /\ Len(frames) = 1 /\ Top = frames[1]
      BY <1>6, <1>14 DEF Top
    <3> HIDE DEF frames
    <3>2. /\ Len(Moved(frames, {}, {Here.id})) = 1
          /\ Moved(frames, {}, {Here.id})[1] = Past(frames[1], {}, {Here.id})
      BY <3>1, MovedAlone, Zenon
    <3> QED
      BY <3>1, <3>2, Zenon DEF frames
  <2>3. FinalId(workflow) \in f[1].outputs => Ended(workflow, s)
    <3>1. Past(Top, {}, {Here.id}).outputs = Top.outputs
      <4>1. Top \in Frame
        BY <1>2, Zenon DEF InLoop
      <4> QED
        BY <4>1 DEF Past, Frame
    <3>2. Top = work.frames[1]
      BY <1>1, <1>2, <1>14, TopFacts, Zenon
    <3> QED
      BY <1>6, <2>2, <3>1, <3>2, Zenon
  <2>4. CallFits(workflow, f, s)
    <3>1. ~(Len(f) > 1) /\ 3..Len(f) = {}
      BY <2>2, OneFrame, Zenon
    <3> QED
      BY <3>1, Zenon DEF CallFits
  <2>5. ~Going(workflow, work.frames, s, q)
    <3> SUFFICES ASSUME Going(workflow, work.frames, s, q)
                 PROVE  FALSE
      OBVIOUS
    <3> DEFINE w == workflow
               i == Top.at
    <3>1. /\ Path = <<Order[w][i].id>> /\ i \in 1..Len(Order[w]) /\ i \in Nat /\ w \in DOMAIN Library
          /\ Ready(w, s, q, i - 1, i, Top.skipped)
      <4>1. w \in DOMAIN Library
        BY <1>2, Zenon DEF InLoop
      <4> QED
        BY <1>1, <1>2, <1>14, <4>1, TopFacts, Zenon DEF s
    <3> HIDE DEF w, i
    <3>2. PICK k \in 1..Len(s) : s[k].node = Path
      BY <1>6, <1>14 DEF Range
    <3>3. s[k].node = <<Order[w][i].id>>
      BY <3>1, <3>2, Zenon
    <3>4. Place(w, s, k) = i
      BY <3>1, <3>3, PlaceOfNode
    <3>5. k \in Own(s)
      <4>1. \A a : Len(<<a>>) = 1
        OBVIOUS
      <4> QED
        BY <3>3, <4>1, Zenon DEF Own
    <3>6. i <= i - 1
      BY <3>1, <3>4, <3>5, Zenon DEF Ready, Passed
    <3> QED
      BY <3>1, <3>6
  <2> HIDE DEF q, f
  <2>6. Works(s, q, f)
    BY <1>4, <2>1 DEF q, f
  <2> QED
    BY <1>2, <1>5, <1>6, <2>3, <2>4, <2>5, <2>6, GoesBranched, Zenon DEF s, q, InLoop
<1>15. Depth = 1 \/ Depth > 1
  BY <1>6, Depths, Zenon
<1> QED
  BY <1>12, <1>13, <1>14, <1>15

LEMMA RunNodeBranched ==
    ASSUME Typed, Branched, NEW o \in Resumers,
           \/ RunNode(o)
           \/ Branch(o)
    PROVE  Branched'
<1>1. PICK value \in Values :
        /\ Go(NewStep(Path, "completed", value), work.requests,
              IF value = "" THEN {} ELSE Unselected(value))
        /\ value # "" => Here.type = "condition"
  <2>1. CASE RunNode(o)
    <3>1. Go(NewStep(Path, "completed", ""), work.requests, {})
      BY <2>1 DEF RunNode
    <3> QED
      BY <3>1 DEF Values
  <2>2. CASE Branch(o)
    <3>1. PICK value \in {"true", "false"} : Go(NewStep(Path, "completed", value), work.requests, Unselected(value))
      BY <2>2 DEF Branch
    <3>2. Here.type = "condition"
      BY <2>2 DEF Branch
    <3>3. value # "" /\ value \in Values
      BY DEF Values
    <3> QED
      BY <3>1, <3>2, <3>3, Zenon
  <2> QED
    BY <2>1, <2>2
<1>2. AtNode(o) /\ Here.type # "final" /\ UNCHANGED <<workflow, committed, process, bounds>>
  BY DEF RunNode, Branch
<1>3. work.owner = o /\ ~Cyclic(Top.name) /\ ~AtEnd /\ Here.id \notin Top.skipped
  BY <1>2 DEF AtNode, Executing
<1>4. InLoop(o)
  BY <1>3, LoopFacts
<1> DEFINE row == NewStep(Path, "completed", value)
           s == work.steps
           t == Append(work.steps, row)
           skipped == IF value = "" THEN {} ELSE Unselected(value)
<1>5. TypeOK /\ WorkFits /\ Working /\ s \in Seq(Step) /\ Depth \in Nat \ {0} /\ workflow \in DOMAIN Library
  BY <1>4, Zenon DEF InLoop
<1>6. row.node = Path /\ row.status = "completed" /\ row.value = value
  BY DEF NewStep
<1>7. row \in Step
  BY <1>3, <1>5, HereFacts, StepTyped DEF Values
<1>8. CASE Depth > 1
  <2>1. NoNewOwn(work.requests, work.requests, t)
    BY SameRequests, Zenon
  <2> HIDE DEF row
  <2>2. Go(row, work.requests, skipped)
    BY <1>1 DEF row
  <2> QED
    BY <1>2, <1>3, <1>4, <1>6, <1>7, <1>8, <2>1, <2>2, NestedGo, Zenon
<1>9. CASE Depth = 1
  <2>1. Works(t, work.requests, Moved(work.frames, {Here.id}, skipped))
    BY <1>1, Zenon DEF Go, Moved, Depth, Top
  <2> HIDE DEF row, skipped
  <2>2. Extended(s, row, t)
    BY <1>5, <1>7, AppendRow, Zenon DEF Extended
  <2>3. FinalId(workflow) \notin {Here.id}
    <3>1. Here \in Range(Library[workflow])
      BY <1>3, <1>4, <1>9, TopFacts, Zenon
    <3>2. Here.id # FinalId(workflow)
      BY <1>2, <1>5, <3>1, FinalFacts, Zenon
    <3> QED
      BY <3>2
  <2>4. row.status \in {"completed", "skipped"} /\ row.status # "skipped"
    BY <1>6
  <2>5. row.value # "" => Here.type = "condition" /\ row.status # "skipped"
    BY <1>1, <1>6, <2>4, Zenon
  <2>6. skipped = IF row.status = "skipped" THEN {Here.id} ELSE Refused(workflow, t, Len(s) + 1)
    <3>1. Adds(workflow, s, t, Len(s) + 1, Top.at, row.status, row.value)
      BY <1>3, <1>4, <1>6, <1>7, <1>9, <2>2, <2>5, TopAdds, Zenon DEF s
    <3>2. t[Len(s) + 1].value = value /\ NodeOf(workflow, t, Len(s) + 1) = Here
      <4>1. Here = Order[workflow][Top.at]
        BY <1>3, <1>4, <1>9, TopFacts, Zenon
      <4> QED
        BY <1>6, <3>1, <4>1, Zenon DEF Adds
    <3> HIDE DEF t, s
    <3>3. Refused(workflow, t, Len(s) + 1) = skipped
      BY <3>2, Zenon DEF Refused, skipped, Unselected
    <3> QED
      BY <2>4, <3>3, Zenon
  <2> HIDE DEF t
  <2> QED
    BY <1>2, <1>3, <1>4, <1>6, <1>7, <1>9, <2>1, <2>2, <2>3, <2>4, <2>5, <2>6, TopMoves, Zenon DEF s
<1> QED
  BY <1>5, <1>8, <1>9
\* Requests and the one that is added to them.
LEMMA RequestsAfter ==
    ASSUME NEW q \in Seq(Request), NEW n
    PROVE  /\ \A r \in 1..Len(q) : r \in 1..Len(Append(q, NewRequest(n))) /\ Append(q, NewRequest(n))[r] = q[r]
           /\ \A r \in 1..Len(Append(q, NewRequest(n))) : r \in 1..Len(q) \/ r = Len(q) + 1
           /\ Append(q, NewRequest(n))[Len(q) + 1].step = n
<1>1. NewRequest(n).step = n
  BY DEF NewRequest
<1> DEFINE new == NewRequest(n)
           p == Append(q, new)
<1> HIDE DEF new
<1>2. Len(q) \in Nat /\ Len(p) = Len(q) + 1 /\ p[Len(q) + 1] = new /\ \A r \in 1..Len(q) : p[r] = q[r]
  OBVIOUS
<1> HIDE DEF p
<1>3. /\ \A r \in 1..Len(q) : r \in 1..Len(p) /\ p[r] = q[r]
      /\ \A r \in 1..Len(p) : r \in 1..Len(q) \/ r = Len(q) + 1
  BY <1>2
<1>4. p[Len(q) + 1].step = n
  BY <1>1, <1>2 DEF new
<1> QED
  BY <1>3, <1>4 DEF p, new

LEMMA AskInCallBranched ==
    ASSUME Typed, Branched, NEW o \in Resumers, AskInCall(o)
    PROVE  Branched'
<1> DEFINE row == NewStep(Path, "waiting_input", "")
           s == work.steps
           q == work.requests
           t == Append(work.steps, row)
           p == Append(work.requests, NewRequest(Len(work.steps) + 1))
<1>1. Depth > 1 /\ Go(row, p, {}) /\ UNCHANGED <<workflow, committed, process, bounds>> /\ AtNode(o)
  BY DEF AskInCall
<1>2. work.owner = o /\ ~AtEnd
  BY <1>1 DEF AtNode, Executing
<1>3. InLoop(o)
  BY <1>2, LoopFacts
<1>4. row.node = Path /\ row \in Step
  <2>1. Path \in Paths
    BY <1>1, <1>2, <1>3, NestedPath, Zenon
  <2> QED
    BY <2>1, StepTyped DEF NewStep
<1>5. s \in Seq(Step) /\ q \in Seq(Request) /\ Len(s) \in Nat
  BY <1>3, Zenon DEF InLoop
<1>6. Len(s) + 1 \notin Own(t)
  <2>1. t[Len(s) + 1].node = Path
    BY <1>4, <1>5, AppendRow, Zenon
  <2>2. Len(Path) = 2
    BY <1>1, <1>2, <1>3, NestedPath, Zenon
  <2>3. Len(Path) # 1
    BY <2>2, TwoParts, Zenon
  <2> QED
    BY <2>1, <2>3, Zenon DEF Own
<1>7. NoNewOwn(q, p, t)
  <2>1. /\ \A r \in 1..Len(q) : r \in 1..Len(p) /\ p[r] = q[r]
        /\ \A r \in 1..Len(p) : r \in 1..Len(q) \/ r = Len(q) + 1
        /\ p[Len(q) + 1].step = Len(s) + 1
    <3> DEFINE n == Len(s) + 1
    <3>1. q \in Seq(Request) /\ p = Append(q, NewRequest(n))
      BY <1>5
    <3> HIDE DEF q, p, n
    <3>2. /\ \A r \in 1..Len(q) : r \in 1..Len(p) /\ p[r] = q[r]
          /\ \A r \in 1..Len(p) : r \in 1..Len(q) \/ r = Len(q) + 1
          /\ p[Len(q) + 1].step = n
      BY <3>1, RequestsAfter
    <3> QED
      BY <3>2 DEF n
  <2> QED
    BY <1>6, <2>1, Zenon DEF NoNewOwn
<1> HIDE DEF row, p
<1> QED
  BY <1>1, <1>2, <1>3, <1>4, <1>7, NestedGo, Zenon

LEMMA CallBranched ==
    ASSUME Typed, Branched, NEW o \in Resumers, Call(o)
    PROVE  Branched'
<1> DEFINE row == NewStep(Path, "running", "")
           s == work.steps
           q == work.requests
           w == workflow
           t == Append(work.steps, row)
           f == Append(work.frames, CallFrame)
           x == Len(work.steps) + 1
<1>1. Works(t, q, f) /\ UNCHANGED <<workflow, committed, process, bounds>> /\ AtNode(o)
      /\ Here.type = "workflow_call"
  BY DEF Call, CallFrame
<1>2. work.owner = o /\ ~AtEnd /\ ~Cyclic(Top.name) /\ Here.id \notin Top.skipped
  BY <1>1 DEF AtNode, Executing
<1>3. InLoop(o)
  BY <1>2, LoopFacts
<1>4. /\ Working /\ TypeOK /\ WorkFits /\ s \in Seq(Step) /\ work.frames \in Seq(Frame) /\ Branched
      /\ OwnFit(w, s) /\ CallFits(w, work.frames, s) /\ w \in Mains /\ RequestsFit(q, Len(s))
      /\ FinalId(w) \in work.frames[1].outputs => Ended(w, s)
      /\ Depth \in Nat \ {0} /\ Depth = Len(work.frames) /\ Len(s) \in Nat
  BY <1>3, Zenon DEF InLoop
<1>5. row.node = Path /\ row.status = "running" /\ row.value = ""
  BY DEF NewStep
<1>6. row \in Step
  BY <1>2, <1>4, HereFacts, StepTyped
<1>7. CallFrame \in Frame /\ CallFrame.step = x
  BY <1>1, <1>2, <1>4, CallFrameFits
<1>8. Len(f) = Depth + 1 /\ f[1] = work.frames[1] /\ f[Depth + 1] = CallFrame
      /\ (\A d \in 2..Depth : f[d].step = work.frames[d].step)
  <2> DEFINE frames == work.frames
             frame == CallFrame
  <2>1. frames \in Seq(Frame) /\ Len(frames) >= 1 /\ frame \in Frame /\ Depth = Len(frames)
    BY <1>4, <1>7
  <2> HIDE DEF frames, frame
  <2>2. /\ Len(Append(frames, frame)) = Len(frames) + 1
        /\ Append(frames, frame)[1] = frames[1]
        /\ Append(frames, frame)[Len(frames) + 1] = frame
        /\ \A d \in 2..Len(frames) : Append(frames, frame)[d].step = frames[d].step
    BY <2>1, PushedFirst, Zenon
  <2> QED
    BY <2>1, <2>2, Zenon DEF frames, frame
<1>9. NoNewOwn(q, q, t)
  BY SameRequests, Zenon
<1>10. Extended(s, row, t)
  BY <1>4, <1>6, AppendRow, Zenon DEF Extended
<1> HIDE DEF row, f, t
<1>11. CASE Depth > 1
  <2>1. Len(row.node) # 1
    <3>1. Len(Path) = 2
      BY <1>2, <1>3, <1>11, NestedPath, Zenon
    <3> QED
      BY <1>5, <3>1, TwoParts, Zenon
  <2>2. Like(w, s, t, 0, "failed")
    BY <1>4, <1>6, <2>1, RowAlike, Zenon DEF t
  <2>3. /\ Len(f) > 1 /\ 2 \in 2..Depth
        /\ \A d \in 3..Len(f) : (d \in 2..Depth /\ d \in 3..Depth) \/ d = Depth + 1
    <3> DEFINE n == Depth
    <3>1. n \in Nat /\ n > 1 /\ Len(f) = n + 1
      BY <1>4, <1>8, <1>11
    <3> HIDE DEF n
    <3>2. /\ Len(f) > 1 /\ 2 \in 2..n
          /\ \A d \in 3..Len(f) : (d \in 2..n /\ d \in 3..n) \/ d = n + 1
      BY <3>1
    <3> QED
      BY <3>2 DEF n
  <2>4. \A d \in 3..Len(f) : f[d].step \notin Own(t)
    <3>1. Own(t) = Own(s)
      BY <2>2, Zenon DEF Like
    <3>2. \A d \in 3..Depth : work.frames[d].step \notin Own(s)
      BY <1>4, Zenon DEF CallFits
    <3>3. x \notin Own(s)
      <4>1. x \notin 1..Len(s)
        BY <1>4, NextIndex, Zenon
      <4> QED
        BY <4>1, Zenon DEF Own
    <3> QED
      BY <1>7, <1>8, <2>3, <3>1, <3>2, <3>3, Zenon
  <2>5. f[2].step = work.frames[2].step
    BY <1>8, <2>3, Zenon
  <2> QED
    BY <1>1, <1>3, <1>8, <1>9, <1>11, <2>2, <2>3, <2>4, <2>5, NestedGoes, Zenon
<1>12. CASE Depth = 1
  <2> DEFINE i == Top.at
             omitted == Top.skipped
  <2>1. Adds(w, s, t, x, i, "running", "") /\ x \notin 1..Len(s) /\ OwnFit(w, t) /\ "" \in Values
    BY <1>2, <1>3, <1>5, <1>6, <1>10, <1>12, TopAdds, Zenon
  <2>2. /\ Top = work.frames[1] /\ Len(work.frames) = 1 /\ Here = Order[w][i]
        /\ Going(w, work.frames, s, q) => Ready(w, s, q, i - 1, i, omitted)
    BY <1>2, <1>3, <1>12, TopFacts, Zenon
  <2>3. Len(f) = 2 /\ f[2] = CallFrame /\ f[1] = Top
    <3>1. 1 + 1 = 2
      OBVIOUS
    <3> QED
      BY <1>8, <1>12, <2>2, <3>1, Zenon
  <2>4. Len(f) > 1 /\ 3..Len(f) = {}
    <3>1. \A n : n = 2 => n > 1 /\ 3..n = {}
      OBVIOUS
    <3> QED
      BY <2>3, <3>1, Zenon
  <2> HIDE DEF s, q, w, x, i, omitted
  <2>5. CallFits(w, f, t)
    <3>1. x \in Own(t) /\ Place(w, t, x) = i /\ t[x].status = "running"
      BY <2>1, Zenon DEF Adds
    <3>2. f[2].step \in Own(t) /\ Place(w, t, f[2].step) = f[1].at /\ t[f[2].step].status = "running"
      BY <1>7, <2>3, <3>1, Zenon DEF i
    <3> QED
      BY <2>4, <3>2, Zenon DEF CallFits
  <2>6. Ended(w, s) => Ended(w, t)
    BY <2>1, AddsEnded, Zenon
  <2>7. FinalId(w) \in f[1].outputs => Ended(w, t)
    BY <1>4, <2>2, <2>3, <2>6, Zenon
  <2>8. Unanswered(q, t) => Unanswered(q, s)
    <3>1. Follows(s, t)
      BY <2>1, AddsFollows, Zenon
    <3>2. \A r \in 1..Len(q) : r \in 1..Len(q) /\ q[r].step = q[r].step
      OBVIOUS
    <3> QED
      BY <3>1, <3>2, UnansweredBefore, Zenon
  <2>9. Going(w, work.frames, s, q) => Going(w, f, t, q)
    <3> SUFFICES ASSUME Going(w, work.frames, s, q)
                 PROVE  Going(w, f, t, q)
      OBVIOUS
    <3>1. Ready(w, s, q, i - 1, i, omitted)
      BY <2>2, Zenon
    <3>2. "running" # "skipped" /\ Order[w][i].id \notin omitted
      BY <1>2, <2>2 DEF omitted
    <3>3. Ready(w, t, q, i, i, After(w, t, x, i, "running", omitted))
      BY <1>4, <1>9, <2>1, <3>1, <3>2, AddsReady, Zenon
    <3>4. After(w, t, x, i, "running", omitted) = omitted
      <4>1. t[x].value = ""
        BY <2>1, Zenon DEF Adds
      <4>2. Refused(w, t, x) = {}
        BY <4>1, Zenon DEF Refused
      <4> QED
        BY <3>2, <4>2 DEF After
    <3>5. Ready(w, t, q, f[1].at, f[1].at, f[1].skipped)
      BY <2>3, <3>3, <3>4, Zenon DEF i, omitted
    <3> QED
      BY <2>4, <3>5, Zenon DEF Going
  <2> QED
    BY <1>1, <1>4, <2>1, <2>5, <2>6, <2>7, <2>8, <2>9, GoesBranched, Zenon DEF s, q, w
<1> QED
  BY <1>4, <1>11, <1>12, Depths, Zenon
LEMMA AskBranched ==
    ASSUME Typed, Branched, NEW o \in Resumers, Ask(o)
    PROVE  Branched'
<1> DEFINE row == NewStep(Path, "waiting_input", "")
           s == work.steps
           q == work.requests
           w == workflow
           t == Append(work.steps, row)
           p == Append(work.requests, NewRequest(Len(work.steps) + 1))
           x == Len(work.steps) + 1
           i == Top.at
           omitted == Top.skipped
<1>1. Depth = 1 /\ Commit("waiting_input", t, p) /\ UNCHANGED <<workflow, process, bounds>> /\ AtNode(o)
  BY DEF Ask
<1>2. work.owner = o /\ ~AtEnd /\ ~Cyclic(Top.name) /\ Here.id \notin Top.skipped
  BY <1>1 DEF AtNode, Executing
<1>3. InLoop(o)
  BY <1>2, LoopFacts
<1>4. /\ Working /\ TypeOK /\ WorkFits /\ s \in Seq(Step) /\ q \in Seq(Request) /\ Branched
      /\ OwnFit(w, s) /\ w \in Mains /\ RequestsFit(q, Len(s)) /\ Len(s) \in Nat
  BY <1>3, Zenon DEF InLoop
<1>5. row.node = Path /\ row.status = "waiting_input" /\ row.value = ""
  BY DEF NewStep
<1>6. row \in Step
  BY <1>2, <1>4, HereFacts, StepTyped
<1>7. /\ \A r \in 1..Len(q) : r \in 1..Len(p) /\ p[r] = q[r]
      /\ \A r \in 1..Len(p) : r \in 1..Len(q) \/ r = Len(q) + 1
      /\ p[Len(q) + 1].step = x
  <2>1. q \in Seq(Request) /\ p = Append(q, NewRequest(x))
    BY <1>4
  <2> HIDE DEF q, p, x
  <2> QED
    BY <2>1, RequestsAfter
<1>8. Extended(s, row, t)
  BY <1>4, <1>6, AppendRow, Zenon DEF Extended
<1> HIDE DEF row, t, p
<1>9. Adds(w, s, t, x, i, "waiting_input", "") /\ x \notin 1..Len(s) /\ OwnFit(w, t) /\ "" \in Values
  BY <1>1, <1>2, <1>3, <1>5, <1>6, <1>8, TopAdds, Zenon
<1>10. /\ Here = Order[w][i]
       /\ Going(w, work.frames, s, q) => Ready(w, s, q, i - 1, i, omitted)
  BY <1>1, <1>2, <1>3, TopFacts, Zenon
<1>11. Order[w][i].id \notin omitted
  BY <1>2, <1>10
<1> HIDE DEF s, q, w, x, i, omitted
<1>12. Ended(w, s) => Ended(w, t)
  BY <1>9, AddsEnded, Zenon
<1>13. Unanswered(p, t) => Unanswered(q, s)
  <2>1. Follows(s, t)
    BY <1>9, AddsFollows, Zenon
  <2>2. \A r \in 1..Len(q) : r \in 1..Len(p) /\ p[r].step = q[r].step
    BY <1>7, Zenon
  <2> QED
    BY <2>1, <2>2, UnansweredBefore, Zenon
<1>14. Going(w, work.frames, s, q) => Rest(w, t, p)
  <2> SUFFICES ASSUME Going(w, work.frames, s, q)
               PROVE  Rest(w, t, p)
    OBVIOUS
  <2>1. Ready(w, s, q, i - 1, i, omitted)
    BY <1>10, Zenon
  <2> DEFINE new == Len(q) + 1
  <2>2. /\ \A r \in 1..Len(q) : r \in 1..Len(p) /\ p[r] = q[r]
        /\ \A r \in 1..Len(p) : r \in 1..Len(q) \/ r = new
        /\ p[new].step = x
    BY <1>7
  <2> HIDE DEF new
  <2>3. "waiting_input" \in {"waiting_input"}
    OBVIOUS
  <2> QED
    BY <1>4, <1>9, <1>11, <2>1, <2>2, <2>3, AddsQuestion, Zenon
<1>15. "waiting_input" = "completed" => Ended(w, t)
  OBVIOUS
<1> QED
  BY <1>1, <1>4, <1>9, <1>12, <1>13, <1>14, <1>15, EndsBranched, Zenon DEF s, q, w

LEMMA FinishBranched ==
    ASSUME Typed, Branched, NEW o \in Resumers, Finish(o)
    PROVE  Branched'
<1> DEFINE row == NewStep(Path, "completed", "")
           s == work.steps
           q == work.requests
           w == workflow
           t == Append(work.steps, row)
           x == Len(work.steps) + 1
           i == Top.at
           omitted == Top.skipped
<1>1. Depth = 1 /\ Commit("completed", t, q) /\ UNCHANGED <<workflow, process, bounds>> /\ AtNode(o)
      /\ Here.type = "final"
  BY DEF Finish
<1>2. work.owner = o /\ ~AtEnd /\ ~Cyclic(Top.name) /\ Here.id \notin Top.skipped
  BY <1>1 DEF AtNode, Executing
<1>3. InLoop(o)
  BY <1>2, LoopFacts
<1>4. /\ Working /\ TypeOK /\ WorkFits /\ s \in Seq(Step) /\ Branched /\ w \in DOMAIN Library
      /\ OwnFit(w, s) /\ w \in Mains /\ RequestsFit(q, Len(s)) /\ Len(s) \in Nat
  BY <1>3, Zenon DEF InLoop
<1>5. row.node = Path /\ row.status = "completed" /\ row.value = ""
  BY DEF NewStep
<1>6. row \in Step
  BY <1>2, <1>4, HereFacts, StepTyped
<1>8. Extended(s, row, t)
  BY <1>4, <1>6, AppendRow, Zenon DEF Extended
<1> HIDE DEF row, t
<1>9. Adds(w, s, t, x, i, "completed", "") /\ x \notin 1..Len(s) /\ OwnFit(w, t) /\ "" \in Values
  BY <1>1, <1>2, <1>3, <1>5, <1>6, <1>8, TopAdds, Zenon
<1>10. /\ Here = Order[w][i] /\ Here \in Range(Library[w])
       /\ Going(w, work.frames, s, q) => Ready(w, s, q, i - 1, i, omitted)
  BY <1>1, <1>2, <1>3, TopFacts, Zenon
<1>11. Order[w][i].id \notin omitted /\ "completed" # "skipped"
  BY <1>2, <1>10
<1>16. Order[w][i].id = FinalId(w)
  BY <1>1, <1>4, <1>10, FinalFacts, Zenon
<1> HIDE DEF s, q, w, x, i, omitted
<1>12. Ended(w, t)
  BY <1>9, <1>16, AddsEnded, Zenon
<1>13. Unanswered(q, t) => Unanswered(q, s)
  <2>1. Follows(s, t)
    BY <1>9, AddsFollows, Zenon
  <2>2. \A r \in 1..Len(q) : r \in 1..Len(q) /\ q[r].step = q[r].step
    OBVIOUS
  <2> QED
    BY <2>1, <2>2, UnansweredBefore, Zenon
<1>14. Going(w, work.frames, s, q) => Rest(w, t, q)
  <2> SUFFICES ASSUME Going(w, work.frames, s, q)
               PROVE  Rest(w, t, q)
    OBVIOUS
  <2>1. Ready(w, s, q, i - 1, i, omitted)
    BY <1>10, Zenon
  <2>2. w \in Mains /\ s \in Seq(Step) /\ OwnFit(w, s) /\ OwnFit(w, t) /\ RequestsFit(q, Len(s))
    BY <1>4, <1>9
  <2>3. "completed" \in {"completed", "failed"}
    OBVIOUS
  <2> QED
    BY <1>9, <1>11, <2>1, <2>2, <2>3, AddsRests, Zenon
<1> QED
  BY <1>1, <1>4, <1>9, <1>12, <1>13, <1>14, EndsBranched, Zenon DEF s, q, w

\* A loop that has ended, or that cannot go on, leaves the run at rest.
LEMMA SettledBefore ==
    ASSUME NEW w \in DOMAIN Library, NEW s, OwnFit(w, s), NEW i \in Nat, Settled(w, s, i)
    PROVE  Settled(w, s, i - 1)
<1> SUFFICES ASSUME NEW k \in Own(s), Place(w, s, k) < i - 1
             PROVE  s[k].status \in {"completed", "skipped"}
  BY Zenon DEF Settled
<1>1. Place(w, s, k) \in Nat
  BY OwnPlace, Zenon
<1>2. Place(w, s, k) < i
  <2> DEFINE j == Place(w, s, k)
  <2>1. j \in Nat /\ j < i - 1
    BY <1>1
  <2> HIDE DEF j
  <2>2. j < i
    BY <2>1
  <2> QED
    BY <2>2 DEF j
<1> QED
  BY <1>2, Zenon DEF Settled

LEMMA GoingRests ==
    ASSUME NEW o, InLoop(o), Depth = 1
    PROVE  Going(workflow, work.frames, work.steps, work.requests)
                => Rest(workflow, work.steps, work.requests)
<1> DEFINE s == work.steps
           q == work.requests
           w == workflow
           i == work.frames[1].at
           omitted == work.frames[1].skipped
<1> SUFFICES ASSUME Going(w, work.frames, s, q)
             PROVE  Rest(w, s, q)
  OBVIOUS
<1>1. /\ w \in Mains /\ w \in DOMAIN Library /\ s \in Seq(Step) /\ OwnFit(w, s)
      /\ Len(work.frames) = 1 /\ work.frames \in Seq(Frame) /\ Depth = Len(work.frames)
      /\ Top = work.frames[Depth] /\ Top \in Frame
  BY Zenon DEF InLoop
<1>2. i \in Nat /\ i - 1 \in Nat
  <2>1. work.frames[1] \in Frame
    BY <1>1, Zenon
  <2>2. work.frames[1].at \in Nat \ {0}
    BY <2>1 DEF Frame
  <2>3. \A n \in Nat \ {0} : n \in Nat /\ n - 1 \in Nat
    OBVIOUS
  <2> QED
    BY <2>2, <2>3, Zenon
<1>3. ~(Len(work.frames) > 1)
  BY <1>1, OneFrame, Zenon
<1>4. Rest(w, s, q) \/ Ready(w, s, q, i - 1, i, omitted)
  BY <1>3, Zenon DEF Going
<1> HIDE DEF s, q, w, i, omitted
<1>5. ASSUME Ready(w, s, q, i - 1, i, omitted)
      PROVE  Rest(w, s, q)
  <2>1. Settled(w, s, i)
    BY <1>5, Zenon DEF Ready
  <2>2. Settled(w, s, i - 1)
    BY <1>1, <1>2, <2>1, SettledBefore, Zenon
  <2> QED
    BY <1>2, <1>5, <2>2, ReadyRests, Zenon
<1> QED
  BY <1>4, <1>5, Zenon

LEMMA EndWithoutFinalBranched ==
    ASSUME Typed, Branched, NEW o \in Resumers, EndWithoutFinal(o)
    PROVE  Branched'
<1>1. /\ work.owner = o /\ Depth = 1 /\ FinalId(Top.name) \in Top.outputs
      /\ Commit("completed", work.steps, work.requests)
      /\ UNCHANGED <<workflow, process, bounds>>
  BY DEF EndWithoutFinal, Executing
<1>2. InLoop(o)
  BY <1>1, LoopFacts
<1>3. /\ Working /\ Branched /\ OwnFit(workflow, work.steps) /\ Top = work.frames[1]
      /\ FinalId(workflow) \in work.frames[1].outputs => Ended(workflow, work.steps)
  BY <1>1, <1>2, Zenon DEF InLoop
<1>4. Top.name = workflow
  BY <1>2, <1>3 DEF InLoop, WorkFits, FramesFit, Working
<1>5. Ended(workflow, work.steps)
  BY <1>1, <1>3, <1>4, Zenon
<1> QED
  BY <1>1, <1>2, <1>3, <1>5, GoingRests, EndsBranched, Zenon
\* The steps after a call has returned: that of the call is completed.
LEMMA ReturnRows ==
    ASSUME NEW w, NEW s \in Seq(Step), NEW c \in 1..Len(s), NEW row \in Step, Len(row.node) # 1, NEW t,
           t = Append([s EXCEPT ![c].status = "completed"], row)
    PROVE  /\ Like(w, s, t, c, "completed")
           /\ c \notin Own(s) => Like(w, s, t, 0, "failed")
<1> DEFINE done == [s EXCEPT ![c].status = "completed"]
           new == [s[c] EXCEPT !.status = "completed"]
           n == Len(s)
<1>1. n \in Nat /\ DOMAIN s = 1..n /\ s[c] \in Step
  OBVIOUS
<1>2. new \in Step /\ new.node = s[c].node /\ new.status = "completed" /\ new.value = s[c].value
  BY <1>1 DEF Step
<1>3. done \in Seq(Step) /\ Len(done) = n
  BY StatusChanged
<1>4. \A k \in 1..n : done[k] = IF k = c THEN new ELSE s[k]
  BY <1>1
<1> HIDE DEF done, new
<1>5. t \in Seq(Step) /\ Len(t) = n + 1 /\ t[n + 1] = row /\ (\A k \in 1..n : t[k] = done[k]) /\ n <= Len(t)
  <2>1. t = Append(done, row)
    BY DEF done
  <2>2. /\ Append(done, row) \in Seq(Step) /\ Len(Append(done, row)) = Len(done) + 1
        /\ Append(done, row)[Len(done) + 1] = row /\ Len(done) <= Len(Append(done, row))
        /\ \A k \in 1..Len(done) : Append(done, row)[k] = done[k]
    BY <1>3, AppendRow, Zenon
  <2>3. Len(done) = n
    BY <1>3
  <2> QED
    BY <2>1, <2>2, <2>3, Zenon
<1>6. \A k \in 1..n : t[k].node = s[k].node /\ t[k].value = s[k].value
  BY <1>2, <1>4, <1>5, Zenon
<1>7. \A k \in 1..n : t[k].status = IF k = c THEN "completed" ELSE s[k].status
  BY <1>2, <1>4, <1>5, Zenon
<1>8. \A k \in Own(s) : k \in 1..n /\ k # 0
  <2> TAKE k \in Own(s)
  <2>1. k \in 1..Len(s) /\ Len(s) \in Nat
    BY OwnIndex, Zenon
  <2> QED
    BY <2>1
<1>9. \A k \in 1..Len(t) : k > n => k = n + 1
  BY <1>1, <1>5
<1>10. \A k \in 1..Len(t) : k > n => Len(t[k].node) # 1
  BY <1>5, <1>9, Zenon
<1> HIDE DEF n
<1>11. Len(s) = n
  BY DEF n
<1>12. Like(w, s, t, c, "completed")
  <2>1. \A k \in Own(s) : t[k].status = IF k = c THEN "completed" ELSE s[k].status
    BY <1>7, <1>8, Zenon
  <2> QED
    BY <1>5, <1>6, <1>10, <1>11, <2>1, LikeFromRows, Zenon
<1>13. ASSUME c \notin Own(s)
       PROVE  Like(w, s, t, 0, "failed")
  <2>1. \A k \in Own(s) : t[k].status = IF k = 0 THEN "failed" ELSE s[k].status
    BY <1>7, <1>8, <1>13, Zenon
  <2> QED
    BY <1>5, <1>6, <1>10, <1>11, <2>1, LikeFromRows, Zenon
<1> QED
  BY <1>12, <1>13, Zenon

LEMMA ReturnBranched ==
    ASSUME Typed, Branched, NEW o \in Resumers, Return(o)
    PROVE  Branched'
<1> DEFINE row == NewStep(Path, "completed", "")
           s == work.steps
           q == work.requests
           w == workflow
           c == Top.step
           caller == work.frames[Depth - 1]
           call == Order[caller.name][caller.at]
           t == Append([work.steps EXCEPT ![Top.step].status = "completed"], row)
           f == Append(SubSeq(work.frames, 1, Depth - 2), Past(caller, {call.id}, {}))
<1>1. Depth > 1 /\ Works(t, q, f) /\ UNCHANGED <<workflow, committed, process, bounds>> /\ AtNode(o)
  BY DEF Return
<1>2. work.owner = o /\ ~AtEnd
  BY <1>1 DEF AtNode, Executing
<1>3. InLoop(o)
  BY <1>2, LoopFacts
<1>4. /\ Working /\ TypeOK /\ WorkFits /\ s \in Seq(Step) /\ work.frames \in Seq(Frame) /\ Branched
      /\ OwnFit(w, s) /\ CallFits(w, work.frames, s) /\ w \in Mains /\ RequestsFit(q, Len(s))
      /\ FinalId(w) \in work.frames[1].outputs => Ended(w, s)
      /\ Depth \in Nat \ {0} /\ Depth = Len(work.frames) /\ Len(s) \in Nat /\ Top = work.frames[Depth]
  BY <1>3, Zenon DEF InLoop
<1>5. /\ c \in 1..Len(s) /\ call.type = "workflow_call" /\ caller \in Frame
      /\ call \in Range(Library[caller.name])
  BY <1>1, <1>2, <1>4, HereFacts, Zenon
<1>6. call.id \in STRING
  <2>1. caller.name \in DOMAIN Library
    BY <1>5 DEF Frame
  <2> QED
    BY <1>5, <2>1, NodeFacts
<1>7. row \in Step /\ Len(row.node) # 1
  <2>1. row.node = Path /\ Len(Path) = 2 /\ Path \in Paths
    BY <1>1, <1>2, <1>3, NestedPath, Zenon
  <2>2. Len(row.node) # 1
    BY <2>1, TwoParts, Zenon
  <2>3. row \in Step
    BY <2>1, StepTyped
  <2> QED
    BY <2>2, <2>3
<1>8. Like(w, s, t, c, "completed") /\ (c \notin Own(s) => Like(w, s, t, 0, "failed"))
  <2>1. t = Append([s EXCEPT ![c].status = "completed"], row)
    OBVIOUS
  <2> HIDE DEF t, s, c, row
  <2> QED
    BY <1>4, <1>5, <1>7, <2>1, ReturnRows, Zenon
<1>9. f = Popped(work.frames, {call.id})
  BY Zenon DEF Popped, Depth
<1> HIDE DEF t, row, f, call
<1>10. /\ Len(f) = Depth - 1
       /\ Depth = 2 => f[1] = Past(work.frames[1], {call.id}, {})
       /\ Depth > 2 => f[1] = work.frames[1]
       /\ \A d \in 2..(Depth - 1) : f[d].step = work.frames[d].step
  <2> DEFINE frames == work.frames
             done == {call.id}
  <2>1. frames \in Seq(Frame) /\ Len(frames) > 1 /\ done \in SUBSET STRING /\ f = Popped(frames, done)
        /\ Depth = Len(frames)
    BY <1>1, <1>4, <1>6, <1>9
  <2> HIDE DEF frames, done
  <2>2. /\ Len(f) = Len(frames) - 1
        /\ Len(frames) = 2 => f[1] = Past(frames[1], done, {})
        /\ Len(frames) > 2 => f[1] = frames[1]
        /\ \A d \in 2..(Len(frames) - 1) : f[d].step = frames[d].step
    BY <2>1, PoppedFirst
  <2> QED
    BY <2>1, <2>2, Zenon DEF frames, done
<1>11. NoNewOwn(q, q, t)
  BY SameRequests, Zenon
<1>12. CASE Depth > 2
  <2> DEFINE n == Depth
  <2>1. n \in Nat /\ n > 2 /\ Len(f) = n - 1
    BY <1>4, <1>10, <1>12
  <2> HIDE DEF n
  <2>2. /\ Len(f) > 1 /\ 2 \in 2..(n - 1) /\ n \in 3..n
        /\ \A d \in 3..Len(f) : d \in 2..(n - 1) /\ d \in 3..n
    BY <2>1
  <2>3. n = Depth
    BY DEF n
  <2>4. \A d \in 3..n : work.frames[d].step \notin Own(s)
    BY <1>4, <2>3, Zenon DEF CallFits
  <2>5. Like(w, s, t, 0, "failed")
    BY <1>4, <1>8, <2>2, <2>3, <2>4, Zenon
  <2>6. \A d \in 3..Len(f) : f[d].step \notin Own(t)
    <3>1. Own(t) = Own(s)
      BY <2>5, Zenon DEF Like
    <3> QED
      BY <1>10, <2>2, <2>3, <2>4, <3>1, Zenon
  <2>7. f[1] = work.frames[1] /\ f[2].step = work.frames[2].step
    BY <1>10, <1>12, <2>2, <2>3, Zenon
  <2> QED
    BY <1>1, <1>3, <1>11, <2>2, <2>5, <2>6, <2>7, NestedGoes, Zenon
<1>13. CASE Depth = 2
  <2> DEFINE i == work.frames[1].at
             omitted == work.frames[1].skipped
  <2>1. Len(f) = 1 /\ ~(Len(work.frames) = 1) /\ Len(work.frames) > 1 /\ Depth - 1 = 1 /\ ~(Len(f) > 1) /\ 3..Len(f) = {}
    BY <1>4, <1>10, <1>13
  <2>2. c \in Own(s) /\ Place(w, s, c) = i /\ s[c].status = "running"
    <3>1. c = work.frames[2].step
      BY <1>4, <1>13
    <3> QED
      BY <1>4, <2>1, <3>1, Zenon DEF CallFits
  <2>3. f[1] = Past(work.frames[1], {call.id}, {}) /\ work.frames[1] \in Frame
    <3>1. caller = work.frames[1]
      BY <2>1, Zenon
    <3> QED
      BY <1>5, <1>10, <1>13, <3>1, Zenon
  <2>4. f[1].at = i + 1 /\ f[1].skipped = omitted /\ f[1].outputs = work.frames[1].outputs \cup {call.id}
        /\ i \in Nat
    <3> DEFINE frame == work.frames[1]
    <3>1. frame \in Frame
      BY <2>3
    <3> HIDE DEF frame
    <3>2. /\ Past(frame, {call.id}, {}).at = frame.at + 1 /\ Past(frame, {call.id}, {}).skipped = frame.skipped
          /\ Past(frame, {call.id}, {}).outputs = frame.outputs \cup {call.id} /\ frame.at \in Nat
      BY <3>1 DEF Past, Frame
    <3> QED
      BY <2>3, <3>2, Zenon DEF frame
  <2>5. call.id # FinalId(w)
    <3>1. caller.name = w
      <4>1. caller = work.frames[1]
        BY <2>1, Zenon
      <4> QED
        BY <1>4, <4>1 DEF WorkFits, Working, FramesFit
    <3>2. call \in Range(Library[w]) /\ w \in DOMAIN Library /\ call.type # "final"
      <4>1. w \in DOMAIN Library
        BY <1>3, Zenon DEF InLoop
      <4> QED
        BY <1>5, <3>1, <4>1
    <3> QED
      BY <3>2, FinalFacts, Zenon
  <2> HIDE DEF s, q, w, i, omitted, c
  <2>6. s[c].status # "skipped" /\ s[c].status # "completed" /\ "completed" # "skipped" /\ "completed" # "waiting_input"
    BY <2>2
  <2>7. OwnFit(w, t)
    BY <1>4, <1>8, <2>6, LikeFits, Zenon
  <2>8. CallFits(w, f, t)
    BY <2>1, Zenon DEF CallFits
  <2>9. Ended(w, s) => Ended(w, t)
    BY <1>8, <2>6, LikeEnded, Zenon
  <2>10. FinalId(w) \in f[1].outputs => Ended(w, t)
    <3>1. FinalId(w) \in f[1].outputs => FinalId(w) \in work.frames[1].outputs
      BY <2>4, <2>5
    <3> QED
      BY <1>4, <2>9, <3>1, Zenon
  <2>11. Unanswered(q, t) => Unanswered(q, s)
    <3>1. Follows(s, t)
      BY <1>8, <2>6, LikeFollows, Zenon
    <3>2. \A r \in 1..Len(q) : r \in 1..Len(q) /\ q[r].step = q[r].step
      OBVIOUS
    <3> QED
      BY <3>1, <3>2, UnansweredBefore, Zenon
  <2>12. Going(w, work.frames, s, q) => Going(w, f, t, q)
    <3> SUFFICES ASSUME Going(w, work.frames, s, q)
                 PROVE  Going(w, f, t, q)
      OBVIOUS
    <3>1. Ready(w, s, q, i, i, omitted)
      BY <2>1, Zenon DEF Going, i, omitted
    <3>2. c \in Own(s) => s[c].status # "skipped" /\ Place(w, s, c) = i
      BY <2>2, <2>6, Zenon DEF i
    <3>3. Ready(w, t, q, (i + 1) - 1, i + 1, omitted)
      <4> DEFINE end == "completed"
      <4>1. Like(w, s, t, c, end) /\ end # "skipped" /\ end # "waiting_input" /\ end = "completed"
        BY <1>8
      <4> HIDE DEF end
      <4>2. w \in Mains /\ s \in Seq(Step) /\ OwnFit(w, s) /\ RequestsFit(q, Len(s)) /\ i \in Nat
        BY <1>4, <2>4 DEF i
      <4> QED
        BY <1>11, <2>2, <3>1, <3>2, <4>1, <4>2, LikeReady, Zenon
    <3> QED
      BY <2>1, <2>4, <3>3, Zenon DEF Going, i, omitted
  <2> QED
    BY <1>1, <1>4, <2>7, <2>8, <2>9, <2>10, <2>11, <2>12, GoesBranched, Zenon DEF s, q, w
<1>14. Depth > 2 \/ Depth = 2
  BY <1>1, <1>4, DeepDepths, Zenon
<1> QED
  BY <1>12, <1>13, <1>14, Zenon
\* The open steps of the calls, and the steps after the run has failed.
Calls == {work.frames[d].step : d \in 2..Depth}

LEMMA FailRows ==
    ASSUME NEW o, InLoop(o), NEW more \in Seq(Step), Fail(more)
    PROVE  /\ Commit("failed", steps', work.requests) /\ steps' \in Seq(Step)
           /\ Len(steps') = Len(work.steps) + Len(more) /\ Len(more) \in Nat
           /\ \A k \in 1..Len(work.steps) :
                /\ steps'[k].node = work.steps[k].node /\ steps'[k].value = work.steps[k].value
                /\ steps'[k].status = IF k \in Calls THEN "failed" ELSE work.steps[k].status
                /\ k \notin Calls => steps'[k] = work.steps[k]
           /\ \A k \in 1..Len(more) : steps'[Len(work.steps) + k] = more[k]
<1> DEFINE n == Len(work.steps)
           failed == [k \in 1..n |->
                        IF k \in Calls THEN [work.steps[k] EXCEPT !.status = "failed"] ELSE work.steps[k]]
<1>1. work.steps \in Seq(Step) /\ n \in Nat
  BY Zenon DEF InLoop
<1>2. steps' = failed \o more /\ Commit("failed", steps', work.requests)
  BY DEF Fail, Commit, Calls
<1>3. ASSUME NEW k \in 1..n
      PROVE  /\ failed[k] \in Step /\ failed[k].node = work.steps[k].node /\ failed[k].value = work.steps[k].value
             /\ failed[k].status = IF k \in Calls THEN "failed" ELSE work.steps[k].status
             /\ k \notin Calls => failed[k] = work.steps[k]
  <2> DEFINE old == work.steps[k]
  <2>1. old \in Step
    BY <1>1
  <2> DEFINE new == [old EXCEPT !.status = "failed"]
  <2>2. failed[k] = IF k \in Calls THEN new ELSE old
    OBVIOUS
  <2>3. old = work.steps[k]
    OBVIOUS
  <2> HIDE DEF old, failed
  <2>4. new \in Step /\ new.node = old.node /\ new.value = old.value /\ new.status = "failed"
    BY <2>1 DEF Step
  <2> HIDE DEF new
  <2>5. CASE k \in Calls
    BY <2>2, <2>3, <2>4, <2>5, Zenon
  <2>6. CASE k \notin Calls
    BY <2>1, <2>2, <2>3, <2>6, Zenon
  <2> QED
    BY <2>5, <2>6
<1>4. DOMAIN failed = 1..n /\ failed = [k \in 1..n |-> failed[k]]
  OBVIOUS
<1>13. n = Len(work.steps)
  OBVIOUS
<1> HIDE DEF n, failed
<1>5. failed \in [1..n -> Step]
  BY <1>3, <1>4
<1>6. failed \in Seq(Step) /\ Len(failed) = n
  BY <1>1, <1>5, FunctionIsASeq
<1> DEFINE t == failed \o more
<1>7. t \in Seq(Step) /\ Len(t) = n + Len(more) /\ Len(more) \in Nat
      /\ (\A k \in 1..n : t[k] = failed[k]) /\ \A k \in 1..Len(more) : t[n + k] = more[k]
  BY <1>1, <1>6
<1> HIDE DEF t
<1>8. steps' = t
  BY <1>2 DEF t
<1>9. \A k \in 1..n :
        /\ t[k].node = work.steps[k].node /\ t[k].value = work.steps[k].value
        /\ t[k].status = IF k \in Calls THEN "failed" ELSE work.steps[k].status
        /\ k \notin Calls => t[k] = work.steps[k]
  BY <1>3, <1>7, Zenon
<1> QED
  BY <1>2, <1>7, <1>8, <1>9, <1>13, Zenon

\* A failure within a call.
LEMMA NestedFails ==
    ASSUME NEW o, InLoop(o), Depth > 1, UNCHANGED <<workflow, process, bounds>>,
           NEW more \in Seq(Step), \A k \in 1..Len(more) : Len(more[k].node) # 1, Fail(more)
    PROVE  Branched'
<1> DEFINE s == work.steps
           q == work.requests
           w == workflow
           t == steps'
           c == work.frames[2].step
           i == work.frames[1].at
           omitted == work.frames[1].skipped
<1>1. /\ Working /\ TypeOK /\ WorkFits /\ s \in Seq(Step) /\ work.frames \in Seq(Frame) /\ Branched
      /\ OwnFit(w, s) /\ CallFits(w, work.frames, s) /\ w \in Mains /\ RequestsFit(q, Len(s))
      /\ Depth \in Nat \ {0} /\ Depth = Len(work.frames) /\ Len(s) \in Nat
  BY Zenon DEF InLoop
<1>2. /\ Commit("failed", t, q) /\ t \in Seq(Step)
      /\ Len(t) = Len(s) + Len(more) /\ Len(more) \in Nat
      /\ \A k \in 1..Len(s) :
            /\ t[k].node = s[k].node /\ t[k].value = s[k].value
            /\ t[k].status = IF k \in Calls THEN "failed" ELSE s[k].status
      /\ \A k \in 1..Len(more) : t[Len(s) + k] = more[k]
  BY FailRows, Zenon
<1>3. Len(work.frames) > 1 /\ ~(Len(work.frames) = 1) /\ work.frames[1] \in Frame
  <2>1. Len(work.frames) > 1
    BY <1>1
  <2> QED
    BY <1>1, <2>1, DeepFrames, Zenon
<1>4. i \in Nat
  BY <1>3 DEF Frame
<1>5. c \in Own(s) /\ Place(w, s, c) = i /\ s[c].status = "running"
  BY <1>1, <1>3, Zenon DEF CallFits
<1>6. \A k \in Own(s) : k \in Calls <=> k = c
  <2>1. \A d \in 2..Depth : d = 2 \/ d \in 3..Depth
    BY <1>1
  <2>2. 2 \in 2..Depth
    BY <1>1
  <2>3. \A d \in 3..Depth : work.frames[d].step \notin Own(s)
    BY <1>1, Zenon DEF CallFits
  <2> QED
    BY <2>1, <2>2, <2>3, Zenon DEF Calls
<1>7. s[c].status # "skipped" /\ s[c].status # "completed" /\ "failed" # "skipped" /\ "failed" # "waiting_input"
  BY <1>5
<1>17. NoNewOwn(q, q, t)
  BY SameRequests, Zenon
<1>18. Going(w, work.frames, s, q) => Ready(w, s, q, i, i, omitted)
  BY <1>3, Zenon DEF Going
<1> HIDE DEF s, q, w, t, c, i, omitted
<1>8. Like(w, s, t, c, "failed")
  <2>1. Len(s) <= Len(t)
    BY <1>1, <1>2
  <2>2. \A k \in Own(s) : k \in 1..Len(s)
    BY Zenon DEF Own
  <2>3. \A k \in Own(s) : t[k].status = IF k = c THEN "failed" ELSE s[k].status
    BY <1>2, <1>6, <2>2, Zenon
  <2>4. \A k \in 1..Len(t) : k > Len(s) => Len(t[k].node) # 1
    <3> SUFFICES ASSUME NEW k \in 1..Len(t), k > Len(s)
                 PROVE  Len(t[k].node) # 1
      OBVIOUS
    <3> DEFINE j == k - Len(s)
    <3>1. j \in 1..Len(more) /\ Len(s) + j = k
      BY <1>1, <1>2
    <3> HIDE DEF j
    <3>2. t[k] = more[j] /\ Len(more[j].node) # 1
      BY <1>2, <3>1, Zenon
    <3> QED
      BY <3>2, Zenon
  <2> QED
    BY <1>1, <1>2, <2>1, <2>3, <2>4, LikeFromRows, Zenon
<1>9. OwnFit(w, t)
  BY <1>1, <1>7, <1>8, LikeFits, Zenon
<1>10. Ended(w, s) => Ended(w, t)
  BY <1>7, <1>8, LikeEnded, Zenon
<1>11. Unanswered(q, t) => Unanswered(q, s)
  <2>1. Follows(s, t)
    BY <1>7, <1>8, LikeFollows, Zenon
  <2>2. \A r \in 1..Len(q) : r \in 1..Len(q) /\ q[r].step = q[r].step
    OBVIOUS
  <2> QED
    BY <2>1, <2>2, UnansweredBefore, Zenon
<1>12. Going(w, work.frames, s, q) => Rest(w, t, q)
  <2> SUFFICES ASSUME Going(w, work.frames, s, q)
               PROVE  Rest(w, t, q)
    OBVIOUS
  <2>1. Ready(w, s, q, i, i, omitted)
    BY <1>18, Zenon
  <2>2. c \in Own(s) => s[c].status # "skipped" /\ Place(w, s, c) = i
    BY <1>5, <1>7, Zenon
  <2>3. w \in Mains /\ s \in Seq(Step) /\ OwnFit(w, s) /\ RequestsFit(q, Len(s))
    BY <1>1
  <2>4. Ready(w, t, q, i, i, omitted)
    BY <1>4, <1>7, <1>8, <1>17, <2>1, <2>2, <2>3, LikeReady, Zenon
  <2>5. Settled(w, t, i)
    BY <2>4, Zenon DEF Ready
  <2> QED
    BY <1>4, <2>4, <2>5, ReadyRests, Zenon
<1>13. "failed" = "completed" => Ended(w, t)
  OBVIOUS
<1> QED
  BY <1>1, <1>2, <1>9, <1>10, <1>11, <1>12, <1>13, EndsBranched, Zenon DEF s, q, w

LEMMA NodeFailsBranched ==
    ASSUME Typed, Branched, NEW o \in Resumers, NodeFails(o)
    PROVE  Branched'
<1> DEFINE row == NewStep(Path, "failed", "")
           s == work.steps
           q == work.requests
           w == workflow
           t == steps'
           x == Len(work.steps) + 1
           i == Top.at
           omitted == Top.skipped
<1>1. Fail(<<row>>) /\ UNCHANGED <<workflow, process, bounds>> /\ AtNode(o)
  BY DEF NodeFails
<1>2. work.owner = o /\ ~AtEnd /\ ~Cyclic(Top.name) /\ Here.id \notin Top.skipped
  BY <1>1 DEF AtNode, Executing
<1>3. InLoop(o)
  BY <1>2, LoopFacts
<1>4. /\ Working /\ TypeOK /\ WorkFits /\ s \in Seq(Step) /\ Branched
      /\ OwnFit(w, s) /\ w \in Mains /\ RequestsFit(q, Len(s)) /\ Len(s) \in Nat
      /\ Depth \in Nat \ {0}
  BY <1>3, Zenon DEF InLoop
<1>5. row.node = Path /\ row.status = "failed" /\ row.value = ""
  BY DEF NewStep
<1>6. row \in Step
  BY <1>2, <1>4, HereFacts, StepTyped
<1> HIDE DEF row
<1>7. <<row>> \in Seq(Step) /\ Len(<<row>>) = 1 /\ <<row>>[1] = row
  BY <1>6
<1>8. CASE Depth > 1
  <2>1. Len(row.node) # 1
    <3>1. Len(Path) = 2
      BY <1>2, <1>3, <1>8, NestedPath, Zenon
    <3> QED
      BY <1>5, <3>1, TwoParts, Zenon
  <2>2. \A k \in 1..Len(<<row>>) : Len(<<row>>[k].node) # 1
    BY <1>7, <2>1
  <2> QED
    BY <1>1, <1>3, <1>7, <1>8, <2>2, NestedFails, Zenon
<1>9. CASE Depth = 1
  <2> DEFINE more == <<row>>
  <2>1. more \in Seq(Step) /\ Fail(more) /\ Len(more) = 1 /\ more[1] = row
    BY <1>1, <1>7
  <2> HIDE DEF more
  <2>2. Calls = {}
    BY <1>9 DEF Calls
  <2>3. /\ Commit("failed", t, q) /\ Len(t) = Len(s) + Len(more)
        /\ \A k \in 1..Len(s) : k \notin Calls => t[k] = s[k]
        /\ \A k \in 1..Len(more) : t[Len(s) + k] = more[k]
    BY <1>3, <2>1, FailRows, Zenon
  <2>4. Extended(s, row, t)
    <3>1. 1 \in 1..1
      OBVIOUS
    <3> QED
      BY <2>1, <2>2, <2>3, <3>1 DEF Extended
  <2>5. Adds(w, s, t, x, i, "failed", "") /\ x \notin 1..Len(s) /\ OwnFit(w, t) /\ "" \in Values
    BY <1>2, <1>3, <1>5, <1>6, <1>9, <2>4, TopAdds, Zenon
  <2>6. /\ Here = Order[w][i]
        /\ Going(w, work.frames, s, q) => Ready(w, s, q, i - 1, i, omitted)
    BY <1>2, <1>3, <1>9, TopFacts, Zenon
  <2>7. Order[w][i].id \notin omitted
    BY <1>2, <2>6
  <2> HIDE DEF s, q, w, t, x, i, omitted
  <2>8. Ended(w, s) => Ended(w, t)
    BY <2>5, AddsEnded, Zenon
  <2>9. Unanswered(q, t) => Unanswered(q, s)
    <3>1. Follows(s, t)
      BY <2>5, AddsFollows, Zenon
    <3>2. \A r \in 1..Len(q) : r \in 1..Len(q) /\ q[r].step = q[r].step
      OBVIOUS
    <3> QED
      BY <3>1, <3>2, UnansweredBefore, Zenon
  <2>10. Going(w, work.frames, s, q) => Rest(w, t, q)
    <3> SUFFICES ASSUME Going(w, work.frames, s, q)
                 PROVE  Rest(w, t, q)
      OBVIOUS
    <3>1. Ready(w, s, q, i - 1, i, omitted)
      BY <2>6, Zenon
    <3>2. w \in Mains /\ s \in Seq(Step) /\ OwnFit(w, s) /\ OwnFit(w, t) /\ RequestsFit(q, Len(s))
      BY <1>4, <2>5
    <3>3. "failed" \in {"completed", "failed"}
      OBVIOUS
    <3> QED
      BY <2>5, <2>7, <3>1, <3>2, <3>3, AddsRests, Zenon
  <2>11. "failed" = "completed" => Ended(w, t)
    OBVIOUS
  <2> QED
    BY <1>1, <1>4, <2>3, <2>5, <2>8, <2>9, <2>10, <2>11, EndsBranched, Zenon DEF s, q, w
<1> QED
  BY <1>4, <1>8, <1>9, Depths, Zenon

LEMMA GraphFailsBranched ==
    ASSUME Typed, Branched, NEW o \in Resumers, GraphFails(o)
    PROVE  Branched'
<1> DEFINE more == <<>>
           s == work.steps
           q == work.requests
           w == workflow
           t == steps'
<1>1. work.owner = o /\ Fail(more) /\ UNCHANGED <<workflow, process, bounds>>
  BY DEF GraphFails
<1>2. InLoop(o)
  BY <1>1, LoopFacts
<1>3. /\ Working /\ Branched /\ s \in Seq(Step) /\ OwnFit(w, s) /\ w \in Mains
      /\ Depth \in Nat \ {0} /\ Len(s) \in Nat
  BY <1>2, Zenon DEF InLoop
<1>4. more \in Seq(Step) /\ 1..Len(more) = {} /\ Len(more) = 0
  OBVIOUS
<1> HIDE DEF more
<1>5. CASE Depth > 1
  BY <1>1, <1>2, <1>4, <1>5, NestedFails, Zenon
<1>6. CASE Depth = 1
  <2>1. Calls = {}
    BY <1>6 DEF Calls
  <2>2. /\ Commit("failed", t, q) /\ t \in Seq(Step) /\ Len(t) = Len(s) + Len(more)
        /\ \A k \in 1..Len(s) : k \notin Calls => t[k] = s[k]
    BY <1>1, <1>2, <1>4, FailRows, Zenon
  <2>3. Going(w, work.frames, s, q) => Rest(w, s, q)
    BY <1>2, <1>6, GoingRests, Zenon
  <2> HIDE DEF s, q, w, t
  <2>4. Len(t) = Len(s) /\ Len(s) <= Len(t) /\ \A k \in 1..Len(t) : ~(k > Len(s))
    BY <1>3, <1>4, <2>2
  <2>5. \A k \in 1..Len(s) : t[k] = s[k]
    BY <2>1, <2>2, Zenon
  <2>6. \A k \in Own(s) : k \in 1..Len(s) /\ k # 0
    <3> TAKE k \in Own(s)
    <3>1. k \in 1..Len(s) /\ Len(s) \in Nat
      BY <1>3, OwnIndex, Zenon
    <3> QED
      BY <3>1
  <2>7. Like(w, s, t, 0, "failed")
    <3>1. \A k \in 1..Len(s) : t[k].node = s[k].node /\ t[k].value = s[k].value
      BY <2>5, Zenon
    <3>2. \A k \in Own(s) : t[k].status = IF k = 0 THEN "failed" ELSE s[k].status
      BY <2>5, <2>6, Zenon
    <3>3. \A k \in 1..Len(t) : k > Len(s) => Len(t[k].node) # 1
      BY <2>4, Zenon
    <3> QED
      BY <1>3, <2>2, <2>4, <3>1, <3>2, <3>3, LikeFromRows, Zenon
  <2>8. 0 \notin Own(s) /\ "failed" # "skipped" /\ "failed" # "waiting_input"
    BY <2>6
  <2>9. OwnFit(w, t)
    BY <1>3, <2>7, <2>8, LikeFits, Zenon
  <2>10. Ended(w, s) => Ended(w, t)
    BY <2>7, <2>8, LikeEnded, Zenon
  <2>11. Unanswered(q, t) => Unanswered(q, s)
    <3>1. Follows(s, t)
      BY <2>7, <2>8, LikeFollows, Zenon
    <3>2. \A r \in 1..Len(q) : r \in 1..Len(q) /\ q[r].step = q[r].step
      OBVIOUS
    <3> QED
      BY <3>1, <3>2, UnansweredBefore, Zenon
  <2>12. Going(w, work.frames, s, q) => Rest(w, t, q)
    <3>1. \A r \in 1..Len(q) : q[r].step = q[r].step /\ (q[r].status = "pending" => q[r].status = "pending")
      OBVIOUS
    <3> QED
      BY <1>3, <2>3, <2>7, <2>8, <3>1, LikeRests, Zenon
  <2>13. "failed" = "completed" => Ended(w, t)
    OBVIOUS
  <2> QED
    BY <1>1, <1>3, <2>2, <2>9, <2>10, <2>11, <2>12, <2>13, EndsBranched, Zenon DEF s, q, w
<1> QED
  BY <1>3, <1>5, <1>6, Depths, Zenon
-----------------------------------------------------------------------------
(* Branches: run and resume.                                               *)

\* A completed step of the final node ends the run.
LEMMA EndedByStep ==
    ASSUME NEW w, NEW s \in Seq(Step), FinalId(w) \in STRING,
           \E k \in Range(s) : k.node = <<FinalId(w)>> /\ k.status = "completed"
    PROVE  Ended(w, s)
<1>1. PICK k \in 1..Len(s) : s[k].node = <<FinalId(w)>> /\ s[k].status = "completed"
  BY DEF Range
<1>2. \A a : Len(<<a>>) = 1
  OBVIOUS
<1>3. k \in Own(s)
  BY <1>1, <1>2, Zenon DEF Own
<1> QED
  BY <1>1, <1>3, Zenon DEF Ended

\* What processes read and forget.
LEMMA ReadOutputs ==
    ASSUME TypeOK, Branched, NEW o \in Resumers \cup Bots, NEW new,
           process' = [process EXCEPT ![o] = new],
           FinalId(workflow) \in new.outputs => Ended(workflow, steps)
    PROVE  \A a \in Resumers \cup Bots : FinalId(workflow) \in process'[a].outputs => Ended(workflow, steps)
<1> TAKE a \in Resumers \cup Bots
<1>1. process'[a] = IF a = o THEN new ELSE process[a]
  BY DEF TypeOK
<1>2. FinalId(workflow) \in process[a].outputs => Ended(workflow, steps)
  BY Zenon DEF Branched
<1>3. CASE a = o
  BY <1>1, <1>3, Zenon
<1>4. CASE a # o
  BY <1>1, <1>2, <1>4, Zenon
<1> QED
  BY <1>3, <1>4, Zenon

LEMMA ForgottenOutputs ==
    ASSUME TypeOK, NEW o \in Resumers \cup Bots, process' = [process EXCEPT ![o] = Idle]
    PROVE  \A a \in Resumers \cup Bots :
                FinalId(workflow) \in process'[a].outputs => FinalId(workflow) \in process[a].outputs
<1> TAKE a \in Resumers \cup Bots
<1>1. process'[a] = IF a = o THEN Idle ELSE process[a]
  BY DEF TypeOK
<1>2. FinalId(workflow) \notin Idle.outputs
  BY DEF Idle
<1>3. CASE a = o
  BY <1>1, <1>2, <1>3, Zenon
<1>4. CASE a # o
  BY <1>1, <1>4, Zenon
<1> QED
  BY <1>3, <1>4, Zenon

LEMMA NodesWithEnded ==
    ASSUME TypeOK, FinalId(workflow) \in NodesWith("completed")
    PROVE  Ended(workflow, steps)
<1>1. FinalId(workflow) \in Ids(workflow)
      /\ \E k \in Range(steps) : k.node = <<FinalId(workflow)>> /\ k.status = "completed"
  BY Zenon DEF NodesWith
<1>2. FinalId(workflow) \in STRING /\ steps \in Seq(Step)
  <2>1. NodesWith("completed") \in SUBSET STRING
    BY NodesWithTyped
  <2> QED
    BY <2>1 DEF TypeOK
<1> QED
  BY <1>1, <1>2, EndedByStep, Zenon

\* A process that reads before it resumes.
LEMMA ReadBranched ==
    ASSUME Typed, Branched, NEW o \in Resumers, ReadQuestion(o) \/ ReadCheckpoint(o)
    PROVE  Branched'
<1>1. TypeOK /\ workflow \in Mains /\ steps \in Seq(Step) /\ o \in Resumers \cup Bots
  BY DEF Typed, TypeOK
<1>2. PICK new : process' = [process EXCEPT ![o] = new] /\ new.outputs \subseteq NodesWith("completed")
  <2>1. ASSUME ReadQuestion(o)
        PROVE  \E new : process' = [process EXCEPT ![o] = new] /\ new.outputs \subseteq NodesWith("completed")
    <3>1. PICK r : process' = [process EXCEPT ![o] = [pc |-> "answer", chosen |-> r,
                                                      outputs |-> NodesWith("completed")]]
      BY <2>1 DEF ReadQuestion
    <3> DEFINE new == [pc |-> "answer", chosen |-> r, outputs |-> NodesWith("completed")]
    <3>2. process' = [process EXCEPT ![o] = new] /\ new.outputs \subseteq NodesWith("completed")
      BY <3>1
    <3> HIDE DEF new
    <3> QED
      BY <3>2
  <2>2. ASSUME ReadCheckpoint(o)
        PROVE  \E new : process' = [process EXCEPT ![o] = new] /\ new.outputs \subseteq NodesWith("completed")
    <3>1. PICK k \in 1..Len(steps) : process' = [process EXCEPT ![o] = [pc |-> "rewind", chosen |-> k,
             outputs |-> {id \in NodesWith("completed") : Position(<<id>>) <= Position(steps[k].node)}]]
      BY <2>2 DEF ReadCheckpoint
    <3> DEFINE outputs == {id \in NodesWith("completed") : Position(<<id>>) <= Position(steps[k].node)}
               new == [pc |-> "rewind", chosen |-> k, outputs |-> outputs]
    <3>2. process' = [process EXCEPT ![o] = new] /\ outputs \subseteq NodesWith("completed")
      BY <3>1
    <3> HIDE DEF outputs
    <3>3. new.outputs \subseteq NodesWith("completed")
      BY <3>2
    <3> HIDE DEF new
    <3> QED
      BY <3>2, <3>3
  <2> QED
    BY <2>1, <2>2
<1>3. FinalId(workflow) \in new.outputs => Ended(workflow, steps)
  <2>1. FinalId(workflow) \in new.outputs => FinalId(workflow) \in NodesWith("completed")
    BY <1>2
  <2> QED
    BY <1>1, <2>1, NodesWithEnded, Zenon
<1>4. \A a \in Resumers \cup Bots : FinalId(workflow) \in process'[a].outputs => Ended(workflow, steps)
  BY <1>1, <1>2, <1>3, ReadOutputs, Zenon
<1>5. UNCHANGED <<workflow, steps, late, rewinds, status, requests, work>>
  BY DEF ReadQuestion, ReadCheckpoint, committed
<1>6. /\ UNCHANGED <<workflow, steps, late, rewinds>> /\ work' = work /\ (status' = "completed" => status = "completed")
      /\ Len(requests') = Len(requests)
      /\ \A r \in 1..Len(requests) : /\ requests'[r].step = requests[r].step
                                     /\ requests'[r].status = "pending" => requests[r].status = "pending"
  BY <1>5
<1> QED
  BY <1>1, <1>4, <1>6, RestsBranched, Zenon

\* Cancelling, and a process that is killed.
LEMMA CancelBranched ==
    ASSUME Typed, Branched,
           \/ \E o \in Resumers : Crash(o)
           \/ Cancel \/ \E b \in Bots : ReadToCancel(b) \/ CommitCancel(b)
    PROVE  Branched'
<1>1. TypeOK /\ workflow \in Mains /\ steps \in Seq(Step) /\ ProcessesFit /\ requests \in Seq(Request)
  BY DEF Typed, TypeOK
<1>2. \A a \in Resumers \cup Bots : FinalId(workflow) \in process[a].outputs => Ended(workflow, steps)
  BY Zenon DEF Branched
<1>3. CASE (\E o \in Resumers : Crash(o)) \/ Cancel
  <2>1. UNCHANGED <<workflow, steps, late, rewinds, requests, process>> /\ (work' = work \/ work' = NoWork)
        /\ (status' = "completed" => status = "completed")
    BY <1>3 DEF Crash, Cancel, committed
  <2>2. /\ Len(requests') = Len(requests)
        /\ \A r \in 1..Len(requests) : /\ requests'[r].step = requests[r].step
                                       /\ requests'[r].status = "pending" => requests[r].status = "pending"
    BY <2>1
  <2>3. \A a \in Resumers \cup Bots : FinalId(workflow) \in process'[a].outputs => Ended(workflow, steps)
    BY <1>2, <2>1, Zenon
  <2>4. UNCHANGED <<workflow, steps, late, rewinds>>
    BY <2>1
  <2> QED
    BY <1>1, <2>1, <2>2, <2>3, <2>4, RestsBranched, Zenon
<1>4. ASSUME NEW b \in Bots, ReadToCancel(b)
      PROVE  Branched'
  <2>1. UNCHANGED <<workflow, steps, late, rewinds, requests, status, work>>
    BY <1>4 DEF ReadToCancel, committed
  <2>2. PICK r : process' = [process EXCEPT ![b] = [Idle EXCEPT !.pc = "cancel", !.chosen = r]]
    BY <1>4 DEF ReadToCancel
  <2> DEFINE new == [Idle EXCEPT !.pc = "cancel", !.chosen = r]
  <2>3. process' = [process EXCEPT ![b] = new] /\ new.outputs = {}
    BY <2>2 DEF Idle
  <2> HIDE DEF new
  <2>4. \A a \in Resumers \cup Bots : FinalId(workflow) \in process'[a].outputs => Ended(workflow, steps)
    <3>1. FinalId(workflow) \notin new.outputs /\ b \in Resumers \cup Bots
      BY <2>3
    <3> QED
      BY <1>1, <2>3, <3>1, ReadOutputs, Zenon
  <2>5. /\ UNCHANGED <<workflow, steps, late, rewinds>> /\ work' = work /\ (status' = "completed" => status = "completed")
        /\ Len(requests') = Len(requests)
        /\ \A i \in 1..Len(requests) : /\ requests'[i].step = requests[i].step
                                       /\ requests'[i].status = "pending" => requests[i].status = "pending"
    BY <2>1
  <2> QED
    BY <1>1, <2>4, <2>5, RestsBranched, Zenon
<1>5. ASSUME NEW b \in Bots, CommitCancel(b)
      PROVE  Branched'
  <2> DEFINE r == process[b].chosen
  <2>1. UNCHANGED <<workflow, steps, late, rewinds>> /\ work' = work /\ (status' = "completed" => status = "completed")
    BY <1>5 DEF CommitCancel, bounds
  <2>2. r \in 1..Len(requests) /\ requests' = [requests EXCEPT ![r].status = "cancelled"]
    BY <1>1, <1>5 DEF CommitCancel, ProcessesFit
  <2>3. process' = [process EXCEPT ![b] = Idle] /\ b \in Resumers \cup Bots /\ FinalId(workflow) \notin Idle.outputs
    BY <1>5 DEF CommitCancel, Idle
  <2>4. \A a \in Resumers \cup Bots : FinalId(workflow) \in process'[a].outputs => Ended(workflow, steps)
    BY <1>1, <2>3, ReadOutputs, Zenon
  <2> HIDE DEF r
  <2>5. /\ Len(requests') = Len(requests)
        /\ \A i \in 1..Len(requests) : /\ requests'[i].step = requests[i].step
                                       /\ requests'[i].status = "pending" => requests[i].status = "pending"
    <3>1. DOMAIN requests = 1..Len(requests) /\ Len(requests) \in Nat /\ Len(requests') = Len(requests)
      BY <1>1, <2>2
    <3>2. \A i \in 1..Len(requests) : i # r => requests'[i] = requests[i]
      BY <2>2, <3>1
    <3>3. requests[r] \in Request /\ requests'[r] = [requests[r] EXCEPT !.status = "cancelled"]
      BY <1>1, <2>2, <3>1
    <3>4. requests'[r].step = requests[r].step /\ requests'[r].status = "cancelled"
      BY <3>3, RequestChanged
    <3>5. "cancelled" # "pending"
      OBVIOUS
    <3> QED
      BY <3>1, <3>2, <3>4, <3>5, Zenon
  <2> QED
    BY <1>1, <2>1, <2>4, <2>5, RestsBranched, Zenon
<1> QED
  BY <1>3, <1>4, <1>5
LEMMA StartRunBranched ==
    ASSUME Typed, Branched, NEW o \in Resumers, StartRun(o)
    PROVE  Branched'
<1> DEFINE w == workflow
           frame == TopFrame({}, {}, 1)
<1>1. Open(o, <<>>, <<>>, frame) /\ UNCHANGED <<workflow, committed>> /\ process' = process
      /\ late' = late /\ rewinds' = rewinds /\ status = "absent"
  BY DEF StartRun, bounds
<1>2. steps = <<>> /\ steps' = steps /\ requests' = requests
  BY <1>1 DEF Typed, AbsentIsEmpty, committed
<1>3. frame.outputs = {} /\ frame.at = 1 /\ frame.skipped = {} /\ Len(<<frame>>) = 1 /\ <<frame>>[1] = frame
  BY DEF TopFrame
<1> HIDE DEF frame, w
<1>4. OwnFit(w, <<>>) /\ Ready(w, <<>>, <<>>, 1 - 1, 1, {})
  BY NothingReady, Zenon
<1>5. Going(w, <<frame>>, <<>>, <<>>)
  BY <1>3, <1>4, Zenon DEF Going
<1>6. FinalId(w) \in frame.outputs => Ended(w, <<>>)
  BY <1>3
<1>7. Ended(w, steps) => Ended(w, <<>>)
  BY <1>2, Zenon
<1>8. Plain(requests, steps)' => Plain(requests, steps)
  BY <1>1, <1>2, Zenon DEF Plain
<1>9. \A a \in Resumers \cup Bots :
        FinalId(w) \in process'[a].outputs => FinalId(w) \in process[a].outputs
  BY <1>1, Zenon
<1> QED
  BY <1>1, <1>4, <1>5, <1>6, <1>7, <1>8, <1>9, OpensBranched, Zenon DEF w

LEMMA RewindBranched ==
    ASSUME Typed, Branched, NEW o \in Resumers, Rewind(o)
    PROVE  Branched'
<1> DEFINE w == workflow
           at == Position(steps[process[o].chosen].node) + 1
           frame == TopFrame(process[o].outputs, NodesWith("skipped"), at)
<1>1. Open(o, steps, requests, frame) /\ UNCHANGED <<workflow, committed>>
      /\ process' = [process EXCEPT ![o] = Idle]
      /\ rewinds' = rewinds + 1
  BY DEF Rewind
<1>2. TypeOK /\ o \in Resumers \cup Bots
  BY DEF Typed
<1>3. rewinds' # 0
  BY <1>1, <1>2 DEF TypeOK
<1>4. frame.outputs = process[o].outputs
  BY DEF TopFrame
<1> HIDE DEF frame
<1>5. OwnFit(w, steps) /\ (FinalId(w) \in frame.outputs => Ended(w, steps))
  BY <1>2, <1>4, Zenon DEF Branched
<1> HIDE DEF w
<1>6. \A a \in Resumers \cup Bots :
        FinalId(workflow) \in process'[a].outputs => FinalId(workflow) \in process[a].outputs
  BY <1>1, <1>2, ForgottenOutputs, Zenon
<1>7. Plain(requests, steps)' => Plain(requests, steps)
  BY <1>3, Zenon DEF Plain
<1> QED
  BY <1>1, <1>3, <1>5, <1>6, <1>7, OpensBranched, Zenon DEF w

\* An answered question is completed; one of a called workflow leaves the run's own steps alone.
Completed(s, c) == [s EXCEPT ![c].status = "completed"]

LEMMA AnsweredRows ==
    ASSUME NEW w, NEW s \in Seq(Step), NEW c \in 1..Len(s), NEW t, t = Completed(s, c)
    PROVE  Like(w, s, t, c, "completed") /\ (c \in Own(s) => c \in Own(t) /\ t[c].status = "completed")
<1> DEFINE new == [s[c] EXCEPT !.status = "completed"]
           n == Len(s)
<1>1. n \in Nat /\ DOMAIN s = 1..n /\ s[c] \in Step
  OBVIOUS
<1>2. new \in Step /\ new.node = s[c].node /\ new.status = "completed" /\ new.value = s[c].value
  BY <1>1 DEF Step
<1>0. t = [s EXCEPT ![c].status = "completed"]
  BY DEF Completed
<1>3. t \in Seq(Step) /\ Len(t) = n
  <2>1. /\ [s EXCEPT ![c].status = "completed"] \in Seq(Step)
        /\ Len([s EXCEPT ![c].status = "completed"]) = Len(s)
    BY StatusChanged
  <2> QED
    BY <1>0, <2>1, Zenon
<1>4. \A k \in 1..n : t[k] = IF k = c THEN new ELSE s[k]
  BY <1>0, <1>1
<1> HIDE DEF new
<1>5. \A k \in 1..n : t[k].node = s[k].node /\ t[k].value = s[k].value
  BY <1>2, <1>4, Zenon
<1>6. \A k \in 1..n : t[k].status = IF k = c THEN "completed" ELSE s[k].status
  <2> TAKE k \in 1..n
  <2>1. CASE k = c
    <3>1. t[k] = new
      BY <1>4, <2>1, Zenon
    <3> QED
      BY <1>2, <2>1, <3>1, Zenon
  <2>2. CASE k # c
    <3>1. t[k] = s[k]
      BY <1>4, <2>2, Zenon
    <3>2. t[k].status = s[k].status
      BY <3>1, Zenon
    <3> QED
      BY <2>2, <3>2
  <2> QED
    BY <2>1, <2>2
<1>7. n <= Len(t) /\ \A k \in 1..Len(t) : ~(k > n)
  BY <1>1, <1>3
<1>8. \A k \in Own(s) : t[k].status = IF k = c THEN "completed" ELSE s[k].status
  <2>1. \A k \in Own(s) : k \in 1..n
    BY Zenon DEF Own
  <2> QED
    BY <1>6, <2>1, Zenon
<1>9. \A k \in 1..Len(t) : k > n => Len(t[k].node) # 1
  BY <1>7, Zenon
<1> HIDE DEF n
<1>10. Len(s) = n
  BY DEF n
<1>11. Like(w, s, t, c, "completed")
  BY <1>3, <1>5, <1>7, <1>8, <1>9, <1>10, LikeFromRows, Zenon
<1> QED
  BY <1>11, Zenon DEF Like

LEMMA LikeEnds ==
    ASSUME NEW w, NEW s, NEW t, NEW c, Like(w, s, t, c, "completed"), Ended(w, s)
    PROVE  Ended(w, t)
<1>1. PICK k \in Own(s) : s[k].node = <<FinalId(w)>> /\ s[k].status = "completed"
  BY Zenon DEF Ended
<1>2. k \in Own(t) /\ t[k].node = s[k].node /\ t[k].status = IF k = c THEN "completed" ELSE s[k].status
  BY Zenon DEF Like, Twin
<1>3. t[k].status = "completed"
  BY <1>1, <1>2
<1> QED
  BY <1>1, <1>2, <1>3, Zenon DEF Ended

\* The nodes that a resumed run is to skip have a step that says so.
LEMMA SkippedNodes ==
    ASSUME TypeOK, OwnFit(workflow, steps), NEW id \in NodesWith("skipped")
    PROVE  \E j \in Own(steps) : NodeOf(workflow, steps, j).id = id /\ steps[j].status = "skipped"
<1>1. \E k \in Range(steps) : k.node = <<id>> /\ k.status = "skipped"
  BY Zenon DEF NodesWith
<1>2. steps \in Seq(Step) /\ workflow \in DOMAIN Library
  BY LibraryAssumption DEF TypeOK
<1>3. PICK j \in 1..Len(steps) : steps[j].node = <<id>> /\ steps[j].status = "skipped"
  BY <1>1, <1>2 DEF Range
<1>4. \A a, b : Len(<<a>>) = 1 /\ (<<a>> = <<b>> => a = b)
  OBVIOUS
<1>5. j \in Own(steps)
  BY <1>3, <1>4, Zenon DEF Own
<1>6. steps[j].node = <<NodeOf(workflow, steps, j).id>>
  BY <1>2, <1>5, OwnPlace, Zenon
<1> QED
  BY <1>3, <1>4, <1>5, <1>6, Zenon
LEMMA AnswerBranched ==
    ASSUME Typed, Branched, NEW o \in Resumers, Answer(o)
    PROVE  Branched'
<1> DEFINE w == workflow
           s == steps
           q == requests
           r == process[o].chosen
           k == requests[r].step
           path == steps[k].node
           t == [steps EXCEPT ![k].status = "completed"]
           p == [requests EXCEPT ![r].status = "answered"]
           outputs == process[o].outputs \cup (IF Len(path) = 1 THEN {path[1]} ELSE {})
           skipped == NodesWith("skipped")
           at == Position(path) + 1
           frame == TopFrame(outputs, skipped, at)
<1>1. Open(o, t, p, frame) /\ UNCHANGED <<workflow, committed>>
      /\ process' = [process EXCEPT ![o] = Idle] /\ process[o].pc = "answer" /\ rewinds' = rewinds
      /\ late' = IF requests[r].status = "pending" THEN late ELSE late + 1
  BY DEF Answer
<1>2. /\ TypeOK /\ o \in Resumers \cup Bots /\ w \in Mains /\ w \in DOMAIN Library /\ s \in Seq(Step)
      /\ q \in Seq(Request) /\ OwnFit(w, s) /\ RequestsFit(q, Len(s))
  <2>1. TypeOK
    BY DEF Typed
  <2>2. w \in Mains /\ w \in DOMAIN Library /\ s \in Seq(Step) /\ q \in Seq(Request)
        /\ RequestsFit(q, Len(s)) /\ o \in Resumers \cup Bots
    BY <2>1, LibraryAssumption DEF TypeOK, RequestsFit, Range
  <2> QED
    BY <2>1, <2>2, Zenon DEF Branched
<1>3. r \in 1..Len(q) /\ k \in 1..Len(s)
  BY <1>1, <1>2 DEF Typed, ProcessesFit, RequestsFit
<1>4. frame.outputs = outputs /\ frame.at = at /\ frame.skipped = skipped /\ Len(<<frame>>) = 1
      /\ <<frame>>[1] = frame
  BY DEF TopFrame
<1>5. Like(w, s, t, k, "completed") /\ (k \in Own(s) => k \in Own(t) /\ t[k].status = "completed")
  <2>1. t = Completed(s, k)
    BY DEF Completed
  <2>2. s \in Seq(Step) /\ k \in 1..Len(s)
    BY <1>2, <1>3
  <2> HIDE DEF t, s, k, w
  <2> QED
    BY <2>1, <2>2, AnsweredRows, Zenon
<1>6. /\ Len(p) = Len(q) /\ p[r].status # "pending"
      /\ \A i \in 1..Len(q) : p[i].step = q[i].step /\ (p[i].status = "pending" => q[i].status = "pending")
  <2> HIDE DEF r, q
  <2>0. p = [q EXCEPT ![r].status = "answered"]
    BY DEF q
  <2> HIDE DEF p
  <2>1. DOMAIN q = 1..Len(q) /\ Len(q) \in Nat /\ Len(p) = Len(q)
    BY <1>2, <2>0
  <2>2. \A i \in 1..Len(q) : i # r => p[i] = q[i]
    BY <2>0, <2>1
  <2>3. q[r] \in Request /\ p[r] = [q[r] EXCEPT !.status = "answered"]
    BY <1>2, <1>3, <2>0, <2>1
  <2>4. p[r].step = q[r].step /\ p[r].status = "answered"
    BY <2>3, RequestChanged
  <2>5. "answered" # "pending"
    OBVIOUS
  <2> QED
    BY <2>1, <2>2, <2>4, <2>5, Zenon
<1>7. late \in Nat /\ (late' = 0 => late = 0 /\ requests[r].status = "pending")
  <2>1. late \in Nat
    BY <1>2 DEF TypeOK
  <2>2. late + 1 # 0
    BY <2>1
  <2>3. CASE requests[r].status = "pending"
    <3>1. late' = late
      BY <1>1, <2>3, Zenon
    <3> QED
      BY <2>1, <2>3, <3>1, Zenon
  <2>4. CASE requests[r].status # "pending"
    <3>1. late' = late + 1
      BY <1>1, <2>4, Zenon
    <3> QED
      BY <2>1, <2>2, <3>1, Zenon
  <2> QED
    BY <2>3, <2>4
<1>8. FinalId(w) \in process[o].outputs => Ended(w, s)
  BY <1>2, Zenon DEF Branched
<1>9. steps' = s /\ requests' = q
  BY <1>1 DEF committed
<1>10. Plain(q, s) => Rest(w, s, q)
  BY Zenon DEF Branched
<1>11. \A id \in skipped : \E j \in Own(s) : NodeOf(w, s, j).id = id /\ s[j].status = "skipped"
  BY <1>2, SkippedNodes, Zenon
<1>12. k \in Own(s) => s[k].node = <<NodeOf(w, s, k).id>> /\ NodeOf(w, s, k) = Order[w][Place(w, s, k)]
                       /\ Place(w, s, k) \in 1..Len(Order[w])
  BY <1>2, OwnPlace, Zenon
<1>13. \A i \in 1..Len(Order[w]) : Position(<<Order[w][i].id>>) = i
  BY <1>2, PositionOfNode, Zenon
<1>14. path \in Paths
  <2>1. s[k] \in Step
    BY <1>2, <1>3
  <2> QED
    BY <2>1 DEF Step
<1>15. q[r].step = k /\ path = s[k].node
  OBVIOUS
<1>19. (late' = 0 \/ Unanswered(p, t)) => (late = 0 \/ Unanswered(p, t))
  BY <1>7, Zenon
<1> HIDE DEF w, s, q, t, p, frame, skipped, k, r, path
<1>16. OwnFit(w, t)
  <2>1. "completed" # "skipped"
    OBVIOUS
  <2> QED
    BY <1>2, <1>5, <2>1, LikeFits, Zenon
<1>17. Ended(w, s) => Ended(w, t)
  BY <1>5, LikeEnds, Zenon
<1>18. FinalId(w) \in frame.outputs => Ended(w, t)
  <2> SUFFICES ASSUME FinalId(w) \in outputs, FinalId(w) \notin process[o].outputs
               PROVE  Ended(w, t)
    BY <1>4, <1>8, <1>17
  <2>1. Len(path) = 1 /\ path[1] = FinalId(w)
    OBVIOUS
  <2>2. k \in Own(s)
    BY <1>3, <1>15, <2>1, Zenon DEF Own
  <2>3. s[k].node = <<FinalId(w)>>
    <3>1. \A a : <<a>>[1] = a
      OBVIOUS
    <3> QED
      BY <1>12, <1>15, <2>1, <2>2, <3>1, Zenon
  <2>4. t[k].node = <<FinalId(w)>> /\ k \in Own(t) /\ t[k].status = "completed"
    BY <1>5, <2>2, <2>3, Zenon DEF Like, Twin
  <2> QED
    BY <2>4, Zenon DEF Ended
<1>20. Unanswered(p, t) => Unanswered(q, s)
  <2>1. "completed" # "waiting_input"
    OBVIOUS
  <2>2. Follows(s, t)
    BY <1>5, <2>1, LikeFollows, Zenon
  <2>3. \A i \in 1..Len(q) : i \in 1..Len(p) /\ p[i].step = q[i].step
    BY <1>6, Zenon
  <2> QED
    BY <2>2, <2>3, UnansweredBefore, Zenon
<1>21. ASSUME rewinds' = 0, late' = 0 \/ Unanswered(p, t)
       PROVE  Going(w, <<frame>>, t, p)
  <2>1. Plain(q, s)
    BY <1>1, <1>19, <1>20, <1>21, Zenon DEF Plain
  <2>2. Rest(w, s, q)
    BY <1>10, <2>1, Zenon
  <2>3. CASE k \in Own(s)
    <3> DEFINE i == Place(w, s, k)
    <3>1. ~Unanswered(p, t)
      <4>1. r \in 1..Len(p) /\ p[r].step = k
        BY <1>3, <1>6, <1>15, Zenon
      <4>2. k \in Own(t) /\ t[k].status # "waiting_input"
        BY <1>5, <2>3
      <4> QED
        BY <4>1, <4>2, Zenon DEF Unanswered
    <3>2. q[r].status = "pending"
      BY <1>7, <1>21, <3>1, Zenon DEF q
    <3>3. Opens(q, s, r)
      BY <1>15, <2>3, <3>2, Zenon DEF Opens
    <3>4. Position(path) = i
      BY <1>12, <1>13, <1>15, <2>3, Zenon
    <3>5. Ready(w, t, p, (i + 1) - 1, i + 1, skipped)
      <4>1. i = Place(w, s, q[r].step) /\ Like(w, s, t, q[r].step, "completed")
        BY <1>5, <1>15, Zenon
      <4> HIDE DEF i
      <4> QED
        BY <1>2, <1>3, <1>6, <1>11, <2>2, <3>3, <4>1, AnswerReady, Zenon
    <3>6. frame.at = i + 1
      BY <1>4, <3>4, Zenon
    <3> HIDE DEF i
    <3> QED
      BY <1>4, <3>5, <3>6, Zenon DEF Going
  <2>4. CASE k \notin Own(s)
    <3>1. Len(path) = 2
      <4>1. Len(path) \in {1, 2}
        BY <1>14, PathFacts, Zenon
      <4>2. Len(path) # 1
        BY <1>3, <1>15, <2>4, Zenon DEF Own
      <4> QED
        BY <4>1, <4>2
    <3>2. Position(path) = Len(Order[w])
      BY <1>2, <3>1, PositionOfCall, Zenon DEF w
    <3>3. frame.at > Len(Order[w])
      <4>1. Len(Order[w]) \in Nat
        BY <1>2, OrderFacts, Zenon
      <4> DEFINE n == Len(Order[w])
      <4>2. frame.at = n + 1
        BY <1>4, <3>2, Zenon
      <4> HIDE DEF n
      <4>3. n \in Nat
        BY <4>1 DEF n
      <4>4. frame.at > n
        BY <4>2, <4>3
      <4> QED
        BY <4>4 DEF n
    <3>4. "completed" # "skipped" /\ "completed" # "waiting_input"
      OBVIOUS
    <3>5. Rest(w, t, p)
      BY <1>2, <1>5, <1>6, <2>2, <2>4, <3>4, LikeRests, Zenon
    <3> QED
      BY <1>4, <3>3, <3>5, Zenon DEF Going
  <2> QED
    BY <2>3, <2>4
<1>22. \A a \in Resumers \cup Bots :
        FinalId(w) \in process'[a].outputs => FinalId(w) \in process[a].outputs
  BY <1>1, <1>2, ForgottenOutputs, Zenon DEF w
<1>23. Plain(requests, steps)' => Plain(requests, steps)
  <2>1. Unanswered(requests, steps)' => Unanswered(requests, steps)
    BY <1>9, Zenon DEF q, s
  <2> QED
    BY <1>1, <1>7, <2>1, Zenon DEF Plain
<1>24. rewinds' = 0 /\ (late' = 0 \/ Unanswered(p, t)) => Going(w, <<frame>>, t, p)
  BY <1>21, Zenon
<1> QED
  BY <1>1, <1>16, <1>17, <1>18, <1>22, <1>23, <1>24, OpensBranched, Zenon DEF w, s
-----------------------------------------------------------------------------
(* Branches: always.                                                       *)

LEMMA InitBranched ==
    ASSUME Init
    PROVE  Branched
<1>1. steps = <<>> /\ requests = <<>> /\ ~Working /\ status # "completed"
  BY DEF Init, Working
<1>2. \A a \in Resumers \cup Bots : FinalId(workflow) \notin process[a].outputs
  BY DEF Init, Idle
<1>3. OwnFit(workflow, <<>>) /\ Ready(workflow, <<>>, <<>>, 1 - 1, 1, {})
  BY NothingReady, Zenon
<1>4. 1 - 1 \in Nat
  OBVIOUS
<1>5. Own(<<>>) = {}
  BY DEF Own
<1>6. Settled(workflow, <<>>, 1 - 1)
  BY <1>5, Zenon DEF Settled
<1>7. Rest(workflow, <<>>, <<>>)
  BY <1>3, <1>4, <1>6, ReadyRests, Zenon
<1> QED
  BY <1>1, <1>2, <1>3, <1>7, Zenon DEF Branched

LEMMA StepBranched ==
    ASSUME Typed, Branched, NEW o \in Resumers, ResumerStep(o)
    PROVE  Branched'
<1>1. CASE StartRun(o)
  BY <1>1, StartRunBranched
<1>2. CASE ReadQuestion(o)
  BY <1>2, ReadBranched
<1>3. CASE Answer(o)
  BY <1>3, AnswerBranched
<1>4. CASE ReadCheckpoint(o)
  BY <1>4, ReadBranched
<1>5. CASE Rewind(o)
  BY <1>5, RewindBranched
<1>6. CASE SkipNode(o)
  BY <1>6, SkipNodeBranched
<1>7. CASE RunNode(o)
  BY <1>7, RunNodeBranched
<1>8. CASE Branch(o)
  BY <1>8, RunNodeBranched
<1>9. CASE Ask(o)
  BY <1>9, AskBranched
<1>10. CASE AskInCall(o)
  BY <1>10, AskInCallBranched
<1>11. CASE Call(o)
  BY <1>11, CallBranched
<1>12. CASE Finish(o)
  BY <1>12, FinishBranched
<1>13. CASE Return(o)
  BY <1>13, ReturnBranched
<1>14. CASE EndWithoutFinal(o)
  BY <1>14, EndWithoutFinalBranched
<1>15. CASE NodeFails(o)
  BY <1>15, NodeFailsBranched
<1>16. CASE GraphFails(o)
  BY <1>16, GraphFailsBranched
<1> QED
  BY <1>1, <1>2, <1>3, <1>4, <1>5, <1>6, <1>7, <1>8, <1>9, <1>10, <1>11, <1>12, <1>13, <1>14, <1>15,
     <1>16 DEF ResumerStep

\* Nothing happens.
LEMMA StutterBranched ==
    ASSUME Typed, Branched, UNCHANGED vars
    PROVE  Branched'
<1>1. TypeOK /\ workflow \in Mains /\ steps \in Seq(Step)
  BY DEF Typed, TypeOK
<1>2. /\ UNCHANGED <<workflow, steps, late, rewinds>> /\ work' = work /\ process' = process
      /\ status' = status /\ requests' = requests
  BY DEF vars, committed, bounds
<1>3. /\ Len(requests') = Len(requests) /\ (status' = "completed" => status = "completed")
      /\ \A r \in 1..Len(requests) : /\ requests'[r].step = requests[r].step
                                     /\ requests'[r].status = "pending" => requests[r].status = "pending"
  BY <1>2
<1>4. \A a \in Resumers \cup Bots : FinalId(workflow) \in process'[a].outputs => Ended(workflow, steps)
  BY <1>2, Zenon DEF Branched
<1> QED
  BY <1>1, <1>2, <1>3, <1>4, RestsBranched, Zenon

LEMMA BranchedAlways == Spec => []Branched
<1>1. Init => Branched
  BY InitBranched
<1>2. Typed /\ Branched /\ [Next]_vars => Branched'
  <2> SUFFICES ASSUME Typed, Branched, [Next]_vars
               PROVE  Branched'
    OBVIOUS
  <2>1. CASE UNCHANGED vars
    BY <2>1, StutterBranched
  <2>2. ASSUME NEW o \in Resumers, ResumerStep(o)
        PROVE  Branched'
    BY <2>2, StepBranched
  <2>3. ASSUME \/ \E o \in Resumers : Crash(o)
               \/ Cancel \/ \E b \in Bots : ReadToCancel(b) \/ CommitCancel(b)
        PROVE  Branched'
    BY <2>3, CancelBranched
  <2> QED
    BY <2>1, <2>2, <2>3 DEF Next
<1> QED
  BY <1>1, <1>2, TypedAlways, PTL DEF Spec

LEMMA ValueOfStep ==
    ASSUME NEW s \in Seq(Step), NEW k \in Own(s), s[k].value # ""
    PROVE  s[k].value \in {"true", "false"}
<1>1. s[k] \in Step
  BY OwnIndex
<1> QED
  BY <1>1 DEF Step

\* A step's condition is the node that it is of.
LEMMA ConditionOfStep ==
    ASSUME TypeOK, OwnFit(workflow, steps), NEW k \in Chosen
    PROVE  /\ k \in Own(steps) /\ k \in 1..Len(steps) /\ k \in Nat /\ steps[k].value \in {"true", "false"}
           /\ Condition(k) = NodeOf(workflow, steps, k) /\ Condition(k).type = "condition"
           /\ ~Cyclic(workflow)
           /\ Refused(workflow, steps, k) = Targets(Condition(k)) \ Condition(k).branch[steps[k].value]
           /\ Accepted(workflow, steps, k) = Condition(k).branch[steps[k].value]
<1> DEFINE w == workflow
           s == steps
           node == NodeOf(workflow, steps, k)
<1>1. w \in DOMAIN Library /\ s \in Seq(Step)
  BY LibraryAssumption DEF TypeOK
<1>2. k \in 1..Len(s) /\ s[k].value # "" /\ k \in Own(s)
  BY DEF Chosen, Own
<1> HIDE DEF w, s
<1>3. k \in Nat /\ s[k].value \in {"true", "false"}
  BY <1>1, <1>2, OwnIndex, ValueOfStep, Zenon
<1>4. /\ s[k].node = <<NodeOf(w, s, k).id>> /\ NodeOf(w, s, k) = Order[w][Place(w, s, k)]
      /\ Place(w, s, k) \in 1..Len(Order[w]) /\ ~Cyclic(w) /\ NodeOf(w, s, k).type = "condition"
  BY <1>1, <1>2, OwnPlace, Zenon DEF w, s
<1>5. NodeOf(w, s, k) \in Range(Library[w])
  <2> DEFINE i == Place(w, s, k)
  <2>1. NodeOf(w, s, k) = Order[w][i] /\ i \in 1..Len(Order[w])
    BY <1>4, Zenon
  <2> HIDE DEF i
  <2>2. \A j \in 1..Len(Order[w]) : Order[w][j] \in Range(Library[w])
    BY <1>1, OrderFacts, Zenon
  <2>3. Order[w][i] \in Range(Library[w])
    BY <2>1, <2>2, Zenon
  <2> QED
    BY <2>1, <2>3, Zenon
<1>6. \A n \in Range(Library[w]) : <<n.id>> = s[k].node => n = NodeOf(w, s, k)
  <2> SUFFICES ASSUME NEW n \in Range(Library[w]), <<n.id>> = s[k].node
               PROVE  n = NodeOf(w, s, k)
    OBVIOUS
  <2>1. \A a, b : <<a>> = <<b>> => a = b
    OBVIOUS
  <2>2. n.id = NodeOf(w, s, k).id
    BY <1>4, <2>1, Zenon
  <2>3. PICK i \in DOMAIN Library[w] : n = Library[w][i]
    BY DEF Range
  <2>4. PICK j \in DOMAIN Library[w] : NodeOf(w, s, k) = Library[w][j]
    BY <1>5 DEF Range
  <2>5. i = j
    BY <1>1, <2>2, <2>3, <2>4, LibraryAssumption
  <2> QED
    BY <2>3, <2>4, <2>5
<1>7. Condition(k) = NodeOf(w, s, k)
  BY <1>4, <1>5, <1>6, Zenon DEF Condition, w, s
<1>8. /\ Refused(w, s, k) = Targets(Condition(k)) \ Condition(k).branch[s[k].value]
      /\ Accepted(w, s, k) = Condition(k).branch[s[k].value]
  BY <1>2, <1>7, Zenon DEF Refused, Accepted
<1> QED
  BY <1>2, <1>3, <1>4, <1>7, <1>8, Zenon DEF w, s

LEMMA UnselectedIsSkipped ==
    ASSUME TargetsWait, Typed, Branched
    PROVE  UnselectedBranchIsSkipped
<1> SUFFICES ASSUME rewinds = 0, \A r \in Range(requests) : steps[r.step].status = "waiting_input",
                    NEW k \in Chosen,
                    NEW id \in Targets(Condition(k)) \ Condition(k).branch[steps[k].value],
                    NEW row \in Range(steps), row.node = <<id>>
             PROVE  row.status = "skipped"
  BY Zenon DEF UnselectedBranchIsSkipped, OnlySelectedBranchRuns
<1>1. TypeOK /\ steps \in Seq(Step) /\ requests \in Seq(Request) /\ workflow \in DOMAIN Library
  BY LibraryAssumption DEF Typed, TypeOK
<1>2. OwnFit(workflow, steps)
  BY Zenon DEF Branched
<1>3. k \in Own(steps) /\ id \in Refused(workflow, steps, k)
  BY <1>1, <1>2, ConditionOfStep, Zenon
<1>4. Unanswered(requests, steps)
  <2>1. \A r \in 1..Len(requests) : requests[r] \in Range(requests)
    BY <1>1 DEF Range
  <2> QED
    BY <2>1, Zenon DEF Unanswered
<1>5. Only(workflow, steps)
  BY <1>4, Zenon DEF Branched, Plain, Rest
<1>6. PICK j \in 1..Len(steps) : row = steps[j]
  BY <1>1 DEF Range
<1>7. \A a, b : Len(<<a>>) = 1 /\ (<<a>> = <<b>> => a = b)
  OBVIOUS
<1>8. j \in Own(steps)
  BY <1>6, <1>7, Zenon DEF Own
<1>9. steps[j].node = <<NodeOf(workflow, steps, j).id>>
  BY <1>1, <1>2, <1>8, OwnPlace, Zenon
<1>10. NodeOf(workflow, steps, j).id = id
  BY <1>6, <1>7, <1>9, Zenon
<1> QED
  BY <1>3, <1>5, <1>6, <1>8, <1>10, Zenon DEF Only

LEMMA SelectedIsExecuted ==
    ASSUME WellBranched, Typed, Branched
    PROVE  SelectedBranchIsExecuted
<1> SUFFICES ASSUME rewinds = 0, late = 0, status = "completed", NEW k \in Chosen,
                    NEW id \in Condition(k).branch[steps[k].value]
             PROVE  \E j \in (k + 1)..Len(steps) : steps[j].node = <<id>> /\ steps[j].status = "completed"
  BY Zenon DEF SelectedBranchIsExecuted
<1> DEFINE w == workflow
           s == steps
           n == Len(Order[workflow])
           i == Place(workflow, steps, k)
<1>1. TypeOK /\ s \in Seq(Step) /\ w \in Mains /\ w \in DOMAIN Library /\ Len(s) \in Nat
  BY LibraryAssumption DEF Typed, TypeOK
<1>2. OwnFit(w, s) /\ Ended(w, s) /\ Rest(w, s, requests)
  BY Zenon DEF Branched, Plain
<1>3. /\ k \in Own(s) /\ k \in Nat /\ s[k].value \in {"true", "false"} /\ id \in Accepted(w, s, k)
      /\ Condition(k) = NodeOf(w, s, k) /\ Condition(k).type = "condition" /\ ~Cyclic(w)
  BY <1>1, <1>2, ConditionOfStep, Zenon
<1>4. id \in Targets(Condition(k))
  BY <1>3 DEF Targets
<1> HIDE DEF w, s, n, i
<1>5. /\ i \in 1..n /\ i \in Nat /\ n \in Nat /\ NodeOf(w, s, k) = Order[w][i]
  BY <1>1, <1>2, <1>3, OwnPlace, Zenon DEF i, n, w, s
<1>6. /\ Order[w] # <<>> /\ Order[w][n].type = "final"
      /\ \E j \in (i + 1)..n : Order[w][j].id = id
  <2>1. /\ Order[w] # <<>> /\ Order[w][Len(Order[w])].type = "final"
        /\ \A a \in 1..Len(Order[w]) : Order[w][a].type = "condition" =>
            \A b \in Targets(Order[w][a]) :
                \E j \in (a + 1)..Len(Order[w]) :
                    Order[w][j].id = b /\ Order[w][j].deps = {Order[w][a].id}
    BY <1>1, <1>3, Zenon DEF WellBranched
  <2>2. n = Len(Order[w])
    BY DEF n, w
  <2>3. Order[w][i].type = "condition"
    BY <1>3, <1>5, Zenon
  <2>4. id \in Targets(Order[w][i])
    BY <1>3, <1>4, <1>5, Zenon
  <2>5. i \in 1..Len(Order[w])
    BY <1>5, <2>2, Zenon
  <2>6. \E j \in (i + 1)..Len(Order[w]) : Order[w][j].id = id
    BY <2>1, <2>3, <2>4, <2>5, Zenon
  <2> QED
    BY <2>1, <2>2, <2>6, Zenon
<1>7. PICK place \in (i + 1)..n : Order[w][place].id = id
  BY <1>6
<1>8. place \in 1..n /\ place \in Nat /\ i < place /\ place <= n /\ n \in 1..n
  BY <1>5, <1>7
<1>9. PICK m \in Nat : Passed(w, s, m) /\ Settled(w, s, m)
  BY <1>2, Zenon DEF Rest
<1>10. PICK e \in Own(s) : s[e].node = <<FinalId(w)>> /\ s[e].status = "completed"
  BY <1>2, Zenon DEF Ended
<1>11. \A a, b : <<a>> = <<b>> => a = b
  OBVIOUS
<1>12. n = Len(Order[w])
  BY DEF n, w
<1>13. Place(w, s, e) = n
  <2>1. /\ s[e].node = <<NodeOf(w, s, e).id>> /\ NodeOf(w, s, e) = Order[w][Place(w, s, e)]
        /\ Place(w, s, e) \in 1..Len(Order[w])
    BY <1>1, <1>2, OwnPlace, Zenon
  <2>2. NodeOf(w, s, e).id = FinalId(w)
    BY <1>10, <1>11, <2>1, Zenon
  <2>3. Order[w][n].id = FinalId(w)
    <3>1. Order[w][n] \in Range(Library[w])
      BY <1>1, <1>8, <1>12, OrderFacts, Zenon
    <3> QED
      BY <1>1, <1>6, <3>1, FinalFacts, Zenon
  <2> QED
    BY <1>1, <1>8, <1>12, <2>1, <2>2, <2>3, OrderFacts, Zenon
<1>14. n <= m
  BY <1>9, <1>10, <1>13, Zenon DEF Passed
<1>15. place \in 1..m
  BY <1>5, <1>8, <1>14
<1>16. PICK j \in Own(s) : Place(w, s, j) = place
  BY <1>9, <1>15, Zenon DEF Passed
<1>17. j \in 1..Len(s) /\ j \in Nat
  BY <1>1, OwnIndex, Zenon
<1>18. s[j].node = <<id>> /\ NodeOf(w, s, j).id = id
  <2>1. s[j].node = <<NodeOf(w, s, j).id>> /\ NodeOf(w, s, j) = Order[w][Place(w, s, j)]
    BY <1>1, <1>2, OwnPlace, Zenon
  <2> QED
    BY <1>7, <1>16, <2>1, Zenon
<1>19. k < j
  <2>1. Place(w, s, k) = i
    BY DEF i, w, s
  <2>2. ~(j < k)
    <3> SUFFICES ASSUME j < k
                 PROVE  FALSE
      OBVIOUS
    <3>1. Place(w, s, j) < Place(w, s, k)
      BY <1>3, <1>9, Zenon DEF Passed
    <3>2. place < i
      BY <1>16, <2>1, <3>1, Zenon
    <3> QED
      BY <1>5, <1>8, <3>2
  <2>3. j # k
    <3>1. place # i
      BY <1>5, <1>8
    <3> QED
      BY <1>16, <2>1, <3>1, Zenon
  <2> QED
    BY <1>3, <1>17, <2>2, <2>3
<1>20. s[j].status = "completed"
  <2>1. CASE place = n
    <3>1. \A a, b \in Own(s) : a < b => Place(w, s, a) < Place(w, s, b)
      BY <1>9, Zenon DEF Passed
    <3>2. e \in Nat
      BY <1>1, OwnIndex, Zenon
    <3>3. ~(n < n)
      BY <1>5
    <3>4. ~(j < e) /\ ~(e < j)
      BY <1>13, <1>16, <2>1, <3>1, <3>3, Zenon
    <3>5. j = e
      BY <1>17, <3>2, <3>4
    <3> QED
      BY <1>10, <3>5, Zenon
  <2>2. CASE place # n
    <3>1. place < m
      BY <1>5, <1>8, <1>14, <2>2
    <3>2. s[j].status \in {"completed", "skipped"}
      BY <1>9, <1>16, <3>1, Zenon DEF Settled
    <3>3. s[j].status # "skipped"
      <4>1. Selects(w, s)
        BY <1>2, Zenon DEF Rest
      <4> QED
        BY <1>3, <1>18, <4>1, Zenon DEF Selects
    <3> QED
      BY <3>2, <3>3, Zenon
  <2> QED
    BY <2>1, <2>2
<1>21. j \in (k + 1)..Len(s)
  BY <1>1, <1>3, <1>17, <1>19
<1> QED
  BY <1>18, <1>20, <1>21, Zenon DEF s

\* In a workflow whose branches come after their conditions, a run that was neither answered
\* nor rewound never executes a node that a condition decided against, however it ended.
THEOREM UnselectedBranchIsAlwaysSkipped ==
    ASSUME TargetsWait
    PROVE  Spec => []UnselectedBranchIsSkipped
<1>1. Typed /\ Branched => UnselectedBranchIsSkipped
  BY UnselectedIsSkipped
<1> QED
  BY <1>1, TypedAlways, BranchedAlways, PTL

\* In a workflow whose branches wait for their conditions alone, and whose final node comes last,
\* a run executes the selected branches and nothing else of those of its conditions.
THEOREM BranchesAlwaysRunAsSelected ==
    ASSUME WellBranched
    PROVE  Spec => []BranchesRunAsSelected
<1>1. Typed /\ Branched => BranchesRunAsSelected
  BY WellBranchedWaits, UnselectedIsSkipped, SelectedIsExecuted DEF BranchesRunAsSelected
<1> QED
  BY <1>1, TypedAlways, BranchedAlways, PTL
=============================================================================
