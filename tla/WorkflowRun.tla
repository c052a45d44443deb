----------------------------- MODULE WorkflowRun -----------------------------
(***************************************************************************)
(* One run of a workflow (core/workflow_runner.py, WorkflowRunner): its    *)
(* nodes in order, branches, inline calls of other workflows, questions to *)
(* the user, and resume from an answer or a checkpoint.  run and resume    *)
(* each do all their work in one transaction that holds SQLite's write     *)
(* lock to the end; what it wrote (`work`) becomes visible when it commits *)
(* and is lost if the process is killed, while what its nodes did outside  *)
(* the database is not.  resume reads what it will answer before its first *)
(* write, so before it has the lock.                                       *)
(* An operator named Faulty... is a definition with a bug put in.          *)
(***************************************************************************)
EXTENDS Integers, Sequences, FiniteSets, SequencesExt

CONSTANTS
    Library,      \* the workflows: a sequence of nodes under each name
    Mains,        \* the names of those that are run
    Resumers,     \* processes that run and resume
    Bots,         \* processes that cancel a waiting run
    MaxCommands,  \* bound: resumes and cancels
    MaxCrashes    \* bound: processes killed

NodeTypes == {"llm", "tool", "condition", "parallel", "human_input", "workflow_call", "final"}

Nodes == [id: STRING, type: NodeTypes, deps: SUBSET STRING, calls: STRING,
          branch: [{"true", "false"} -> SUBSET STRING]]

\* The nodes that a condition decides about.
Targets(n) == n.branch["true"] \cup n.branch["false"]

\* What WorkflowDefinition validates, and that a called workflow is there (a call of one that is
\* not fails, as NodeFails does).
ASSUME LibraryAssumption ==
    /\ Mains \subseteq DOMAIN Library
    /\ \A name \in DOMAIN Library :
        /\ Library[name] \in Seq(Nodes)
        /\ \A i, j \in DOMAIN Library[name] : Library[name][i].id = Library[name][j].id => i = j
        /\ \A n \in Range(Library[name]) : n.type = "workflow_call" => n.calls \in DOMAIN Library
        /\ \E n \in Range(Library[name]) : \A m \in Range(Library[name]) : m.type = "final" <=> m = n

ASSUME BoundsAssumption == MaxCommands \in Nat /\ MaxCrashes \in Nat

VARIABLES
    workflow,  \* the workflow of the run
    status,    \* "runs": status
    steps,     \* "run_steps" in the order of created_at, with a condition's output;
               \* a completed one has a checkpoint
    requests,  \* "clarification_requests" in the order of created_at
    work,      \* the transaction that holds the write lock
    process,   \* what each process read
    executed,  \* ghost: how often each node took effect outside the database
    late,      \* ghost: how many answers were written to a request no longer pending
    rewinds,   \* how many checkpoint resumes there were
    commands,  \* how many commands were given
    crashes    \* how many processes were killed

committed == <<status, steps, requests>>
bounds    == <<late, rewinds, commands, crashes>>
vars      == <<workflow, committed, work, process, executed, bounds>>

Ids(name) == {n.id : n \in Range(Library[name])}

\* _ordered_nodes: round after round, the nodes whose dependencies are all placed.
Order == [name \in DOMAIN Library |->
    LET next[placed \in SUBSET Ids(name)] ==
            LET ready == SelectSeq(Library[name],
                                   LAMBDA n : n.id \notin placed /\ n.deps \subseteq placed)
            IN  IF ready = <<>> THEN <<>>
                ELSE ready \o next[placed \cup {n.id : n \in Range(ready)}]
    IN  next[{}]]

\* The order is made of the workflow's nodes, each at most once.  It follows from the definition
\* by induction over the nodes placed, which the prover cannot do; TLC checks it of its library.
ASSUME OrderAssumption ==
    \A name \in DOMAIN Library :
        /\ Order[name] \in Seq(Range(Library[name]))
        /\ \A i, j \in DOMAIN Order[name] : Order[name][i].id = Order[name][j].id => i = j

Cyclic(name) == Len(Order[name]) < Len(Library[name])

FinalId(name) == (CHOOSE n \in Range(Library[name]) : n.type = "final").id

\* The node_id of a step: that of a called workflow has its caller's as a prefix.
Paths == {<<id>> : id \in UNION {Ids(name) : name \in DOMAIN Library}}
         \cup UNION {{<<n.id, id>> : id \in Ids(n.calls)} :
                     n \in {m \in UNION {Range(Library[name]) : name \in DOMAIN Library} :
                                m.type = "workflow_call"}}

Step    == [node: Paths, status: {"running", "waiting_input", "completed", "failed", "skipped"},
            value: {"", "true", "false"}]
Request == [step: Nat \ {0}, status: {"pending", "answered", "cancelled"}]

\* A workflow being executed: the run's own one, or one called by `step`.
Frame == [name: DOMAIN Library, prefix: Seq(STRING), step: Nat, at: Nat \ {0},
          outputs: SUBSET STRING, skipped: SUBSET STRING]

Nobody == "nobody"

ASSUME ProcessAssumption == Nobody \notin Resumers

NoWork == [owner |-> Nobody, steps |-> <<>>, requests |-> <<>>, frames |-> <<>>]
Idle   == [pc |-> "idle", chosen |-> 0, outputs |-> {}]

TypeOK ==
    /\ workflow \in Mains
    /\ status \in {"absent", "waiting_input", "completed", "failed", "cancelled"}
    /\ steps \in Seq(Step)
    /\ requests \in Seq(Request)
    /\ \A r \in Range(requests) : r.step \in 1..Len(steps)
    /\ work.owner \in Resumers \cup {Nobody}
    /\ work.steps \in Seq(Step) /\ work.requests \in Seq(Request) /\ work.frames \in Seq(Frame)
    /\ process \in [Resumers \cup Bots ->
                       [pc: {"idle", "answer", "rewind", "cancel"}, chosen: Nat,
                        outputs: SUBSET STRING]]
    /\ executed \in [Paths -> Nat]
    /\ late \in Nat /\ rewinds \in Nat
    /\ commands \in 0..MaxCommands /\ crashes \in 0..MaxCrashes

Init ==
    /\ workflow \in Mains
    /\ status = "absent" /\ steps = <<>> /\ requests = <<>>
    /\ work = NoWork
    /\ process = [p \in Resumers \cup Bots |-> Idle]
    /\ executed = [path \in Paths |-> 0]
    /\ late = 0 /\ rewinds = 0 /\ commands = 0 /\ crashes = 0

Free(p) == process[p].pc = "idle" /\ work.owner # p

Command == commands < MaxCommands /\ commands' = commands + 1

-----------------------------------------------------------------------------
(* The transaction.                                                        *)

TopFrame(outputs, skipped, at) ==
    [name |-> workflow, prefix |-> <<>>, step |-> 0, at |-> at, outputs |-> outputs,
     skipped |-> skipped]

\* p takes the write lock with its first write.
Open(p, newSteps, newRequests, frame) ==
    /\ work = NoWork
    /\ work' = [owner |-> p, steps |-> newSteps, requests |-> newRequests, frames |-> <<frame>>]

Commit(newStatus, newSteps, newRequests) ==
    /\ status' = newStatus
    /\ steps' = newSteps
    /\ requests' = newRequests
    /\ work' = NoWork

\* The frame p is in, the node it has come to, and that node's path.
Depth == Len(work.frames)
Top   == work.frames[Depth]
Here  == Order[Top.name][Top.at]
Path  == Append(Top.prefix, Here.id)
AtEnd == Top.at > Len(Order[Top.name])

NewStep(path, newStatus, value) == [node |-> path, status |-> newStatus, value |-> value]

\* p is in the middle of a workflow.
Executing(p) == work.owner = p /\ ~Cyclic(Top.name)

\* ... and has come to a node it is not to skip.
AtNode(p) ==
    /\ Executing(p) /\ ~AtEnd
    /\ Here.id \notin Top.skipped
    /\ Here.type = "final" \/ Here.deps \cap Top.skipped = {}

\* The transaction goes on.
Works(newSteps, newRequests, newFrames) ==
    work' = [owner |-> work.owner, steps |-> newSteps, requests |-> newRequests,
             frames |-> newFrames]

\* A frame whose node was executed or skipped.
Past(frame, done, skipped) ==
    [frame EXCEPT !.at = frame.at + 1, !.outputs = frame.outputs \cup done,
                  !.skipped = frame.skipped \cup skipped]

\* The step of the node is written, its output kept, and the loop goes on.
Go(step, newRequests, unselected) ==
    Works(Append(work.steps, step), newRequests,
          [work.frames EXCEPT ![Depth] = Past(Top, {Here.id}, unselected)])

TakesEffect == executed' = [executed EXCEPT ![Path] = @ + 1]

-----------------------------------------------------------------------------
(* The loop of run, _continue_existing_run and _run_inline_workflow.       *)

\* _record_skipped_step writes one step per skipped node, however often it is skipped.
SkipNode(p) ==
    /\ Executing(p) /\ ~AtEnd /\ ~AtNode(p)
    /\ Works(IF \E s \in Range(work.steps) : s.node = Path /\ s.status = "skipped"
             THEN work.steps ELSE Append(work.steps, NewStep(Path, "skipped", "")),
             work.requests,
             [work.frames EXCEPT ![Depth] = Past(Top, {}, {Here.id})])
    /\ UNCHANGED <<workflow, committed, process, executed, bounds>>

RunNode(p) ==
    /\ AtNode(p) /\ Here.type \in {"llm", "tool", "parallel"}
    /\ Go(NewStep(Path, "completed", ""), work.requests, {})
    /\ TakesEffect
    /\ UNCHANGED <<workflow, committed, process, bounds>>

FaultyUnselected(value) == Here.branch[value]   \* the branches are swapped

\* _unselected_branch_nodes.
Unselected(value) == Targets(Here) \ Here.branch[value]

Branch(p) ==
    /\ AtNode(p) /\ Here.type = "condition"
    /\ \E value \in {"true", "false"} :
        Go(NewStep(Path, "completed", value), work.requests, Unselected(value))
    /\ UNCHANGED <<workflow, committed, process, executed, bounds>>

FaultyNewRequest(step) == [step |-> step - 1, status |-> "pending"]   \* off by one

NewRequest(step) == [step |-> step, status |-> "pending"]

\* A question ends the run's transaction ...
Ask(p) ==
    /\ AtNode(p) /\ Here.type = "human_input" /\ Depth = 1
    /\ Commit("waiting_input", Append(work.steps, NewStep(Path, "waiting_input", "")),
              Append(work.requests, NewRequest(Len(work.steps) + 1)))
    /\ UNCHANGED <<workflow, process, executed, bounds>>

\* ... but in a called workflow its text is taken for the answer.
AskInCall(p) ==
    /\ AtNode(p) /\ Here.type = "human_input" /\ Depth > 1
    /\ Go(NewStep(Path, "waiting_input", ""),
          Append(work.requests, NewRequest(Len(work.steps) + 1)), {})
    /\ UNCHANGED <<workflow, committed, process, executed, bounds>>

Call(p) ==
    /\ AtNode(p) /\ Here.type = "workflow_call"
    /\ Works(Append(work.steps, NewStep(Path, "running", "")), work.requests,
             Append(work.frames, [name |-> Here.calls, prefix |-> <<Here.id>>,
                                  step |-> Len(work.steps) + 1, at |-> 1,
                                  outputs |-> {}, skipped |-> {}]))
    /\ UNCHANGED <<workflow, committed, process, executed, bounds>>

\* _final_output takes the output of a dependency; a node without any has the input.
HasOutput == Here.deps = {} \/ Here.deps \cap Top.outputs # {}

\* The final node ends the run ...
Finish(p) ==
    /\ AtNode(p) /\ Here.type = "final" /\ HasOutput /\ Depth = 1
    /\ Commit("completed", Append(work.steps, NewStep(Path, "completed", "")), work.requests)
    /\ UNCHANGED <<workflow, process, executed, bounds>>

\* ... or the call: the calling node is completed.
Return(p) ==
    /\ AtNode(p) /\ Here.type = "final" /\ HasOutput /\ Depth > 1
    /\ LET caller == work.frames[Depth - 1] IN
       Works(Append([work.steps EXCEPT ![Top.step].status = "completed"],
                    NewStep(Path, "completed", "")),
             work.requests,
             Append(SubSeq(work.frames, 1, Depth - 2),
                    Past(caller, {Order[caller.name][caller.at].id}, {})))
    /\ UNCHANGED <<workflow, committed, process, executed, bounds>>

\* A loop that ends without its final node: that of a resumed run may have ended before.
EndWithoutFinal(p) ==
    /\ Executing(p) /\ AtEnd /\ Depth = 1 /\ FinalId(Top.name) \in Top.outputs
    /\ Commit("completed", work.steps, work.requests)
    /\ UNCHANGED <<workflow, process, executed, bounds>>

\* _mark_run_failed, in the same transaction; the steps of the calls fail too.
Fail(step) ==
    LET open == {work.frames[d].step : d \in 2..Depth} IN
    Commit("failed",
           [k \in 1..Len(work.steps) |-> IF k \in open THEN [work.steps[k] EXCEPT !.status = "failed"]
                                                       ELSE work.steps[k]] \o step,
           work.requests)

\* A node raises, before or after it took effect.
NodeFails(p) ==
    /\ AtNode(p)
    /\ \/ Here.type \in {"llm", "tool"} /\ (TakesEffect \/ UNCHANGED executed)
       \/ Here.type \in {"condition", "workflow_call"} /\ UNCHANGED executed
       \/ Here.type = "final" /\ ~HasOutput /\ UNCHANGED executed
    /\ Fail(<<NewStep(Path, "failed", "")>>)
    /\ UNCHANGED <<workflow, process, bounds>>

\* The graph has a cycle, or there is no output of the final node to return.
GraphFails(p) ==
    /\ work.owner = p
    /\ Cyclic(Top.name) \/ (AtEnd /\ (Depth > 1 \/ FinalId(Top.name) \notin Top.outputs))
    /\ Fail(<<>>)
    /\ UNCHANGED <<workflow, process, executed, bounds>>

-----------------------------------------------------------------------------
(* run and resume.                                                         *)

StartRun(p) ==
    /\ Free(p) /\ status = "absent"
    /\ Open(p, <<>>, <<>>, TopFrame({}, {}, 1))
    /\ UNCHANGED <<workflow, committed, process, executed, bounds>>

Pending == {r \in 1..Len(requests) : requests[r].status = "pending"}

\* The nodes of the run's own workflow that have a step of the given status.
NodesWith(newStatus) ==
    {id \in Ids(workflow) : \E s \in Range(steps) : s.node = <<id>> /\ s.status = newStatus}

FaultyPosition(path) ==   \* a step of a called workflow starts the run over
    IF \E i \in DOMAIN Order[workflow] : <<Order[workflow][i].id>> = path
    THEN CHOOSE i \in DOMAIN Order[workflow] : <<Order[workflow][i].id>> = path
    ELSE 0

Position(path) ==
    IF \E i \in DOMAIN Order[workflow] : <<Order[workflow][i].id>> = path
    THEN CHOOSE i \in DOMAIN Order[workflow] : <<Order[workflow][i].id>> = path
    ELSE Len(Order[workflow])

\* resume --answer takes the last pending request; no status of the run is refused.
ReadQuestion(p) ==
    /\ Free(p)
    /\ Command
    /\ \E r \in Pending :
        /\ \A q \in Pending : q <= r
        /\ process' = [process EXCEPT ![p] = [pc |-> "answer", chosen |-> r,
                                              outputs |-> NodesWith("completed")]]
    /\ UNCHANGED <<workflow, committed, work, executed, late, rewinds, crashes>>

\* The request is answered, its step completed, and the run goes on after that step with
\* the outputs read before and the skipped nodes of now.
Answer(p) ==
    LET r == process[p].chosen
        k == requests[r].step
        path == steps[k].node IN
    /\ process[p].pc = "answer"
    /\ Open(p, [steps EXCEPT ![k].status = "completed"],
            [requests EXCEPT ![r].status = "answered"],
            TopFrame(process[p].outputs \cup (IF Len(path) = 1 THEN {path[1]} ELSE {}),
                     NodesWith("skipped"), Position(path) + 1))
    /\ process' = [process EXCEPT ![p] = Idle]
    /\ late' = IF requests[r].status = "pending" THEN late ELSE late + 1
    /\ UNCHANGED <<workflow, committed, executed, rewinds, commands, crashes>>

\* resume --checkpoint: the outputs up to the checkpoint's node.
ReadCheckpoint(p) ==
    /\ Free(p)
    /\ Command
    /\ \E k \in 1..Len(steps) :
        /\ steps[k].status = "completed"
        /\ process' = [process EXCEPT ![p] = [pc |-> "rewind", chosen |-> k,
             outputs |-> {id \in NodesWith("completed") : Position(<<id>>) <= Position(steps[k].node)}]]
    /\ UNCHANGED <<workflow, committed, work, executed, late, rewinds, crashes>>

Rewind(p) ==
    /\ process[p].pc = "rewind"
    /\ Open(p, steps, requests, TopFrame(process[p].outputs, NodesWith("skipped"),
                                         Position(steps[process[p].chosen].node) + 1))
    /\ process' = [process EXCEPT ![p] = Idle]
    /\ rewinds' = rewinds + 1
    /\ UNCHANGED <<workflow, committed, executed, late, commands, crashes>>

ResumerStep(p) ==
    \/ StartRun(p) \/ ReadQuestion(p) \/ Answer(p) \/ ReadCheckpoint(p) \/ Rewind(p)
    \/ SkipNode(p) \/ RunNode(p) \/ Branch(p) \/ Ask(p) \/ AskInCall(p) \/ Call(p)
    \/ Finish(p) \/ Return(p) \/ EndWithoutFinal(p) \/ NodeFails(p) \/ GraphFails(p)

\* The process is killed: the transaction is rolled back.
Crash(p) ==
    /\ work.owner = p
    /\ crashes < MaxCrashes
    /\ crashes' = crashes + 1
    /\ work' = NoWork
    /\ UNCHANGED <<workflow, committed, process, executed, late, rewinds, commands>>

-----------------------------------------------------------------------------
(* Cancelling.                                                             *)

\* runs cancel: any run; its request stays pending.
Cancel ==
    /\ status # "absent" /\ work = NoWork
    /\ Command
    /\ status' = "cancelled"
    /\ UNCHANGED <<workflow, steps, requests, work, process, executed, late, rewinds, crashes>>

\* /cancel of the bot: a waiting run and a pending request of it, as read ...
ReadToCancel(b) ==
    /\ Free(b) /\ status = "waiting_input"
    /\ Command
    /\ \E r \in Pending : process' = [process EXCEPT ![b] = [Idle EXCEPT !.pc = "cancel", !.chosen = r]]
    /\ UNCHANGED <<workflow, committed, work, executed, late, rewinds, crashes>>

FaultyCommitCancel(b) ==   \* only the request is cancelled
    /\ process[b].pc = "cancel" /\ work = NoWork
    /\ requests' = [requests EXCEPT ![process[b].chosen].status = "cancelled"]
    /\ process' = [process EXCEPT ![b] = Idle]
    /\ UNCHANGED <<workflow, status, steps, work, executed, bounds>>

\* ... are cancelled once the write lock is free, whatever they have become.
CommitCancel(b) ==
    /\ process[b].pc = "cancel" /\ work = NoWork
    /\ status' = "cancelled"
    /\ requests' = [requests EXCEPT ![process[b].chosen].status = "cancelled"]
    /\ process' = [process EXCEPT ![b] = Idle]
    /\ UNCHANGED <<workflow, steps, work, executed, bounds>>

Next ==
    \/ \E p \in Resumers : ResumerStep(p) \/ Crash(p)
    \/ \E b \in Bots : ReadToCancel(b) \/ CommitCancel(b)
    \/ Cancel

Spec == Init /\ [][Next]_vars

-----------------------------------------------------------------------------
(* Properties.                                                             *)

\* A run that waits for input can be answered: one of its own questions is pending, however
\* it was resumed, rewound or cancelled before.
WaitingRunHasQuestion ==
    status = "waiting_input" =>
        \E r \in Pending : /\ steps[requests[r].step].status = "waiting_input"
                           /\ Len(steps[requests[r].step].node) = 1

\* A node takes effect again only by a checkpoint resume, a crash, or a late answer: one
\* that another process answered or cancelled since it was read.  No other answer makes the
\* run repeat what it did.
RepeatedEffectsNeedReruns ==
    \A path \in Paths : executed[path] <= 1 + rewinds + crashes + late

\* The steps of the conditions of the run's own workflow, and the condition a step is of.
Chosen == {k \in 1..Len(steps) : steps[k].value # "" /\ Len(steps[k].node) = 1}

Condition(k) == CHOOSE n \in Range(Library[workflow]) : <<n.id>> = steps[k].node

\* "condition executes the selected branch only": the nodes of the others are skipped.
OnlySelectedBranchRuns ==
    \A k \in Chosen : \A id \in Targets(Condition(k)) \ Condition(k).branch[steps[k].value] :
        \A s \in Range(steps) : s.node = <<id>> => s.status = "skipped"

\* A run that was neither answered nor rewound executes the selected branches only, however
\* it ended.
UnselectedBranchIsSkipped ==
    (rewinds = 0 /\ \A r \in Range(requests) : steps[r.step].status = "waiting_input")
        => OnlySelectedBranchRuns

\* A completed run that was not rewound has executed every node of the branches selected.  A late
\* answer may come to a condition again: what was skipped when it chose otherwise stays skipped.
SelectedBranchIsExecuted ==
    (rewinds = 0 /\ late = 0 /\ status = "completed") =>
        \A k \in Chosen : \A id \in Condition(k).branch[steps[k].value] :
            \E j \in (k + 1)..Len(steps) : steps[j].node = <<id>> /\ steps[j].status = "completed"

\* The runner executes what conditions selected and nothing else of their branches, as far
\* as it remembers the choice: before an answer for the one part, before a rewind or a late
\* answer for the other.
BranchesRunAsSelected == UnselectedBranchIsSkipped /\ SelectedBranchIsExecuted

\* It does so in workflows whose branches wait for their condition, which the schema does not
\* demand: every node of a branch comes after it ...
TargetsWait ==
    \A name \in Mains : ~Cyclic(name) =>
        \A i, j \in 1..Len(Order[name]) :
            (Order[name][i].type = "condition" /\ Order[name][j].id \in Targets(Order[name][i]))
                => i < j

\* ... and depends on it and on nothing else, and the final node is the last one.
WellBranched ==
    \A name \in Mains : ~Cyclic(name) =>
        LET order == Order[name] IN
        /\ order # <<>> /\ order[Len(order)].type = "final"
        /\ \A i \in 1..Len(order) : order[i].type = "condition" =>
            \A id \in Targets(order[i]) :
                \E j \in (i + 1)..Len(order) : order[j].id = id /\ order[j].deps = {order[i].id}
=============================================================================
