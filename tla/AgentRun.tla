------------------------------ MODULE AgentRun ------------------------------
(***************************************************************************)
(* One agent run (core/agent_run.py, AgentRunController): the gate on its  *)
(* goal, the loop of iterations, resume and cancel, and the answers to its *)
(* clarification, by several processes: worker, command line, bot.  Every  *)
(* session_scope is one action, except that resume decides by the row it   *)
(* read before its transaction starts.  An action of an iteration (a tool, *)
(* a skill, a workflow) takes effect on the world before the transaction   *)
(* that records it commits.                                                *)
(* An operator named Faulty... is a definition with a bug put in: each     *)
(* shows that a property can fail and none is part of the specification.   *)
(***************************************************************************)
EXTENDS Integers, FiniteSets

CONSTANTS
    Processes,      \* processes that run or resume the agent run
    MaxBudget,      \* bound: max_iterations of one call
    MaxIterations,  \* bound: rows of "agent_iterations"
    MaxCommands,    \* bound: resumes, cancels and answers
    MaxCrashes      \* bound: processes killed or ended by an exception

ASSUME BoundsAssumption ==
    /\ MaxBudget \in Nat \ {0} /\ MaxIterations \in Nat
    /\ MaxCommands \in Nat /\ MaxCrashes \in Nat

Rows == 1..MaxIterations   \* in the order they are inserted
None == 0

VARIABLES
    run,         \* "agent_runs": status, stop_reason, max_iterations
    iterations,  \* "agent_iterations": status and iteration_index
    inserted,    \* how many iterations there are
    calls,       \* the committed tool call of each iteration: none, running, ended
    effects,     \* ghost: the iterations not ended whose non-idempotent action took effect
    asking,      \* whether the run's clarification request is pending
    process,     \* the local state of each process
    commands,    \* how many commands were given
    crashes      \* how many processes were killed

rows == <<iterations, inserted, calls, effects>>
vars == <<run, rows, asking, process, commands, crashes>>

RunStatus == {"absent", "running", "waiting_input", "completed", "failed", "blocked", "cancelled"}
StopReason == {"", "success", "max_iterations_reached", "clarification_required", "intent_blocked",
               "resume_manual_review_required", "clarification_answered", "user_rejected",
               "cancelled"}
Steps == {"idle", "gate", "reopen", "begin", "act", "acted", "end"}

Run == [status: RunStatus, stop: StopReason, max: Nat]
Iteration == [status: {"absent", "running", "completed", "failed"}, index: Nat]
Process == [pc: Steps, seen: Run, row: Rows \cup {None}, index: Nat, last: Nat, ok: BOOLEAN]

TypeOK ==
    /\ run \in Run
    /\ iterations \in [Rows -> Iteration]
    /\ inserted \in 0..MaxIterations
    /\ calls \in [Rows -> {"none", "running", "ended"}]
    /\ effects \subseteq Rows
    /\ asking \in BOOLEAN
    /\ process \in [Processes -> Process]
    /\ commands \in 0..MaxCommands
    /\ crashes \in 0..MaxCrashes

NoRun == [status |-> "absent", stop |-> "", max |-> 0]
Idle  == [pc |-> "idle", seen |-> NoRun, row |-> None, index |-> 0, last |-> 0, ok |-> FALSE]

Init ==
    /\ run = NoRun
    /\ iterations = [k \in Rows |-> [status |-> "absent", index |-> 0]]
    /\ inserted = 0
    /\ calls = [k \in Rows |-> "none"]
    /\ effects = {}
    /\ asking = FALSE
    /\ process = [p \in Processes |-> Idle]
    /\ commands = 0
    /\ crashes = 0

Goto(p, step) == process' = [process EXCEPT ![p].pc = step]
Leave(p)      == process' = [process EXCEPT ![p] = Idle]

Close(status, stop) == run' = [run EXCEPT !.status = status, !.stop = stop]

Command == commands < MaxCommands /\ commands' = commands + 1

\* Process p begins to work on the run.
Enter(p, state) ==
    /\ process[p].pc = "idle"
    /\ process' = [process EXCEPT ![p] = state]

-----------------------------------------------------------------------------
(* run: _start_run and the gate.                                           *)

StartRun(p) ==
    /\ run.status = "absent"
    /\ \E budget \in 1..MaxBudget :
        /\ run' = [status |-> "running", stop |-> "", max |-> budget]
        /\ Enter(p, [Idle EXCEPT !.pc = "gate", !.index = 1, !.last = budget])
    /\ UNCHANGED <<rows, asking, commands, crashes>>

GatePasses(p) ==
    /\ process[p].pc = "gate"
    /\ Goto(p, "begin")
    /\ UNCHANGED <<run, rows, asking, commands, crashes>>

GateBlocks(p) ==
    /\ process[p].pc = "gate"
    /\ Close("blocked", "intent_blocked")
    /\ Leave(p)
    /\ UNCHANGED <<rows, asking, commands, crashes>>

FaultyGateAsks(p) ==   \* a stop reason that no other code knows
    /\ process[p].pc = "gate"
    /\ Close("waiting_input", "clarification_needed")
    /\ asking' = TRUE
    /\ Leave(p)
    /\ UNCHANGED <<rows, commands, crashes>>

GateAsks(p) ==
    /\ process[p].pc = "gate"
    /\ Close("waiting_input", "clarification_required")
    /\ asking' = TRUE
    /\ Leave(p)
    /\ UNCHANGED <<rows, commands, crashes>>

-----------------------------------------------------------------------------
(* resume.                                                                 *)

FaultyLastIndex ==   \* counts the iterations that ended
    Cardinality({k \in 1..inserted : iterations[k].status # "running"})

\* The highest iteration_index so far.
LastIndex ==
    IF inserted = 0 THEN 0
    ELSE CHOOSE i \in {iterations[k].index : k \in 1..inserted} :
            \A k \in 1..inserted : iterations[k].index <= i

\* _running_non_idempotent_tool_call: an iteration that ended is linked to its tool call.
NeedsReview ==
    \E k \in 1..inserted : iterations[k].status # "running" /\ calls[k] = "running"

\* resume, as it reads: a completed run is returned, a cancelled one raises and one under
\* manual review is returned, all without a change.
ReadRun(p) ==
    /\ run.status \notin {"absent", "completed", "cancelled"}
    /\ run.stop # "resume_manual_review_required"
    /\ Command
    /\ \E budget \in 1..MaxBudget :
        IF NeedsReview
        THEN /\ Close("waiting_input", "resume_manual_review_required")
             /\ asking' = TRUE
             /\ UNCHANGED process
        ELSE /\ Enter(p, [Idle EXCEPT !.pc = "reopen", !.seen = run, !.index = LastIndex + 1,
                                      !.last = LastIndex + budget])
             /\ UNCHANGED <<run, asking>>
    /\ UNCHANGED <<rows, crashes>>

\* What a column holds after a process that read `seen` in it set it to `new`: SQLAlchemy
\* sends no UPDATE for a column set to the value it read.
Written(now, seen, new) == IF new = seen THEN now ELSE new

FaultyReopenRun(p) ==   \* stop_reason is not reset
    /\ process[p].pc = "reopen"
    /\ run' = [run EXCEPT !.status = Written(@, process[p].seen.status, "running")]
    /\ Goto(p, "begin")
    /\ UNCHANGED <<rows, asking, commands, crashes>>

\* resume, as it commits.
ReopenRun(p) ==
    LET seen == process[p].seen
        last == process[p].last IN
    /\ process[p].pc = "reopen"
    /\ run' = [status |-> Written(run.status, seen.status, "running"),
               stop   |-> Written(run.stop, seen.stop, ""),
               max    |-> Written(run.max, seen.max, IF last > seen.max THEN last ELSE seen.max)]
    /\ process' = [process EXCEPT ![p] = [@ EXCEPT !.pc = "begin", !.seen = NoRun]]
    /\ UNCHANGED <<rows, asking, commands, crashes>>

-----------------------------------------------------------------------------
(* _run_loop: an iteration is a transaction, an action and a transaction.  *)

\* The status of the run is not looked at.
BeginIteration(p) ==
    /\ process[p].pc = "begin"
    /\ inserted < MaxIterations
    /\ inserted' = inserted + 1
    /\ iterations' = [iterations EXCEPT ![inserted + 1] =
                        [status |-> "running", index |-> process[p].index]]
    /\ process' = [process EXCEPT ![p] = [@ EXCEPT !.pc = "act", !.row = inserted + 1]]
    /\ UNCHANGED <<run, calls, effects, asking, commands, crashes>>

\* The tool of the iteration writes a file or sends a request; nothing is committed yet.
TakeEffect(p) ==
    /\ process[p].pc = "act"
    /\ effects' = effects \cup {process[p].row}
    /\ Goto(p, "acted")
    /\ UNCHANGED <<run, iterations, inserted, calls, asking, commands, crashes>>

\* One transaction holds the Run, its steps and its tool calls from start to end: no other
\* status of a tool call is ever committed.
CommitAction(p) ==
    /\ process[p].pc \in {"act", "acted"}
    /\ calls' = [calls EXCEPT ![process[p].row] = "ended"]
    /\ \E ok \in BOOLEAN :
        process' = [process EXCEPT ![p] = [@ EXCEPT !.pc = "end", !.ok = ok]]
    /\ UNCHANGED <<run, iterations, inserted, effects, asking, commands, crashes>>

\* _execute_action turns any exception into a failed observation; the transaction of the
\* action (and what it recorded) is rolled back.
ActionRaises(p) ==
    /\ process[p].pc \in {"act", "acted"}
    /\ process' = [process EXCEPT ![p] = [@ EXCEPT !.pc = "end", !.ok = FALSE]]
    /\ UNCHANGED <<run, rows, asking, commands, crashes>>

FaultyEndIteration(p) ==   \* the run is closed, the iteration is not
    /\ process[p].pc = "end"
    /\ Close("failed", "max_iterations_reached")
    /\ Leave(p)
    /\ UNCHANGED <<rows, asking, commands, crashes>>

FaultyRetryIteration(p) ==   \* an incomplete last iteration leaves the run as it is
    /\ process[p].pc = "end"
    /\ iterations' = [iterations EXCEPT ![process[p].row].status =
                        IF process[p].ok THEN "completed" ELSE "failed"]
    /\ Leave(p)
    /\ UNCHANGED <<run, inserted, calls, effects, asking, commands, crashes>>

\* The observation is recorded and judged.  The status of the run is written over
\* whatever it has become in the meantime.  (What _run_loop does after that, learning from
\* the run, changes nothing here.)
EndIteration(p) ==
    /\ process[p].pc = "end"
    /\ iterations' = [iterations EXCEPT ![process[p].row].status =
                        IF process[p].ok THEN "completed" ELSE "failed"]
    /\ effects' = effects \ {process[p].row}
    /\ \/ /\ process[p].ok
          /\ Close("completed", "success")
          /\ Leave(p)
       \/ /\ process[p].index >= process[p].last
          /\ Close("failed", "max_iterations_reached")
          /\ Leave(p)
       \/ /\ process[p].index < process[p].last
          /\ process' = [process EXCEPT ![p] = [Idle EXCEPT !.pc = "begin",
                                  !.index = process[p].index + 1, !.last = process[p].last]]
          /\ UNCHANGED run
    /\ UNCHANGED <<inserted, calls, asking, commands, crashes>>

Step(p) ==
    \/ GatePasses(p) \/ GateBlocks(p) \/ GateAsks(p) \/ ReopenRun(p) \/ BeginIteration(p)
    \/ TakeEffect(p) \/ CommitAction(p) \/ ActionRaises(p) \/ EndIteration(p)

\* Killed, or ended by an exception outside _execute_action: nothing handles it.
Crash(p) ==
    /\ process[p].pc # "idle"
    /\ crashes < MaxCrashes
    /\ crashes' = crashes + 1
    /\ Leave(p)
    /\ UNCHANGED <<run, rows, asking, commands>>

-----------------------------------------------------------------------------
(* What others write.                                                      *)

\* agent cancel: no test of the status.
Cancel ==
    /\ run.status # "absent"
    /\ Command
    /\ Close("cancelled", "cancelled")
    /\ UNCHANGED <<rows, asking, process, crashes>>

\* _resume_intent_clarification: a text answer completes the run.
Answer ==
    /\ asking
    /\ Command
    /\ asking' = FALSE
    /\ Close("completed", "clarification_answered")
    /\ UNCHANGED <<rows, process, crashes>>

\* approve_clarification: the run is left to the task that will resume it.
Approve ==
    /\ asking
    /\ Command
    /\ asking' = FALSE
    /\ UNCHANGED <<run, rows, process, crashes>>

Reject ==
    /\ asking
    /\ Command
    /\ asking' = FALSE
    /\ Close("cancelled", "user_rejected")
    /\ UNCHANGED <<rows, process, crashes>>

Next ==
    \/ \E p \in Processes : StartRun(p) \/ ReadRun(p) \/ Step(p) \/ Crash(p)
    \/ Cancel \/ Answer \/ Approve \/ Reject

Spec == Init /\ [][Next]_vars

\* A process that works on the run goes on: models and tools have time limits.
Fairness == \A p \in Processes : WF_vars(Step(p))

FairSpec == Spec /\ Fairness

-----------------------------------------------------------------------------
(* Properties.                                                             *)

WorkedOn(k) == \E p \in Processes : process[p].row = k /\ process[p].pc \in {"act", "acted", "end"}

Orphans == {k \in Rows : iterations[k].status = "running" /\ ~WorkedOn(k)}

\* An iteration is left active only by the crash of the process that made it, however the
\* run is resumed, cancelled or answered meanwhile.
OrphanIterationsNeedCrashes == Cardinality(Orphans) <= crashes

ReasonsOf(status) ==
    CASE status = "completed" -> {"success", "clarification_answered"}
      [] status = "failed" -> {"max_iterations_reached"}
      [] status = "waiting_input" -> {"clarification_required", "resume_manual_review_required"}
      [] status = "blocked" -> {"intent_blocked"}
      [] status = "cancelled" -> {"cancelled", "user_rejected"}
      [] OTHER -> {""}

\* stop_reason explains the status of the run and never an earlier one, though each column
\* is written by itself, and only if it changes what the writer read.
StopReasonFitsStatus == run.stop \in ReasonsOf(run.status)

\* When no two processes work on the run at once, resume goes on where the iterations
\* ended: no index is used twice or left out, and none exceeds max_iterations.
IterationsInOrder == \A k \in 1..inserted : iterations[k].index = k /\ k <= run.max

\* A run that is running ends or waits, unless a process was killed.
RunEnds == run.status = "running" ~> (run.status # "running" \/ crashes > 0)

\* resume does not go on past a non-idempotent action that was interrupted.
InterruptedEffectsAreReviewed == \A k \in Orphans \cap effects : k = inserted
=============================================================================
