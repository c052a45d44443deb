------------------------------ MODULE TaskQueue ------------------------------
(***************************************************************************)
(* The task queue of AgentEnd: the tables "tasks", "schedules" and the     *)
(* status column of "agent_runs" in one SQLite database, used by           *)
(*   - worker processes (core/worker.py, AgentWorker.run_forever),         *)
(*   - one-shot command line processes (core/tasks.py, TaskManager, called *)
(*     by cli.py), and                                                     *)
(*   - the operator and the Telegram bot, whose single-transaction writes  *)
(*     are one action each.                                                *)
(* Every session_scope of the code is one action, or two: pysqlite starts  *)
(* the transaction at the first write, so a scope that decides by what it  *)
(* read before that may act on a stale row, and is split there.            *)
(* An operator named Faulty... is a definition with a bug put in.  None is *)
(* part of the specification: each shows that a property can fail.         *)
(***************************************************************************)
EXTENDS Integers, FiniteSets

CONSTANTS
    Workers,      \* agentend-worker processes
    Clients,      \* command line processes that run tasks themselves
    Schedules,    \* schedule ids
    CronDue,      \* the pairs <<schedule, minute>> at which a cron expression fires
    Threshold,    \* Schedule.max_consecutive_failures
    Commands,     \* what the operator and the bot do: a subset of AllCommands
    MaxTasks,     \* bound: rows of "tasks"
    MaxRuns,      \* bound: rows of "agent_runs"
    MaxMinutes,   \* bound: the clock
    MaxCommands,  \* bound: commands given
    MaxCrashes    \* bound: processes killed

AllCommands == {"add task", "resume task", "run task", "approve", "reject",
                "answer", "cancel run", "add schedule", "remove schedule", "run schedule", "tick"}

ASSUME ConstantsAssumption ==
    /\ Commands \subseteq AllCommands
    /\ CronDue \subseteq Schedules \X (1..MaxMinutes)
    /\ Threshold \in Nat \ {0}
    /\ MaxTasks \in Nat /\ MaxRuns \in Nat /\ MaxMinutes \in Nat
    /\ MaxCommands \in Nat /\ MaxCrashes \in Nat

Tasks == 1..MaxTasks    \* in the order of created_at
AgentRuns == 1..MaxRuns
None == 0               \* a null task, agent run or minute
NoSchedule == "no schedule"

ASSUME NoScheduleAssumption == NoSchedule \notin Schedules

VARIABLES
    tasks,      \* "tasks": status, agent_run_id, schedule_id; source; the minute that made it
    created,    \* how many tasks exist
    deferred,   \* the tasks whose retry_after_at lies in the future
    agents,     \* the status of each agent run
    started,    \* how many agent runs exist
    asking,     \* the agent runs with a pending clarification request
    schedules,  \* "schedules": status, consecutive_failures, last_triggered_at
    streak,     \* ghost: the failures in a row of each schedule, in the order they are recorded
    minute,     \* the wall clock
    worker,     \* the local state of each worker process
    client,     \* the local state of each command line process
    commands,   \* how many commands were given
    crashes     \* how many processes were killed

queue == <<tasks, created, deferred>>
runs  == <<agents, started, asking>>
plans == <<schedules, streak>>
world == <<minute, commands, crashes>>
vars  == <<queue, runs, plans, world, worker, client>>

TaskStatus     == {"absent", "pending", "running", "blocked", "completed", "failed"}
AgentStatus    == {"absent", "running", "waiting_input", "completed", "failed", "blocked",
                   "cancelled"}
ScheduleStatus == {"absent", "active", "paused", "removed"}
Minutes        == 1..MaxMinutes

WorkerSteps == {"idle", "enqueue", "mark", "claim", "claiming", "dispatch", "start",
                "resume", "reopen", "running", "resuming", "complete", "fail"}
ClientSteps == {"idle", "next", "insert", "start", "running", "record", "recording", "mark"}

IdleWorker == [pc |-> "idle", task |-> None, run |-> None, at |-> None,
               schedule |-> NoSchedule, due |-> {}]
IdleClient == [pc |-> "idle", task |-> None, at |-> None, schedule |-> NoSchedule,
               due |-> {}, failures |-> 0, ok |-> FALSE]

TaskRow == [status: TaskStatus, run: AgentRuns \cup {None},
            schedule: Schedules \cup {NoSchedule},
            source: {"", "manual", "scheduler", "approval"},
            minute: Minutes \cup {None}]

ScheduleRow == [status: ScheduleStatus, failures: Nat, triggered: Minutes \cup {None}]

WorkerState == [pc: WorkerSteps, task: Tasks \cup {None}, run: AgentRuns \cup {None},
                at: Minutes \cup {None}, schedule: Schedules \cup {NoSchedule},
                due: SUBSET Schedules]

ClientState == [pc: ClientSteps, task: Tasks \cup {None}, at: Minutes \cup {None},
                schedule: Schedules \cup {NoSchedule}, due: SUBSET Schedules,
                failures: Nat, ok: BOOLEAN]

TypeOK ==
    /\ tasks \in [Tasks -> TaskRow]
    /\ created \in 0..MaxTasks
    /\ deferred \subseteq Tasks
    /\ agents \in [AgentRuns -> AgentStatus]
    /\ started \in 0..MaxRuns
    /\ asking \subseteq AgentRuns
    /\ schedules \in [Schedules -> ScheduleRow]
    /\ streak \in [Schedules -> Nat]
    /\ minute \in Minutes \cup {None}
    /\ worker \in [Workers -> WorkerState]
    /\ client \in [Clients -> ClientState]
    /\ commands \in 0..MaxCommands
    /\ crashes \in 0..MaxCrashes

Init ==
    /\ tasks = [t \in Tasks |-> [status |-> "absent", run |-> None, schedule |-> NoSchedule,
                                 source |-> "", minute |-> None]]
    /\ created = 0
    /\ deferred = {}
    /\ agents = [r \in AgentRuns |-> "absent"]
    /\ started = 0
    /\ asking = {}
    /\ \E status \in [Schedules -> {"absent", "active"}] :
        schedules = [s \in Schedules |-> [status |-> status[s], failures |-> 0,
                                          triggered |-> None]]
    /\ streak = [s \in Schedules |-> 0]
    /\ minute = None
    /\ worker = [w \in Workers |-> IdleWorker]
    /\ client = [c \in Clients |-> IdleClient]
    /\ commands = 0
    /\ crashes = 0

-----------------------------------------------------------------------------
(* TaskManager.add_task, shared by every process that makes a task.        *)

FaultyNewTask(source, s, r, at) ==   \* a status that no other code knows
    [status |-> "queued", run |-> r, schedule |-> s, source |-> source, minute |-> at]

NewTask(source, s, r, at) ==
    [status |-> "pending", run |-> r, schedule |-> s, source |-> source, minute |-> at]

AddTask(task) ==
    /\ created < MaxTasks
    /\ created' = created + 1
    /\ tasks' = [tasks EXCEPT ![created + 1] = task]

SetStatus(t, status) == tasks' = [tasks EXCEPT ![t].status = status]

FaultyDueSchedules ==   \* last_triggered_at is not looked at
    {s \in Schedules : schedules[s].status = "active" /\ <<s, minute>> \in CronDue}

\* The schedules a process that looks at the table now finds due.
DueSchedules ==
    {s \in Schedules : /\ schedules[s].status = "active"
                       /\ <<s, minute>> \in CronDue
                       /\ schedules[s].triggered # minute}

FaultyRecorded(row, failures, ok) ==   \* off by one: > for >=
    LET count == IF ok THEN 0 ELSE failures + 1 IN
    [row EXCEPT !.failures = IF count = failures THEN @ ELSE count,
                !.status = IF count > Threshold THEN "paused" ELSE @]

\* What recording an outcome makes of a schedule's row, for a process that read
\* `failures` in it.  SQLAlchemy sends no UPDATE for a column set to the value read.
Recorded(row, failures, ok) ==
    LET count == IF ok THEN 0 ELSE failures + 1 IN
    [row EXCEPT !.failures = IF count = failures THEN @ ELSE count,
                !.status = IF count >= Threshold THEN "paused" ELSE @]

Exists(s) == s # NoSchedule /\ schedules[s].status \in {"active", "paused"}

-----------------------------------------------------------------------------
(* The worker: AgentWorker.run_once, one action per transaction.           *)

WorkerRests(w) == worker' = [worker EXCEPT ![w] = IdleWorker]

\* _enqueue_due_schedules reads the clock and the active schedules.
ScanSchedules(w) ==
    /\ worker[w].pc = "idle"
    /\ worker' = [worker EXCEPT ![w] = [@ EXCEPT
                    !.pc = IF DueSchedules = {} THEN "claim" ELSE "enqueue",
                    !.at = minute,
                    !.due = DueSchedules]]
    /\ UNCHANGED <<queue, runs, plans, world, client>>

\* What is left of the scan once schedule s is dealt with.
NextDueSchedule(w, s) ==
    worker' = [worker EXCEPT ![w] = [@ EXCEPT
                 !.pc = IF worker[w].due = {s} THEN "claim" ELSE "enqueue",
                 !.schedule = NoSchedule,
                 !.due = worker[w].due \ {s}]]

\* A schedule found due gets its task, whatever its status is by now ...
EnqueueDueSchedule(w, s) ==
    /\ worker[w].pc = "enqueue" /\ s \in worker[w].due /\ Exists(s)
    /\ AddTask(NewTask("scheduler", s, None, worker[w].at))
    /\ worker' = [worker EXCEPT ![w] = [@ EXCEPT !.pc = "mark", !.schedule = s]]
    /\ UNCHANGED <<deferred, runs, plans, world, client>>

\* ... unless it was removed since.
SkipRemovedSchedule(w, s) ==
    /\ worker[w].pc = "enqueue" /\ s \in worker[w].due /\ ~Exists(s)
    /\ NextDueSchedule(w, s)
    /\ UNCHANGED <<queue, runs, plans, world, client>>

\* last_triggered_at is written by a transaction of its own, after the task's.
MarkTriggered(w) ==
    LET s == worker[w].schedule IN
    /\ worker[w].pc = "mark"
    /\ schedules' = IF Exists(s) THEN [schedules EXCEPT ![s].triggered = worker[w].at]
                                 ELSE schedules
    /\ NextDueSchedule(w, s)
    /\ UNCHANGED <<queue, runs, streak, world, client>>

FaultyClaimable ==   \* takes over tasks that look abandoned
    {t \in Tasks : tasks[t].status \in {"pending", "running"} /\ t \notin deferred}

FaultyClaimableFirst ==   \* only the oldest pending task is looked at, be it deferred or not
    {t \in Tasks : /\ tasks[t].status = "pending" /\ t \notin deferred
                   /\ \A u \in Tasks : u < t => tasks[u].status # "pending"}

Claimable == {t \in Tasks : tasks[t].status = "pending" /\ t \notin deferred}

\* _claim_next_task, its SELECT ... ORDER BY created_at.  The row is kept: what the
\* worker later reads of its task is this copy.
SelectTask(w) ==
    /\ worker[w].pc = "claim"
    /\ \E t \in Claimable :
        /\ \A u \in Claimable : t <= u
        /\ worker' = [worker EXCEPT ![w] = [@ EXCEPT !.pc = "claiming", !.task = t,
                                                     !.run = tasks[t].run]]
    /\ UNCHANGED <<queue, runs, plans, world, client>>

NothingToClaim(w) ==
    /\ worker[w].pc = "claim" /\ Claimable = {}
    /\ WorkerRests(w)
    /\ UNCHANGED <<queue, runs, plans, world, client>>

\* _claim_next_task, its UPDATE ... WHERE id = ?: the status is not tested again.
ClaimTask(w) ==
    /\ worker[w].pc = "claiming"
    /\ SetStatus(worker[w].task, "running")
    /\ worker' = [worker EXCEPT ![w].pc = IF worker[w].run = None THEN "start" ELSE "dispatch"]
    /\ UNCHANGED <<created, deferred, runs, plans, world, client>>

\* A task that names an agent run is to resume it, if it still waits for input.
DispatchResume(w) ==
    /\ worker[w].pc = "dispatch"
    /\ worker' = [worker EXCEPT ![w].pc = IF agents[worker[w].run] = "waiting_input"
                                          THEN "resume" ELSE "fail"]
    /\ UNCHANGED <<queue, runs, plans, world, client>>

\* AgentRunController.run: the row of the new agent run is committed first.
StartAgentRun(w) ==
    /\ worker[w].pc = "start"
    /\ started < MaxRuns
    /\ started' = started + 1
    /\ agents' = [agents EXCEPT ![started + 1] = "running"]
    /\ worker' = [worker EXCEPT ![w] = [@ EXCEPT !.pc = "running", !.run = started + 1]]
    /\ UNCHANGED <<queue, asking, plans, world, client>>

\* AgentRunController.resume reads the run: one that ended meanwhile is returned as it is
\* and a cancelled one raises.  (A run that needs a manual review keeps waiting; that takes
\* a tool call committed while it runs, which AgentRun shows never is.)
ReadRunToResume(w) ==
    LET status == agents[worker[w].run] IN
    /\ worker[w].pc = "resume"
    /\ worker' = [worker EXCEPT ![w].pc = CASE status = "completed" -> "complete"
                                            [] status = "cancelled" -> "fail"
                                            [] status = "running" -> "resuming"
                                            [] OTHER -> "reopen"]
    /\ UNCHANGED <<queue, runs, plans, world, client>>

\* ... and reopens it with an UPDATE that tests nothing.
ReopenAgentRun(w) ==
    /\ worker[w].pc = "reopen"
    /\ agents' = [agents EXCEPT ![worker[w].run] = "running"]
    /\ worker' = [worker EXCEPT ![w].pc = "resuming"]
    /\ UNCHANGED <<queue, started, asking, plans, world, client>>

\* The run ends and writes its status over whatever is there.  Only the gate of a
\* fresh run leaves it waiting for input or blocked.
FinishAgentRun(w) ==
    /\ \E status \in {"completed", "failed", "waiting_input", "blocked"} :
        /\ worker[w].pc \in {"running", "resuming"}
        /\ worker[w].pc = "resuming" => status \in {"completed", "failed"}
        /\ agents' = [agents EXCEPT ![worker[w].run] = status]
        /\ asking' = IF status = "waiting_input" THEN asking \cup {worker[w].run} ELSE asking
    /\ worker' = [worker EXCEPT ![w].pc = "complete"]
    /\ UNCHANGED <<queue, started, plans, world, client>>

\* An exception out of a resumed run is caught; out of a fresh one it ends the process
\* (WorkerCrashes).
ResumeRaises(w) ==
    /\ worker[w].pc = "resuming"
    /\ worker' = [worker EXCEPT ![w].pc = "fail"]
    /\ UNCHANGED <<queue, runs, plans, world, client>>

FaultyFailTask(w) ==   \* returns without writing the task
    /\ worker[w].pc = "fail"
    /\ WorkerRests(w)
    /\ UNCHANGED <<queue, runs, plans, world, client>>

FailTask(w) ==
    /\ worker[w].pc = "fail"
    /\ SetStatus(worker[w].task, "failed")
    /\ WorkerRests(w)
    /\ UNCHANGED <<created, deferred, runs, plans, world, client>>

\* _complete_task: the task takes the agent run's status and its schedule counts the
\* outcome, in one transaction that has written before it reads the schedule.
CompleteTask(w) ==
    LET t == worker[w].task
        s == tasks[t].schedule
        ok == agents[worker[w].run] = "completed" IN
    /\ worker[w].pc = "complete"
    /\ tasks' = [tasks EXCEPT ![t] = [@ EXCEPT !.status = IF ok THEN "completed" ELSE "failed",
                                               !.run = worker[w].run]]
    /\ IF Exists(s)
       THEN /\ schedules' = [schedules EXCEPT ![s] = Recorded(@, @.failures, ok)]
            /\ streak' = [streak EXCEPT ![s] = IF ok THEN 0 ELSE @ + 1]
       ELSE UNCHANGED plans
    /\ WorkerRests(w)
    /\ UNCHANGED <<created, deferred, runs, world, client>>

WorkerStep(w) ==
    \/ ScanSchedules(w)
    \/ \E s \in Schedules : EnqueueDueSchedule(w, s) \/ SkipRemovedSchedule(w, s)
    \/ MarkTriggered(w) \/ SelectTask(w) \/ NothingToClaim(w) \/ ClaimTask(w)
    \/ DispatchResume(w) \/ StartAgentRun(w) \/ ReadRunToResume(w) \/ ReopenAgentRun(w)
    \/ FinishAgentRun(w) \/ ResumeRaises(w) \/ FailTask(w) \/ CompleteTask(w)

\* Killed at any point, or ended by an exception; systemd starts it again.
WorkerCrashes(w) ==
    /\ worker[w].pc # "idle"
    /\ crashes < MaxCrashes
    /\ crashes' = crashes + 1
    /\ WorkerRests(w)
    /\ UNCHANGED <<queue, runs, plans, minute, commands, client>>

-----------------------------------------------------------------------------
(* Command line processes: "tasks run", "schedule run-now", "schedule tick". *)

Command(name) ==
    /\ name \in Commands
    /\ commands < MaxCommands
    /\ commands' = commands + 1
    /\ UNCHANGED <<minute, crashes>>

ClientRests(c) == client' = [client EXCEPT ![c] = IdleClient]

\* tasks run: any task, whatever its status.
RunTaskCommand(c) ==
    /\ client[c].pc = "idle"
    /\ Command("run task")
    /\ \E t \in 1..created :
        client' = [client EXCEPT ![c] = [@ EXCEPT !.pc = "start", !.task = t]]
    /\ UNCHANGED <<queue, runs, plans, worker>>

\* schedule run-now: refused unless the schedule is active.
RunScheduleCommand(c) ==
    /\ client[c].pc = "idle"
    /\ Command("run schedule")
    /\ \E s \in Schedules :
        /\ schedules[s].status = "active"
        /\ client' = [client EXCEPT ![c] = [@ EXCEPT !.pc = "insert", !.schedule = s]]
    /\ UNCHANGED <<queue, runs, plans, worker>>

\* schedule tick: the list of due schedules is read once.
TickCommand(c) ==
    /\ client[c].pc = "idle"
    /\ DueSchedules # {}
    /\ Command("tick")
    /\ client' = [client EXCEPT ![c] = [@ EXCEPT !.pc = "next", !.at = minute,
                                                 !.due = DueSchedules]]
    /\ UNCHANGED <<queue, runs, plans, worker>>

\* run_due_schedules takes the next one; run_schedule_now raises if it is no longer
\* active, which ends the process.
NextScheduleOfTick(c) ==
    /\ client[c].pc = "next"
    /\ \E s \in client[c].due :
        IF schedules[s].status = "active"
        THEN client' = [client EXCEPT ![c] = [@ EXCEPT !.pc = "insert", !.schedule = s]]
        ELSE ClientRests(c)
    /\ UNCHANGED <<queue, runs, plans, world, worker>>

\* The new task is pending, and so is claimable, until RunTask.
InsertScheduleTask(c) ==
    /\ client[c].pc = "insert"
    /\ AddTask(NewTask("scheduler", client[c].schedule, None, client[c].at))
    /\ client' = [client EXCEPT ![c] = [@ EXCEPT !.pc = "start", !.task = created + 1]]
    /\ UNCHANGED <<deferred, runs, plans, world, worker>>

\* run_task, the first transaction: no test of the status.
RunTask(c) ==
    /\ client[c].pc = "start"
    /\ SetStatus(client[c].task, "running")
    /\ client' = [client EXCEPT ![c].pc = "running"]
    /\ UNCHANGED <<created, deferred, runs, plans, world, worker>>

\* run_task, after WorkflowRunner.run returned or raised.
FinishTask(c) ==
    /\ client[c].pc = "running"
    /\ \E status \in {"completed", "blocked", "failed"} :
        /\ SetStatus(client[c].task, status)
        /\ IF client[c].schedule = NoSchedule
           THEN ClientRests(c)
           ELSE client' = [client EXCEPT ![c] = [@ EXCEPT !.pc = "record",
                                                         !.ok = (status = "completed")]]
    /\ UNCHANGED <<created, deferred, runs, plans, world, worker>>

\* run_schedule_now reads the schedule again, outside any transaction; a removed one
\* raises.
ReadSchedule(c) ==
    LET s == client[c].schedule IN
    /\ client[c].pc = "record"
    /\ IF Exists(s)
       THEN client' = [client EXCEPT ![c] = [@ EXCEPT !.pc = "recording",
                                                     !.failures = schedules[s].failures]]
       ELSE ClientRests(c)
    /\ UNCHANGED <<queue, runs, plans, world, worker>>

\* _record_schedule_outcome as it is committed: the counter it read, plus one or zeroed.
RecordOutcome(c) ==
    LET s == client[c].schedule
        ok == client[c].ok
        ticking == client[c].due # {} IN
    /\ client[c].pc = "recording"
    /\ IF Exists(s)
       THEN /\ schedules' = [schedules EXCEPT ![s] = Recorded(@, client[c].failures, ok)]
            /\ streak' = [streak EXCEPT ![s] = IF ok THEN 0 ELSE @ + 1]
            /\ IF ticking THEN client' = [client EXCEPT ![c].pc = "mark"] ELSE ClientRests(c)
       ELSE ClientRests(c) /\ UNCHANGED plans
    /\ UNCHANGED <<queue, runs, world, worker>>

\* run_due_schedules: last_triggered_at is written when the run is over.
MarkTicked(c) ==
    LET s == client[c].schedule IN
    /\ client[c].pc = "mark"
    /\ IF Exists(s)
       THEN /\ schedules' = [schedules EXCEPT ![s].triggered = client[c].at]
            /\ IF client[c].due = {s}
               THEN ClientRests(c)
               ELSE client' = [client EXCEPT ![c] = [IdleClient EXCEPT !.pc = "next",
                                     !.at = client[c].at, !.due = client[c].due \ {s}]]
       ELSE ClientRests(c) /\ UNCHANGED schedules
    /\ UNCHANGED <<queue, runs, streak, world, worker>>

ClientStep(c) ==
    \/ NextScheduleOfTick(c) \/ InsertScheduleTask(c) \/ RunTask(c) \/ FinishTask(c)
    \/ ReadSchedule(c) \/ RecordOutcome(c) \/ MarkTicked(c)

ClientCommand(c) == RunTaskCommand(c) \/ RunScheduleCommand(c) \/ TickCommand(c)

\* Ctrl-C: KeyboardInterrupt is not an Exception, so nothing marks the task.
ClientKilled(c) ==
    /\ client[c].pc # "idle"
    /\ crashes < MaxCrashes
    /\ crashes' = crashes + 1
    /\ ClientRests(c)
    /\ UNCHANGED <<queue, runs, plans, minute, commands, worker>>

-----------------------------------------------------------------------------
(* The operator and the bot, and time.                                     *)

AddTaskCommand ==
    /\ Command("add task")
    /\ AddTask(NewTask("manual", NoSchedule, None, None))
    /\ deferred' \in {deferred, deferred \cup {created + 1}}
    /\ UNCHANGED <<runs, plans, worker, client>>

\* tasks resume: pending again, whatever the status was; agent_run_id stays.
ResumeTaskCommand ==
    /\ Command("resume task")
    /\ \E t \in 1..created : SetStatus(t, "pending")
    /\ UNCHANGED <<created, deferred, runs, plans, worker, client>>

FaultyHasOpenTask(r) ==   \* counts tasks that ended
    \E t \in Tasks : tasks[t].run = r /\ tasks[t].status # "absent"

HasOpenTask(r) ==
    \E t \in Tasks : tasks[t].run = r /\ tasks[t].status \in {"pending", "running"}

FaultyApproveCommand ==   \* the clarification stays pending
    /\ Command("approve")
    /\ \E r \in asking :
        /\ ~HasOpenTask(r)
        /\ AddTask(NewTask("approval", NoSchedule, r, None))
    /\ UNCHANGED <<deferred, runs, plans, worker, client>>

\* A clarification is approved and, in the same transaction, a task enqueued to resume
\* the run unless one is pending or running (enqueue_resume_intent).
ApproveCommand ==
    /\ Command("approve")
    /\ \E r \in asking :
        /\ asking' = asking \ {r}
        /\ IF HasOpenTask(r)
           THEN UNCHANGED <<tasks, created>>
           ELSE AddTask(NewTask("approval", NoSchedule, r, None))
    /\ UNCHANGED <<deferred, agents, started, plans, worker, client>>

RejectCommand ==
    /\ Command("reject")
    /\ \E r \in asking :
        /\ asking' = asking \ {r}
        /\ agents' = [agents EXCEPT ![r] = "cancelled"]
    /\ UNCHANGED <<queue, started, plans, worker, client>>

\* A text answer completes the run without the worker, whatever its status.
AnswerCommand ==
    /\ Command("answer")
    /\ \E r \in asking :
        /\ asking' = asking \ {r}
        /\ agents' = [agents EXCEPT ![r] = "completed"]
    /\ UNCHANGED <<queue, started, plans, worker, client>>

\* agent cancel: whatever the status was; the clarification stays pending.
CancelRunCommand ==
    /\ Command("cancel run")
    /\ \E r \in 1..started : agents' = [agents EXCEPT ![r] = "cancelled"]
    /\ UNCHANGED <<queue, started, asking, plans, worker, client>>

AddScheduleCommand ==
    /\ Command("add schedule")
    /\ \E s \in Schedules, status \in {"active", "paused"} :
        /\ schedules[s].status = "absent"
        /\ schedules' = [schedules EXCEPT ![s].status = status]
    /\ UNCHANGED <<queue, runs, streak, worker, client>>

RemoveScheduleCommand ==
    /\ Command("remove schedule")
    /\ \E s \in Schedules :
        /\ Exists(s)
        /\ schedules' = [schedules EXCEPT ![s].status = "removed"]
    /\ UNCHANGED <<queue, runs, streak, worker, client>>

OperatorCommand ==
    \/ AddTaskCommand \/ ResumeTaskCommand \/ ApproveCommand \/ RejectCommand
    \/ AnswerCommand \/ CancelRunCommand \/ AddScheduleCommand \/ RemoveScheduleCommand

MinutePasses ==
    /\ minute < MaxMinutes
    /\ minute' = minute + 1
    /\ UNCHANGED <<queue, runs, plans, commands, crashes, worker, client>>

RetryAfterPasses ==
    /\ \E t \in deferred : deferred' = deferred \ {t}
    /\ UNCHANGED <<tasks, created, runs, plans, world, worker, client>>

Next ==
    \/ \E w \in Workers : WorkerStep(w) \/ WorkerCrashes(w)
    \/ \E c \in Clients : ClientCommand(c) \/ ClientStep(c) \/ ClientKilled(c)
    \/ OperatorCommand
    \/ MinutePasses
    \/ RetryAfterPasses

Spec == Init /\ [][Next]_vars

\* A worker polls for ever, and what it calls ends: models and tools have time limits.
Fairness == \A w \in Workers : WF_vars(WorkerStep(w))

FairSpec == Spec /\ Fairness

-----------------------------------------------------------------------------
(* Properties.                                                             *)

ExecutedBy(w, t) ==
    worker[w].task = t /\ worker[w].pc \notin {"idle", "enqueue", "mark", "claim", "claiming"}

Executed(t) ==
    \/ \E w \in Workers : ExecutedBy(w, t)
    \/ \E c \in Clients : client[c].task = t /\ client[c].pc = "running"

\* A task is left "running" with nobody running it only by killing a process, and each
\* killed process leaves one at most: every way out of an execution that the code handles
\* (a failed run, a refused resume, an exception in it) ends the task.
OrphansNeedCrashes ==
    Cardinality({t \in Tasks : tasks[t].status = "running" /\ ~Executed(t)}) <= crashes

\* max_consecutive_failures: a schedule that failed that often in a row is paused.
FailingSchedulePauses ==
    \A s \in Schedules : streak[s] >= Threshold /\ Exists(s) => schedules[s].status = "paused"

TasksOfMinute(s, m) ==
    {t \in Tasks : tasks[t].source = "scheduler" /\ tasks[t].schedule = s /\ tasks[t].minute = m}

\* last_triggered_at keeps a schedule from firing twice in a minute, as long as one worker
\* alone fires it: killed between adding the task and writing it, the worker fires again,
\* once for each such crash.
RefiresNeedCrashes ==
    \A s \in Schedules, m \in Minutes : Cardinality(TasksOfMinute(s, m)) <= 1 + crashes

\* An agent run that waits for input can be woken: its question is pending, or a task to
\* resume it is.  No approval falls between the two.
WaitingRunsAreReachable ==
    \A r \in AgentRuns : agents[r] = "waiting_input" =>
        r \in asking \/ \E t \in Tasks : tasks[t].run = r /\ tasks[t].status \in {"pending", "running"}

\* A completed agent run is not run again, nor its result replaced: at most it is
\* cancelled.
CompletedRunsStay ==
    [][\A r \in AgentRuns : agents[r] = "completed" => agents'[r] \in {"completed", "cancelled"}]_vars

\* Every task that may be claimed is, as long as a worker keeps being restarted.
PendingTasksAreServed ==
    \A t \in Tasks : (tasks[t].status = "pending" /\ t \notin deferred) ~> tasks[t].status # "pending"

\* The queue as TaskLifecycle sees it: the holder of a task is the worker executing it.
Nobody == "nobody"
HolderOf(t) ==
    IF \E w \in Workers : ExecutedBy(w, t) THEN CHOOSE w \in Workers : ExecutedBy(w, t)
                                           ELSE Nobody

Lifecycle == INSTANCE TaskLifecycle WITH
    Holders <- Workers,
    status  <- [t \in Tasks |-> tasks[t].status],
    holder  <- [t \in Tasks |-> HolderOf(t)]

\* One worker, no process beside it that runs or resumes tasks: a task is claimed once
\* and ended by who claimed it.
ImplementsLifecycle == Lifecycle!Spec
=============================================================================
