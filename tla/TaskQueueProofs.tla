--------------------------- MODULE TaskQueueProofs ---------------------------
(* What TaskQueue guarantees for any number of workers, command line         *)
(* processes, schedules and tasks, and any bounds.                           *)
EXTENDS TaskQueue, FiniteSetTheorems, TLAPS

-----------------------------------------------------------------------------
(* Type correctness.                                                         *)

LEMMA AddTaskTyped ==
    ASSUME TypeOK, NEW task \in TaskRow, AddTask(task)
    PROVE  /\ tasks' \in [Tasks -> TaskRow]
           /\ created' \in 0..MaxTasks
           /\ created + 1 \in Tasks
BY ConstantsAssumption DEF TypeOK, AddTask, Tasks

LEMMA CommandTyped ==
    ASSUME TypeOK, NEW name, Command(name)
    PROVE  commands' \in 0..MaxCommands /\ minute' = minute /\ crashes' = crashes
BY ConstantsAssumption DEF TypeOK, Command

LEMMA NewTaskTyped ==
    ASSUME NEW source \in {"manual", "scheduler", "approval"},
           NEW s \in Schedules \cup {NoSchedule},
           NEW r \in AgentRuns \cup {None},
           NEW m \in Minutes \cup {None}
    PROVE  NewTask(source, s, r, m) \in TaskRow
BY DEF NewTask, TaskRow, TaskStatus

LEMMA SetStatusTyped ==
    ASSUME TypeOK, NEW t, NEW status \in TaskStatus, SetStatus(t, status)
    PROVE  tasks' \in [Tasks -> TaskRow]
<1>1. CASE t \in Tasks
  <2>1. [tasks[t] EXCEPT !.status = status] \in TaskRow
    BY <1>1 DEF TypeOK, TaskRow
  <2> QED
    BY <2>1 DEF TypeOK, SetStatus
<1>2. CASE t \notin Tasks
  BY <1>2 DEF TypeOK, SetStatus
<1> QED
  BY <1>1, <1>2

LEMMA WorkerRestsTyped ==
    ASSUME TypeOK, NEW w \in Workers, WorkerRests(w)
    PROVE  worker' \in [Workers -> WorkerState]
BY DEF TypeOK, WorkerRests, IdleWorker, WorkerState, WorkerSteps

\* A worker, or a client, that goes to its next step and keeps the rest of its state.
LEMMA WorkerGoes ==
    ASSUME TypeOK, NEW w \in Workers, NEW step \in WorkerSteps,
           worker' = [worker EXCEPT ![w].pc = step]
    PROVE  worker' \in [Workers -> WorkerState]
<1>1. [worker[w] EXCEPT !.pc = step] \in WorkerState
  BY DEF TypeOK, WorkerState
<1> QED
  BY <1>1 DEF TypeOK

LEMMA ClientGoes ==
    ASSUME TypeOK, NEW c \in Clients, NEW step \in ClientSteps,
           client' = [client EXCEPT ![c].pc = step]
    PROVE  client' \in [Clients -> ClientState]
<1>1. [client[c] EXCEPT !.pc = step] \in ClientState
  BY DEF TypeOK, ClientState
<1> QED
  BY <1>1 DEF TypeOK

LEMMA ClientRestsTyped ==
    ASSUME TypeOK, NEW c \in Clients, ClientRests(c)
    PROVE  client' \in [Clients -> ClientState]
BY DEF TypeOK, ClientRests, IdleClient, ClientState, ClientSteps

LEMMA RecordedTyped ==
    ASSUME NEW row \in ScheduleRow, NEW failures \in Nat, NEW ok \in BOOLEAN
    PROVE  Recorded(row, failures, ok) \in ScheduleRow
<1> DEFINE count == IF ok THEN 0 ELSE failures + 1
<1>1. count \in Nat
  OBVIOUS
<1> HIDE DEF count
<1>2. [row EXCEPT !.failures = IF count = failures THEN row.failures ELSE count,
                  !.status = IF count >= Threshold THEN "paused" ELSE row.status]
        \in ScheduleRow
  BY <1>1 DEF ScheduleRow, ScheduleStatus
<1> QED
  BY <1>2 DEF Recorded, count

LEMMA DueSchedulesTyped == DueSchedules \in SUBSET Schedules
BY DEF DueSchedules

LEMMA NextDueScheduleTyped ==
    ASSUME TypeOK, NEW w \in Workers, NEW s, NextDueSchedule(w, s)
    PROVE  worker' \in [Workers -> WorkerState]
<1> DEFINE rest == worker[w].due \ {s}
           next == IF worker[w].due = {s} THEN "claim" ELSE "enqueue"
<1>1. worker[w] \in WorkerState /\ rest \in SUBSET Schedules
  BY DEF TypeOK, WorkerState
<1>2. next \in WorkerSteps
  BY DEF WorkerSteps
<1>3. worker' = [worker EXCEPT ![w] = [@ EXCEPT !.pc = next, !.schedule = NoSchedule,
                                                !.due = rest]]
  BY DEF NextDueSchedule
<1> HIDE DEF rest, next
<1>4. [worker[w] EXCEPT !.pc = next, !.schedule = NoSchedule, !.due = rest] \in WorkerState
  BY <1>1, <1>2 DEF WorkerState
<1> QED
  BY <1>3, <1>4 DEF TypeOK

LEMMA WorkerStepTyped ==
    ASSUME TypeOK, NEW w \in Workers, WorkerStep(w)
    PROVE  TypeOK'
<1> USE DEF queue, runs, plans, world
<1>1. CASE ScanSchedules(w)
  <2>1. worker' \in [Workers -> WorkerState]
    <3> DEFINE step == IF DueSchedules = {} THEN "claim" ELSE "enqueue"
    <3>1. step \in WorkerSteps /\ minute \in Minutes \cup {None}
      BY DEF TypeOK, WorkerSteps
    <3>2. worker' = [worker EXCEPT ![w] = [@ EXCEPT !.pc = step, !.at = minute,
                                                    !.due = DueSchedules]]
      BY <1>1 DEF ScanSchedules
    <3> HIDE DEF step
    <3>3. [worker[w] EXCEPT !.pc = step, !.at = minute, !.due = DueSchedules] \in WorkerState
      BY <3>1, DueSchedulesTyped DEF TypeOK, WorkerState
    <3> QED
      BY <3>2, <3>3 DEF TypeOK
  <2> QED
    BY <1>1, <2>1 DEF TypeOK, ScanSchedules
<1>2. ASSUME NEW s \in Schedules, EnqueueDueSchedule(w, s) PROVE TypeOK'
  <2>1. worker[w].at \in Minutes \cup {None}
    BY DEF TypeOK, WorkerState
  <2>2. tasks' \in [Tasks -> TaskRow] /\ created' \in 0..MaxTasks
    BY <1>2, <2>1, AddTaskTyped, NewTaskTyped DEF EnqueueDueSchedule
  <2>3. worker' \in [Workers -> WorkerState]
    <3>1. [worker[w] EXCEPT !.pc = "mark", !.schedule = s] \in WorkerState
      BY SMTT(30), ZenonT(60) DEF TypeOK, WorkerState, WorkerSteps
    <3>2. worker' = [worker EXCEPT ![w] = [@ EXCEPT !.pc = "mark", !.schedule = s]]
      BY <1>2 DEF EnqueueDueSchedule
    <3> QED
      BY <3>1, <3>2 DEF TypeOK
  <2> QED
    BY <1>2, <2>2, <2>3 DEF TypeOK, EnqueueDueSchedule
<1>3. ASSUME NEW s \in Schedules, SkipRemovedSchedule(w, s) PROVE TypeOK'
  <2>1. worker' \in [Workers -> WorkerState]
    BY <1>3, NextDueScheduleTyped DEF SkipRemovedSchedule
  <2> QED
    BY <1>3, <2>1 DEF TypeOK, SkipRemovedSchedule
<1>4. CASE MarkTriggered(w)
  <2>1. worker' \in [Workers -> WorkerState]
    BY <1>4, NextDueScheduleTyped DEF MarkTriggered
  <2>2. worker[w].at \in Minutes \cup {None}
    BY DEF TypeOK, WorkerState
  <2>3. schedules' \in [Schedules -> ScheduleRow]
    <3>1. \A s \in Schedules : [schedules[s] EXCEPT !.triggered = worker[w].at] \in ScheduleRow
      BY <2>2 DEF TypeOK, ScheduleRow
    <3>2. \/ schedules' = [schedules EXCEPT ![worker[w].schedule].triggered = worker[w].at]
          \/ UNCHANGED schedules
      BY <1>4 DEF MarkTriggered
    <3> QED
      BY <3>1, <3>2 DEF TypeOK
  <2> QED
    BY <1>4, <2>1, <2>3 DEF TypeOK, MarkTriggered
<1>5. CASE SelectTask(w)
  <2>1. \A t \in Tasks : tasks[t].run \in AgentRuns \cup {None}
    BY DEF TypeOK, TaskRow
  <2>2. worker' \in [Workers -> WorkerState]
    <3>1. PICK t \in Tasks : worker' = [worker EXCEPT ![w] = [@ EXCEPT !.pc = "claiming",
                                                     !.task = t, !.run = tasks[t].run]]
      BY <1>5 DEF SelectTask, Claimable
    <3>2. [worker[w] EXCEPT !.pc = "claiming", !.task = t, !.run = tasks[t].run] \in WorkerState
      BY <2>1, ZenonT(60) DEF TypeOK, WorkerState, WorkerSteps
    <3> QED
      BY <3>1, <3>2 DEF TypeOK
  <2> QED
    BY <1>5, <2>2 DEF TypeOK, SelectTask
<1>6. CASE NothingToClaim(w)
  BY <1>6, WorkerRestsTyped DEF TypeOK, NothingToClaim
<1>7. CASE ClaimTask(w)
  <2>1. worker' \in [Workers -> WorkerState]
    BY <1>7, WorkerGoes DEF ClaimTask, WorkerSteps
  <2>2. tasks' \in [Tasks -> TaskRow]
    BY <1>7, SetStatusTyped DEF ClaimTask, TaskStatus
  <2> QED
    BY <1>7, <2>1, <2>2 DEF TypeOK, ClaimTask
<1>8. CASE DispatchResume(w)
  <2>1. worker' \in [Workers -> WorkerState]
    BY <1>8, WorkerGoes DEF DispatchResume, WorkerSteps
  <2> QED
    BY <1>8, <2>1 DEF TypeOK, DispatchResume
<1>9. CASE StartAgentRun(w)
  <2>1. started' \in 0..MaxRuns /\ started + 1 \in AgentRuns
    BY <1>9, ConstantsAssumption DEF TypeOK, StartAgentRun, AgentRuns
  <2>2. worker' \in [Workers -> WorkerState]
    <3> DEFINE r == started + 1
    <3>1. r \in AgentRuns
      BY <2>1
    <3>2. worker' = [worker EXCEPT ![w] = [@ EXCEPT !.pc = "running", !.run = r]]
      BY <1>9 DEF StartAgentRun
    <3> HIDE DEF r
    <3>3. [worker[w] EXCEPT !.pc = "running", !.run = r] \in WorkerState
      BY <3>1, ZenonT(60) DEF TypeOK, WorkerState, WorkerSteps
    <3> QED
      BY <3>2, <3>3 DEF TypeOK
  <2>3. agents' \in [AgentRuns -> AgentStatus]
    BY <1>9 DEF TypeOK, StartAgentRun, AgentStatus
  <2> QED
    BY <1>9, <2>1, <2>2, <2>3 DEF TypeOK, StartAgentRun
<1>10. CASE ReadRunToResume(w)
  <2>1. PICK step \in {"complete", "fail", "resuming", "reopen"} :
          worker' = [worker EXCEPT ![w].pc = step]
    BY <1>10 DEF ReadRunToResume
  <2>2. step \in WorkerSteps
    BY <2>1 DEF WorkerSteps
  <2>4. worker' \in [Workers -> WorkerState]
    BY <2>1, <2>2, WorkerGoes
  <2> QED
    BY <1>10, <2>4 DEF TypeOK, ReadRunToResume
<1>11. CASE ReopenAgentRun(w)
  <2>1. worker' \in [Workers -> WorkerState]
    BY <1>11, WorkerGoes DEF ReopenAgentRun, WorkerSteps
  <2>2. agents' \in [AgentRuns -> AgentStatus]
    BY <1>11 DEF TypeOK, ReopenAgentRun, AgentStatus
  <2> QED
    BY <1>11, <2>1, <2>2 DEF TypeOK, ReopenAgentRun
<1>12. CASE FinishAgentRun(w)
  <2>1. worker' \in [Workers -> WorkerState]
    BY <1>12, WorkerGoes DEF FinishAgentRun, WorkerSteps
  <2>2. worker[w].run \in AgentRuns \cup {None}
    BY DEF TypeOK, WorkerState
  <2>3. agents' \in [AgentRuns -> AgentStatus]
    BY <1>12 DEF TypeOK, FinishAgentRun, AgentStatus
  <2> QED
    BY <1>12, <2>1, <2>2, <2>3 DEF TypeOK, FinishAgentRun
<1>13. CASE ResumeRaises(w)
  <2>1. worker' \in [Workers -> WorkerState]
    BY <1>13, WorkerGoes DEF ResumeRaises, WorkerSteps
  <2> QED
    BY <1>13, <2>1 DEF TypeOK, ResumeRaises
<1>14. CASE FailTask(w)
  <2>1. tasks' \in [Tasks -> TaskRow]
    BY <1>14, SetStatusTyped DEF FailTask, TaskStatus
  <2> QED
    BY <1>14, <2>1, WorkerRestsTyped DEF TypeOK, FailTask
<1>15. CASE CompleteTask(w)
  <2> DEFINE t == worker[w].task
             s == tasks[t].schedule
             ok == agents[worker[w].run] = "completed"
  <2>1. tasks' \in [Tasks -> TaskRow]
    <3>1. worker[w].run \in AgentRuns \cup {None}
      BY DEF TypeOK, WorkerState
    <3> DEFINE status == IF ok THEN "completed" ELSE "failed"
    <3>2. status \in TaskStatus
      BY DEF TaskStatus
    <3>3. tasks' = [tasks EXCEPT ![t] = [@ EXCEPT !.status = status, !.run = worker[w].run]]
      BY <1>15 DEF CompleteTask
    <3> HIDE DEF t, ok, status
    <3>4. \A u \in Tasks : [tasks[u] EXCEPT !.status = status, !.run = worker[w].run] \in TaskRow
      BY <3>1, <3>2 DEF TypeOK, TaskRow
    <3> QED
      BY <3>3, <3>4 DEF TypeOK
  <2>2. CASE Exists(s)
    <3>1. schedules' = [schedules EXCEPT ![s] = Recorded(schedules[s], schedules[s].failures, ok)]
      BY <1>15, <2>2 DEF CompleteTask
    <3>2. \A x \in Schedules : Recorded(schedules[x], schedules[x].failures, ok) \in ScheduleRow
      <4>1. \A x \in Schedules : schedules[x] \in ScheduleRow /\ schedules[x].failures \in Nat
        BY DEF TypeOK, ScheduleRow
      <4>2. ok \in BOOLEAN
        OBVIOUS
      <4> QED
        BY <4>1, <4>2, RecordedTyped
    <3>3. schedules' \in [Schedules -> ScheduleRow]
      <4> HIDE DEF s, ok
      <4> QED
        BY <3>1, <3>2 DEF TypeOK
    <3>4. streak' \in [Schedules -> Nat]
      BY <1>15, <2>2 DEF TypeOK, CompleteTask
    <3> QED
      BY <1>15, <2>1, <3>3, <3>4, WorkerRestsTyped DEF TypeOK, CompleteTask
  <2>3. CASE ~Exists(s)
    BY <1>15, <2>1, <2>3, WorkerRestsTyped DEF TypeOK, CompleteTask
  <2> QED
    BY <2>2, <2>3
<1> QED
  BY <1>1, <1>2, <1>3, <1>4, <1>5, <1>6, <1>7, <1>8, <1>9, <1>10, <1>11, <1>12, <1>13,
     <1>14, <1>15
  DEF WorkerStep

LEMMA ClientActionTyped ==
    ASSUME TypeOK, NEW c \in Clients, ClientCommand(c) \/ ClientStep(c)
    PROVE  TypeOK'
<1> USE DEF queue, runs, plans, world
<1> DEFINE st == client[c]
<1>0. st \in ClientState /\ minute \in Minutes \cup {None}
  BY DEF TypeOK
<1>1. CASE RunTaskCommand(c)
  <2>1. \A t \in 1..created : t \in Tasks
    BY ConstantsAssumption DEF TypeOK, Tasks
  <2>2. \A t \in 1..created : [st EXCEPT !.pc = "start", !.task = t] \in ClientState
    BY <1>0, <2>1 DEF ClientState, ClientSteps
  <2>3. client' \in [Clients -> ClientState]
    BY <1>1, <2>2 DEF TypeOK, RunTaskCommand
  <2>4. commands' \in 0..MaxCommands /\ minute' = minute /\ crashes' = crashes
    BY <1>1, CommandTyped DEF RunTaskCommand
  <2> QED
    BY <1>1, <2>3, <2>4 DEF TypeOK, RunTaskCommand
<1>2. CASE RunScheduleCommand(c)
  <2>1. \A s \in Schedules : [st EXCEPT !.pc = "insert", !.schedule = s] \in ClientState
    BY <1>0 DEF ClientState, ClientSteps
  <2>2. client' \in [Clients -> ClientState]
    BY <1>2, <2>1 DEF TypeOK, RunScheduleCommand
  <2>3. commands' \in 0..MaxCommands /\ minute' = minute /\ crashes' = crashes
    BY <1>2, CommandTyped DEF RunScheduleCommand
  <2> QED
    BY <1>2, <2>2, <2>3 DEF TypeOK, RunScheduleCommand
<1>3. CASE TickCommand(c)
  <2>1. [st EXCEPT !.pc = "next", !.at = minute, !.due = DueSchedules] \in ClientState
    BY <1>0, DueSchedulesTyped DEF ClientState, ClientSteps
  <2>2. client' \in [Clients -> ClientState]
    BY <1>3, <2>1 DEF TypeOK, TickCommand
  <2>3. commands' \in 0..MaxCommands /\ minute' = minute /\ crashes' = crashes
    BY <1>3, CommandTyped DEF TickCommand
  <2> QED
    BY <1>3, <2>2, <2>3 DEF TypeOK, TickCommand
<1>4. CASE NextScheduleOfTick(c)
  <2>1. \A s \in Schedules : [st EXCEPT !.pc = "insert", !.schedule = s] \in ClientState
    BY <1>0 DEF ClientState, ClientSteps
  <2>2. st.due \in SUBSET Schedules
    BY <1>0 DEF ClientState
  <2>3. client' \in [Clients -> ClientState]
    <3>1. PICK s \in st.due : IF schedules[s].status = "active"
              THEN client' = [client EXCEPT ![c] = [@ EXCEPT !.pc = "insert", !.schedule = s]]
              ELSE ClientRests(c)
      BY <1>4 DEF NextScheduleOfTick
    <3>2. CASE schedules[s].status = "active"
      BY <2>1, <2>2, <3>1, <3>2, ZenonT(60) DEF TypeOK
    <3>3. CASE schedules[s].status # "active"
      BY <3>1, <3>3, ClientRestsTyped
    <3> QED
      BY <3>2, <3>3
  <2> QED
    BY <1>4, <2>3 DEF TypeOK, NextScheduleOfTick
<1>5. CASE InsertScheduleTask(c)
  <2>1. st.schedule \in Schedules \cup {NoSchedule} /\ st.at \in Minutes \cup {None}
    BY <1>0 DEF ClientState
  <2>2. tasks' \in [Tasks -> TaskRow] /\ created' \in 0..MaxTasks /\ created + 1 \in Tasks
    BY <1>5, <2>1, AddTaskTyped, NewTaskTyped DEF InsertScheduleTask
  <2>4. [st EXCEPT !.pc = "start", !.task = created + 1] \in ClientState
    BY <1>0, <2>2 DEF ClientState, ClientSteps
  <2>5. client' \in [Clients -> ClientState]
    BY <1>5, <2>4 DEF TypeOK, InsertScheduleTask
  <2> QED
    BY <1>5, <2>2, <2>5 DEF TypeOK, InsertScheduleTask
<1>6. CASE RunTask(c)
  <2>1. tasks' \in [Tasks -> TaskRow]
    BY <1>6, SetStatusTyped DEF RunTask, TaskStatus
  <2>2. client' \in [Clients -> ClientState]
    BY <1>6, ClientGoes DEF RunTask, ClientSteps
  <2> QED
    BY <1>6, <2>1, <2>2 DEF TypeOK, RunTask
<1>7. CASE FinishTask(c)
  <2>1. PICK status \in {"completed", "blocked", "failed"} :
            /\ SetStatus(st.task, status)
            /\ IF st.schedule = NoSchedule
               THEN ClientRests(c)
               ELSE client' = [client EXCEPT ![c] = [@ EXCEPT !.pc = "record",
                                                              !.ok = (status = "completed")]]
    BY <1>7 DEF FinishTask
  <2>2. tasks' \in [Tasks -> TaskRow]
    BY <2>1, SetStatusTyped DEF TaskStatus
  <2>3. [st EXCEPT !.pc = "record", !.ok = (status = "completed")] \in ClientState
    BY <1>0 DEF ClientState, ClientSteps
  <2>4. client' \in [Clients -> ClientState]
    BY <2>1, <2>3, ClientRestsTyped DEF TypeOK
  <2> QED
    BY <1>7, <2>2, <2>4 DEF TypeOK, FinishTask
<1>8. CASE ReadSchedule(c)
  <2> DEFINE s == st.schedule
  <2>1. CASE Exists(s)
    <3>1. s \in Schedules
      BY <1>0, <2>1 DEF ClientState, Exists
    <3>2. schedules[s].failures \in Nat
      BY <3>1 DEF TypeOK, ScheduleRow
    <3>3. [st EXCEPT !.pc = "recording", !.failures = schedules[s].failures] \in ClientState
      BY <1>0, <3>2 DEF ClientState, ClientSteps
    <3>4. client' \in [Clients -> ClientState]
      BY <1>8, <2>1, <3>3 DEF TypeOK, ReadSchedule
    <3> QED
      BY <1>8, <3>4 DEF TypeOK, ReadSchedule
  <2>2. CASE ~Exists(s)
    BY <1>8, <2>2, ClientRestsTyped DEF TypeOK, ReadSchedule
  <2> QED
    BY <2>1, <2>2
<1>9. CASE RecordOutcome(c)
  <2> DEFINE s == st.schedule
  <2>1. st.failures \in Nat /\ st.ok \in BOOLEAN /\ s \in Schedules \cup {NoSchedule}
    BY <1>0 DEF ClientState
  <2>2. CASE Exists(s)
    <3>1. s \in Schedules
      BY <2>1, <2>2 DEF Exists
    <3>2. Recorded(schedules[s], st.failures, st.ok) \in ScheduleRow
      BY <2>1, <3>1, RecordedTyped DEF TypeOK
    <3>3. schedules' \in [Schedules -> ScheduleRow]
      BY <1>9, <2>2, <3>2 DEF TypeOK, RecordOutcome
    <3>4. streak' \in [Schedules -> Nat]
      BY <1>9, <2>2, <3>1 DEF TypeOK, RecordOutcome
    <3>5. [st EXCEPT !.pc = "mark"] \in ClientState
      BY <1>0 DEF ClientState, ClientSteps
    <3>6. client' \in [Clients -> ClientState]
      BY <1>9, <2>2, <3>5, ClientRestsTyped DEF TypeOK, RecordOutcome
    <3> QED
      BY <1>9, <3>3, <3>4, <3>6 DEF TypeOK, RecordOutcome
  <2>3. CASE ~Exists(s)
    BY <1>9, <2>3, ClientRestsTyped DEF TypeOK, RecordOutcome
  <2> QED
    BY <2>2, <2>3
<1>10. CASE MarkTicked(c)
  <2> DEFINE s == st.schedule
             rest == st.due \ {s}
  <2>1. st.at \in Minutes \cup {None} /\ rest \in SUBSET Schedules
    BY <1>0 DEF ClientState
  <2>2. schedules' \in [Schedules -> ScheduleRow]
    <3>1. \A x \in Schedules : [schedules[x] EXCEPT !.triggered = st.at] \in ScheduleRow
      BY <2>1 DEF TypeOK, ScheduleRow
    <3>2. schedules' = [schedules EXCEPT ![s].triggered = st.at] \/ UNCHANGED schedules
      BY <1>10 DEF MarkTicked
    <3> QED
      BY <3>1, <3>2 DEF TypeOK
  <2>3. client' \in [Clients -> ClientState]
    <3>1. \/ ClientRests(c)
          \/ client' = [client EXCEPT ![c] = [IdleClient EXCEPT !.pc = "next", !.at = st.at,
                                                                !.due = rest]]
      BY <1>10 DEF MarkTicked
    <3> HIDE DEF rest
    <3>2. [IdleClient EXCEPT !.pc = "next", !.at = st.at, !.due = rest] \in ClientState
      BY <2>1 DEF IdleClient, ClientState, ClientSteps
    <3> QED
      BY <3>1, <3>2, ClientRestsTyped DEF TypeOK
  <2> QED
    BY <1>10, <2>2, <2>3 DEF TypeOK, MarkTicked
<1> QED
  BY <1>1, <1>2, <1>3, <1>4, <1>5, <1>6, <1>7, <1>8, <1>9, <1>10
  DEF ClientCommand, ClientStep

LEMMA OperatorCommandTyped ==
    ASSUME TypeOK, OperatorCommand
    PROVE  TypeOK'
<1> USE DEF queue, runs, plans, world
<1>1. CASE AddTaskCommand
  <2>1. tasks' \in [Tasks -> TaskRow] /\ created' \in 0..MaxTasks /\ created + 1 \in Tasks
    BY <1>1, AddTaskTyped, NewTaskTyped DEF AddTaskCommand
  <2> QED
    BY CommandTyped, <1>1, <2>1 DEF TypeOK, AddTaskCommand
<1>2. CASE ResumeTaskCommand
  <2>1. tasks' \in [Tasks -> TaskRow]
    BY <1>2, SetStatusTyped DEF ResumeTaskCommand, TaskStatus
  <2> QED
    BY CommandTyped, <1>2, <2>1 DEF TypeOK, ResumeTaskCommand
<1>3. CASE ApproveCommand
  <2>1. PICK r \in asking :
            /\ asking' = asking \ {r}
            /\ IF HasOpenTask(r)
               THEN UNCHANGED <<tasks, created>>
               ELSE AddTask(NewTask("approval", NoSchedule, r, None))
    BY <1>3 DEF ApproveCommand
  <2>2. NewTask("approval", NoSchedule, r, None) \in TaskRow
    BY NewTaskTyped DEF TypeOK
  <2>3. tasks' \in [Tasks -> TaskRow] /\ created' \in 0..MaxTasks
    BY <2>1, <2>2, AddTaskTyped DEF TypeOK
  <2> QED
    BY CommandTyped, <1>3, <2>1, <2>3 DEF TypeOK, ApproveCommand
<1>4. CASE RejectCommand
  BY CommandTyped, <1>4 DEF TypeOK, RejectCommand, AgentStatus
<1>5. CASE AnswerCommand
  BY CommandTyped, <1>5 DEF TypeOK, AnswerCommand, AgentStatus
<1>6. CASE CancelRunCommand
  BY CommandTyped, <1>6 DEF TypeOK, CancelRunCommand, AgentStatus
<1>7. CASE AddScheduleCommand
  <2>1. schedules' \in [Schedules -> ScheduleRow]
    <3>1. \A s \in Schedules, status \in {"active", "paused"} :
            [schedules[s] EXCEPT !.status = status] \in ScheduleRow
      BY DEF TypeOK, ScheduleRow, ScheduleStatus
    <3> QED
      BY <1>7, <3>1 DEF TypeOK, AddScheduleCommand
  <2> QED
    BY CommandTyped, <1>7, <2>1 DEF TypeOK, AddScheduleCommand
<1>8. CASE RemoveScheduleCommand
  <2>1. schedules' \in [Schedules -> ScheduleRow]
    <3>1. \A s \in Schedules : [schedules[s] EXCEPT !.status = "removed"] \in ScheduleRow
      BY DEF TypeOK, ScheduleRow, ScheduleStatus
    <3> QED
      BY <1>8, <3>1 DEF TypeOK, RemoveScheduleCommand
  <2> QED
    BY CommandTyped, <1>8, <2>1 DEF TypeOK, RemoveScheduleCommand
<1> QED
  BY <1>1, <1>2, <1>3, <1>4, <1>5, <1>6, <1>7, <1>8 DEF OperatorCommand

LEMMA InitTyped == ASSUME Init PROVE TypeOK
<1>1. tasks \in [Tasks -> TaskRow]
  <2>1. tasks = [t \in Tasks |-> [status |-> "absent", run |-> None,
                   schedule |-> NoSchedule, source |-> "", minute |-> None]]
    BY DEF Init
  <2>2. [status |-> "absent", run |-> None, schedule |-> NoSchedule, source |-> "",
         minute |-> None] \in TaskRow
    BY DEF TaskRow, TaskStatus
  <2> QED
    BY <2>1, <2>2
<1>2. agents \in [AgentRuns -> AgentStatus]
  BY DEF Init, AgentStatus
<1>3. schedules \in [Schedules -> ScheduleRow]
  <2>1. PICK status \in [Schedules -> {"absent", "active"}] :
          schedules = [s \in Schedules |-> [status |-> status[s], failures |-> 0,
                                            triggered |-> None]]
    BY DEF Init
  <2>2. ASSUME NEW s \in Schedules
        PROVE  [status |-> status[s], failures |-> 0, triggered |-> None] \in ScheduleRow
    BY <2>1 DEF ScheduleRow, ScheduleStatus
  <2> QED
    BY <2>1, <2>2
<1>4. worker \in [Workers -> WorkerState]
  <2>1. IdleWorker \in WorkerState
    BY DEF WorkerState, IdleWorker, WorkerSteps
  <2> QED
    BY <2>1 DEF Init
<1>5. client \in [Clients -> ClientState]
  <2>1. IdleClient \in ClientState
    BY DEF ClientState, IdleClient, ClientSteps
  <2> QED
    BY <2>1 DEF Init
<1>6. deferred \subseteq Tasks /\ asking \subseteq AgentRuns
  BY DEF Init
<1>7. /\ created \in 0..MaxTasks /\ started \in 0..MaxRuns
      /\ commands \in 0..MaxCommands /\ crashes \in 0..MaxCrashes
  <2>1. created = 0 /\ started = 0 /\ commands = 0 /\ crashes = 0
    BY DEF Init
  <2> QED
    BY <2>1, ConstantsAssumption
<1>8. streak \in [Schedules -> Nat] /\ minute \in Minutes \cup {None}
  BY DEF Init
<1> QED
  BY <1>1, <1>2, <1>3, <1>4, <1>5, <1>6, <1>7, <1>8 DEF TypeOK

LEMMA NextTyped == ASSUME TypeOK, [Next]_vars PROVE TypeOK'
<1> USE DEF queue, runs, plans, world
<1>1. ASSUME NEW w \in Workers, WorkerStep(w) PROVE TypeOK'
  BY <1>1, WorkerStepTyped
<1>2. ASSUME NEW w \in Workers, WorkerCrashes(w) PROVE TypeOK'
  BY <1>2, WorkerRestsTyped, ConstantsAssumption DEF TypeOK, WorkerCrashes
<1>3. ASSUME NEW c \in Clients, ClientCommand(c) \/ ClientStep(c) PROVE TypeOK'
  BY <1>3, ClientActionTyped
<1>4. ASSUME NEW c \in Clients, ClientKilled(c) PROVE TypeOK'
  BY <1>4, ClientRestsTyped, ConstantsAssumption DEF TypeOK, ClientKilled
<1>5. CASE OperatorCommand
  BY <1>5, OperatorCommandTyped
<1>6. CASE MinutePasses
  BY <1>6, ConstantsAssumption DEF TypeOK, MinutePasses, Minutes, None
<1>7. CASE RetryAfterPasses
  BY <1>7 DEF TypeOK, RetryAfterPasses
<1>8. CASE UNCHANGED vars
  BY <1>8 DEF TypeOK, vars
<1> QED
  BY <1>1, <1>2, <1>3, <1>4, <1>5, <1>6, <1>7, <1>8 DEF Next

\* Every variable keeps its type: no task, agent run or schedule ever gets a status
\* outside its enumeration, whichever processes write it.
THEOREM TypeCorrect == Spec => []TypeOK
<1>1. Init => TypeOK
  BY InitTyped
<1>2. TypeOK /\ [Next]_vars => TypeOK'
  BY NextTyped
<1> QED
  BY <1>1, <1>2, PTL DEF Spec

-----------------------------------------------------------------------------
(* A failing schedule is paused.                                             *)

\* No command line process runs a schedule's task.
ClientsRunNoSchedule ==
    \A c \in Clients : /\ client[c].pc \in {"idle", "start", "running"}
                       /\ client[c].schedule = NoSchedule

\* The counter in the row of a schedule is its streak, and the row was paused in time.
CountersAreStreaks ==
    \A s \in Schedules :
        /\ schedules[s].failures = streak[s]
        /\ streak[s] >= Threshold => schedules[s].status \in {"paused", "removed"}

PauseInvariant == TypeOK /\ ClientsRunNoSchedule /\ CountersAreStreaks

\* One outcome recorded by a process whose counter is the row's.
LEMMA RecordedCounts ==
    ASSUME NEW row \in ScheduleRow, NEW ok \in BOOLEAN
    PROVE  /\ Recorded(row, row.failures, ok).failures = IF ok THEN 0 ELSE row.failures + 1
           /\ Recorded(row, row.failures, ok).failures >= Threshold
                => Recorded(row, row.failures, ok).status = "paused"
<1> DEFINE count == IF ok THEN 0 ELSE row.failures + 1
           next == Recorded(row, row.failures, ok)
<1>1. count \in Nat /\ row.failures \in Nat
  BY DEF ScheduleRow
<1>2. next = [row EXCEPT !.failures = count,
                         !.status = IF count >= Threshold THEN "paused" ELSE row.status]
  <2>1. (IF count = row.failures THEN row.failures ELSE count) = count
    OBVIOUS
  <2> HIDE DEF count
  <2>2. next = [row EXCEPT !.failures = IF count = row.failures THEN row.failures ELSE count,
                           !.status = IF count >= Threshold THEN "paused" ELSE row.status]
    BY DEF Recorded, count
  <2> QED
    BY <2>1, <2>2
<1> HIDE DEF count
<1>3. next.failures = count /\ (count >= Threshold => next.status = "paused")
  BY <1>2 DEF ScheduleRow
<1> QED
  BY <1>1, <1>3 DEF count

LEMMA CountersStayStreaks ==
    ASSUME PauseInvariant, "run schedule" \notin Commands, "tick" \notin Commands, Next
    PROVE  CountersAreStreaks'
<1> USE DEF queue, runs, plans, world
<1>1. ASSUME NEW w \in Workers, CompleteTask(w) PROVE CountersAreStreaks'
  <2> DEFINE t == worker[w].task
             q == tasks[t].schedule
             ok == agents[worker[w].run] = "completed"
  <2>1. CASE ~Exists(q)
    BY <1>1, <2>1 DEF CompleteTask, PauseInvariant, CountersAreStreaks
  <2>2. CASE Exists(q)
    <3>1. /\ schedules' = [schedules EXCEPT ![q] = Recorded(schedules[q],
                                                            schedules[q].failures, ok)]
          /\ streak' = [streak EXCEPT ![q] = IF ok THEN 0 ELSE streak[q] + 1]
      BY <1>1, <2>2 DEF CompleteTask
    <3>2. ok \in BOOLEAN
      OBVIOUS
    <3> HIDE DEF q, ok
    <3> SUFFICES ASSUME NEW s \in Schedules
                 PROVE  /\ schedules'[s].failures = streak'[s]
                        /\ streak'[s] >= Threshold
                             => schedules'[s].status \in {"paused", "removed"}
      BY DEF CountersAreStreaks
    <3>3. CASE s = q
      <4>1. schedules[q] \in ScheduleRow /\ schedules[q].failures = streak[q]
        BY <3>3 DEF PauseInvariant, TypeOK, CountersAreStreaks
      <4>2. /\ schedules'[q] = Recorded(schedules[q], schedules[q].failures, ok)
            /\ streak'[q] = IF ok THEN 0 ELSE streak[q] + 1
        BY <3>1, <3>3 DEF PauseInvariant, TypeOK
      <4>3. /\ schedules'[q].failures = IF ok THEN 0 ELSE schedules[q].failures + 1
            /\ schedules'[q].failures >= Threshold => schedules'[q].status = "paused"
        <5> DEFINE next == Recorded(schedules[q], schedules[q].failures, ok)
        <5>1. /\ next.failures = IF ok THEN 0 ELSE schedules[q].failures + 1
              /\ next.failures >= Threshold => next.status = "paused"
          BY <3>2, <4>1, RecordedCounts
        <5> HIDE DEF next
        <5> QED
          BY <4>2, <5>1 DEF next
      <4> QED
        BY <3>3, <4>1, <4>2, <4>3
    <3>4. CASE s # q
      BY <3>1, <3>4 DEF PauseInvariant, TypeOK, CountersAreStreaks
    <3> QED
      BY <3>3, <3>4
  <2> QED
    BY <2>1, <2>2
<1>2. ASSUME NEW w \in Workers, MarkTriggered(w) PROVE CountersAreStreaks'
  <2>1. /\ streak' = streak
        /\ \A s \in Schedules : /\ schedules'[s].failures = schedules[s].failures
                                /\ schedules'[s].status = schedules[s].status
    BY <1>2 DEF MarkTriggered, PauseInvariant, TypeOK, ScheduleRow
  <2> QED
    BY <2>1 DEF PauseInvariant, CountersAreStreaks
<1>3. ASSUME NEW w \in Workers, WorkerStep(w), ~CompleteTask(w), ~MarkTriggered(w)
      PROVE  CountersAreStreaks'
  <2>1. UNCHANGED plans
    BY <1>3 DEF WorkerStep, ScanSchedules, EnqueueDueSchedule, SkipRemovedSchedule, SelectTask,
                NothingToClaim, ClaimTask, DispatchResume, StartAgentRun, ReadRunToResume,
                ReopenAgentRun, FinishAgentRun, ResumeRaises, FailTask
  <2> QED
    BY <2>1 DEF PauseInvariant, CountersAreStreaks
<1>4. ASSUME NEW c \in Clients, ClientCommand(c) \/ ClientStep(c) PROVE CountersAreStreaks'
  <2>1. client[c].pc \in {"idle", "start", "running"}
    BY DEF PauseInvariant, ClientsRunNoSchedule
  <2>2. UNCHANGED plans
    BY <1>4, <2>1 DEF ClientCommand, ClientStep, RunTaskCommand, RunScheduleCommand, TickCommand,
                      NextScheduleOfTick, InsertScheduleTask, RunTask, FinishTask, ReadSchedule,
                      RecordOutcome, MarkTicked
  <2> QED
    BY <2>2 DEF PauseInvariant, CountersAreStreaks
<1>5. ASSUME AddScheduleCommand \/ RemoveScheduleCommand PROVE CountersAreStreaks'
  <2>1. PICK q \in Schedules, status \in {"active", "paused", "removed"} :
          /\ schedules[q].status = "absent" \/ status = "removed"
          /\ schedules' = [schedules EXCEPT ![q].status = status]
          /\ streak' = streak
    BY <1>5 DEF AddScheduleCommand, RemoveScheduleCommand
  <2>2. \A s \in Schedules : /\ schedules'[s].failures = schedules[s].failures
                             /\ schedules'[s].status = IF s = q THEN status
                                                                ELSE schedules[s].status
    BY <2>1 DEF PauseInvariant, TypeOK, ScheduleRow
  <2> QED
    BY <2>1, <2>2 DEF PauseInvariant, CountersAreStreaks
<1>6. CASE \/ \E w \in Workers : WorkerCrashes(w)
           \/ \E c \in Clients : ClientKilled(c)
           \/ OperatorCommand /\ ~(AddScheduleCommand \/ RemoveScheduleCommand)
           \/ MinutePasses \/ RetryAfterPasses
  <2>1. UNCHANGED plans
    BY <1>6 DEF WorkerCrashes, ClientKilled, OperatorCommand, AddTaskCommand, ResumeTaskCommand,
                ApproveCommand, RejectCommand, AnswerCommand, CancelRunCommand, MinutePasses,
                RetryAfterPasses
  <2> QED
    BY <2>1 DEF PauseInvariant, CountersAreStreaks
<1> QED
  BY <1>1, <1>2, <1>3, <1>4, <1>5, <1>6 DEF Next, OperatorCommand

LEMMA ThresholdPositive == ~(0 >= Threshold)
<1>1. Threshold \in Nat /\ Threshold # 0
  BY ConstantsAssumption
<1> QED
  BY <1>1

\* A client that goes on with a task of no schedule.
LEMMA ClientMovesOffSchedules ==
    ASSUME PauseInvariant, NEW c \in Clients, NEW pc \in {"start", "running"}, NEW t,
           client[c].schedule = NoSchedule,
           client' = [client EXCEPT ![c] = [client[c] EXCEPT !.pc = pc, !.task = t]]
    PROVE  ClientsRunNoSchedule'
<1> DEFINE state == [client[c] EXCEPT !.pc = pc, !.task = t]
<1>1. client[c] \in ClientState
  BY DEF PauseInvariant, TypeOK
<1>2. state.pc = pc /\ state.schedule = NoSchedule
  BY <1>1 DEF ClientState
<1>3. client' = [client EXCEPT ![c] = state]
  OBVIOUS
<1> HIDE DEF state
<1>4. \A d \in Clients : client'[d] = IF d = c THEN state ELSE client[d]
  BY <1>3 DEF PauseInvariant, TypeOK
<1> QED
  BY <1>2, <1>4 DEF PauseInvariant, ClientsRunNoSchedule

LEMMA ClientGoesOn ==
    ASSUME TypeOK, NEW c \in Clients, client' = [client EXCEPT ![c].pc = "running"]
    PROVE  client' = [client EXCEPT ![c] = [client[c] EXCEPT !.pc = "running", !.task = @]]
<1>1. client[c] \in ClientState
  BY DEF TypeOK
<1>2. [client[c] EXCEPT !.pc = "running", !.task = @] = [client[c] EXCEPT !.pc = "running"]
  BY <1>1 DEF ClientState
<1> QED
  BY <1>2

LEMMA ClientsStayOffSchedules ==
    ASSUME PauseInvariant, "run schedule" \notin Commands, "tick" \notin Commands, Next
    PROVE  ClientsRunNoSchedule'
<1> USE DEF queue, runs, plans, world
<1>1. ASSUME UNCHANGED client PROVE ClientsRunNoSchedule'
  BY <1>1 DEF PauseInvariant, ClientsRunNoSchedule
<1>2. ASSUME NEW c \in Clients, ClientCommand(c) \/ ClientStep(c) \/ ClientKilled(c)
      PROVE  ClientsRunNoSchedule'
  <2>1. client[c].pc \in {"idle", "start", "running"} /\ client[c].schedule = NoSchedule
    BY DEF PauseInvariant, ClientsRunNoSchedule
  <2>2. CASE RunTaskCommand(c)
    <3>1. PICK t \in 1..created :
            client' = [client EXCEPT ![c] = [@ EXCEPT !.pc = "start", !.task = t]]
      BY <2>2 DEF RunTaskCommand
    <3>2. client' = [client EXCEPT ![c] = [client[c] EXCEPT !.pc = "start", !.task = t]]
      BY <3>1
    <3> QED
      BY <2>1, <3>2, ClientMovesOffSchedules
  <2>3. CASE RunTask(c)
    <3>1. client' = [client EXCEPT ![c] = [client[c] EXCEPT !.pc = "running", !.task = @]]
      BY <2>3, ClientGoesOn DEF RunTask, PauseInvariant
    <3> QED
      BY <2>1, <3>1, ClientMovesOffSchedules
  <2>4. CASE FinishTask(c) \/ ClientKilled(c)
    <3>1. ClientRests(c)
      BY <2>1, <2>4 DEF FinishTask, ClientKilled
    <3> QED
      BY <3>1 DEF ClientRests, IdleClient, PauseInvariant, ClientsRunNoSchedule, TypeOK
  <2> QED
    BY <1>2, <2>1, <2>2, <2>3, <2>4
      DEF ClientCommand, ClientStep, RunScheduleCommand, TickCommand, Command,
          NextScheduleOfTick, InsertScheduleTask, ReadSchedule, RecordOutcome, MarkTicked
<1>3. ASSUME NEW w \in Workers, WorkerStep(w) \/ WorkerCrashes(w) PROVE UNCHANGED client
  BY <1>3 DEF WorkerStep, WorkerCrashes, ScanSchedules, EnqueueDueSchedule, SkipRemovedSchedule,
              MarkTriggered, SelectTask, NothingToClaim, ClaimTask, DispatchResume, StartAgentRun,
              ReadRunToResume, ReopenAgentRun, FinishAgentRun, ResumeRaises, FailTask, CompleteTask
<1>4. CASE OperatorCommand \/ MinutePasses \/ RetryAfterPasses
  <2>1. UNCHANGED client
    BY <1>4 DEF OperatorCommand, AddTaskCommand, ResumeTaskCommand, ApproveCommand, RejectCommand,
                AnswerCommand, CancelRunCommand, AddScheduleCommand, RemoveScheduleCommand,
                MinutePasses, RetryAfterPasses
  <2> QED
    BY <1>1, <2>1
<1> QED
  BY <1>1, <1>2, <1>3, <1>4 DEF Next

\* A schedule that failed max_consecutive_failures times in a row is paused, however many
\* workers complete its tasks (_complete_task counts inside a transaction that has already
\* written) and whatever the operator does with schedules and tasks, as long as no command
\* line process runs a schedule itself: run_schedule_now counts from a row read earlier.
THEOREM FailingSchedulesPause ==
    ASSUME "run schedule" \notin Commands, "tick" \notin Commands
    PROVE  Spec => []FailingSchedulePauses
<1>1. Init => PauseInvariant
  <2> SUFFICES ASSUME Init PROVE PauseInvariant
    OBVIOUS
  <2>1. TypeOK
    BY InitTyped
  <2>2. ClientsRunNoSchedule
    BY DEF Init, IdleClient, ClientsRunNoSchedule
  <2>3. \A s \in Schedules : schedules[s].failures = 0 /\ streak[s] = 0
    <3>1. PICK status \in [Schedules -> {"absent", "active"}] :
            schedules = [s \in Schedules |-> [status |-> status[s], failures |-> 0,
                                              triggered |-> None]]
      BY DEF Init
    <3>2. streak = [s \in Schedules |-> 0]
      BY DEF Init
    <3> QED
      BY <3>1, <3>2
  <2>4. ~(0 >= Threshold)
    BY ThresholdPositive
  <2>5. CountersAreStreaks
    BY <2>3, <2>4 DEF CountersAreStreaks
  <2> QED
    BY <2>1, <2>2, <2>5 DEF PauseInvariant
<1>2. PauseInvariant /\ [Next]_vars => PauseInvariant'
  <2> SUFFICES ASSUME PauseInvariant, [Next]_vars PROVE PauseInvariant'
    OBVIOUS
  <2>1. TypeOK'
    BY NextTyped DEF PauseInvariant
  <2>2. CASE Next
    BY <2>1, <2>2, CountersStayStreaks, ClientsStayOffSchedules DEF PauseInvariant
  <2>3. CASE UNCHANGED vars
    BY <2>1, <2>3 DEF PauseInvariant, ClientsRunNoSchedule, CountersAreStreaks, vars, plans
  <2> QED
    BY <2>2, <2>3
<1>3. PauseInvariant => FailingSchedulePauses
  BY DEF PauseInvariant, CountersAreStreaks, FailingSchedulePauses, Exists
<1> QED
  BY <1>1, <1>2, <1>3, PTL DEF Spec

-----------------------------------------------------------------------------
(* A task that nobody runs is left "running" only by killing a process.      *)

Orphans == {t \in Tasks : tasks[t].status = "running" /\ ~Executed(t)}

\* What a worker executes it goes on to execute, or ends; and what becomes running it executes.
WorkerHolds(w, t) ==
    /\ tasks'[t].status = "running" => tasks[t].status = "running" \/ ExecutedBy(w, t)'
    /\ ExecutedBy(w, t) => ExecutedBy(w, t)' \/ tasks'[t].status # "running"
    /\ \A v \in Workers : v # w => worker'[v] = worker[v]
    /\ UNCHANGED client

LEMMA WorkersHoldTheirTasks ==
    ASSUME TypeOK, NEW w \in Workers, WorkerStep(w), NEW t \in Tasks
    PROVE  WorkerHolds(w, t)
<1> USE DEF WorkerHolds, ExecutedBy, queue, plans, runs, world
<1>0. /\ worker[w] \in WorkerState /\ tasks[t] \in TaskRow
      /\ worker = [v \in Workers |-> worker[v]] /\ tasks = [u \in Tasks |-> tasks[u]]
      /\ created + 1 \in Nat
  BY ConstantsAssumption DEF TypeOK
<1>1. CASE ScanSchedules(w)
  BY <1>0, <1>1 DEF ScanSchedules, WorkerState
<1>2. ASSUME NEW s \in Schedules, EnqueueDueSchedule(w, s) PROVE WorkerHolds(w, t)
  BY <1>0, <1>2 DEF EnqueueDueSchedule, AddTask, NewTask, WorkerState
<1>3. ASSUME NEW s \in Schedules, SkipRemovedSchedule(w, s) PROVE WorkerHolds(w, t)
  BY <1>0, <1>3 DEF SkipRemovedSchedule, NextDueSchedule, WorkerState
<1>4. CASE MarkTriggered(w)
  BY <1>0, <1>4 DEF MarkTriggered, NextDueSchedule, WorkerState
<1>5. CASE SelectTask(w)
  BY <1>0, <1>5 DEF SelectTask, WorkerState
<1>6. CASE NothingToClaim(w)
  BY <1>0, <1>6 DEF NothingToClaim, WorkerRests, IdleWorker, WorkerState
<1>7. CASE ClaimTask(w)
  BY <1>0, <1>7 DEF ClaimTask, SetStatus, WorkerState, TaskRow
<1>8. CASE DispatchResume(w)
  BY <1>0, <1>8 DEF DispatchResume, WorkerState
<1>9. CASE StartAgentRun(w)
  BY <1>0, <1>9 DEF StartAgentRun, WorkerState
<1>10. CASE ReadRunToResume(w)
  BY <1>0, <1>10 DEF ReadRunToResume, WorkerState
<1>11. CASE ReopenAgentRun(w)
  BY <1>0, <1>11 DEF ReopenAgentRun, WorkerState
<1>12. CASE FinishAgentRun(w)
  BY <1>0, <1>12 DEF FinishAgentRun, WorkerState
<1>13. CASE ResumeRaises(w)
  BY <1>0, <1>13 DEF ResumeRaises, WorkerState
<1>14. CASE FailTask(w)
  BY <1>0, <1>14 DEF FailTask, SetStatus, WorkerRests, IdleWorker, WorkerState, TaskRow
<1>15. CASE CompleteTask(w)
  <2>1. /\ tasks' = [tasks EXCEPT ![worker[w].task] =
                       [@ EXCEPT !.status = IF agents[worker[w].run] = "completed" THEN "completed" ELSE "failed",
                                 !.run = worker[w].run]]
        /\ WorkerRests(w) /\ UNCHANGED client
    BY <1>15 DEF CompleteTask
  <2> QED
    BY <1>0, <2>1 DEF WorkerRests, IdleWorker, WorkerState, TaskRow
<1> QED
  BY <1>1, <1>2, <1>3, <1>4, <1>5, <1>6, <1>7, <1>8, <1>9, <1>10, <1>11, <1>12, <1>13, <1>14, <1>15
  DEF WorkerStep

ClientHolds(c, t) ==
    /\ tasks'[t].status = "running" =>
         tasks[t].status = "running" \/ (client'[c].task = t /\ client'[c].pc = "running")
    /\ client[c].task = t /\ client[c].pc = "running" =>
         (client'[c].task = t /\ client'[c].pc = "running") \/ tasks'[t].status # "running"
    /\ \A d \in Clients : d # c => client'[d] = client[d]
    /\ UNCHANGED <<worker, crashes>>

LEMMA ClientsHoldTheirTasks ==
    ASSUME TypeOK, NEW c \in Clients, ClientCommand(c) \/ ClientStep(c), NEW t \in Tasks
    PROVE  ClientHolds(c, t)
<1> USE DEF ClientHolds, Command, queue, plans, runs, world
<1>0. /\ client[c] \in ClientState /\ tasks[t] \in TaskRow
      /\ client = [d \in Clients |-> client[d]] /\ tasks = [u \in Tasks |-> tasks[u]]
      /\ created + 1 \in Nat
  BY ConstantsAssumption DEF TypeOK
<1>1. CASE RunTaskCommand(c)
  BY <1>0, <1>1 DEF RunTaskCommand, ClientState
<1>2. CASE RunScheduleCommand(c)
  BY <1>0, <1>2 DEF RunScheduleCommand, ClientState
<1>3. CASE TickCommand(c)
  BY <1>0, <1>3 DEF TickCommand, ClientState
<1>4. CASE NextScheduleOfTick(c)
  BY <1>0, <1>4 DEF NextScheduleOfTick, ClientRests, IdleClient, ClientState
<1>5. CASE InsertScheduleTask(c)
  BY <1>0, <1>5 DEF InsertScheduleTask, AddTask, NewTask, ClientState
<1>6. CASE RunTask(c)
  BY <1>0, <1>6 DEF RunTask, SetStatus, ClientState, TaskRow
<1>7. CASE FinishTask(c)
  <2>1. PICK status \in {"completed", "blocked", "failed"} :
          /\ SetStatus(client[c].task, status)
          /\ \E state : client' = [client EXCEPT ![c] = state]
    BY <1>7 DEF FinishTask, ClientRests
  <2>2. UNCHANGED <<worker, crashes>>
    BY <1>7 DEF FinishTask
  <2> QED
    BY <1>0, <2>1, <2>2 DEF SetStatus, TaskRow
<1>8. CASE ReadSchedule(c)
  BY <1>0, <1>8 DEF ReadSchedule, ClientRests, IdleClient, ClientState
<1>9. CASE RecordOutcome(c)
  BY <1>0, <1>9 DEF RecordOutcome, ClientRests, IdleClient, ClientState
<1>10. CASE MarkTicked(c)
  BY <1>0, <1>10 DEF MarkTicked, ClientRests, IdleClient, ClientState
<1> QED
  BY <1>1, <1>2, <1>3, <1>4, <1>5, <1>6, <1>7, <1>8, <1>9, <1>10 DEF ClientCommand, ClientStep

LEMMA OperatorsRunNothing ==
    ASSUME TypeOK, OperatorCommand \/ MinutePasses \/ RetryAfterPasses, NEW t \in Tasks
    PROVE  /\ tasks'[t].status = "running" => tasks[t].status = "running"
           /\ UNCHANGED <<worker, client, crashes>>
<1> USE DEF Command, queue, plans, runs, world
<1>0. /\ tasks[t] \in TaskRow /\ tasks = [u \in Tasks |-> tasks[u]] /\ created + 1 \in Nat
  BY ConstantsAssumption DEF TypeOK
<1>1. CASE AddTaskCommand
  BY <1>0, <1>1 DEF AddTaskCommand, AddTask, NewTask
<1>2. CASE ResumeTaskCommand
  BY <1>0, <1>2 DEF ResumeTaskCommand, SetStatus, TaskRow
<1>3. CASE ApproveCommand
  BY <1>0, <1>3 DEF ApproveCommand, AddTask, NewTask
<1>4. CASE RejectCommand \/ AnswerCommand \/ CancelRunCommand
  BY <1>4 DEF RejectCommand, AnswerCommand, CancelRunCommand
<1>5. CASE AddScheduleCommand \/ RemoveScheduleCommand
  BY <1>5 DEF AddScheduleCommand, RemoveScheduleCommand
<1>6. CASE MinutePasses \/ RetryAfterPasses
  BY <1>6 DEF MinutePasses, RetryAfterPasses
<1> QED
  BY <1>1, <1>2, <1>3, <1>4, <1>5, <1>6 DEF OperatorCommand

LEMMA OrphansFinite == IsFiniteSet(Orphans) /\ Cardinality(Orphans) \in Nat
<1>1. IsFiniteSet(Tasks)
  BY ConstantsAssumption, FS_Interval DEF Tasks
<1> QED
  BY <1>1, FS_Subset, FS_CardinalityType DEF Orphans

\* Only a killed process leaves a task behind, and only the one it was executing.
LEMMA StepsKillNobody ==
    ASSUME \/ \E w \in Workers : WorkerStep(w)
           \/ \E c \in Clients : ClientCommand(c) \/ ClientStep(c)
           \/ OperatorCommand \/ MinutePasses \/ RetryAfterPasses
    PROVE  crashes' = crashes
<1> USE DEF world
<1>1. ASSUME NEW w \in Workers, WorkerStep(w) PROVE crashes' = crashes
  BY <1>1 DEF WorkerStep, ScanSchedules, EnqueueDueSchedule, SkipRemovedSchedule, MarkTriggered,
     SelectTask, NothingToClaim, ClaimTask, DispatchResume, StartAgentRun, ReadRunToResume,
     ReopenAgentRun, FinishAgentRun, ResumeRaises, FailTask, CompleteTask
<1>2. ASSUME NEW c \in Clients, ClientCommand(c) \/ ClientStep(c) PROVE crashes' = crashes
  BY <1>2 DEF ClientCommand, ClientStep, Command, RunTaskCommand, RunScheduleCommand, TickCommand,
     NextScheduleOfTick, InsertScheduleTask, RunTask, FinishTask, ReadSchedule, RecordOutcome, MarkTicked
<1>3. CASE OperatorCommand \/ MinutePasses \/ RetryAfterPasses
  BY <1>3 DEF OperatorCommand, Command, AddTaskCommand, ResumeTaskCommand, ApproveCommand, RejectCommand,
     AnswerCommand, CancelRunCommand, AddScheduleCommand, RemoveScheduleCommand, MinutePasses, RetryAfterPasses
<1> QED
  BY <1>1, <1>2, <1>3

LEMMA OrphansAreLeft ==
    ASSUME TypeOK, Next
    PROVE  \/ Orphans' \subseteq Orphans /\ crashes' = crashes
           \/ \E x : Orphans' \subseteq Orphans \cup {x} /\ crashes' = crashes + 1
<1> DEFINE Left(t) == tasks'[t].status = "running" /\ ~Executed(t)'
           Was(t) == tasks[t].status = "running" /\ ~Executed(t)
<1>1. ASSUME NEW w \in Workers, WorkerStep(w), NEW t \in Tasks, Left(t) PROVE Was(t)
  <2>1. WorkerHolds(w, t)
    BY <1>1, WorkersHoldTheirTasks
  <2> QED
    BY <1>1, <2>1 DEF WorkerHolds, Executed, ExecutedBy
<1>2. ASSUME NEW c \in Clients, ClientCommand(c) \/ ClientStep(c), NEW t \in Tasks, Left(t) PROVE Was(t)
  <2>1. ClientHolds(c, t)
    BY <1>2, ClientsHoldTheirTasks
  <2> QED
    BY <1>2, <2>1 DEF ClientHolds, Executed, ExecutedBy
<1>3. ASSUME OperatorCommand \/ MinutePasses \/ RetryAfterPasses, NEW t \in Tasks, Left(t) PROVE Was(t)
  BY <1>3, OperatorsRunNothing DEF Executed, ExecutedBy
<1>4. ASSUME NEW w \in Workers, WorkerCrashes(w), NEW t \in Tasks, Left(t), t # worker[w].task PROVE Was(t)
  BY <1>4 DEF WorkerCrashes, WorkerRests, Executed, ExecutedBy, TypeOK, queue
<1>5. ASSUME NEW c \in Clients, ClientKilled(c), NEW t \in Tasks, Left(t), t # client[c].task PROVE Was(t)
  BY <1>5 DEF ClientKilled, ClientRests, Executed, ExecutedBy, TypeOK, queue
<1>6. CASE \/ \E w \in Workers : WorkerStep(w)
           \/ \E c \in Clients : ClientCommand(c) \/ ClientStep(c)
           \/ OperatorCommand \/ MinutePasses \/ RetryAfterPasses
  BY <1>6, <1>1, <1>2, <1>3, StepsKillNobody DEF Orphans
<1>7. ASSUME NEW w \in Workers, WorkerCrashes(w)
      PROVE  Orphans' \subseteq Orphans \cup {worker[w].task} /\ crashes' = crashes + 1
  BY <1>7, <1>4 DEF Orphans, WorkerCrashes
<1>8. ASSUME NEW c \in Clients, ClientKilled(c)
      PROVE  Orphans' \subseteq Orphans \cup {client[c].task} /\ crashes' = crashes + 1
  BY <1>8, <1>5 DEF Orphans, ClientKilled
<1> QED
  BY <1>6, <1>7, <1>8 DEF Next

\* However many processes run tasks, are killed and run them again, the tasks left "running"
\* with nobody running them are no more than the processes killed.
THEOREM OrphansAlwaysNeedCrashes == Spec => []OrphansNeedCrashes
<1>1. OrphansNeedCrashes <=> Cardinality(Orphans) <= crashes
  BY DEF OrphansNeedCrashes, Orphans
<1>2. ASSUME Init PROVE OrphansNeedCrashes
  <2>1. Orphans = {} /\ crashes = 0
    BY <1>2 DEF Init, Orphans
  <2> QED
    BY <1>1, <2>1, FS_EmptySet
<1>3. ASSUME TypeOK, TypeOK', OrphansNeedCrashes, [Next]_vars PROVE OrphansNeedCrashes'
  <2> USE <1>3
  <2>1. Cardinality(Orphans) \in Nat /\ IsFiniteSet(Orphans) /\ Cardinality(Orphans) <= crashes
    BY <1>1, OrphansFinite
  <2>2. crashes \in Nat
    BY ConstantsAssumption DEF TypeOK
  <2>3. CASE UNCHANGED vars
    <3>1. Orphans' = Orphans /\ crashes' = crashes
      BY <2>3 DEF Orphans, Executed, ExecutedBy, vars, queue, world
    <3> QED
      BY <3>1, <2>1 DEF OrphansNeedCrashes, Orphans
  <2>4. CASE Orphans' \subseteq Orphans /\ crashes' = crashes
    <3>1. Cardinality(Orphans') <= Cardinality(Orphans)
      BY <2>1, <2>4, FS_Subset
    <3>2. Cardinality(Orphans') \in Nat
      BY <2>1, <2>4, FS_Subset, FS_CardinalityType
    <3> QED
      BY <2>1, <2>2, <2>4, <3>1, <3>2 DEF OrphansNeedCrashes, Orphans
  <2>5. ASSUME NEW x, Orphans' \subseteq Orphans \cup {x}, crashes' = crashes + 1
        PROVE  OrphansNeedCrashes'
    <3>1. IsFiniteSet(Orphans \cup {x}) /\ Cardinality(Orphans \cup {x}) <= Cardinality(Orphans) + 1
      BY <2>1, FS_AddElement
    <3>2. Cardinality(Orphans') <= Cardinality(Orphans \cup {x}) /\ Cardinality(Orphans') \in Nat
            /\ Cardinality(Orphans \cup {x}) \in Nat
      BY <2>5, <3>1, FS_Subset, FS_CardinalityType
    <3> QED
      BY <2>1, <2>2, <2>5, <3>1, <3>2 DEF OrphansNeedCrashes, Orphans
  <2> QED
    BY <2>3, <2>4, <2>5, OrphansAreLeft
<1> QED
  BY <1>2, <1>3, TypeCorrect, PTL DEF Spec

-----------------------------------------------------------------------------
(* From here on: what the queue guarantees where one worker process alone    *)
(* runs it, as the systemd unit of AgentEnd has it, for any number of tasks, *)
(* agent runs, schedules and crashes.                                        *)


-----------------------------------------------------------------------------
(* A schedule fires once a minute.                                           *)

Firing(w) == worker[w].pc \in {"enqueue", "mark"}

\* While a schedule's turn in a scan has not come, its tasks of that minute come from crashes;
Unfired(w) ==
    \A s \in Schedules :
        /\ Firing(w) /\ s \in worker[w].due /\ worker[w].at \in Minutes
        /\ worker[w].pc = "mark" => s # worker[w].schedule
        => Cardinality(TasksOfMinute(s, worker[w].at)) <= crashes

\* and so they do as long as last_triggered_at is not this minute, but for the schedule whose
\* task was just added.
Untriggered(w) ==
    \A s \in Schedules :
        /\ minute \in Minutes
        /\ schedules[s].status # "removed" /\ schedules[s].triggered # minute
        /\ ~(worker[w].pc = "mark" /\ worker[w].schedule = s /\ worker[w].at = minute)
        => Cardinality(TasksOfMinute(s, minute)) <= crashes

\* No task is of a minute to come, and during a scan none is of a minute after the scan's.
MinutesPass(w) ==
    /\ \A t \in Tasks : t > created => tasks[t].minute = None
    /\ \A t \in Tasks : tasks[t].minute <= minute
    /\ worker[w].at <= minute
    /\ Firing(w) => \A t \in Tasks : tasks[t].minute <= worker[w].at

MarkedExists(w) ==
    worker[w].pc = "mark" => /\ worker[w].schedule \in Schedules
                             /\ schedules[worker[w].schedule].status # "absent"

NotTicking(state) == state.at = None /\ state.due = {} /\ state.pc \notin {"next", "mark"}

NoTicks == \A c \in Clients : NotTicking(client[c])

FireInvariant(w) ==
    TypeOK /\ NoTicks /\ MinutesPass(w) /\ MarkedExists(w) /\ RefiresNeedCrashes
        /\ Unfired(w) /\ Untriggered(w)

\* Steps that neither fire a schedule nor move the clock.
QuietStep(w) ==
    /\ created' >= created
    /\ \A t \in Tasks : /\ tasks'[t].minute = tasks[t].minute
                        /\ tasks[t].minute # None => /\ tasks'[t].source = tasks[t].source
                                                     /\ tasks'[t].schedule = tasks[t].schedule
    /\ minute' = minute
    /\ crashes' >= crashes
    /\ \A s \in Schedules :
        /\ schedules'[s].triggered = schedules[s].triggered
        /\ schedules[s].status # "absent" => schedules'[s].status # "absent"
        /\ schedules[s].status = "removed" => schedules'[s].status = "removed"
    /\ NoTicks'
    /\ \/ worker'[w] = worker[w]
       \/ ~Firing(w) /\ ~Firing(w)' /\ worker'[w].at \in {worker[w].at, None}

LEMMA FireTypes ==
    ASSUME NEW w \in Workers, TypeOK
    PROVE  /\ minute \in Nat /\ crashes \in Nat /\ created \in Nat /\ worker[w].at \in Nat
           /\ \A t \in Tasks : t \in Nat /\ tasks[t].minute \in Nat
           /\ None \notin Minutes /\ None = 0 /\ \A m \in Minutes : m \in Nat /\ m > 0
<1>1. None = 0 /\ None \notin Minutes /\ \A m \in Minutes : m \in Nat /\ m > 0
  BY ConstantsAssumption DEF Minutes, None
<1>2. crashes \in Nat /\ created \in Nat /\ \A t \in Tasks : t \in Nat
  BY ConstantsAssumption DEF TypeOK, Tasks
<1>3. worker[w].at \in Minutes \cup {None} /\ \A t \in Tasks : tasks[t].minute \in Minutes \cup {None}
  BY DEF TypeOK, WorkerState, TaskRow
<1> QED
  BY <1>1, <1>2, <1>3 DEF TypeOK

LEMMA TasksOfMinuteFinite ==
    ASSUME NEW s, NEW m
    PROVE  IsFiniteSet(TasksOfMinute(s, m)) /\ Cardinality(TasksOfMinute(s, m)) \in Nat
<1>1. IsFiniteSet(Tasks)
  BY ConstantsAssumption, FS_Interval DEF Tasks
<1> QED
  BY <1>1, FS_Subset, FS_CardinalityType DEF TasksOfMinute

LEMMA QuietStepsFireNothing ==
    ASSUME NEW w \in Workers, FireInvariant(w), TypeOK', QuietStep(w)
    PROVE  FireInvariant(w)'
<1> USE DEF Firing
<1>a. TypeOK /\ NoTicks /\ MinutesPass(w) /\ MarkedExists(w) /\ RefiresNeedCrashes
        /\ Unfired(w) /\ Untriggered(w)
  BY DEF FireInvariant
<1>0. /\ minute \in Nat /\ crashes \in Nat /\ created \in Nat /\ worker[w].at \in Nat
      /\ \A t \in Tasks : t \in Nat /\ tasks[t].minute \in Nat
      /\ None \notin Minutes /\ None = 0 /\ \A m \in Minutes : m \in Nat /\ m > 0
      /\ crashes' \in Nat /\ created' \in Nat /\ worker'[w].at \in Nat /\ minute' = minute
      /\ crashes' >= crashes
  BY <1>a, FireTypes, ConstantsAssumption DEF TypeOK, QuietStep
<1>1. ASSUME NEW s \in Schedules, NEW m \in Minutes
      PROVE  TasksOfMinute(s, m)' = TasksOfMinute(s, m)
  <2>1. \A t \in Tasks : (tasks'[t].source = "scheduler" /\ tasks'[t].schedule = s /\ tasks'[t].minute = m)
                    <=> (tasks[t].source = "scheduler" /\ tasks[t].schedule = s /\ tasks[t].minute = m)
    BY <1>0 DEF QuietStep
  <2> QED
    BY <2>1 DEF TasksOfMinute
<1>2. ASSUME NEW s \in Schedules, NEW m \in Minutes, NEW k \in {0, 1},
             Cardinality(TasksOfMinute(s, m)) <= k + crashes
      PROVE  Cardinality(TasksOfMinute(s, m)') <= k + crashes'
  BY <1>0, <1>1, <1>2, TasksOfMinuteFinite
<1>3. ASSUME NEW s \in Schedules, NEW m \in Minutes, Cardinality(TasksOfMinute(s, m)) <= crashes
      PROVE  Cardinality(TasksOfMinute(s, m)') <= crashes'
  BY <1>0, <1>1, <1>3, TasksOfMinuteFinite
<1>4. RefiresNeedCrashes'
  BY <1>a, <1>2 DEF RefiresNeedCrashes
<1>5. MinutesPass(w)'
  <2>1. \A t \in Tasks : (t > created => tasks[t].minute = None)'
    BY <1>a, <1>0 DEF MinutesPass, QuietStep
  <2>2. worker'[w].at <= minute' /\ \A t \in Tasks : tasks'[t].minute <= minute'
    BY <1>a, <1>0 DEF MinutesPass, QuietStep
  <2>3. (Firing(w) => \A t \in Tasks : tasks[t].minute <= worker[w].at)'
    BY <1>a DEF MinutesPass, QuietStep
  <2> QED
    BY <2>1, <2>2, <2>3 DEF MinutesPass
<1>6. MarkedExists(w)'
  BY <1>a DEF MarkedExists, QuietStep
<1>7. Unfired(w)'
  <2> SUFFICES ASSUME NEW s \in Schedules, Firing(w)', s \in worker'[w].due, worker'[w].at \in Minutes,
                      worker'[w].pc = "mark" => s # worker'[w].schedule
               PROVE  Cardinality(TasksOfMinute(s, worker[w].at)') <= crashes'
    BY DEF Unfired, Minutes
  <2>1. worker'[w] = worker[w]
    BY DEF QuietStep
  <2>2. Cardinality(TasksOfMinute(s, worker[w].at)) <= crashes
    BY <1>a, <2>1 DEF Unfired
  <2>3. TasksOfMinute(s, worker[w].at)' = TasksOfMinute(s, worker[w].at)
    <3>1. \A t \in Tasks : (tasks'[t].source = "scheduler" /\ tasks'[t].schedule = s /\ tasks'[t].minute = worker'[w].at)
                    <=> (tasks[t].source = "scheduler" /\ tasks[t].schedule = s /\ tasks[t].minute = worker[w].at)
      BY <1>0, <2>1 DEF QuietStep
    <3> QED
      BY <3>1 DEF TasksOfMinute
  <2> QED
    BY <1>0, <2>2, <2>3, TasksOfMinuteFinite
<1>8. Untriggered(w)'
  <2> SUFFICES ASSUME NEW s \in Schedules, minute' \in Minutes, schedules'[s].status # "removed",
                      schedules'[s].triggered # minute',
                      ~(worker'[w].pc = "mark" /\ worker'[w].schedule = s /\ worker'[w].at = minute')
               PROVE  Cardinality(TasksOfMinute(s, minute)') <= crashes'
    BY DEF Untriggered, Minutes
  <2>1. Cardinality(TasksOfMinute(s, minute)) <= crashes
    BY <1>a, <1>0 DEF Untriggered, QuietStep
  <2>2. TasksOfMinute(s, minute)' = TasksOfMinute(s, minute)
    <3>1. \A t \in Tasks : (tasks'[t].source = "scheduler" /\ tasks'[t].schedule = s /\ tasks'[t].minute = minute')
                    <=> (tasks[t].source = "scheduler" /\ tasks[t].schedule = s /\ tasks[t].minute = minute)
      BY <1>0 DEF QuietStep
    <3> QED
      BY <3>1 DEF TasksOfMinute
  <2> QED
    BY <1>0, <2>1, <2>2, TasksOfMinuteFinite
<1>9. NoTicks'
  BY DEF QuietStep
<1> QED
  BY <1>4, <1>5, <1>6, <1>7, <1>8, <1>9 DEF FireInvariant

LEMMA WorkerFiresInScan ==
    ASSUME NEW w \in Workers, FireInvariant(w), WorkerStep(w)
    PROVE  \/ QuietStep(w)
           \/ ScanSchedules(w) \/ MarkTriggered(w)
           \/ \E s \in Schedules : EnqueueDueSchedule(w, s) \/ SkipRemovedSchedule(w, s)
<1> USE DEF QuietStep, Firing, queue, plans, runs, world, FireInvariant, NoTicks
<1>0. /\ worker[w] \in WorkerState /\ tasks = [t \in Tasks |-> tasks[t]]
      /\ worker = [v \in Workers |-> worker[v]] /\ schedules = [s \in Schedules |-> schedules[s]]
      /\ \A t \in Tasks : tasks[t] \in TaskRow
      /\ crashes \in Nat /\ created \in Nat /\ created + 1 >= created /\ created >= created
      /\ crashes >= crashes
  BY FireTypes, ConstantsAssumption DEF TypeOK
<1>1. CASE SelectTask(w)
  BY <1>0, <1>1, ZenonT(60) DEF SelectTask, WorkerState
<1>2. CASE NothingToClaim(w)
  BY <1>0, <1>2 DEF NothingToClaim, WorkerRests, IdleWorker, WorkerState
<1>3. CASE ClaimTask(w)
  BY <1>0, <1>3 DEF ClaimTask, SetStatus, WorkerState, TaskRow
<1>4. CASE DispatchResume(w)
  BY <1>0, <1>4 DEF DispatchResume, WorkerState
<1>5. CASE StartAgentRun(w)
  BY <1>0, <1>5 DEF StartAgentRun, WorkerState
<1>6. CASE ReadRunToResume(w)
  BY <1>0, <1>6 DEF ReadRunToResume, WorkerState
<1>7. CASE ReopenAgentRun(w)
  BY <1>0, <1>7 DEF ReopenAgentRun, WorkerState
<1>8. CASE FinishAgentRun(w)
  BY <1>0, <1>8 DEF FinishAgentRun, WorkerState
<1>9. CASE ResumeRaises(w)
  BY <1>0, <1>9 DEF ResumeRaises, WorkerState
<1>10. CASE FailTask(w)
  BY <1>0, <1>10 DEF FailTask, SetStatus, WorkerRests, IdleWorker, WorkerState, TaskRow
<1>11. CASE CompleteTask(w)
  <2>1. \A t \in Tasks : /\ tasks'[t].minute = tasks[t].minute
                         /\ tasks'[t].source = tasks[t].source
                         /\ tasks'[t].schedule = tasks[t].schedule
    BY <1>0, <1>11 DEF CompleteTask, TaskRow
  <2>2. \A s \in Schedules :
        /\ schedules'[s].triggered = schedules[s].triggered
        /\ schedules[s].status # "absent" => schedules'[s].status # "absent"
        /\ schedules[s].status = "removed" => schedules'[s].status = "removed"
    <3>1. \A s \in Schedules : schedules[s] \in ScheduleRow
      BY DEF TypeOK
    <3>2. \A row \in ScheduleRow, n \in Nat, ok \in BOOLEAN :
            /\ Recorded(row, n, ok).triggered = row.triggered
            /\ Recorded(row, n, ok).status \in {row.status, "paused"}
      BY DEF Recorded, ScheduleRow
    <3> DEFINE x == tasks[worker[w].task].schedule
               ok == agents[worker[w].run] = "completed"
    <3>3. /\ ok \in BOOLEAN
          /\ \/ UNCHANGED schedules
             \/ Exists(x) /\ schedules' = [schedules EXCEPT ![x] = Recorded(@, @.failures, ok)]
      BY <1>11 DEF CompleteTask
    <3> HIDE DEF x, ok
    <3>4. \A s \in Schedules : schedules[s].failures \in Nat
      BY <3>1 DEF ScheduleRow
    <3> QED
      BY <1>0, <3>1, <3>2, <3>3, <3>4 DEF Exists
  <2>3. worker[w].pc = "complete" /\ worker'[w] = IdleWorker
    BY <1>0, <1>11 DEF CompleteTask, WorkerRests
  <2> QED
    BY <1>0, <1>11, <2>1, <2>2, <2>3, SMTT(60) DEF CompleteTask, IdleWorker
<1> QED
  BY <1>1, <1>2, <1>3, <1>4, <1>5, <1>6, <1>7, <1>8, <1>9, <1>10, <1>11 DEF WorkerStep

LEMMA ClientsGoOnNotTicking ==
    ASSUME NoTicks, TypeOK, NEW c \in Clients, NEW state, NotTicking(state),
           client' = [client EXCEPT ![c] = state]
    PROVE  NoTicks'
BY DEF NoTicks, TypeOK, NotTicking

LEMMA ClientsRestNotTicking ==
    ASSUME NoTicks, TypeOK, NEW c \in Clients, ClientRests(c)
    PROVE  NoTicks'
<1>1. NotTicking(IdleClient)
  BY DEF NotTicking, IdleClient
<1> QED
  BY <1>1, ClientsGoOnNotTicking DEF ClientRests

LEMMA ClientsFireNothing ==
    ASSUME NEW w \in Workers, FireInvariant(w), "tick" \notin Commands,
           NEW c \in Clients, ClientCommand(c) \/ ClientStep(c) \/ ClientKilled(c)
    PROVE  QuietStep(w)
<1> USE DEF QuietStep, queue, plans, runs, world, FireInvariant, NoTicks, Command
<1>0. /\ client[c] \in ClientState /\ tasks = [t \in Tasks |-> tasks[t]]
      /\ client = [d \in Clients |-> client[d]] /\ schedules = [s \in Schedules |-> schedules[s]]
      /\ \A t \in Tasks : tasks[t] \in TaskRow
      /\ crashes \in Nat /\ created \in Nat /\ created + 1 >= created /\ created >= created
      /\ crashes >= crashes /\ crashes + 1 >= crashes /\ created + 1 > created
      /\ \A d \in Clients : NotTicking(client[d])
  BY FireTypes, ConstantsAssumption DEF TypeOK
<1>1. CASE RunTaskCommand(c)
  <2>1. PICK t : client' = [client EXCEPT ![c] = [@ EXCEPT !.pc = "start", !.task = t]]
    BY <1>1 DEF RunTaskCommand
  <2> QED
    BY <1>0, <1>1, <2>1 DEF RunTaskCommand, ClientState, NotTicking
<1>2. CASE RunScheduleCommand(c)
  <2>1. PICK s : client' = [client EXCEPT ![c] = [@ EXCEPT !.pc = "insert", !.schedule = s]]
    BY <1>2 DEF RunScheduleCommand
  <2> QED
    BY <1>0, <1>2, <2>1 DEF RunScheduleCommand, ClientState, NotTicking
<1>3. CASE TickCommand(c)
  BY <1>3 DEF TickCommand
<1>4. CASE NextScheduleOfTick(c)
  BY <1>0, <1>4 DEF NextScheduleOfTick, NotTicking
<1>5. CASE InsertScheduleTask(c)
  <2>1. \A t \in Tasks : /\ tasks'[t].minute = tasks[t].minute
                         /\ tasks[t].minute # None => tasks'[t] = tasks[t]
    <3>1. tasks' = [tasks EXCEPT ![created + 1] = NewTask("scheduler", client[c].schedule, None, None)]
      BY <1>0, <1>5 DEF InsertScheduleTask, AddTask, NotTicking
    <3>2. created + 1 \in Tasks => tasks[created + 1].minute = None
      BY <1>0 DEF MinutesPass
    <3> QED
      BY <1>0, <3>1, <3>2 DEF NewTask
  <2> QED
    BY <1>0, <1>5, <2>1 DEF InsertScheduleTask, AddTask, ClientState, NotTicking
<1>6. CASE RunTask(c)
  BY <1>0, <1>6, ZenonT(60) DEF RunTask, SetStatus, ClientState, TaskRow, NotTicking
<1>7. CASE FinishTask(c)
  <2>1. \E status : SetStatus(client[c].task, status)
    BY <1>7 DEF FinishTask
  <2>2. UNCHANGED <<created, deferred, runs, plans, world, worker>>
    BY <1>7 DEF FinishTask
  <2>3. NoTicks'
    <3>1. CASE ClientRests(c)
      BY <3>1, ClientsRestNotTicking
    <3>2. ASSUME NEW ok, client' = [client EXCEPT ![c] = [@ EXCEPT !.pc = "record", !.ok = ok]]
          PROVE  NoTicks'
      <4>1. NotTicking([client[c] EXCEPT !.pc = "record", !.ok = ok])
        BY <1>0 DEF NotTicking, ClientState
      <4> QED
        BY <3>2, <4>1, ClientsGoOnNotTicking
    <3>3. ClientRests(c) \/ \E ok : client' = [client EXCEPT ![c] = [@ EXCEPT !.pc = "record", !.ok = ok]]
      BY <1>7 DEF FinishTask
    <3> QED
      BY <3>1, <3>2, <3>3
  <2>4. \A t \in Tasks : /\ tasks'[t].minute = tasks[t].minute
                         /\ tasks'[t].source = tasks[t].source
                         /\ tasks'[t].schedule = tasks[t].schedule
    <3>1. PICK status : SetStatus(client[c].task, status)
      BY <2>1
    <3> QED
      BY <1>0, <3>1 DEF SetStatus, TaskRow
  <2> QED
    BY <1>0, <2>2, <2>3, <2>4
<1>8. CASE ReadSchedule(c)
  <2>2. NoTicks'
    <3>1. CASE ClientRests(c)
      BY <3>1, ClientsRestNotTicking
    <3>2. ASSUME NEW n, client' = [client EXCEPT ![c] = [@ EXCEPT !.pc = "recording", !.failures = n]]
          PROVE  NoTicks'
      <4>1. NotTicking([client[c] EXCEPT !.pc = "recording", !.failures = n])
        BY <1>0 DEF NotTicking, ClientState
      <4> QED
        BY <3>2, <4>1, ClientsGoOnNotTicking
    <3>3. ClientRests(c) \/ \E n : client' = [client EXCEPT ![c] = [@ EXCEPT !.pc = "recording", !.failures = n]]
      BY <1>8 DEF ReadSchedule
    <3> QED
      BY <3>1, <3>2, <3>3
  <2> QED
    BY <1>0, <1>8, <2>2 DEF ReadSchedule
<1>9. CASE RecordOutcome(c)
  <2>2. \A s \in Schedules :
        /\ schedules'[s].triggered = schedules[s].triggered
        /\ schedules[s].status # "absent" => schedules'[s].status # "absent"
        /\ schedules[s].status = "removed" => schedules'[s].status = "removed"
    <3>1. \A s \in Schedules : schedules[s] \in ScheduleRow
      BY DEF TypeOK
    <3>2. \A row \in ScheduleRow, n \in Nat, ok \in BOOLEAN :
            /\ Recorded(row, n, ok).triggered = row.triggered
            /\ Recorded(row, n, ok).status \in {row.status, "paused"}
      BY DEF Recorded, ScheduleRow
    <3> DEFINE x == client[c].schedule
               ok == client[c].ok
               n == client[c].failures
    <3>3. /\ ok \in BOOLEAN /\ n \in Nat
          /\ \/ UNCHANGED schedules
             \/ Exists(x) /\ schedules' = [schedules EXCEPT ![x] = Recorded(@, n, ok)]
      BY <1>0, <1>9 DEF RecordOutcome, ClientState
    <3> HIDE DEF x, ok, n
    <3> QED
      BY <1>0, <3>1, <3>2, <3>3 DEF Exists
  <2>3. \A d \in Clients : NotTicking(client'[d])
    BY <1>0, <1>9 DEF RecordOutcome, ClientRests, IdleClient, ClientState, NotTicking
  <2> QED
    BY <1>0, <1>9, <2>2, <2>3 DEF RecordOutcome
<1>10. CASE MarkTicked(c)
  BY <1>0, <1>10 DEF MarkTicked, NotTicking
<1>11. CASE ClientKilled(c)
  BY <1>0, <1>11 DEF ClientKilled, ClientRests, IdleClient, ClientState, NotTicking
<1> QED
  BY <1>1, <1>2, <1>3, <1>4, <1>5, <1>6, <1>7, <1>8, <1>9, <1>10, <1>11 DEF ClientCommand, ClientStep

LEMMA OperatorsFireNothing ==
    ASSUME NEW w \in Workers, FireInvariant(w), OperatorCommand \/ RetryAfterPasses
    PROVE  QuietStep(w)
<1> USE DEF QuietStep, queue, plans, runs, world, FireInvariant, NoTicks, Command
<1>0. /\ tasks = [t \in Tasks |-> tasks[t]] /\ schedules = [s \in Schedules |-> schedules[s]]
      /\ \A t \in Tasks : tasks[t] \in TaskRow
      /\ crashes \in Nat /\ created \in Nat /\ created + 1 >= created /\ created >= created
      /\ crashes >= crashes /\ created + 1 > created
      /\ created + 1 \in Tasks => tasks[created + 1].minute = None
  BY FireTypes, ConstantsAssumption DEF TypeOK, MinutesPass
<1>1. CASE AddTaskCommand
  BY <1>0, <1>1 DEF AddTaskCommand, AddTask, NewTask
<1>2. CASE ResumeTaskCommand
  <2>1. PICK t : SetStatus(t, "pending")
    BY <1>2 DEF ResumeTaskCommand
  <2>2. \A u \in Tasks : /\ tasks'[u].minute = tasks[u].minute
                         /\ tasks'[u].source = tasks[u].source
                         /\ tasks'[u].schedule = tasks[u].schedule
    BY <1>0, <2>1 DEF SetStatus, TaskRow
  <2> QED
    BY <1>0, <1>2, <2>2 DEF ResumeTaskCommand, NotTicking
<1>3. CASE ApproveCommand
  BY <1>0, <1>3 DEF ApproveCommand, AddTask, NewTask
<1>4. CASE RejectCommand \/ AnswerCommand \/ CancelRunCommand
  BY <1>0, <1>4 DEF RejectCommand, AnswerCommand, CancelRunCommand
<1>5. CASE AddScheduleCommand \/ RemoveScheduleCommand
  <2>1. PICK s \in Schedules, status \in {"active", "paused", "removed"} :
          /\ schedules[s].status # "removed"
          /\ schedules' = [schedules EXCEPT ![s].status = status]
    BY <1>5 DEF AddScheduleCommand, RemoveScheduleCommand, Exists
  <2>2. \A x \in Schedules : schedules[x] \in ScheduleRow
    BY DEF TypeOK
  <2>3. \A x \in Schedules :
        /\ schedules'[x].triggered = schedules[x].triggered
        /\ schedules[x].status # "absent" => schedules'[x].status # "absent"
        /\ schedules[x].status = "removed" => schedules'[x].status = "removed"
    BY <1>0, <2>1, <2>2 DEF ScheduleRow
  <2> QED
    BY <1>0, <1>5, <2>3 DEF AddScheduleCommand, RemoveScheduleCommand, NotTicking
<1>6. CASE RetryAfterPasses
  BY <1>0, <1>6 DEF NotTicking, RetryAfterPasses
<1> QED
  BY <1>1, <1>2, <1>3, <1>4, <1>5, <1>6 DEF OperatorCommand

\* A scan, and each step of it that adds no task, keeps the tasks and the clock.
LEMMA ScansKeepTasks ==
    ASSUME NEW w \in Workers, FireInvariant(w), TypeOK', NoTicks',
           UNCHANGED <<tasks, created, minute, crashes>>,
           worker'[w].at <= minute,
           Firing(w)' => \A t \in Tasks : tasks[t].minute <= worker'[w].at,
           MarkedExists(w)', Unfired(w)', Untriggered(w)'
    PROVE  FireInvariant(w)'
<1>1. MinutesPass(w)'
  BY DEF FireInvariant, MinutesPass
<1>2. \A s \in Schedules, m \in Minutes : TasksOfMinute(s, m)' = TasksOfMinute(s, m)
  BY DEF TasksOfMinute
<1>3. RefiresNeedCrashes'
  BY <1>2 DEF FireInvariant, RefiresNeedCrashes
<1> QED
  BY <1>1, <1>3 DEF FireInvariant

LEMMA ScansFindUnfired ==
    ASSUME NEW w \in Workers, FireInvariant(w), TypeOK', ScanSchedules(w)
    PROVE  FireInvariant(w)'
<1> USE DEF Firing
<1>a. TypeOK /\ NoTicks /\ MinutesPass(w) /\ MarkedExists(w) /\ RefiresNeedCrashes
        /\ Unfired(w) /\ Untriggered(w)
  BY DEF FireInvariant
<1>0. minute \in Nat /\ minute <= minute
  BY <1>a, FireTypes
<1>1. /\ worker[w].pc = "idle" /\ worker'[w].pc \in {"claim", "enqueue"}
      /\ worker'[w].at = minute /\ worker'[w].due = DueSchedules
      /\ UNCHANGED <<tasks, created, minute, crashes, schedules, client>>
  BY <1>a DEF ScanSchedules, TypeOK, WorkerState, queue, plans, world
<1>2. NoTicks'
  BY <1>a, <1>1 DEF NoTicks
<1>3. \A s \in Schedules : TasksOfMinute(s, minute)' = TasksOfMinute(s, minute)
  BY <1>1 DEF TasksOfMinute
<1>4. Unfired(w)'
  <2> SUFFICES ASSUME NEW s \in Schedules, s \in DueSchedules, minute \in Minutes
               PROVE  Cardinality(TasksOfMinute(s, worker[w].at)') <= crashes
    BY <1>1 DEF Unfired
  <2>1. TasksOfMinute(s, worker[w].at)' = TasksOfMinute(s, minute)
    BY <1>1 DEF TasksOfMinute
  <2>2. Cardinality(TasksOfMinute(s, minute)) <= crashes
    BY <1>a, <1>1 DEF Untriggered, DueSchedules
  <2> QED
    BY <2>1, <2>2
<1>5. Untriggered(w)'
  <2> SUFFICES ASSUME NEW s \in Schedules, minute \in Minutes, schedules[s].status # "removed",
                      schedules[s].triggered # minute
               PROVE  Cardinality(TasksOfMinute(s, minute)') <= crashes
    BY <1>1 DEF Untriggered
  <2> QED
    BY <1>a, <1>1, <1>3 DEF Untriggered
<1>6. MarkedExists(w)'
  BY <1>1 DEF MarkedExists
<1>7. worker'[w].at <= minute /\ (Firing(w)' => \A t \in Tasks : tasks[t].minute <= worker'[w].at)
  BY <1>a, <1>0, <1>1 DEF MinutesPass
<1> QED
  BY <1>1, <1>2, <1>4, <1>5, <1>6, <1>7, ScansKeepTasks

LEMMA ScansGoOn ==
    ASSUME NEW w \in Workers, FireInvariant(w), TypeOK',
           \/ MarkTriggered(w)
           \/ \E s \in Schedules : SkipRemovedSchedule(w, s)
    PROVE  FireInvariant(w)'
<1> USE DEF Firing
<1>a. TypeOK /\ NoTicks /\ MinutesPass(w) /\ MarkedExists(w) /\ RefiresNeedCrashes
        /\ Unfired(w) /\ Untriggered(w)
  BY DEF FireInvariant
<1>0. /\ minute \in Nat /\ crashes \in Nat /\ worker[w] \in WorkerState /\ None \notin Minutes
      /\ worker[w].at \in Nat /\ \A t \in Tasks : tasks[t].minute \in Nat
      /\ schedules = [s \in Schedules |-> schedules[s]]
      /\ \A s \in Schedules : schedules[s] \in ScheduleRow
  BY <1>a, FireTypes, ConstantsAssumption DEF TypeOK
<1>1. PICK s \in Schedules :
        /\ Firing(w) /\ NextDueSchedule(w, s)
        /\ worker[w].pc = "mark" => s = worker[w].schedule
        /\ \/ UNCHANGED schedules /\ ~Exists(s)
           \/ /\ worker[w].pc = "mark" /\ Exists(s)
              /\ schedules' = [schedules EXCEPT ![s].triggered = worker[w].at]
  BY <1>a DEF MarkTriggered, SkipRemovedSchedule, MarkedExists, plans
<1>2. UNCHANGED <<tasks, created, minute, crashes, client>>
  BY DEF MarkTriggered, SkipRemovedSchedule, queue, plans, world
<1>3. /\ worker'[w].pc \in {"claim", "enqueue"} /\ worker'[w].at = worker[w].at
      /\ worker'[w].due = worker[w].due \ {s}
  BY <1>0, <1>1, <1>a DEF NextDueSchedule, WorkerState, TypeOK
<1>4. NoTicks'
  BY <1>a, <1>2 DEF NoTicks
<1>5. MarkedExists(w)'
  BY <1>3 DEF MarkedExists
<1>6. worker'[w].at <= minute /\ (Firing(w)' => \A t \in Tasks : tasks[t].minute <= worker'[w].at)
  BY <1>a, <1>1, <1>3 DEF MinutesPass
<1>7. Unfired(w)'
  <2> SUFFICES ASSUME NEW x \in Schedules, x \in worker[w].due, x # s, worker[w].at \in Minutes
               PROVE  Cardinality(TasksOfMinute(x, worker[w].at)') <= crashes
    BY <1>2, <1>3 DEF Unfired
  <2>1. TasksOfMinute(x, worker[w].at)' = TasksOfMinute(x, worker[w].at)
    BY <1>2, <1>3 DEF TasksOfMinute
  <2>2. Cardinality(TasksOfMinute(x, worker[w].at)) <= crashes
    BY <1>a, <1>1 DEF Unfired
  <2> QED
    BY <2>1, <2>2
<1>8. Untriggered(w)'
  <2> SUFFICES ASSUME NEW x \in Schedules, minute \in Minutes, schedules'[x].status # "removed",
                      schedules'[x].triggered # minute
               PROVE  Cardinality(TasksOfMinute(x, minute)') <= crashes
    BY <1>2 DEF Untriggered
  <2>1. TasksOfMinute(x, minute)' = TasksOfMinute(x, minute)
    BY <1>2 DEF TasksOfMinute
  <2>2. CASE x # s \/ worker[w].pc # "mark"
    <3>1. schedules'[x].status = schedules[x].status /\ schedules'[x].triggered = schedules[x].triggered
      BY <1>0, <1>1, <2>2
    <3> QED
      BY <1>a, <1>1, <2>1, <2>2, <3>1 DEF Untriggered
  <2>3. CASE x = s /\ worker[w].pc = "mark"
    <3>1. worker[w].at # minute
      <4>1. schedules[s].status # "absent" /\ schedules[s].status \in ScheduleStatus
        BY <1>0, <1>1, <1>a, <2>3 DEF MarkedExists, ScheduleRow
      <4>2. Exists(s)
        BY <1>1, <2>3, <4>1, NoScheduleAssumption DEF Exists, ScheduleStatus
      <4>3. schedules'[x].triggered = worker[w].at
        BY <1>0, <1>1, <2>3, <4>2 DEF ScheduleRow
      <4> QED
        BY <1>2, <4>3
    <3>2. TasksOfMinute(x, minute) = {}
      BY <1>a, <1>0, <1>1, <3>1 DEF MinutesPass, TasksOfMinute
    <3> QED
      BY <1>0, <2>1, <3>2, FS_EmptySet
  <2> QED
    BY <2>2, <2>3
<1> QED
  BY <1>2, <1>4, <1>5, <1>6, <1>7, <1>8, ScansKeepTasks

LEMMA EnqueuedOnce ==
    ASSUME NEW w \in Workers, FireInvariant(w), TypeOK', NEW s \in Schedules, EnqueueDueSchedule(w, s)
    PROVE  FireInvariant(w)'
<1> USE DEF Firing
<1>a. TypeOK /\ NoTicks /\ MinutesPass(w) /\ MarkedExists(w) /\ RefiresNeedCrashes
        /\ Unfired(w) /\ Untriggered(w)
  BY DEF FireInvariant
<1>0. /\ minute \in Nat /\ crashes \in Nat /\ worker[w] \in WorkerState /\ None \notin Minutes
      /\ worker[w].at \in Nat /\ \A t \in Tasks : tasks[t].minute \in Nat /\ t \in Nat
      /\ created \in Nat /\ tasks = [t \in Tasks |-> tasks[t]] /\ None = 0
  BY <1>a, FireTypes, ConstantsAssumption DEF TypeOK
<1> DEFINE at == worker[w].at
           row == NewTask("scheduler", s, None, at)
<1>1. /\ worker[w].pc = "enqueue" /\ s \in worker[w].due /\ Exists(s)
      /\ worker'[w].pc = "mark" /\ worker'[w].schedule = s /\ worker'[w].at = at
      /\ worker'[w].due = worker[w].due
      /\ UNCHANGED <<schedules, minute, crashes, client>>
  BY <1>a, <1>0 DEF EnqueueDueSchedule, TypeOK, WorkerState, plans, world
<1>2. created' = created + 1 /\ tasks' = [tasks EXCEPT ![created + 1] = row] /\ created + 1 \in Tasks
  BY <1>a, ConstantsAssumption DEF EnqueueDueSchedule, AddTask, TypeOK, Tasks
<1>3. row.source = "scheduler" /\ row.schedule = s /\ row.minute = at
  BY DEF NewTask
<1>4. tasks[created + 1].minute = None
  BY <1>a, <1>0, <1>2 DEF MinutesPass
<1> HIDE DEF row
<1>5. ASSUME NEW x \in Schedules, NEW m \in Minutes
      PROVE  /\ TasksOfMinute(x, m)' = IF x = s /\ m = at THEN TasksOfMinute(x, m) \cup {created + 1}
                                                          ELSE TasksOfMinute(x, m)
             /\ created + 1 \notin TasksOfMinute(x, m)
  <2>1. created + 1 \notin TasksOfMinute(x, m)
    BY <1>0, <1>4 DEF TasksOfMinute
  <2>2. \A t \in Tasks : t # created + 1 => tasks'[t] = tasks[t]
    BY <1>2
  <2>3. tasks'[created + 1] = row
    BY <1>0, <1>2
  <2>4. CASE x = s /\ m = at
    <3>1. \A t \in Tasks : (tasks'[t].source = "scheduler" /\ tasks'[t].schedule = x /\ tasks'[t].minute = m)
              <=> t = created + 1 \/ (tasks[t].source = "scheduler" /\ tasks[t].schedule = x /\ tasks[t].minute = m)
      BY <1>3, <2>2, <2>3, <2>4
    <3> QED
      BY <1>2, <2>1, <2>4, <3>1 DEF TasksOfMinute
  <2>5. CASE ~(x = s /\ m = at)
    <3>1. \A t \in Tasks : (tasks'[t].source = "scheduler" /\ tasks'[t].schedule = x /\ tasks'[t].minute = m)
              <=> (tasks[t].source = "scheduler" /\ tasks[t].schedule = x /\ tasks[t].minute = m)
      BY <1>0, <1>3, <1>4, <2>2, <2>3, <2>5
    <3> QED
      BY <2>1, <2>5, <3>1 DEF TasksOfMinute
  <2> QED
    BY <2>4, <2>5
<1>6. RefiresNeedCrashes'
  <2> SUFFICES ASSUME NEW x \in Schedules, NEW m \in Minutes
               PROVE  Cardinality(TasksOfMinute(x, m)') <= 1 + crashes
    BY <1>1 DEF RefiresNeedCrashes, Minutes
  <2>1. CASE x = s /\ m = at
    <3>1. Cardinality(TasksOfMinute(x, m)) <= crashes
      BY <1>a, <1>1, <2>1 DEF Unfired
    <3>2. Cardinality(TasksOfMinute(x, m) \cup {created + 1}) = Cardinality(TasksOfMinute(x, m)) + 1
      BY <1>5, TasksOfMinuteFinite, FS_AddElement
    <3>3. TasksOfMinute(x, m)' = TasksOfMinute(x, m) \cup {created + 1}
      BY <1>5, <2>1
    <3>4. Cardinality(TasksOfMinute(x, m)) \in Nat
      BY TasksOfMinuteFinite
    <3> QED
      BY <1>0, <3>1, <3>2, <3>3, <3>4
  <2>2. CASE ~(x = s /\ m = at)
    BY <1>a, <1>5, <2>2 DEF RefiresNeedCrashes
  <2> QED
    BY <2>1, <2>2
<1>7. NoTicks'
  BY <1>a, <1>1 DEF NoTicks
<1>8. MarkedExists(w)'
  BY <1>1 DEF MarkedExists, Exists
<1>9. MinutesPass(w)'
  <2>1. \A t \in Tasks : tasks'[t].minute <= at
    <3>1. \A t \in Tasks : tasks[t].minute <= at
      BY <1>1, <1>a DEF MinutesPass
    <3>2. \A t \in Tasks : tasks'[t] = IF t = created + 1 THEN row ELSE tasks[t]
      BY <1>0, <1>2
    <3>3. at <= at
      BY <1>0
    <3> QED
      BY <1>3, <3>1, <3>2, <3>3
  <2>2. \A t \in Tasks : t > created' => tasks'[t].minute = None
    BY <1>0, <1>2, <1>a DEF MinutesPass
  <2> QED
    <3>1. at <= minute
      BY <1>a DEF MinutesPass
    <3>2. \A t \in Tasks : tasks'[t].minute \in Nat
      <4>1. \A t \in Tasks : tasks'[t] = IF t = created + 1 THEN row ELSE tasks[t]
        BY <1>0, <1>2
      <4> QED
        BY <1>0, <1>3, <4>1
    <3>3. \A t \in Tasks : tasks'[t].minute <= minute
      BY <1>0, <2>1, <3>1, <3>2
    <3> QED
      BY <1>1, <2>1, <2>2, <3>1, <3>3 DEF MinutesPass
<1>10. Unfired(w)'
  <2> SUFFICES ASSUME NEW x \in Schedules, x \in worker[w].due, x # s, at \in Minutes
               PROVE  Cardinality(TasksOfMinute(x, worker[w].at)') <= crashes
    BY <1>1 DEF Unfired
  <2>2. TasksOfMinute(x, worker[w].at)' = TasksOfMinute(x, at)
    <3>1. \A t \in Tasks : (tasks'[t].source = "scheduler" /\ tasks'[t].schedule = x /\ tasks'[t].minute = worker'[w].at)
              <=> (tasks[t].source = "scheduler" /\ tasks[t].schedule = x /\ tasks[t].minute = at)
      BY <1>0, <1>1, <1>2, <1>3, <1>4
    <3> QED
      BY <3>1 DEF TasksOfMinute
  <2>3. Cardinality(TasksOfMinute(x, at)) <= crashes
    BY <1>a, <1>1 DEF Unfired
  <2> QED
    BY <2>2, <2>3
<1>11. Untriggered(w)'
  <2> SUFFICES ASSUME NEW x \in Schedules, minute \in Minutes, schedules[x].status # "removed",
                      schedules[x].triggered # minute, ~(s = x /\ at = minute)
               PROVE  Cardinality(TasksOfMinute(x, minute)') <= crashes
    BY <1>1 DEF Untriggered
  <2>1. TasksOfMinute(x, minute)' = TasksOfMinute(x, minute)
    <3>1. \A t \in Tasks : (tasks'[t].source = "scheduler" /\ tasks'[t].schedule = x /\ tasks'[t].minute = minute')
              <=> (tasks[t].source = "scheduler" /\ tasks[t].schedule = x /\ tasks[t].minute = minute)
      BY <1>0, <1>1, <1>2, <1>3, <1>4
    <3> QED
      BY <3>1 DEF TasksOfMinute
  <2> QED
    BY <1>a, <1>1, <2>1 DEF Untriggered
<1> QED
  BY <1>6, <1>7, <1>8, <1>9, <1>10, <1>11 DEF FireInvariant

LEMMA CrashesAreCounted ==
    ASSUME NEW w \in Workers, FireInvariant(w), TypeOK', WorkerCrashes(w)
    PROVE  FireInvariant(w)'
<1> USE DEF Firing
<1>a. TypeOK /\ NoTicks /\ MinutesPass(w) /\ MarkedExists(w) /\ RefiresNeedCrashes
        /\ Unfired(w) /\ Untriggered(w)
  BY DEF FireInvariant
<1>0. minute \in Nat /\ crashes \in Nat /\ None = 0
  BY <1>a, FireTypes
<1>1. /\ worker'[w] = IdleWorker /\ crashes' = crashes + 1
      /\ UNCHANGED <<tasks, created, schedules, minute, client>>
  BY <1>a DEF WorkerCrashes, WorkerRests, TypeOK, queue, plans
<1>2. worker'[w].pc = "idle" /\ worker'[w].at = None
  BY <1>1 DEF IdleWorker
<1>3. \A s \in Schedules, m \in Minutes :
        TasksOfMinute(s, m)' = TasksOfMinute(s, m) /\ Cardinality(TasksOfMinute(s, m)) \in Nat
  <2>1. \A s \in Schedules, m \in Minutes : TasksOfMinute(s, m)' = TasksOfMinute(s, m)
    BY <1>1 DEF TasksOfMinute
  <2> QED
    BY <2>1, TasksOfMinuteFinite
<1>4. RefiresNeedCrashes'
  BY <1>a, <1>0, <1>1, <1>3 DEF RefiresNeedCrashes
<1>5. Untriggered(w)'
  <2> SUFFICES ASSUME NEW s \in Schedules, minute \in Minutes
               PROVE  Cardinality(TasksOfMinute(s, minute)') <= crashes'
    BY <1>1 DEF Untriggered
  <2>1. Cardinality(TasksOfMinute(s, minute)) <= 1 + crashes
    BY <1>a DEF RefiresNeedCrashes
  <2>2. TasksOfMinute(s, minute)' = TasksOfMinute(s, minute)
    BY <1>1 DEF TasksOfMinute
  <2> QED
    BY <1>0, <1>1, <1>3, <2>1, <2>2
<1>6. NoTicks' /\ MarkedExists(w)' /\ Unfired(w)' /\ MinutesPass(w)'
  BY <1>a, <1>0, <1>1, <1>2 DEF NoTicks, MarkedExists, Unfired, MinutesPass
<1> QED
  BY <1>4, <1>5, <1>6 DEF FireInvariant

LEMMA MinutesStartUnfired ==
    ASSUME NEW w \in Workers, FireInvariant(w), TypeOK', MinutePasses
    PROVE  FireInvariant(w)'
<1> USE DEF Firing
<1>a. TypeOK /\ NoTicks /\ MinutesPass(w) /\ MarkedExists(w) /\ RefiresNeedCrashes
        /\ Unfired(w) /\ Untriggered(w)
  BY DEF FireInvariant
<1>0. /\ minute \in Nat /\ crashes \in Nat /\ worker[w].at \in Nat
      /\ \A t \in Tasks : tasks[t].minute \in Nat
  BY <1>a, FireTypes
<1>1. minute' = minute + 1 /\ UNCHANGED <<tasks, created, schedules, worker, crashes, client>>
  BY DEF MinutePasses, queue, plans
<1>2. \A s \in Schedules, m \in Minutes : TasksOfMinute(s, m)' = TasksOfMinute(s, m)
  BY <1>1 DEF TasksOfMinute
<1>3. RefiresNeedCrashes'
  BY <1>a, <1>1, <1>2 DEF RefiresNeedCrashes
<1>4. Untriggered(w)'
  <2> SUFFICES ASSUME NEW s \in Schedules
               PROVE  Cardinality(TasksOfMinute(s, minute)') <= crashes'
    BY DEF Untriggered
  <2>1. \A t \in Tasks : tasks'[t].minute # minute'
    BY <1>a, <1>0, <1>1 DEF MinutesPass
  <2>2. TasksOfMinute(s, minute)' = {}
    BY <2>1 DEF TasksOfMinute
  <2>3. Cardinality({}) = 0
    BY FS_EmptySet
  <2> QED
    BY <1>0, <1>1, <2>2, <2>3
<1>5. MinutesPass(w)'
  BY <1>a, <1>0, <1>1 DEF MinutesPass
<1>6. Unfired(w)'
  <2> SUFFICES ASSUME NEW s \in Schedules, worker[w].at \in Minutes, Firing(w), s \in worker[w].due,
                      worker[w].pc = "mark" => s # worker[w].schedule
               PROVE  Cardinality(TasksOfMinute(s, worker[w].at)') <= crashes
    BY <1>1 DEF Unfired
  <2>1. TasksOfMinute(s, worker[w].at)' = TasksOfMinute(s, worker[w].at)
    BY <1>1 DEF TasksOfMinute
  <2> QED
    BY <1>a, <2>1 DEF Unfired
<1>7. NoTicks' /\ MarkedExists(w)'
  BY <1>a, <1>1 DEF NoTicks, MarkedExists
<1> QED
  BY <1>3, <1>4, <1>5, <1>6, <1>7 DEF FireInvariant

\* A schedule fires once a minute, and once more for each crash, whatever commands are given
\* meanwhile, as long as one worker process alone fires schedules.
THEOREM RefiresAlwaysNeedCrashes ==
    ASSUME NEW w, Workers = {w}, "tick" \notin Commands
    PROVE  Spec => []RefiresNeedCrashes
<1>1. ASSUME Init PROVE FireInvariant(w)
  <2> USE <1>1
  <2>1. TypeOK
    BY InitTyped
  <2>2. /\ worker[w] = IdleWorker /\ created = 0 /\ minute = None /\ crashes = 0 /\ None = 0
        /\ \A t \in Tasks : tasks[t].minute = None
        /\ client = [c \in Clients |-> IdleClient]
    BY DEF Init, None
  <2>3. \A s \in Schedules, m \in Minutes : TasksOfMinute(s, m) = {}
    BY <2>2, ConstantsAssumption DEF TasksOfMinute, Minutes
  <2>4. RefiresNeedCrashes
    BY <2>2, <2>3, FS_EmptySet DEF RefiresNeedCrashes
  <2>5. NoTicks
    BY <2>2 DEF NoTicks, NotTicking, IdleClient
  <2>6. worker[w].pc = "idle" /\ worker[w].at = None
    BY <2>2 DEF IdleWorker
  <2>7. MinutesPass(w) /\ MarkedExists(w) /\ Unfired(w)
    BY <2>2, <2>6 DEF MinutesPass, MarkedExists, Unfired, Firing
  <2>8. Untriggered(w)
    BY <2>2, FireTypes, <2>1 DEF Untriggered
  <2> QED
    BY <2>1, <2>4, <2>5, <2>7, <2>8 DEF FireInvariant
<1>2. ASSUME FireInvariant(w), [Next]_vars PROVE FireInvariant(w)'
  <2>0. TypeOK' /\ w \in Workers
    BY <1>2, NextTyped DEF FireInvariant
  <2>1. CASE WorkerStep(w)
    BY <1>2, <2>0, <2>1, WorkerFiresInScan, QuietStepsFireNothing, ScansFindUnfired, ScansGoOn, EnqueuedOnce
  <2>2. CASE WorkerCrashes(w)
    BY <1>2, <2>0, <2>2, CrashesAreCounted
  <2>3. ASSUME NEW c \in Clients, ClientCommand(c) \/ ClientStep(c) \/ ClientKilled(c)
        PROVE  FireInvariant(w)'
    BY <1>2, <2>0, <2>3, ClientsFireNothing, QuietStepsFireNothing
  <2>4. CASE OperatorCommand \/ RetryAfterPasses
    BY <1>2, <2>0, <2>4, OperatorsFireNothing, QuietStepsFireNothing
  <2>5. CASE MinutePasses
    BY <1>2, <2>0, <2>5, MinutesStartUnfired
  <2>6. CASE UNCHANGED vars
    <3>1. QuietStep(w)
      <4>1. created \in Nat /\ crashes \in Nat /\ NoTicks
        BY <1>2, <2>0, FireTypes DEF FireInvariant
      <4> QED
        BY <2>6, <4>1 DEF QuietStep, vars, queue, plans, world, NoTicks, NotTicking
    <3> QED
      BY <1>2, <2>0, <3>1, QuietStepsFireNothing
  <2> QED
    BY <1>2, <2>1, <2>2, <2>3, <2>4, <2>5, <2>6 DEF Next
<1>3. FireInvariant(w) => RefiresNeedCrashes
  BY DEF FireInvariant
<1> QED
  BY <1>1, <1>2, <1>3, PTL DEF Spec

-----------------------------------------------------------------------------
(* Agent runs that wait for input, and the tasks that resume them.           *)

\* One worker runs the queue and no command line process runs anything beside it.
Alone(w) == Workers = {w} /\ Commands \cap {"run task", "run schedule", "tick"} = {}

Open(t) == tasks[t].status \in {"pending", "running"}

Claimed(w) == worker[w].pc \notin {"idle", "enqueue", "mark", "claim"}

\* The steps at whose end the worker's task is over, whatever they do.
Closing(w, t) == worker[w].task = t /\ worker[w].pc \in {"resuming", "complete", "fail"}

ClientsIdle == \A c \in Clients : client[c].pc = "idle"

\* Nothing refers to a task or an agent run that does not exist.
Counted(w) ==
    /\ \A t \in Tasks : t > created => tasks[t].status = "absent" /\ tasks[t].run = None
    /\ \A t \in Tasks : tasks[t].run <= started
    /\ \A r \in asking : r <= started
    /\ \A r \in AgentRuns : r > started => agents[r] = "absent"
    /\ worker[w].run <= started
    /\ Claimed(w) => worker[w].task \in Tasks /\ worker[w].task <= created

\* The run a worker executes is its task's, or one that no task and no question names yet.
RunOfTask(w) ==
    /\ worker[w].pc \in {"claiming", "dispatch", "resume", "reopen", "resuming"}
        => worker[w].run = tasks[worker[w].task].run
    /\ worker[w].pc \in {"dispatch", "resume", "reopen", "resuming", "running"}
        => worker[w].run \in AgentRuns
    /\ worker[w].pc \in {"start", "running"} => tasks[worker[w].task].run = None
    /\ worker[w].pc = "running" => /\ worker[w].run \notin asking
                                   /\ \A t \in Tasks : tasks[t].run # worker[w].run

\* A task that is about to end names no run that waits.
NoneWaits(w) ==
    \A r \in AgentRuns, t \in Tasks :
        Closing(w, t) /\ tasks[t].run = r => agents[r] # "waiting_input"

\* The task that will wake a run is not one about to end.
Reachable(w) ==
    \A r \in AgentRuns : agents[r] = "waiting_input" /\ r \notin asking =>
        \E t \in Tasks : tasks[t].run = r /\ Open(t) /\ ~Closing(w, t)

ReachInvariant(w) ==
    TypeOK /\ ClientsIdle /\ Counted(w) /\ RunOfTask(w) /\ NoneWaits(w) /\ Reachable(w)

LEMMA ReachTypes ==
    ASSUME TypeOK, NEW w \in Workers
    PROVE  /\ worker[w] \in WorkerState /\ worker = [v \in Workers |-> worker[v]]
           /\ tasks = [t \in Tasks |-> tasks[t]] /\ agents = [r \in AgentRuns |-> agents[r]]
           /\ created \in Nat /\ started \in Nat /\ None = 0
           /\ \A t \in Tasks : t \in Nat /\ tasks[t].run \in Nat /\ tasks[t] \in TaskRow
           /\ \A r \in AgentRuns : r \in Nat /\ r > 0
           /\ worker[w].run \in Nat
           /\ asking \subseteq AgentRuns
<1>1. /\ None = 0 /\ \A r \in AgentRuns : r \in Nat /\ r > 0
      /\ \A t \in Tasks : t \in Nat
  BY ConstantsAssumption DEF AgentRuns, Tasks, None
<1>2. \A t \in Tasks : tasks[t] \in TaskRow
  BY DEF TypeOK
<1>3. \A t \in Tasks : tasks[t].run \in Nat
  <2>1. \A t \in Tasks : tasks[t].run \in AgentRuns \cup {None}
    BY <1>2 DEF TaskRow
  <2> QED
    BY <1>1, <2>1
<1>4. worker[w] \in WorkerState
  BY DEF TypeOK
<1>5. worker[w].run \in Nat
  <2>1. worker[w].run \in AgentRuns \cup {None}
    BY <1>4 DEF WorkerState
  <2> QED
    BY <1>1, <2>1
<1> QED
  BY <1>1, <1>2, <1>3, <1>4, <1>5, ConstantsAssumption DEF TypeOK

\* Steps that leave tasks and agent runs alone, and the worker too or with nothing claimed.
IdleStep(w) ==
    /\ UNCHANGED <<tasks, created, runs>>
    /\ \/ worker'[w] = worker[w]
       \/ ~Claimed(w)' /\ worker'[w].run \in {worker[w].run, None}

LEMMA IdleStepsKeepReach ==
    ASSUME NEW w \in Workers, ReachInvariant(w), TypeOK', ClientsIdle', IdleStep(w)
    PROVE  ReachInvariant(w)'
<1> USE DEF ReachInvariant, IdleStep, runs
<1>0. /\ UNCHANGED <<tasks, created, agents, started, asking>>
      /\ None = 0 /\ worker[w].run \in Nat /\ started \in Nat
  BY ReachTypes
<1>1. CASE worker'[w] = worker[w]
  BY <1>0, <1>1 DEF Counted, RunOfTask, NoneWaits, Reachable, Claimed, Closing, Open
<1>2. CASE ~Claimed(w)' /\ worker'[w].run \in {worker[w].run, None}
  <2>1. Counted(w)'
    BY <1>0, <1>2 DEF Counted
  <2>2. RunOfTask(w)' /\ NoneWaits(w)'
    BY <1>2 DEF RunOfTask, NoneWaits, Claimed, Closing
  <2>3. Reachable(w)'
    BY <1>0, <1>2 DEF Reachable, Closing, Claimed, Open
  <2> QED
    BY <2>1, <2>2, <2>3
<1> QED
  BY <1>1, <1>2

\* A new task, of no run or of the one whose question is answered with it.
AddsTask(w) ==
    /\ \E row \in TaskRow : /\ AddTask(row) /\ row.status = "pending"
                            /\ \/ row.run = None /\ asking' = asking
                               \/ row.run \in asking /\ asking' = asking \ {row.run}
    /\ UNCHANGED <<agents, started>>
    /\ \/ worker'[w] = worker[w]
       \/ ~Claimed(w) /\ ~Claimed(w)' /\ worker'[w].run = worker[w].run

LEMMA NewTasksKeepReach ==
    ASSUME NEW w \in Workers, ReachInvariant(w), TypeOK', ClientsIdle', AddsTask(w)
    PROVE  ReachInvariant(w)'
<1> USE DEF ReachInvariant
<1>0. /\ tasks = [t \in Tasks |-> tasks[t]] /\ created \in Nat /\ started \in Nat /\ None = 0
      /\ \A t \in Tasks : t \in Nat /\ tasks[t].run \in Nat
      /\ \A r \in AgentRuns : r \in Nat /\ r > 0
      /\ worker[w].run \in Nat /\ asking \subseteq AgentRuns /\ worker[w] \in WorkerState
  BY ReachTypes
<1>1. PICK row \in TaskRow :
        /\ AddTask(row) /\ row.status = "pending"
        /\ \/ row.run = None /\ asking' = asking
           \/ row.run \in asking /\ asking' = asking \ {row.run}
  BY DEF AddsTask
<1>2. /\ created + 1 \in Tasks /\ created' = created + 1
      /\ \A t \in Tasks : tasks'[t] = IF t = created + 1 THEN row ELSE tasks[t]
  BY <1>0, <1>1, AddTaskTyped DEF AddTask
<1>3. UNCHANGED <<agents, started>>
  BY DEF AddsTask
<1>4. \/ worker'[w] = worker[w]
      \/ ~Claimed(w) /\ ~Claimed(w)' /\ worker'[w].run = worker[w].run
  BY DEF AddsTask
<1>5. tasks[created + 1].status = "absent" /\ tasks[created + 1].run = None
  BY <1>0, <1>2 DEF Counted
<1>6. Claimed(w) => worker[w].task # created + 1 /\ worker'[w] = worker[w]
  BY <1>0, <1>4 DEF Counted
<1>7. Counted(w)'
  <2>1. row.run <= started
    BY <1>0, <1>1 DEF Counted
  <2>2. \A t \in Tasks : tasks'[t].run <= started
    BY <1>2, <2>1 DEF Counted
  <2>3. \A t \in Tasks : t > created' => tasks'[t].status = "absent" /\ tasks'[t].run = None
    BY <1>0, <1>2 DEF Counted
  <2>4. Claimed(w)' => worker'[w].task \in Tasks /\ worker'[w].task <= created'
    BY <1>0, <1>2, <1>4 DEF Counted, Claimed
  <2>5. (\A r \in asking : r <= started)'
    BY <1>1, <1>3 DEF Counted
  <2> QED
    BY <1>3, <1>4, <2>2, <2>3, <2>4, <2>5 DEF Counted
<1>8. RunOfTask(w)'
  BY <1>0, <1>1, <1>2, <1>3, <1>4, <1>6 DEF RunOfTask, Claimed, Counted
<1>9. NoneWaits(w)'
  BY <1>0, <1>1, <1>2, <1>3, <1>4, <1>6 DEF NoneWaits, Claimed, Closing
<1>10. Reachable(w)'
  <2> SUFFICES ASSUME NEW r \in AgentRuns, agents[r] = "waiting_input", r \notin asking'
               PROVE  \E t \in Tasks : tasks'[t].run = r /\ Open(t)' /\ ~Closing(w, t)'
    BY <1>3 DEF Reachable
  <2>1. CASE r \notin asking
    <3>1. PICK t \in Tasks : tasks[t].run = r /\ Open(t) /\ ~Closing(w, t)
      BY <2>1 DEF Reachable
    <3>2. tasks'[t] = tasks[t] /\ ~Closing(w, t)'
      BY <1>2, <1>4, <1>5, <3>1 DEF Open, Closing, Claimed
    <3> QED
      BY <3>1, <3>2 DEF Open
  <2>2. CASE r \in asking
    <3>1. PICK t \in Tasks : t = created + 1
      BY <1>2
    <3>2. tasks'[t].run = r /\ tasks'[t].status = "pending"
      BY <1>1, <1>2, <2>2, <3>1
    <3>3. ~Closing(w, t)'
      BY <1>4, <1>6, <3>1 DEF Closing, Claimed
    <3> QED
      BY <3>2, <3>3 DEF Open
  <2> QED
    BY <2>1, <2>2
<1> QED
  BY <1>7, <1>8, <1>9, <1>10

\* The claiming of a task, and the way of a task that names a run to where it is resumed or fails.
LEMMA ClaimsKeepReach ==
    ASSUME NEW w \in Workers, ReachInvariant(w), TypeOK', ClientsIdle', SelectTask(w) \/ ClaimTask(w) \/ DispatchResume(w)
                                                   \/ ReadRunToResume(w) \/ ResumeRaises(w)
    PROVE  ReachInvariant(w)'
<1> USE DEF ReachInvariant
<1>0. /\ worker[w] \in WorkerState /\ worker = [v \in Workers |-> worker[v]]
      /\ tasks = [t \in Tasks |-> tasks[t]] /\ agents = [r \in AgentRuns |-> agents[r]]
      /\ created \in Nat /\ started \in Nat /\ None = 0
      /\ \A t \in Tasks : t \in Nat /\ tasks[t].run \in Nat /\ tasks[t] \in TaskRow
      /\ \A r \in AgentRuns : r \in Nat /\ r > 0
      /\ worker[w].run \in Nat /\ asking \subseteq AgentRuns
  BY ReachTypes
<1>1. CASE SelectTask(w)
  <2>1. PICK t \in Tasks : /\ tasks[t].status = "pending"
                           /\ worker'[w].pc = "claiming" /\ worker'[w].task = t
                           /\ worker'[w].run = tasks[t].run
    BY <1>0, <1>1, ZenonT(60) DEF SelectTask, WorkerState, Claimable
  <2>2. UNCHANGED <<tasks, created, agents, started, asking>>
    BY <1>1 DEF SelectTask, queue, runs
  <2>3. Counted(w)'
    <3>1. t <= created
      BY <1>0, <2>1 DEF Counted
    <3> QED
      BY <2>1, <2>2, <3>1 DEF Counted
  <2>4. RunOfTask(w)' /\ NoneWaits(w)'
    BY <2>1, <2>2 DEF RunOfTask, NoneWaits, Closing
  <2>5. Reachable(w)'
    BY <2>1, <2>2 DEF Reachable, Closing, Open
  <2> QED
    BY <2>3, <2>4, <2>5
<1>2. CASE ClaimTask(w)
  <2>1. /\ worker[w].pc = "claiming" /\ worker'[w].task = worker[w].task
        /\ worker'[w].run = worker[w].run
        /\ worker'[w].pc = IF worker[w].run = None THEN "start" ELSE "dispatch"
    BY <1>0, <1>2 DEF ClaimTask, WorkerState
  <2>2. UNCHANGED <<created, agents, started, asking>>
    BY <1>2 DEF ClaimTask, runs
  <2>3. worker[w].task \in Tasks /\ worker[w].task <= created
    BY <2>1 DEF Counted, Claimed
  <2>4. \A t \in Tasks : /\ tasks'[t].run = tasks[t].run
                         /\ tasks'[t].status = IF t = worker[w].task THEN "running" ELSE tasks[t].status
    BY <1>0, <1>2 DEF ClaimTask, SetStatus, TaskRow
  <2>5. Counted(w)'
    BY <1>0, <2>1, <2>2, <2>3, <2>4 DEF Counted
  <2>6. RunOfTask(w)'
    <3>1. worker[w].run \in AgentRuns \cup {None}
      BY <1>0 DEF WorkerState
    <3> QED
      BY <1>0, <2>1, <2>2, <2>3, <2>4, <3>1 DEF RunOfTask
  <2>7. NoneWaits(w)'
    BY <1>0, <2>1, <2>2, <2>4 DEF NoneWaits, Closing
  <2>8. Reachable(w)'
    BY <1>0, <2>1, <2>2, <2>4 DEF Reachable, Closing, Open
  <2> QED
    BY <2>5, <2>6, <2>7, <2>8
<1>3. CASE DispatchResume(w)
  <2>1. /\ worker[w].pc = "dispatch" /\ worker'[w].task = worker[w].task
        /\ worker'[w].run = worker[w].run
        /\ worker'[w].pc = IF agents[worker[w].run] = "waiting_input" THEN "resume" ELSE "fail"
    BY <1>0, <1>3 DEF DispatchResume, WorkerState
  <2>2. UNCHANGED <<tasks, created, agents, started, asking>>
    BY <1>3 DEF DispatchResume, queue, runs
  <2>3. Counted(w)'
    BY <2>1, <2>2 DEF Counted, Claimed
  <2>4. RunOfTask(w)' /\ NoneWaits(w)'
    BY <2>1, <2>2 DEF RunOfTask, NoneWaits, Closing
  <2>5. Reachable(w)'
    BY <2>1, <2>2 DEF Reachable, Closing, Open, RunOfTask
  <2> QED
    BY <2>3, <2>4, <2>5
<1>4. CASE ReadRunToResume(w)
  <2>1. /\ worker[w].pc = "resume" /\ worker'[w].task = worker[w].task
        /\ worker'[w].run = worker[w].run
        /\ \/ worker'[w].pc \in {"complete", "fail", "resuming"} /\ agents[worker[w].run] # "waiting_input"
           \/ worker'[w].pc = "reopen"
    BY <1>0, <1>4 DEF ReadRunToResume, WorkerState
  <2>2. UNCHANGED <<tasks, created, agents, started, asking>>
    BY <1>4 DEF ReadRunToResume, queue, runs
  <2>3. Counted(w)'
    BY <2>1, <2>2 DEF Counted, Claimed
  <2>4. RunOfTask(w)' /\ NoneWaits(w)'
    BY <2>1, <2>2 DEF RunOfTask, NoneWaits, Closing
  <2>5. Reachable(w)'
    BY <2>1, <2>2 DEF Reachable, Closing, Open, RunOfTask
  <2> QED
    BY <2>3, <2>4, <2>5
<1>5. CASE ResumeRaises(w)
  <2>1. /\ worker[w].pc = "resuming" /\ worker'[w].task = worker[w].task
        /\ worker'[w].run = worker[w].run /\ worker'[w].pc = "fail"
    BY <1>0, <1>5 DEF ResumeRaises, WorkerState
  <2>2. UNCHANGED <<tasks, created, agents, started, asking>>
    BY <1>5 DEF ResumeRaises, queue, runs
  <2>3. Counted(w)' /\ RunOfTask(w)' /\ NoneWaits(w)' /\ Reachable(w)'
    BY <2>1, <2>2 DEF Counted, Claimed, RunOfTask, NoneWaits, Reachable, Closing, Open
  <2> QED
    BY <2>3
<1> QED
  BY <1>1, <1>2, <1>3, <1>4, <1>5

\* An agent run from its row to its end.
LEMMA RunsKeepReach ==
    ASSUME NEW w \in Workers, ReachInvariant(w), TypeOK', ClientsIdle', StartAgentRun(w) \/ ReopenAgentRun(w) \/ FinishAgentRun(w)
    PROVE  ReachInvariant(w)'
<1> USE DEF ReachInvariant
<1>0. /\ worker[w] \in WorkerState /\ worker = [v \in Workers |-> worker[v]]
      /\ tasks = [t \in Tasks |-> tasks[t]] /\ agents = [r \in AgentRuns |-> agents[r]]
      /\ created \in Nat /\ started \in Nat /\ None = 0
      /\ \A t \in Tasks : t \in Nat /\ tasks[t].run \in Nat /\ tasks[t] \in TaskRow
      /\ \A r \in AgentRuns : r \in Nat /\ r > 0
      /\ worker[w].run \in Nat /\ asking \subseteq AgentRuns
  BY ReachTypes
<1>1. CASE StartAgentRun(w)
  <2>1. /\ worker[w].pc = "start" /\ worker'[w].task = worker[w].task
        /\ worker'[w].run = started + 1 /\ worker'[w].pc = "running"
        /\ started' = started + 1
    BY <1>0, <1>1 DEF StartAgentRun, WorkerState
  <2>2. UNCHANGED <<tasks, created, asking>> /\ started + 1 \in AgentRuns
    BY <1>1, ConstantsAssumption DEF StartAgentRun, queue, TypeOK, AgentRuns
  <2>3. \A r \in AgentRuns : agents'[r] = IF r = started + 1 THEN "running" ELSE agents[r]
    BY <1>0, <1>1 DEF StartAgentRun
  <2>4. Counted(w)'
    BY <1>0, <2>1, <2>2, <2>3 DEF Counted, Claimed
  <2>5. RunOfTask(w)'
    BY <1>0, <2>1, <2>2 DEF RunOfTask, Counted
  <2>6. NoneWaits(w)'
    BY <2>1 DEF NoneWaits, Closing
  <2>7. Reachable(w)'
    BY <1>0, <2>1, <2>2, <2>3 DEF Reachable, Closing, Open
  <2> QED
    BY <2>4, <2>5, <2>6, <2>7
<1>2. CASE ReopenAgentRun(w)
  <2>1. /\ worker[w].pc = "reopen" /\ worker'[w].task = worker[w].task
        /\ worker'[w].run = worker[w].run /\ worker'[w].pc = "resuming"
    BY <1>0, <1>2 DEF ReopenAgentRun, WorkerState
  <2>2. UNCHANGED <<tasks, created, asking, started>>
    BY <1>2 DEF ReopenAgentRun, queue
  <2>3. \A r \in AgentRuns : agents'[r] = IF r = worker[w].run THEN "running" ELSE agents[r]
    BY <1>0, <1>2 DEF ReopenAgentRun
  <2>4. Counted(w)'
    BY <1>0, <2>1, <2>2, <2>3 DEF Counted, Claimed
  <2>5. RunOfTask(w)'
    BY <1>0, <2>1, <2>2 DEF RunOfTask
  <2>6. NoneWaits(w)'
    BY <2>1, <2>2, <2>3 DEF NoneWaits, Closing, RunOfTask
  <2>7. Reachable(w)'
    BY <1>0, <2>1, <2>2, <2>3 DEF Reachable, Closing, Open, RunOfTask
  <2> QED
    BY <2>4, <2>5, <2>6, <2>7
<1>3. CASE FinishAgentRun(w)
  <2>1. PICK status \in {"completed", "failed", "waiting_input", "blocked"} :
          /\ worker[w].pc \in {"running", "resuming"}
          /\ worker[w].pc = "resuming" => status # "waiting_input"
          /\ agents' = [agents EXCEPT ![worker[w].run] = status]
          /\ asking' = IF status = "waiting_input" THEN asking \cup {worker[w].run} ELSE asking
    BY <1>3 DEF FinishAgentRun
  <2>2. /\ worker'[w].task = worker[w].task
        /\ worker'[w].run = worker[w].run /\ worker'[w].pc = "complete"
    BY <1>0, <1>3 DEF FinishAgentRun, WorkerState
  <2>3. UNCHANGED <<tasks, created, started>>
    BY <1>3 DEF FinishAgentRun, queue
  <2>4. \A r \in AgentRuns : agents'[r] = IF r = worker[w].run THEN status ELSE agents[r]
    BY <1>0, <2>1
  <2>5. Counted(w)'
    BY <1>0, <2>1, <2>2, <2>3, <2>4 DEF Counted, Claimed
  <2>6. RunOfTask(w)'
    BY <2>2 DEF RunOfTask
  <2>7. NoneWaits(w)'
    <3>1. CASE worker[w].pc = "running"
      BY <1>0, <2>2, <2>3, <3>1 DEF NoneWaits, Closing, RunOfTask
    <3>2. CASE worker[w].pc = "resuming"
      BY <2>1, <2>2, <2>3, <2>4, <3>2 DEF NoneWaits, Closing, RunOfTask
    <3> QED
      BY <2>1, <3>1, <3>2
  <2>8. Reachable(w)'
    <3> SUFFICES ASSUME NEW r \in AgentRuns, agents'[r] = "waiting_input", r \notin asking'
                 PROVE  \E t \in Tasks : tasks'[t].run = r /\ Open(t)' /\ ~Closing(w, t)'
      BY DEF Reachable
    <3>1. r # worker[w].run /\ agents[r] = "waiting_input" /\ r \notin asking
      BY <2>1, <2>4
    <3>2. PICK t \in Tasks : tasks[t].run = r /\ Open(t) /\ ~Closing(w, t)
      BY <3>1 DEF Reachable
    <3>3. ~Closing(w, t)'
      BY <1>0, <2>1, <2>2, <3>1, <3>2 DEF Closing, RunOfTask
    <3> QED
      BY <2>3, <3>2, <3>3 DEF Open
  <2> QED
    BY <2>5, <2>6, <2>7, <2>8
<1> QED
  BY <1>1, <1>2, <1>3

\* The end of a task.
LEMMA EndsEndTasks ==
    ASSUME TypeOK, NEW w \in Workers, worker[w].task \in Tasks, FailTask(w) \/ CompleteTask(w)
    PROVE  \A t \in Tasks : /\ t # worker[w].task => tasks'[t] = tasks[t]
                            /\ t = worker[w].task => /\ tasks'[t].status \in {"completed", "failed"}
                                                     /\ tasks'[t].run \in {tasks[t].run, worker[w].run}
<1>0. tasks = [t \in Tasks |-> tasks[t]] /\ \A t \in Tasks : tasks[t] \in TaskRow
  BY DEF TypeOK
<1>1. CASE FailTask(w)
  BY <1>0, <1>1 DEF FailTask, SetStatus, TaskRow
<1>2. CASE CompleteTask(w)
  <2> DEFINE status == IF agents[worker[w].run] = "completed" THEN "completed" ELSE "failed"
  <2>1. tasks' = [tasks EXCEPT ![worker[w].task] = [@ EXCEPT !.status = status, !.run = worker[w].run]]
    BY <1>2 DEF CompleteTask
  <2>2. status \in {"completed", "failed"}
    OBVIOUS
  <2> HIDE DEF status
  <2> QED
    BY <1>0, <2>1, <2>2 DEF TaskRow
<1> QED
  BY <1>1, <1>2

LEMMA EndsKeepReach ==
    ASSUME NEW w \in Workers, ReachInvariant(w), TypeOK', ClientsIdle', FailTask(w) \/ CompleteTask(w)
    PROVE  ReachInvariant(w)'
<1> USE DEF ReachInvariant
<1>0. /\ worker[w] \in WorkerState /\ worker = [v \in Workers |-> worker[v]]
      /\ tasks = [t \in Tasks |-> tasks[t]] /\ agents = [r \in AgentRuns |-> agents[r]]
      /\ created \in Nat /\ started \in Nat /\ None = 0
      /\ \A t \in Tasks : t \in Nat /\ tasks[t].run \in Nat /\ tasks[t] \in TaskRow
      /\ \A r \in AgentRuns : r \in Nat /\ r > 0
      /\ worker[w].run \in Nat /\ asking \subseteq AgentRuns
  BY ReachTypes
<1>1. /\ worker[w].pc \in {"fail", "complete"} /\ worker'[w] = IdleWorker
      /\ UNCHANGED <<created, agents, started, asking>>
  BY <1>0 DEF FailTask, CompleteTask, WorkerRests, runs
<1>2. worker'[w].pc = "idle" /\ worker'[w].run = None
  BY <1>1 DEF IdleWorker
<1>3. worker[w].task \in Tasks
  BY <1>1 DEF Counted, Claimed
<1>4. \A t \in Tasks : /\ t # worker[w].task => tasks'[t] = tasks[t]
                       /\ t = worker[w].task => /\ tasks'[t].status \in {"completed", "failed"}
                                                /\ tasks'[t].run \in {tasks[t].run, worker[w].run}
  BY <1>3, EndsEndTasks
<1>5. Counted(w)'
  BY <1>0, <1>1, <1>2, <1>3, <1>4 DEF Counted, Claimed
<1>6. RunOfTask(w)' /\ NoneWaits(w)'
  BY <1>2 DEF RunOfTask, NoneWaits, Closing
<1>7. Reachable(w)'
  <2> SUFFICES ASSUME NEW r \in AgentRuns, agents[r] = "waiting_input", r \notin asking
               PROVE  \E t \in Tasks : tasks'[t].run = r /\ Open(t)' /\ ~Closing(w, t)'
    BY <1>1 DEF Reachable
  <2>1. PICK t \in Tasks : tasks[t].run = r /\ Open(t) /\ ~Closing(w, t)
    BY DEF Reachable
  <2>2. t # worker[w].task
    BY <1>1, <2>1 DEF Closing
  <2> QED
    BY <1>2, <1>4, <2>1, <2>2 DEF Open, Closing
<1> QED
  BY <1>5, <1>6, <1>7

\* What the operator does without adding a task.
LEMMA DecisionsKeepReach ==
    ASSUME NEW w \in Workers, ReachInvariant(w), TypeOK', ClientsIdle', ResumeTaskCommand \/ RejectCommand \/ AnswerCommand \/ CancelRunCommand
    PROVE  ReachInvariant(w)'
<1> USE DEF ReachInvariant
<1>0. /\ worker[w] \in WorkerState /\ worker = [v \in Workers |-> worker[v]]
      /\ tasks = [t \in Tasks |-> tasks[t]] /\ agents = [r \in AgentRuns |-> agents[r]]
      /\ created \in Nat /\ started \in Nat /\ None = 0
      /\ \A t \in Tasks : t \in Nat /\ tasks[t].run \in Nat /\ tasks[t] \in TaskRow
      /\ \A r \in AgentRuns : r \in Nat /\ r > 0
      /\ worker[w].run \in Nat /\ asking \subseteq AgentRuns
  BY ReachTypes
<1>1. CASE ResumeTaskCommand
  <2>0. \A u \in 1..created : u \in Tasks /\ u <= created
    BY ConstantsAssumption DEF TypeOK, Tasks
  <2>1. PICK u \in Tasks : u <= created /\ SetStatus(u, "pending")
    BY <1>1, <2>0 DEF ResumeTaskCommand
  <2>2. UNCHANGED <<created, agents, started, asking, worker>>
    BY <1>1 DEF ResumeTaskCommand, runs
  <2>3. \A t \in Tasks : /\ tasks'[t].run = tasks[t].run
                         /\ tasks'[t].status = IF t = u THEN "pending" ELSE tasks[t].status
    BY <1>0, <2>1 DEF SetStatus, TaskRow
  <2>4. Counted(w)'
    BY <1>0, <2>1, <2>2, <2>3 DEF Counted, Claimed
  <2>5. RunOfTask(w)'
    BY <1>0, <2>2, <2>3 DEF RunOfTask, Counted, Claimed
  <2>6. NoneWaits(w)' /\ Reachable(w)'
    BY <2>2, <2>3 DEF NoneWaits, Reachable, Closing, Open
  <2> QED
    BY <2>4, <2>5, <2>6
<1>2. CASE RejectCommand \/ AnswerCommand \/ CancelRunCommand
  <2>1. PICK r \in AgentRuns, status \in {"completed", "cancelled"} :
          r <= started /\ agents' = [agents EXCEPT ![r] = status] /\ asking' \in {asking, asking \ {r}}
    <3>1. \A r \in 1..started : r \in AgentRuns /\ r <= started
      BY ConstantsAssumption DEF TypeOK, AgentRuns
    <3>2. \A r \in asking : r \in AgentRuns /\ r <= started
      BY <1>0 DEF Counted
    <3>3. CASE CancelRunCommand
      BY <3>1, <3>3 DEF CancelRunCommand
    <3>4. CASE RejectCommand \/ AnswerCommand
      BY <3>2, <3>4 DEF RejectCommand, AnswerCommand
    <3> QED
      BY <1>2, <3>3, <3>4
  <2>2. UNCHANGED <<tasks, created, started, worker>>
    BY <1>2 DEF RejectCommand, AnswerCommand, CancelRunCommand, queue
  <2>3. \A x \in AgentRuns : agents'[x] = IF x = r THEN status ELSE agents[x]
    BY <1>0, <2>1
  <2>4. Counted(w)'
    BY <1>0, <2>1, <2>2, <2>3 DEF Counted, Claimed
  <2>5. RunOfTask(w)'
    BY <1>0, <2>1, <2>2 DEF RunOfTask
  <2>6. NoneWaits(w)' /\ Reachable(w)'
    BY <2>1, <2>2, <2>3 DEF NoneWaits, Reachable, Closing, Open
  <2> QED
    BY <2>4, <2>5, <2>6
<1> QED
  BY <1>1, <1>2

\* An approval of a run that an open task will resume.
Approves(w) ==
    /\ \E r \in asking : HasOpenTask(r) /\ asking' = asking \ {r}
    /\ UNCHANGED <<tasks, created, agents, started, worker>>

LEMMA ApprovalsKeepReach ==
    ASSUME NEW w \in Workers, ReachInvariant(w), TypeOK', ClientsIdle', Approves(w)
    PROVE  ReachInvariant(w)'
<1> USE DEF ReachInvariant
<1>1. PICK r \in asking : HasOpenTask(r) /\ asking' = asking \ {r}
  BY DEF Approves
<1>2. UNCHANGED <<tasks, created, agents, started, worker>>
  BY DEF Approves
<1>3. r \in AgentRuns
  BY ReachTypes
<1>4. Counted(w)' /\ RunOfTask(w)' /\ NoneWaits(w)'
  BY <1>1, <1>2 DEF Counted, Claimed, RunOfTask, NoneWaits, Closing
<1>5. Reachable(w)'
  BY <1>1, <1>2, <1>3 DEF Reachable, NoneWaits, HasOpenTask, Open, Closing
<1> QED
  BY <1>4, <1>5

LEMMA ClientsStayIdle ==
    ASSUME NEW w, Alone(w), TypeOK, ClientsIdle, [Next]_vars
    PROVE  /\ ClientsIdle'
           /\ \/ WorkerStep(w) \/ WorkerCrashes(w) \/ OperatorCommand
              \/ MinutePasses \/ RetryAfterPasses \/ UNCHANGED vars
<1>1. ASSUME NEW c \in Clients, ClientCommand(c) \/ ClientStep(c) \/ ClientKilled(c) PROVE FALSE
  BY <1>1 DEF Alone, ClientsIdle, ClientCommand, ClientStep, ClientKilled, Command, RunTaskCommand,
     RunScheduleCommand, TickCommand, NextScheduleOfTick, InsertScheduleTask, RunTask, FinishTask,
     ReadSchedule, RecordOutcome, MarkTicked
<1>2. \/ WorkerStep(w) \/ WorkerCrashes(w) \/ OperatorCommand
      \/ MinutePasses \/ RetryAfterPasses \/ UNCHANGED vars
  BY <1>1 DEF Alone, Next
<1>3. ASSUME WorkerStep(w) \/ WorkerCrashes(w) PROVE UNCHANGED client
  BY <1>3 DEF WorkerStep, ScanSchedules, EnqueueDueSchedule, SkipRemovedSchedule, MarkTriggered,
     SelectTask, NothingToClaim, ClaimTask, DispatchResume, StartAgentRun, ReadRunToResume,
     ReopenAgentRun, FinishAgentRun, ResumeRaises, FailTask, CompleteTask, WorkerCrashes
<1>4. ASSUME OperatorCommand \/ MinutePasses \/ RetryAfterPasses \/ UNCHANGED vars PROVE UNCHANGED client
  BY <1>4 DEF OperatorCommand, AddTaskCommand, ResumeTaskCommand, ApproveCommand, RejectCommand,
     AnswerCommand, CancelRunCommand, AddScheduleCommand, RemoveScheduleCommand, MinutePasses,
     RetryAfterPasses, vars
<1>5. ClientsIdle'
  <2>1. UNCHANGED client
    BY <1>2, <1>3, <1>4
  <2> QED
    BY <2>1 DEF ClientsIdle
<1> QED
  BY <1>2, <1>5

LEMMA WorkerScansOrRuns ==
    ASSUME NEW w \in Workers, TypeOK, WorkerStep(w) \/ WorkerCrashes(w)
    PROVE  \/ IdleStep(w) \/ AddsTask(w)
           \/ SelectTask(w) \/ ClaimTask(w) \/ DispatchResume(w) \/ ReadRunToResume(w) \/ ResumeRaises(w)
           \/ StartAgentRun(w) \/ ReopenAgentRun(w) \/ FinishAgentRun(w)
           \/ FailTask(w) \/ CompleteTask(w)
<1> USE DEF queue
<1>0. worker[w] \in WorkerState /\ worker = [v \in Workers |-> worker[v]]
  BY DEF TypeOK
<1>1. CASE ScanSchedules(w)
  BY <1>0, <1>1 DEF ScanSchedules, IdleStep, Claimed, WorkerState
<1>2. ASSUME NEW s \in Schedules, EnqueueDueSchedule(w, s) PROVE AddsTask(w)
  <2> DEFINE row == NewTask("scheduler", s, None, worker[w].at)
  <2>1. row \in TaskRow /\ row.status = "pending" /\ row.run = None
    BY <1>0, NewTaskTyped DEF NewTask, WorkerState
  <2>2. AddTask(row) /\ UNCHANGED runs
    BY <1>2 DEF EnqueueDueSchedule
  <2>3. ~Claimed(w) /\ ~Claimed(w)' /\ worker'[w].run = worker[w].run
    BY <1>0, <1>2 DEF EnqueueDueSchedule, Claimed, WorkerState
  <2> HIDE DEF row
  <2> QED
    BY <2>1, <2>2, <2>3 DEF AddsTask, runs
<1>3. ASSUME NEW s \in Schedules, SkipRemovedSchedule(w, s) PROVE IdleStep(w)
  BY <1>0, <1>3 DEF SkipRemovedSchedule, NextDueSchedule, IdleStep, Claimed, WorkerState
<1>4. CASE MarkTriggered(w)
  BY <1>0, <1>4 DEF MarkTriggered, NextDueSchedule, IdleStep, Claimed, WorkerState
<1>5. CASE NothingToClaim(w) \/ WorkerCrashes(w)
  BY <1>0, <1>5 DEF NothingToClaim, WorkerCrashes, WorkerRests, IdleWorker, IdleStep, Claimed
<1> QED
  BY <1>1, <1>2, <1>3, <1>4, <1>5 DEF WorkerStep

LEMMA OperatorsAddOrDecide ==
    ASSUME NEW w \in Workers, TypeOK,
           OperatorCommand \/ MinutePasses \/ RetryAfterPasses \/ UNCHANGED vars
    PROVE  \/ IdleStep(w) \/ AddsTask(w) \/ Approves(w)
           \/ ResumeTaskCommand \/ RejectCommand \/ AnswerCommand \/ CancelRunCommand
<1> USE DEF queue
<1>1. CASE AddTaskCommand
  <2> DEFINE row == NewTask("manual", NoSchedule, None, None)
  <2>1. row \in TaskRow /\ row.status = "pending" /\ row.run = None
    BY NewTaskTyped DEF NewTask
  <2>2. AddTask(row) /\ UNCHANGED <<runs, worker>>
    BY <1>1 DEF AddTaskCommand
  <2> HIDE DEF row
  <2> QED
    BY <2>1, <2>2 DEF AddsTask, runs
<1>2. CASE ApproveCommand
  <2>1. PICK r \in asking : /\ asking' = asking \ {r}
                            /\ IF HasOpenTask(r)
                               THEN UNCHANGED <<tasks, created>>
                               ELSE AddTask(NewTask("approval", NoSchedule, r, None))
    BY <1>2 DEF ApproveCommand
  <2>2. UNCHANGED <<agents, started, worker>>
    BY <1>2 DEF ApproveCommand
  <2>3. CASE ~HasOpenTask(r)
    <3> DEFINE row == NewTask("approval", NoSchedule, r, None)
    <3>1. row \in TaskRow /\ row.status = "pending" /\ row.run = r
      BY NewTaskTyped DEF NewTask, TypeOK
    <3>2. AddTask(row)
      BY <2>1, <2>3
    <3> HIDE DEF row
    <3> QED
      BY <2>1, <2>2, <3>1, <3>2 DEF AddsTask
  <2>4. CASE HasOpenTask(r)
    BY <2>1, <2>2, <2>4 DEF Approves
  <2> QED
    BY <2>3, <2>4
<1>3. CASE AddScheduleCommand \/ RemoveScheduleCommand
  BY <1>3 DEF AddScheduleCommand, RemoveScheduleCommand, IdleStep
<1>4. CASE MinutePasses \/ RetryAfterPasses \/ UNCHANGED vars
  BY <1>4 DEF MinutePasses, RetryAfterPasses, vars, IdleStep
<1> QED
  BY <1>1, <1>2, <1>3, <1>4 DEF OperatorCommand

LEMMA ReachInitially == ASSUME Init, NEW w \in Workers PROVE ReachInvariant(w)
<1>1. /\ TypeOK /\ created = 0 /\ started = 0 /\ asking = {} /\ None = 0
      /\ \A t \in Tasks : tasks[t].status = "absent" /\ tasks[t].run = None
      /\ \A r \in AgentRuns : agents[r] = "absent"
      /\ worker[w] = IdleWorker /\ client = [c \in Clients |-> IdleClient]
  BY InitTyped DEF Init, None
<1>2. worker[w].pc = "idle" /\ worker[w].run = None /\ ClientsIdle
  BY <1>1 DEF IdleWorker, IdleClient, ClientsIdle
<1>3. Counted(w)
  BY <1>1, <1>2 DEF Counted, Claimed
<1>4. RunOfTask(w) /\ NoneWaits(w) /\ Reachable(w)
  BY <1>1, <1>2 DEF RunOfTask, NoneWaits, Reachable, Closing
<1> QED
  BY <1>1, <1>2, <1>3, <1>4 DEF ReachInvariant

LEMMA ReachGoesOn ==
    ASSUME NEW w, Alone(w), ReachInvariant(w), [Next]_vars
    PROVE  ReachInvariant(w)'
<1>1. w \in Workers /\ TypeOK /\ TypeOK'
  BY NextTyped DEF Alone, ReachInvariant
<1>2. ClientsIdle'
  BY <1>1, ClientsStayIdle DEF ReachInvariant
<1>3. CASE WorkerStep(w) \/ WorkerCrashes(w)
  BY <1>1, <1>2, <1>3, WorkerScansOrRuns, IdleStepsKeepReach, NewTasksKeepReach, ClaimsKeepReach,
     RunsKeepReach, EndsKeepReach
<1>4. CASE OperatorCommand \/ MinutePasses \/ RetryAfterPasses \/ UNCHANGED vars
  BY <1>1, <1>2, <1>4, OperatorsAddOrDecide, IdleStepsKeepReach, NewTasksKeepReach,
     ApprovalsKeepReach, DecisionsKeepReach
<1> QED
  BY <1>1, <1>3, <1>4, ClientsStayIdle DEF ReachInvariant

\* Whatever the operator decides and resumes, and wherever the worker is killed, an agent run
\* that waits for input has its question pending or a task that will resume it: no approval
\* falls between the two, as long as one worker alone runs tasks.
THEOREM WaitingRunsStayReachable ==
    ASSUME NEW w, Alone(w)
    PROVE  Spec => []WaitingRunsAreReachable
<1>1. Init => ReachInvariant(w)
  BY ReachInitially DEF Alone
<1>2. ReachInvariant(w) /\ [Next]_vars => ReachInvariant(w)'
  BY ReachGoesOn
<1>3. ReachInvariant(w) => WaitingRunsAreReachable
  BY DEF ReachInvariant, Reachable, WaitingRunsAreReachable, Open
<1> QED
  BY <1>1, <1>2, <1>3, PTL DEF Spec

-----------------------------------------------------------------------------
(* Where no task is resumed by hand: each is claimed once, and no run is     *)
(* executed after it is complete.                                            *)

OpenTasksAskNothing ==
    \A t \in Tasks : Open(t) /\ tasks[t].run \in AgentRuns => tasks[t].run \notin asking

StatusOfTask(w) ==
    /\ worker[w].pc = "claiming" => tasks[worker[w].task].status = "pending"
    /\ Claimed(w) /\ worker[w].pc # "claiming" => tasks[worker[w].task].status = "running"

NoneCompleted(w) ==
    worker[w].pc \in {"reopen", "resuming", "running"} => agents[worker[w].run] # "completed"

SerialInvariant(w) ==
    ReachInvariant(w) /\ OpenTasksAskNothing /\ StatusOfTask(w) /\ NoneCompleted(w)

LEMMA QueueStepsStaySerial ==
    ASSUME NEW w \in Workers, SerialInvariant(w), ReachInvariant(w)', IdleStep(w) \/ AddsTask(w) \/ Approves(w)
    PROVE  SerialInvariant(w)'
<1> USE DEF SerialInvariant
<1>a. /\ TypeOK /\ ClientsIdle /\ Counted(w) /\ RunOfTask(w) /\ NoneWaits(w) /\ Reachable(w)
  BY DEF ReachInvariant
<1>0. /\ worker[w] \in WorkerState /\ worker = [v \in Workers |-> worker[v]]
      /\ tasks = [t \in Tasks |-> tasks[t]] /\ agents = [r \in AgentRuns |-> agents[r]]
      /\ created \in Nat /\ started \in Nat /\ None = 0
      /\ \A t \in Tasks : t \in Nat /\ tasks[t].run \in Nat /\ tasks[t] \in TaskRow
      /\ \A r \in AgentRuns : r \in Nat /\ r > 0
      /\ worker[w].run \in Nat /\ asking \subseteq AgentRuns
  BY <1>a, ReachTypes
<1>1. CASE IdleStep(w)
  <2>1. UNCHANGED <<tasks, agents, asking>> /\ (worker'[w] = worker[w] \/ ~Claimed(w)')
    BY <1>1 DEF IdleStep, runs
  <2> QED
    BY <2>1 DEF OpenTasksAskNothing, StatusOfTask, NoneCompleted, Open, Claimed
<1>2. CASE AddsTask(w)
  <2>1. PICK row \in TaskRow :
          /\ AddTask(row) /\ row.status = "pending"
          /\ \/ row.run = None /\ asking' = asking
             \/ row.run \in asking /\ asking' = asking \ {row.run}
    BY <1>2 DEF AddsTask
  <2>2. \A t \in Tasks : tasks'[t] = IF t = created + 1 THEN row ELSE tasks[t]
    BY <1>0, <2>1 DEF AddTask
  <2>3. /\ UNCHANGED agents
        /\ \/ worker'[w] = worker[w]
           \/ ~Claimed(w) /\ ~Claimed(w)'
    BY <1>2 DEF AddsTask
  <2>4. OpenTasksAskNothing'
    BY <1>0, <2>1, <2>2 DEF OpenTasksAskNothing, Open
  <2>5. Claimed(w) => worker[w].task \in Tasks /\ worker[w].task # created + 1
    BY <1>a, <1>0 DEF Counted
  <2>6. StatusOfTask(w)' /\ NoneCompleted(w)'
    BY <2>2, <2>3, <2>5 DEF StatusOfTask, NoneCompleted, Claimed
  <2> QED
    BY <2>4, <2>6
<1>3. CASE Approves(w)
  BY <1>3 DEF Approves, OpenTasksAskNothing, StatusOfTask, NoneCompleted, Open, Claimed
<1> QED
  BY <1>1, <1>2, <1>3

LEMMA ClaimsStaySerial ==
    ASSUME NEW w \in Workers, SerialInvariant(w), ReachInvariant(w)', SelectTask(w) \/ ClaimTask(w) \/ DispatchResume(w)
                              \/ ReadRunToResume(w) \/ ResumeRaises(w)
    PROVE  SerialInvariant(w)'
<1> USE DEF SerialInvariant
<1>a. /\ TypeOK /\ ClientsIdle /\ Counted(w) /\ RunOfTask(w) /\ NoneWaits(w) /\ Reachable(w)
  BY DEF ReachInvariant
<1>0. /\ worker[w] \in WorkerState /\ worker = [v \in Workers |-> worker[v]]
      /\ tasks = [t \in Tasks |-> tasks[t]] /\ agents = [r \in AgentRuns |-> agents[r]]
      /\ created \in Nat /\ started \in Nat /\ None = 0
      /\ \A t \in Tasks : t \in Nat /\ tasks[t].run \in Nat /\ tasks[t] \in TaskRow
      /\ \A r \in AgentRuns : r \in Nat /\ r > 0
      /\ worker[w].run \in Nat /\ asking \subseteq AgentRuns
  BY <1>a, ReachTypes
<1>1. CASE SelectTask(w)
  <2>1. PICK t \in Tasks : /\ tasks[t].status = "pending"
                           /\ worker'[w].pc = "claiming" /\ worker'[w].task = t
    BY <1>0, <1>1, ZenonT(60) DEF SelectTask, WorkerState, Claimable
  <2>2. UNCHANGED <<tasks, agents, asking>>
    BY <1>1 DEF SelectTask, queue, runs
  <2> QED
    BY <2>1, <2>2 DEF OpenTasksAskNothing, StatusOfTask, NoneCompleted, Open, Claimed
<1>2. CASE ClaimTask(w)
  <2>1. /\ worker[w].pc = "claiming" /\ worker'[w].task = worker[w].task
        /\ worker'[w].pc \in {"start", "dispatch"}
    BY <1>0, <1>2 DEF ClaimTask, WorkerState
  <2>2. UNCHANGED <<agents, asking>>
    BY <1>2 DEF ClaimTask, runs
  <2>3. worker[w].task \in Tasks /\ Open(worker[w].task)
    BY <1>a, <2>1 DEF Counted, Claimed, StatusOfTask, Open
  <2>4. \A t \in Tasks : /\ tasks'[t].run = tasks[t].run
                         /\ tasks'[t].status = IF t = worker[w].task THEN "running" ELSE tasks[t].status
    BY <1>0, <1>2 DEF ClaimTask, SetStatus, TaskRow
  <2>5. OpenTasksAskNothing'
    BY <2>2, <2>3, <2>4 DEF OpenTasksAskNothing, Open
  <2>6. StatusOfTask(w)' /\ NoneCompleted(w)'
    BY <2>1, <2>3, <2>4 DEF StatusOfTask, NoneCompleted
  <2> QED
    BY <2>5, <2>6
<1>3. CASE DispatchResume(w) \/ ReadRunToResume(w) \/ ResumeRaises(w)
  <2>1. /\ worker[w].pc \in {"dispatch", "resume", "resuming"} /\ worker'[w].task = worker[w].task
        /\ worker'[w].run = worker[w].run
        /\ \/ worker'[w].pc \in {"resume", "fail", "complete"}
           \/ /\ worker'[w].pc \in {"resuming", "reopen"}
              /\ agents[worker[w].run] # "completed"
    BY <1>0, <1>3 DEF DispatchResume, ReadRunToResume, ResumeRaises, WorkerState
  <2>2. UNCHANGED <<tasks, agents, asking>>
    BY <1>3 DEF DispatchResume, ReadRunToResume, ResumeRaises, queue, runs
  <2> QED
    BY <2>1, <2>2 DEF OpenTasksAskNothing, StatusOfTask, NoneCompleted, Open, Claimed
<1> QED
  BY <1>1, <1>2, <1>3

LEMMA RunsStaySerial ==
    ASSUME NEW w \in Workers, SerialInvariant(w), ReachInvariant(w)', StartAgentRun(w) \/ ReopenAgentRun(w) \/ FinishAgentRun(w)
    PROVE  SerialInvariant(w)'
<1> USE DEF SerialInvariant
<1>a. /\ TypeOK /\ ClientsIdle /\ Counted(w) /\ RunOfTask(w) /\ NoneWaits(w) /\ Reachable(w)
  BY DEF ReachInvariant
<1>0. /\ worker[w] \in WorkerState /\ worker = [v \in Workers |-> worker[v]]
      /\ tasks = [t \in Tasks |-> tasks[t]] /\ agents = [r \in AgentRuns |-> agents[r]]
      /\ created \in Nat /\ started \in Nat /\ None = 0
      /\ \A t \in Tasks : t \in Nat /\ tasks[t].run \in Nat /\ tasks[t] \in TaskRow
      /\ \A r \in AgentRuns : r \in Nat /\ r > 0
      /\ worker[w].run \in Nat /\ asking \subseteq AgentRuns
  BY <1>a, ReachTypes
<1>1. CASE StartAgentRun(w) \/ ReopenAgentRun(w)
  <2>1. /\ worker[w].pc \in {"start", "reopen"} /\ worker'[w].task = worker[w].task
        /\ worker'[w].pc \in {"running", "resuming"} /\ UNCHANGED <<tasks, asking>>
        /\ \/ agents' = [agents EXCEPT ![started + 1] = "running"] /\ worker'[w].run = started + 1
           \/ agents' = [agents EXCEPT ![worker[w].run] = "running"] /\ worker'[w].run = worker[w].run
    <3>1. CASE StartAgentRun(w)
      BY <1>0, <3>1 DEF StartAgentRun, WorkerState, queue
    <3>2. CASE ReopenAgentRun(w)
      BY <1>0, <3>2 DEF ReopenAgentRun, WorkerState, queue
    <3> QED
      BY <1>1, <3>1, <3>2
  <2>2. worker'[w].pc = "resuming" => worker'[w].run \in AgentRuns
    BY DEF ReachInvariant, RunOfTask
  <2>4. worker'[w].pc = "running" => worker'[w].run \in AgentRuns
    BY DEF ReachInvariant, RunOfTask
  <2>3. agents'[worker'[w].run] = "running"
    BY <1>0, <2>1, <2>2, <2>4
  <2> QED
    BY <2>1, <2>3 DEF OpenTasksAskNothing, StatusOfTask, NoneCompleted, Open, Claimed
<1>2. CASE FinishAgentRun(w)
  <2>1. /\ worker[w].pc \in {"running", "resuming"} /\ worker'[w].task = worker[w].task
        /\ worker'[w].pc = "complete" /\ UNCHANGED tasks
        /\ \/ asking' = asking
           \/ worker[w].pc = "running" /\ asking' = asking \cup {worker[w].run}
    BY <1>0, <1>2 DEF FinishAgentRun, WorkerState, queue
  <2>2. OpenTasksAskNothing'
    BY <1>a, <2>1 DEF OpenTasksAskNothing, RunOfTask, Open
  <2> QED
    BY <2>1, <2>2 DEF StatusOfTask, NoneCompleted, Claimed
<1> QED
  BY <1>1, <1>2

LEMMA EndsStaySerial ==
    ASSUME NEW w \in Workers, SerialInvariant(w), ReachInvariant(w)', FailTask(w) \/ CompleteTask(w)
    PROVE  SerialInvariant(w)'
<1> USE DEF SerialInvariant
<1>a. /\ TypeOK /\ ClientsIdle /\ Counted(w) /\ RunOfTask(w) /\ NoneWaits(w) /\ Reachable(w)
  BY DEF ReachInvariant
<1>0. /\ worker[w] \in WorkerState /\ worker = [v \in Workers |-> worker[v]]
      /\ tasks = [t \in Tasks |-> tasks[t]] /\ agents = [r \in AgentRuns |-> agents[r]]
      /\ created \in Nat /\ started \in Nat /\ None = 0
      /\ \A t \in Tasks : t \in Nat /\ tasks[t].run \in Nat /\ tasks[t] \in TaskRow
      /\ \A r \in AgentRuns : r \in Nat /\ r > 0
      /\ worker[w].run \in Nat /\ asking \subseteq AgentRuns
  BY <1>a, ReachTypes
<1>1. /\ worker[w].pc \in {"fail", "complete"} /\ worker'[w] = IdleWorker
      /\ UNCHANGED <<created, agents, started, asking>>
  BY <1>0 DEF FailTask, CompleteTask, WorkerRests, runs
<1>2. worker'[w].pc = "idle"
  BY <1>1 DEF IdleWorker
<1>3. worker[w].task \in Tasks
  BY <1>a, <1>1 DEF Counted, Claimed
<1>4. \A t \in Tasks : /\ t # worker[w].task => tasks'[t] = tasks[t]
                       /\ t = worker[w].task => tasks'[t].status \in {"completed", "failed"}
  BY <1>a, <1>3, EndsEndTasks
<1>5. OpenTasksAskNothing'
  BY <1>1, <1>4 DEF OpenTasksAskNothing, Open
<1> QED
  BY <1>2, <1>5 DEF StatusOfTask, NoneCompleted, Claimed

LEMMA DecisionsStaySerial ==
    ASSUME NEW w \in Workers, SerialInvariant(w), ReachInvariant(w)', RejectCommand \/ AnswerCommand \/ CancelRunCommand
    PROVE  SerialInvariant(w)'
<1> USE DEF SerialInvariant
<1>a. /\ TypeOK /\ ClientsIdle /\ Counted(w) /\ RunOfTask(w) /\ NoneWaits(w) /\ Reachable(w)
  BY DEF ReachInvariant
<1>0. /\ worker[w] \in WorkerState /\ worker = [v \in Workers |-> worker[v]]
      /\ tasks = [t \in Tasks |-> tasks[t]] /\ agents = [r \in AgentRuns |-> agents[r]]
      /\ created \in Nat /\ started \in Nat /\ None = 0
      /\ \A t \in Tasks : t \in Nat /\ tasks[t].run \in Nat /\ tasks[t] \in TaskRow
      /\ \A r \in AgentRuns : r \in Nat /\ r > 0
      /\ worker[w].run \in Nat /\ asking \subseteq AgentRuns
  BY <1>a, ReachTypes
<1>1. UNCHANGED <<tasks, worker>>
  BY DEF RejectCommand, AnswerCommand, CancelRunCommand, queue
<1>2. PICK r \in AgentRuns, status \in {"completed", "cancelled"} :
        /\ agents' = [agents EXCEPT ![r] = status] /\ asking' \in {asking, asking \ {r}}
        /\ status = "completed" => r \in asking
  <2>1. CASE RejectCommand \/ AnswerCommand
    BY <1>0, <2>1 DEF RejectCommand, AnswerCommand
  <2>2. CASE CancelRunCommand
    <3>1. \A r \in 1..started : r \in AgentRuns
      BY <1>a, ConstantsAssumption DEF TypeOK, AgentRuns
    <3> QED
      BY <2>2, <3>1 DEF CancelRunCommand
  <2> QED
    BY <2>1, <2>2
<1>3. OpenTasksAskNothing' /\ StatusOfTask(w)'
  BY <1>1, <1>2 DEF OpenTasksAskNothing, StatusOfTask, Open, Claimed
<1>4. worker[w].pc \in {"reopen", "resuming", "running"} => worker[w].run \notin asking
  <2>1. CASE worker[w].pc = "running"
    BY <1>a, <2>1 DEF RunOfTask
  <2>2. CASE worker[w].pc \in {"reopen", "resuming"}
    <3>1. worker[w].task \in Tasks /\ Open(worker[w].task) /\ worker[w].run = tasks[worker[w].task].run
      BY <1>a, <2>2 DEF RunOfTask, StatusOfTask, Open, Claimed, Counted
    <3> QED
      BY <1>a, <2>2, <3>1 DEF OpenTasksAskNothing, RunOfTask
  <2> QED
    BY <2>1, <2>2
<1>5. NoneCompleted(w)'
  BY <1>0, <1>1, <1>2, <1>4 DEF NoneCompleted
<1> QED
  BY <1>3, <1>5

LEMMA SerialInitially == ASSUME Init, NEW w \in Workers PROVE SerialInvariant(w)
<1>1. /\ ReachInvariant(w) /\ asking = {} /\ worker[w] = IdleWorker
  BY ReachInitially DEF Init
<1> QED
  BY <1>1 DEF SerialInvariant, OpenTasksAskNothing, StatusOfTask, NoneCompleted, Claimed, IdleWorker

\* Without "tasks resume", what the worker and the operator do is one of these steps.
SerialStep(w) ==
    \/ IdleStep(w) \/ AddsTask(w) \/ Approves(w)
    \/ SelectTask(w) \/ ClaimTask(w) \/ DispatchResume(w) \/ ReadRunToResume(w) \/ ResumeRaises(w)
    \/ StartAgentRun(w) \/ ReopenAgentRun(w) \/ FinishAgentRun(w)
    \/ FailTask(w) \/ CompleteTask(w)
    \/ RejectCommand \/ AnswerCommand \/ CancelRunCommand

LEMMA StepsAreSerial ==
    ASSUME NEW w, Alone(w), "resume task" \notin Commands, ReachInvariant(w), [Next]_vars
    PROVE  SerialStep(w)
<1>1. w \in Workers /\ TypeOK /\ ClientsIdle
  BY DEF Alone, ReachInvariant
<1>2. ~ResumeTaskCommand
  BY DEF ResumeTaskCommand, Command
<1> QED
  BY <1>1, <1>2, ClientsStayIdle, WorkerScansOrRuns, OperatorsAddOrDecide DEF SerialStep

LEMMA SerialGoesOn ==
    ASSUME NEW w, Alone(w), "resume task" \notin Commands, SerialInvariant(w), [Next]_vars
    PROVE  SerialInvariant(w)'
<1>1. w \in Workers /\ ReachInvariant(w)' /\ SerialStep(w)
  BY ReachGoesOn, StepsAreSerial DEF Alone, SerialInvariant
<1> QED
  BY <1>1, QueueStepsStaySerial, ClaimsStaySerial, RunsStaySerial, EndsStaySerial,
     DecisionsStaySerial DEF SerialStep

LEMMA NextRunIsAbsent ==
    ASSUME TypeOK, NEW w \in Workers, Counted(w), started + 1 \in AgentRuns
    PROVE  agents[started + 1] = "absent"
BY ReachTypes DEF Counted

\* A run that is complete is not executed again nor its result replaced: the answer that
\* completes a waiting run and the task that resumes it do not both take effect.
THEOREM CompletedRunsAlwaysStay ==
    ASSUME NEW w, Alone(w), "resume task" \notin Commands
    PROVE  Spec => CompletedRunsStay
<1>1. Init => SerialInvariant(w)
  BY SerialInitially DEF Alone
<1>2. SerialInvariant(w) /\ [Next]_vars => SerialInvariant(w)'
  BY SerialGoesOn
<1>3. SerialInvariant(w) /\ [Next]_vars =>
        \A r \in AgentRuns : agents[r] = "completed" => agents'[r] \in {"completed", "cancelled"}
  <2> SUFFICES ASSUME SerialInvariant(w), [Next]_vars, NEW r \in AgentRuns, agents[r] = "completed"
               PROVE  agents'[r] \in {"completed", "cancelled"}
    OBVIOUS
  <2>0. w \in Workers /\ ReachInvariant(w) /\ NoneCompleted(w) /\ Counted(w)
    BY DEF Alone, SerialInvariant, ReachInvariant
  <2>1. SerialStep(w) /\ agents = [x \in AgentRuns |-> agents[x]]
        /\ r \in Nat /\ started \in Nat
    BY <2>0, StepsAreSerial, ReachTypes DEF ReachInvariant
  <2>2. CASE agents' = agents
    BY <2>2
  <2>3. CASE StartAgentRun(w)
    <3>1. agents' = [agents EXCEPT ![started + 1] = "running"]
      BY <2>3 DEF StartAgentRun
    <3>2. r # started + 1
      BY <2>0, NextRunIsAbsent DEF ReachInvariant
    <3> QED
      BY <2>1, <3>1, <3>2
  <2>4. CASE ReopenAgentRun(w)
    BY <2>0, <2>1, <2>4 DEF ReopenAgentRun, NoneCompleted
  <2>5. CASE FinishAgentRun(w)
    BY <2>0, <2>1, <2>5 DEF FinishAgentRun, NoneCompleted
  <2>6. CASE RejectCommand \/ AnswerCommand \/ CancelRunCommand
    BY <2>1, <2>6 DEF RejectCommand, AnswerCommand, CancelRunCommand
  <2>7. \/ agents' = agents
        \/ StartAgentRun(w) \/ ReopenAgentRun(w) \/ FinishAgentRun(w)
        \/ RejectCommand \/ AnswerCommand \/ CancelRunCommand
    BY <2>1 DEF SerialStep, IdleStep, AddsTask, Approves, SelectTask, ClaimTask, DispatchResume,
       ReadRunToResume, ResumeRaises, FailTask, CompleteTask, runs
  <2> QED
    BY <2>2, <2>3, <2>4, <2>5, <2>6, <2>7
<1> QED
  BY <1>1, <1>2, <1>3, PTL DEF Spec, CompletedRunsStay

-----------------------------------------------------------------------------
(* The queue implements the life of a task that TaskLifecycle describes.     *)

Executing(w) == Claimed(w) /\ worker[w].pc # "claiming"

Statuses == [t \in Tasks |-> tasks[t].status]
TheHolders == [t \in Tasks |-> HolderOf(t)]

LEMMA HolderIsTheWorker ==
    ASSUME NEW w, Workers = {w}
    PROVE  /\ \A t \in Tasks :
                HolderOf(t) = IF Executing(w) /\ worker[w].task = t THEN w ELSE Nobody
           /\ \A t \in Tasks :
                HolderOf(t)' = IF Executing(w)' /\ worker'[w].task = t THEN w ELSE Nobody
BY DEF HolderOf, ExecutedBy, Executing, Claimed

LEMMA HoldersStay ==
    ASSUME NEW w, Workers = {w},
           Executing(w)' <=> Executing(w), Executing(w) => worker'[w].task = worker[w].task
    PROVE  TheHolders' = TheHolders
<1>1. \A t \in Tasks : HolderOf(t)' = HolderOf(t)
  BY HolderIsTheWorker
<1> QED
  BY <1>1 DEF TheHolders

LEMMA QueueIsIdle ==
    ASSUME Statuses' = Statuses, TheHolders' = TheHolders
    PROVE  UNCHANGED Lifecycle!lifecycle
BY DEF Statuses, TheHolders, Lifecycle!lifecycle

LEMMA QueueCreates ==
    ASSUME NEW t \in Tasks, Statuses[t] = "absent", TheHolders' = TheHolders,
           Statuses' = [Statuses EXCEPT ![t] = "pending"]
    PROVE  Lifecycle!Next
BY DEF Statuses, TheHolders, Lifecycle!Next, Lifecycle!Create

LEMMA QueueClaims ==
    ASSUME NEW w, Workers = {w}, w # Nobody, NEW t \in Tasks, Statuses[t] = "pending",
           ~Executing(w), Executing(w)', worker'[w].task = t,
           Statuses' = [Statuses EXCEPT ![t] = "running"]
    PROVE  Lifecycle!Next
<1>1. \A u \in Tasks : HolderOf(u) = Nobody /\ HolderOf(u)' = IF u = t THEN w ELSE Nobody
  BY HolderIsTheWorker
<1>2. w \notin {TheHolders[u] : u \in Tasks} /\ TheHolders' = [TheHolders EXCEPT ![t] = w]
  <2>1. \A u \in Tasks : TheHolders[u] = Nobody
    BY <1>1 DEF TheHolders
  <2>2. TheHolders' = [TheHolders EXCEPT ![t] = w]
    BY <1>1 DEF TheHolders
  <2> QED
    BY <2>1, <2>2
<1>3. Lifecycle!Claim(t, w)
  BY <1>2 DEF Lifecycle!Claim, Statuses, TheHolders
<1> QED
  BY <1>3 DEF Lifecycle!Next

LEMMA QueueEnds ==
    ASSUME NEW w, Workers = {w}, w # Nobody, NEW t \in Tasks, worker[w].task = t,
           Executing(w), ~Executing(w)',
           \/ Statuses' = Statuses
           \/ /\ Statuses[t] = "running"
              /\ \E outcome \in {"completed", "failed"} : Statuses' = [Statuses EXCEPT ![t] = outcome]
    PROVE  Lifecycle!Next
<1>1. \A u \in Tasks : HolderOf(u)' = Nobody /\ HolderOf(u) = IF u = t THEN w ELSE Nobody
  BY HolderIsTheWorker
<1>2. TheHolders[t] # Nobody /\ TheHolders' = [TheHolders EXCEPT ![t] = Nobody]
  BY <1>1 DEF TheHolders
<1>3. CASE Statuses' = Statuses
  <2>1. Lifecycle!Abandon(t)
    BY <1>2, <1>3 DEF Lifecycle!Abandon, Statuses, TheHolders
  <2> QED
    BY <2>1 DEF Lifecycle!Next
<1>4. CASE /\ Statuses[t] = "running"
           /\ \E outcome \in {"completed", "failed"} : Statuses' = [Statuses EXCEPT ![t] = outcome]
  <2>1. Lifecycle!Finish(t)
    BY <1>2, <1>4 DEF Lifecycle!Finish, Statuses, TheHolders
  <2> QED
    BY <2>1 DEF Lifecycle!Next
<1> QED
  BY <1>3, <1>4

LEMMA NextTaskIsAbsent ==
    ASSUME TypeOK, NEW w \in Workers, Counted(w), created + 1 \in Tasks
    PROVE  tasks[created + 1].status = "absent"
BY ReachTypes DEF Counted

LEMMA EndsRest ==
    ASSUME TypeOK, NEW w \in Workers, FailTask(w) \/ CompleteTask(w)
    PROVE  Executing(w) /\ ~Executing(w)'
<1>1. worker[w].pc \in {"fail", "complete"} /\ worker'[w] = IdleWorker
  BY ReachTypes DEF FailTask, CompleteTask, WorkerRests
<1> QED
  BY <1>1 DEF Executing, Claimed, IdleWorker

LEMMA RunsAreExecuted ==
    ASSUME TypeOK, NEW w \in Workers,
           \/ SelectTask(w) \/ DispatchResume(w) \/ ReadRunToResume(w) \/ ResumeRaises(w)
           \/ StartAgentRun(w) \/ ReopenAgentRun(w) \/ FinishAgentRun(w)
    PROVE  (Executing(w)' <=> Executing(w)) /\ (Executing(w) => worker'[w].task = worker[w].task)
<1> USE DEF Executing, Claimed, WorkerState
<1>1. worker[w] \in WorkerState /\ worker = [v \in Workers |-> worker[v]]
  BY ReachTypes
<1>2. CASE SelectTask(w)
  BY <1>1, <1>2 DEF SelectTask
<1>3. CASE DispatchResume(w)
  BY <1>1, <1>3 DEF DispatchResume
<1>4. CASE ReadRunToResume(w)
  BY <1>1, <1>4 DEF ReadRunToResume
<1>5. CASE ResumeRaises(w)
  BY <1>1, <1>5 DEF ResumeRaises
<1>6. CASE StartAgentRun(w)
  BY <1>1, <1>6 DEF StartAgentRun
<1>7. CASE ReopenAgentRun(w) \/ FinishAgentRun(w)
  BY <1>1, <1>7 DEF ReopenAgentRun, FinishAgentRun
<1> QED
  BY <1>2, <1>3, <1>4, <1>5, <1>6, <1>7

LEMMA StepsAreOfTheLifecycle ==
    ASSUME NEW w, Alone(w), w # Nobody, "resume task" \notin Commands,
           SerialInvariant(w), SerialInvariant(w)', [Next]_vars
    PROVE  Lifecycle!Next \/ UNCHANGED Lifecycle!lifecycle
<1>0. /\ Workers = {w} /\ w \in Workers /\ TypeOK /\ Counted(w) /\ StatusOfTask(w)
      /\ SerialStep(w)
  BY StepsAreSerial DEF Alone, SerialInvariant, ReachInvariant
<1>1. /\ worker[w] \in WorkerState /\ worker = [v \in Workers |-> worker[v]]
      /\ tasks = [t \in Tasks |-> tasks[t]] /\ created \in Nat
      /\ \A t \in Tasks : t \in Nat /\ tasks[t] \in TaskRow
  BY <1>0, ReachTypes
<1>2. Executing(w) => worker[w].task \in Tasks
  BY <1>0 DEF Executing, Counted
<1>3. CASE IdleStep(w)
  <2>1. Statuses' = Statuses
    BY <1>3 DEF Statuses, IdleStep
  <2>2. worker'[w] = worker[w] \/ ~Executing(w)'
    BY <1>3 DEF IdleStep, Executing
  <2>3. CASE Executing(w) /\ ~Executing(w)'
    BY <1>0, <1>2, <2>1, <2>3, QueueEnds
  <2>4. CASE worker'[w] = worker[w]
    <3>1. TheHolders' = TheHolders
      BY <1>0, <2>4, HoldersStay DEF Executing, Claimed
    <3> QED
      BY <2>1, <3>1, QueueIsIdle
  <2>5. CASE ~Executing(w) /\ ~Executing(w)'
    BY <1>0, <2>1, <2>5, HoldersStay, QueueIsIdle
  <2> QED
    BY <2>2, <2>3, <2>4, <2>5
<1>4. CASE AddsTask(w)
  <2>1. PICK row \in TaskRow : AddTask(row) /\ row.status = "pending"
    BY <1>4 DEF AddsTask
  <2>2. created + 1 \in Tasks /\ tasks' = [tasks EXCEPT ![created + 1] = row]
    BY <1>0, <2>1, AddTaskTyped DEF AddTask
  <2>3. PICK t \in Tasks : t = created + 1
    BY <2>2
  <2>4. Statuses[t] = "absent"
    <3>1. tasks[created + 1].status = "absent"
      BY <1>0, <2>2, NextTaskIsAbsent
    <3> QED
      BY <2>3, <3>1 DEF Statuses
  <2>5. Statuses' = [Statuses EXCEPT ![t] = "pending"]
    BY <1>1, <2>1, <2>2, <2>3 DEF Statuses
  <2>6. TheHolders' = TheHolders
    BY <1>0, <1>4, HoldersStay DEF AddsTask, Executing, Claimed
  <2> QED
    BY <2>4, <2>5, <2>6, QueueCreates
<1>5. CASE Approves(w) \/ RejectCommand \/ AnswerCommand \/ CancelRunCommand
  <2>1. UNCHANGED <<tasks, worker>>
    BY <1>5 DEF Approves, RejectCommand, AnswerCommand, CancelRunCommand, queue
  <2>2. TheHolders' = TheHolders
    BY <1>0, <2>1, HoldersStay DEF Executing, Claimed
  <2> QED
    BY <2>1, <2>2, QueueIsIdle DEF Statuses
<1>6. CASE \/ SelectTask(w) \/ DispatchResume(w) \/ ReadRunToResume(w) \/ ResumeRaises(w)
           \/ StartAgentRun(w) \/ ReopenAgentRun(w) \/ FinishAgentRun(w)
  <2>1. UNCHANGED tasks
    BY <1>6 DEF SelectTask, DispatchResume, ReadRunToResume, ResumeRaises, StartAgentRun,
       ReopenAgentRun, FinishAgentRun, queue
  <2>2. (Executing(w)' <=> Executing(w)) /\ (Executing(w) => worker'[w].task = worker[w].task)
    BY <1>0, <1>6, RunsAreExecuted
  <2>3. TheHolders' = TheHolders
    BY <1>0, <2>2, HoldersStay
  <2> QED
    BY <2>1, <2>3, QueueIsIdle DEF Statuses
<1>7. CASE ClaimTask(w)
  <2>1. /\ worker[w].pc = "claiming" /\ worker'[w].task = worker[w].task
        /\ worker'[w].pc \in {"start", "dispatch"}
    BY <1>0, <1>1, <1>7 DEF ClaimTask, WorkerState
  <2>2. PICK t \in Tasks : t = worker[w].task
    BY <1>0, <2>1 DEF Counted, Claimed
  <2>3. Statuses[t] = "pending"
    BY <1>0, <2>1, <2>2 DEF StatusOfTask, Statuses
  <2>4. Statuses' = [Statuses EXCEPT ![t] = "running"]
    BY <1>1, <1>7, <2>2 DEF ClaimTask, SetStatus, Statuses, TaskRow
  <2>5. ~Executing(w) /\ Executing(w)'
    BY <2>1 DEF Executing, Claimed
  <2> QED
    BY <1>0, <2>1, <2>2, <2>3, <2>4, <2>5, QueueClaims
<1>8. CASE FailTask(w) \/ CompleteTask(w)
  <2>2. Executing(w) /\ ~Executing(w)'
    BY <1>0, <1>8, EndsRest
  <2>3. PICK t \in Tasks : t = worker[w].task
    BY <1>2, <2>2
  <2>4. Statuses[t] = "running"
    BY <1>0, <2>2, <2>3 DEF Executing, StatusOfTask, Statuses
  <2>5. \A u \in Tasks : /\ u # t => tasks'[u] = tasks[u]
                         /\ u = t => tasks'[u].status \in {"completed", "failed"}
    BY <1>0, <1>8, <2>3, EndsEndTasks
  <2>6. PICK outcome \in {"completed", "failed"} : outcome = tasks'[t].status
    BY <2>5
  <2>7. Statuses' = [Statuses EXCEPT ![t] = outcome]
    BY <2>5, <2>6 DEF Statuses
  <2> QED
    BY <1>0, <2>2, <2>3, <2>4, <2>7, QueueEnds
<1> QED
  BY <1>0, <1>3, <1>4, <1>5, <1>6, <1>7, <1>8 DEF SerialStep

LEMMA LifecycleInitially == ASSUME Init, NEW w, Workers = {w} PROVE Lifecycle!Init
<1>1. /\ \A t \in Tasks : tasks[t].status = "absent"
      /\ worker[w] = IdleWorker
  BY DEF Init
<1>2. ~Executing(w)
  BY <1>1 DEF Executing, Claimed, IdleWorker
<1>3. \A t \in Tasks : HolderOf(t) = Nobody
  BY <1>2, HolderIsTheWorker
<1> QED
  BY <1>1, <1>3 DEF Lifecycle!Init

\* Where one worker alone executes tasks, and none is resumed by hand, each task is created
\* pending, claimed once, and ended by who claimed it, or left running by a crash.
THEOREM QueueImplementsLifecycle ==
    ASSUME NEW w, Alone(w), w # Nobody, "resume task" \notin Commands
    PROVE  Spec => ImplementsLifecycle
<1>1. Init => SerialInvariant(w) /\ Lifecycle!Init
  BY SerialInitially, LifecycleInitially DEF Alone
<1>2. SerialInvariant(w) /\ [Next]_vars => SerialInvariant(w)'
  BY SerialGoesOn
<1>3. SerialInvariant(w) /\ SerialInvariant(w)' /\ [Next]_vars
        => [Lifecycle!Next]_(Lifecycle!lifecycle)
  BY StepsAreOfTheLifecycle
<1> QED
  BY <1>1, <1>2, <1>3, PTL DEF Spec, ImplementsLifecycle, Lifecycle!Spec
================================================================================
