----------------------------- MODULE MCOperators -----------------------------
(* Operators beside the services of TaskQueue, for TLC.                    *)
EXTENDS TaskQueue

\* Every schedule fires in every minute.
EveryMinute == Schedules \X (1..MaxMinutes)

CONSTANT MaxOperatorCommands   \* bound of the second scene

VARIABLE scene

\* Two instances in one run: decisions on waiting runs in any order, with no schedule and
\* no process beside the worker; and a command line process that runs tasks and schedules
\* itself.
OperatorInit ==
    /\ scene \in {"approvals", "command line"}
    /\ Init
    /\ scene = "approvals" => \A s \in Schedules : schedules[s].status = "absent"

ApprovalNext ==
    /\ scene = "approvals"
    /\ \/ \E w \in Workers : WorkerStep(w) \/ WorkerCrashes(w)
       \/ AddTaskCommand \/ ApproveCommand \/ RejectCommand \/ AnswerCommand \/ CancelRunCommand
       \/ RetryAfterPasses

CommandLineNext ==
    /\ scene = "command line"
    /\ \/ \E w \in Workers : WorkerStep(w) \/ (crashes = 0 /\ WorkerCrashes(w))
       \/ /\ commands < MaxOperatorCommands
          /\ \/ \E c \in Clients : ClientCommand(c)
             \/ ResumeTaskCommand \/ RemoveScheduleCommand
       \/ \E c \in Clients : ClientStep(c) \/ (crashes = 0 /\ ClientKilled(c))
       \/ MinutePasses

OperatorSpec == OperatorInit /\ [][(ApprovalNext \/ CommandLineNext) /\ UNCHANGED scene]_<<vars, scene>>
=============================================================================
