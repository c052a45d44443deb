----------------------------- MODULE MCTaskQueue -----------------------------
(* The services of TaskQueue on their own, for TLC.                        *)
EXTENDS TaskQueue

\* Every schedule fires in every minute.
EveryMinute == Schedules \X (1..MaxMinutes)

\* The operator's commands come before the first crash: what follows is left to the services.
LeftAlone == Next /\ (crashes > 0 => commands' = commands)

ServicesSpec == Init /\ [][LeftAlone]_vars /\ Fairness
=============================================================================
