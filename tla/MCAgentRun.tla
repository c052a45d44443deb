------------------------------ MODULE MCAgentRun ------------------------------
(* Instances of AgentRun for TLC.                                          *)
EXTENDS AgentRun

VARIABLE alone   \* whether no two processes worked on the run at once so far

AtWork == {p \in Processes : process[p].pc # "idle"}

SharedInit == Init /\ alone = TRUE
SharedNext == Next /\ alone' = (alone /\ Cardinality(AtWork') <= 1)

SharedSpec == SharedInit /\ [][SharedNext]_<<vars, alone>> /\ Fairness

\* Iterations are numbered in order, without gap or repetition and within max_iterations,
\* in any history where the processes took turns.
TurnsKeepOrder == alone => IterationsInOrder
===============================================================================
