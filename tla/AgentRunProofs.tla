--------------------------- MODULE AgentRunProofs ---------------------------
(* What AgentRun guarantees for any number of processes and any bounds.      *)
EXTENDS MCAgentRun, WellFoundedInduction, FiniteSetTheorems, TLAPS

-----------------------------------------------------------------------------
(* Type correctness.                                                         *)

LEMMA IdleTyped == Idle \in Process /\ NoRun \in Run
BY DEF Idle, NoRun, Process, Run, Steps, RunStatus, StopReason

LEMMA CloseTyped ==
    ASSUME TypeOK, NEW status \in RunStatus, NEW stop \in StopReason, Close(status, stop)
    PROVE  run' \in Run
<1>1. [run EXCEPT !.status = status, !.stop = stop] \in Run
  BY DEF TypeOK, Run
<1> QED
  BY <1>1 DEF Close

LEMMA GotoTyped ==
    ASSUME TypeOK, NEW p \in Processes, NEW step \in Steps, Goto(p, step)
    PROVE  process' \in [Processes -> Process]
<1>1. [process[p] EXCEPT !.pc = step] \in Process
  BY DEF TypeOK, Process
<1> QED
  BY <1>1 DEF TypeOK, Goto

LEMMA LeaveTyped ==
    ASSUME TypeOK, NEW p \in Processes, Leave(p)
    PROVE  process' \in [Processes -> Process]
BY IdleTyped DEF TypeOK, Leave

LEMMA CommandTyped ==
    ASSUME TypeOK, Command
    PROVE  commands' \in 0..MaxCommands
BY BoundsAssumption DEF TypeOK, Command

LEMMA LeastExists ==
    ASSUME NEW T \in SUBSET Nat, T # {}
    PROVE  \E m \in T : \A n \in T : m <= n
<1> DEFINE Less == {pair \in Nat \X Nat : pair[1] < pair[2]}
<1>1. IsWellFoundedOn(Less, Nat)
  BY NatLessThanWellFounded DEF OpToRel
<1>2. PICK m \in T : \A n \in T : ~(<<n, m>> \in Less)
  <2> HIDE DEF Less
  <2> QED
    BY <1>1, WFMin
<1>3. ASSUME NEW n \in T PROVE m <= n
  <2>1. n \in Nat /\ m \in Nat
    OBVIOUS
  <2>2. ~(n < m)
    BY <1>2, <2>1
  <2> QED
    BY <2>1, <2>2
<1> QED
  BY <1>3

\* No process is ahead of the rows there are, even when several use the same index.
IndexesBounded ==
    /\ \A k \in 1..inserted : iterations[k].index <= inserted
    /\ \A p \in Processes :
        /\ process[p].index <= inserted + 1
        /\ process[p].pc \in {"act", "acted", "end"}
             => process[p].index <= inserted /\ process[p].row \in 1..inserted

\* So resume finds a highest iteration_index.
LEMMA LastIndexBounded ==
    ASSUME TypeOK, IndexesBounded
    PROVE  LastIndex \in 0..inserted
<1>1. inserted \in Nat /\ inserted <= MaxIterations /\ MaxIterations \in Nat
  BY BoundsAssumption DEF TypeOK
<1>2. \A k \in 1..inserted : iterations[k].index \in Nat
  BY <1>1 DEF TypeOK, Rows, Iteration
<1>3. CASE inserted = 0
  BY <1>3 DEF LastIndex
<1>4. CASE inserted # 0
  <2> DEFINE Indexes == {iterations[k].index : k \in 1..inserted}
             Bounds == {n \in Nat : \A i \in Indexes : i <= n}
  <2>1. Bounds \in SUBSET Nat /\ inserted \in Bounds
    BY <1>1 DEF IndexesBounded
  <2>2. PICK m \in Bounds : \A n \in Bounds : m <= n
    <3> HIDE DEF Bounds
    <3> QED
      BY <2>1, LeastExists
  <2>3. m \in Indexes
    <3>1. SUFFICES ASSUME m \notin Indexes PROVE FALSE
      OBVIOUS
    <3>2. iterations[1].index \in Indexes /\ iterations[1].index \in Nat
      BY <1>1, <1>2, <1>4
    <3>3. m \in Nat /\ m # 0
      BY <2>2, <3>1, <3>2
    <3>4. m - 1 \in Bounds
      BY <1>2, <2>2, <3>1, <3>3
    <3> QED
      BY <2>2, <3>3, <3>4
  <2>4. \A k \in 1..inserted : iterations[k].index <= m
    BY <2>2
  <2>5. LastIndex \in Indexes
    BY <1>4, <2>3, <2>4 DEF LastIndex
  <2> QED
    BY <1>2, <2>5 DEF IndexesBounded
<1> QED
  BY <1>3, <1>4

LEMMA InitTyped == ASSUME Init PROVE TypeOK /\ IndexesBounded
<1>1. inserted = 0 /\ commands = 0 /\ crashes = 0
  BY DEF Init
<1>2. inserted \in 0..MaxIterations /\ commands \in 0..MaxCommands /\ crashes \in 0..MaxCrashes
  BY <1>1, BoundsAssumption
<1>3. process \in [Processes -> Process] /\ run \in Run
  BY IdleTyped DEF Init
<1>4. iterations \in [Rows -> Iteration]
  BY DEF Init, Iteration
<1>5. \A p \in Processes : process[p].index = 0 /\ process[p].pc = "idle"
  BY DEF Init, Idle
<1>6. calls \in [Rows -> {"none", "running", "ended"}] /\ effects \subseteq Rows /\ asking \in BOOLEAN
  BY DEF Init
<1>7. TypeOK
  BY <1>2, <1>3, <1>4, <1>6 DEF TypeOK
<1>8. IndexesBounded
  BY <1>1, <1>5 DEF IndexesBounded
<1> QED
  BY <1>7, <1>8

LEMMA ProcessTyped ==
    ASSUME TypeOK, IndexesBounded, NEW p \in Processes,
           StartRun(p) \/ ReadRun(p) \/ Step(p) \/ Crash(p)
    PROVE  TypeOK'
<1> USE DEF rows
<1>0. process[p] \in Process /\ run \in Run
  BY DEF TypeOK
<1>1. CASE StartRun(p)
  <2>1. PICK budget \in 1..MaxBudget :
          /\ run' = [status |-> "running", stop |-> "", max |-> budget]
          /\ process' = [process EXCEPT ![p] =
                           [Idle EXCEPT !.pc = "gate", !.index = 1, !.last = budget]]
    BY <1>1 DEF StartRun, Enter
  <2>2. budget \in Nat
    BY BoundsAssumption
  <2>3. run' \in Run
    BY <2>1, <2>2 DEF Run, RunStatus, StopReason
  <2>4. [Idle EXCEPT !.pc = "gate", !.index = 1, !.last = budget] \in Process
    BY <2>2, IdleTyped DEF Process, Steps
  <2>5. process' \in [Processes -> Process]
    BY <2>1, <2>4 DEF TypeOK
  <2> QED
    BY <1>1, <2>3, <2>5 DEF StartRun, TypeOK
<1>2. CASE ReadRun(p)
  <2>1. commands' \in 0..MaxCommands
    BY <1>2, CommandTyped DEF ReadRun
  <2>2. CASE NeedsReview
    <3>1. run' \in Run
      BY <1>2, <2>2, CloseTyped DEF ReadRun, RunStatus, StopReason
    <3> QED
      BY <1>2, <2>1, <2>2, <3>1 DEF ReadRun, TypeOK
  <2>3. CASE ~NeedsReview
    <3>1. PICK budget \in 1..MaxBudget :
            process' = [process EXCEPT ![p] =
                [Idle EXCEPT !.pc = "reopen", !.seen = run, !.index = LastIndex + 1,
                             !.last = LastIndex + budget]]
      BY <1>2, <2>3 DEF ReadRun, Enter
    <3>2. LastIndex \in Nat /\ LastIndex + 1 \in Nat /\ LastIndex + budget \in Nat
      BY LastIndexBounded, BoundsAssumption DEF TypeOK
    <3>3. [Idle EXCEPT !.pc = "reopen", !.seen = run, !.index = LastIndex + 1,
                       !.last = LastIndex + budget] \in Process
      BY <1>0, <3>2, IdleTyped DEF Process, Steps
    <3>4. process' \in [Processes -> Process]
      BY <3>1, <3>3 DEF TypeOK
    <3> QED
      BY <1>2, <2>1, <2>3, <3>4 DEF ReadRun, TypeOK
  <2> QED
    BY <2>2, <2>3
<1>3. CASE GatePasses(p)
  BY <1>3, GotoTyped DEF GatePasses, TypeOK, Steps
<1>4. CASE GateBlocks(p)
  BY <1>4, LeaveTyped, CloseTyped DEF GateBlocks, TypeOK, RunStatus, StopReason
<1>5. CASE GateAsks(p)
  BY <1>5, LeaveTyped, CloseTyped DEF GateAsks, TypeOK, RunStatus, StopReason
<1>6. CASE ReopenRun(p)
  <2> DEFINE seen == process[p].seen
             max == IF process[p].last > seen.max THEN process[p].last ELSE seen.max
  <2>1. /\ seen.status \in RunStatus /\ seen.stop \in StopReason /\ seen.max \in Nat
        /\ run.status \in RunStatus /\ run.stop \in StopReason /\ run.max \in Nat
        /\ max \in Nat
    BY <1>0 DEF Process, Run
  <2> HIDE DEF seen, max
  <2>2. /\ Written(run.status, seen.status, "running") \in RunStatus
        /\ Written(run.stop, seen.stop, "") \in StopReason
        /\ Written(run.max, seen.max, max) \in Nat
    BY <2>1 DEF Written, RunStatus, StopReason
  <2>3. run' \in Run
    BY <1>6, <2>2 DEF ReopenRun, Run, seen, max
  <2>4. [process[p] EXCEPT !.pc = "begin", !.seen = NoRun] \in Process
    BY <1>0, IdleTyped DEF Process, Steps
  <2>5. process' \in [Processes -> Process]
    BY <1>6, <2>4 DEF ReopenRun, TypeOK
  <2> QED
    BY <1>6, <2>3, <2>5 DEF ReopenRun, TypeOK
<1>7. CASE BeginIteration(p)
  <2>1. inserted + 1 \in Rows /\ inserted' \in 0..MaxIterations
    BY <1>7, BoundsAssumption DEF BeginIteration, TypeOK, Rows
  <2>2. [status |-> "running", index |-> process[p].index] \in Iteration
    BY <1>0 DEF Process, Iteration
  <2>3. iterations' \in [Rows -> Iteration]
    BY <1>7, <2>2 DEF BeginIteration, TypeOK
  <2>4. [process[p] EXCEPT !.pc = "act", !.row = inserted + 1] \in Process
    BY <1>0, <2>1 DEF Process, Steps
  <2>5. process' \in [Processes -> Process]
    BY <1>7, <2>4 DEF BeginIteration, TypeOK
  <2> QED
    BY <1>7, <2>1, <2>3, <2>5 DEF BeginIteration, TypeOK
<1>8. CASE TakeEffect(p)
  <2>1. process' \in [Processes -> Process]
    BY <1>8, GotoTyped DEF TakeEffect, Steps
  <2>2. process[p].row \in Rows
    BY <1>8, BoundsAssumption DEF TakeEffect, IndexesBounded, TypeOK, Rows
  <2> QED
    BY <1>8, <2>1, <2>2 DEF TakeEffect, TypeOK
<1>9. CASE CommitAction(p)
  <2>1. \A ok \in BOOLEAN : [process[p] EXCEPT !.pc = "end", !.ok = ok] \in Process
    BY <1>0 DEF Process, Steps
  <2>2. process' \in [Processes -> Process]
    BY <1>9, <2>1 DEF CommitAction, TypeOK
  <2> QED
    BY <1>9, <2>2 DEF CommitAction, TypeOK
<1>10. CASE ActionRaises(p)
  <2>1. [process[p] EXCEPT !.pc = "end", !.ok = FALSE] \in Process
    BY <1>0 DEF Process, Steps
  <2>2. process' \in [Processes -> Process]
    BY <1>10, <2>1 DEF ActionRaises, TypeOK
  <2> QED
    BY <1>10, <2>2 DEF ActionRaises, TypeOK
<1>11. CASE EndIteration(p)
  <2>1. iterations' \in [Rows -> Iteration]
    <3> DEFINE status == IF process[p].ok THEN "completed" ELSE "failed"
    <3>1. iterations' = [iterations EXCEPT ![process[p].row].status = status]
      BY <1>11 DEF EndIteration
    <3>2. status \in {"completed", "failed"}
      OBVIOUS
    <3> HIDE DEF status
    <3>3. \A i \in Iteration : [i EXCEPT !.status = status] \in Iteration
      BY <3>2 DEF Iteration
    <3> QED
      BY <3>1, <3>3 DEF TypeOK
  <2>2. run' \in Run
    BY <1>11, CloseTyped, <1>0 DEF EndIteration, RunStatus, StopReason
  <2>3. process' \in [Processes -> Process]
    <3>1. process[p].index + 1 \in Nat /\ process[p].last \in Nat
      BY <1>0 DEF Process
    <3>2. [Idle EXCEPT !.pc = "begin", !.index = process[p].index + 1,
                       !.last = process[p].last] \in Process
      BY <3>1, IdleTyped DEF Process, Steps
    <3>3. CASE Leave(p)
      BY <3>3, LeaveTyped
    <3>4. CASE process' = [process EXCEPT ![p] =
                 [Idle EXCEPT !.pc = "begin", !.index = process[p].index + 1,
                              !.last = process[p].last]]
      BY <3>2, <3>4 DEF TypeOK
    <3> QED
      BY <1>11, <3>3, <3>4 DEF EndIteration
  <2> QED
    BY <1>11, <2>1, <2>2, <2>3 DEF EndIteration, TypeOK
<1>12. CASE Crash(p)
  BY <1>12, LeaveTyped, BoundsAssumption DEF Crash, TypeOK
<1> QED
  BY <1>1, <1>2, <1>3, <1>4, <1>5, <1>6, <1>7, <1>8, <1>9, <1>10, <1>11, <1>12 DEF Step

LEMMA OthersTyped ==
    ASSUME TypeOK, Cancel \/ Answer \/ Approve \/ Reject
    PROVE  TypeOK'
<1>1. commands' \in 0..MaxCommands
  BY CommandTyped DEF Cancel, Answer, Approve, Reject
<1>2. run' \in Run
  BY CloseTyped DEF Cancel, Answer, Approve, Reject, RunStatus, StopReason, TypeOK
<1> QED
  BY <1>1, <1>2 DEF Cancel, Answer, Approve, Reject, TypeOK, rows

LEMMA ProcessBounded ==
    ASSUME TypeOK, IndexesBounded, NEW p \in Processes,
           StartRun(p) \/ ReadRun(p) \/ Step(p) \/ Crash(p)
    PROVE  IndexesBounded'
<1> USE DEF rows
<1>0. /\ inserted \in Nat
      /\ \A q \in Processes : process[q].index \in Nat /\ process[q].index <= inserted + 1
      /\ \A k \in 1..inserted : k \in Rows /\ iterations[k].index \in Nat
  BY BoundsAssumption DEF TypeOK, IndexesBounded, Process, Iteration, Rows
\* The actions that leave the rows alone, or end one, only have to look at p.
<1>1. ASSUME inserted' = inserted,
             \A k \in 1..inserted : iterations'[k].index = iterations[k].index,
             NEW state, process' = [process EXCEPT ![p] = state],
             state.index <= inserted + 1,
             state.pc \in {"act", "acted", "end"}
               => state.index <= inserted /\ state.row \in 1..inserted
      PROVE  IndexesBounded'
  BY <1>1 DEF TypeOK, IndexesBounded
<1>2. CASE UNCHANGED <<process, rows>>
  BY <1>2 DEF IndexesBounded
<1>3. CASE Leave(p) /\ UNCHANGED <<inserted, iterations>>
  <2>1. Idle.index <= inserted + 1 /\ Idle.pc = "idle"
    BY <1>0 DEF Idle
  <2> QED
    BY <1>1, <1>3, <2>1 DEF Leave
<1>4. CASE \E step \in Steps : Goto(p, step) /\ step \notin {"act", "end"}
                               /\ (step = "acted" => process[p].pc = "act")
           /\ UNCHANGED <<inserted, iterations>>
  <2>1. PICK step \in Steps : /\ process' = [process EXCEPT ![p] = [process[p] EXCEPT !.pc = step]]
                              /\ step \notin {"act", "end"}
                              /\ step = "acted" => process[p].pc = "act"
    BY <1>4 DEF Goto
  <2> DEFINE state == [process[p] EXCEPT !.pc = step]
  <2>2. state.pc = step /\ state.index = process[p].index /\ state.row = process[p].row
    BY DEF TypeOK, Process
  <2> HIDE DEF state
  <2>3. process' = [process EXCEPT ![p] = state]
    BY <2>1 DEF state
  <2>4. /\ state.index <= inserted + 1
        /\ state.pc \in {"act", "acted", "end"} => state.index <= inserted
                                                  /\ state.row \in 1..inserted
    BY <2>1, <2>2 DEF IndexesBounded
  <2> QED
    BY <1>1, <1>4, <2>3, <2>4
<1>5. CASE StartRun(p)
  <2>1. PICK budget \in 1..MaxBudget :
          process' = [process EXCEPT ![p] =
                        [Idle EXCEPT !.pc = "gate", !.index = 1, !.last = budget]]
    BY <1>5 DEF StartRun, Enter
  <2> DEFINE state == [Idle EXCEPT !.pc = "gate", !.index = 1, !.last = budget]
  <2>2. state.pc = "gate" /\ state.index = 1
    BY DEF Idle
  <2> HIDE DEF state
  <2>3. process' = [process EXCEPT ![p] = state]
    BY <2>1 DEF state
  <2>4. UNCHANGED <<inserted, iterations>>
    BY <1>5 DEF StartRun, rows
  <2>5. state.index <= inserted + 1
    BY <1>0, <2>2
  <2> QED
    BY <1>1, <2>2, <2>3, <2>4, <2>5
<1>6. CASE ReadRun(p) /\ ~NeedsReview
  <2>1. PICK budget \in 1..MaxBudget :
          process' = [process EXCEPT ![p] =
              [Idle EXCEPT !.pc = "reopen", !.seen = run, !.index = LastIndex + 1,
                           !.last = LastIndex + budget]]
    BY <1>6 DEF ReadRun, Enter
  <2> DEFINE state == [Idle EXCEPT !.pc = "reopen", !.seen = run, !.index = LastIndex + 1,
                                   !.last = LastIndex + budget]
  <2>2. state.pc = "reopen" /\ state.index = LastIndex + 1
    BY DEF Idle
  <2> HIDE DEF state
  <2>3. process' = [process EXCEPT ![p] = state]
    BY <2>1 DEF state
  <2>4. state.index <= inserted + 1
    BY <1>0, <2>2, LastIndexBounded
  <2> QED
    BY <1>1, <1>6, <2>2, <2>3, <2>4 DEF ReadRun
<1>7. CASE ReopenRun(p)
  <2> DEFINE state == [process[p] EXCEPT !.pc = "begin", !.seen = NoRun]
  <2>1. state.pc = "begin" /\ state.index = process[p].index
    BY DEF TypeOK, Process
  <2> HIDE DEF state
  <2>2. process' = [process EXCEPT ![p] = state]
    BY <1>7 DEF ReopenRun, state
  <2> QED
    BY <1>0, <1>1, <1>7, <2>1, <2>2 DEF ReopenRun
<1>8. CASE BeginIteration(p)
  <2> DEFINE state == [process[p] EXCEPT !.pc = "act", !.row = inserted + 1]
  <2>1. state.pc = "act" /\ state.index = process[p].index /\ state.row = inserted + 1
    BY DEF TypeOK, Process
  <2> HIDE DEF state
  <2>2. process' = [process EXCEPT ![p] = state] /\ inserted' = inserted + 1
    BY <1>8 DEF BeginIteration, state
  <2>3. \A q \in Processes : process'[q] = IF q = p THEN state ELSE process[q]
    BY <2>2 DEF TypeOK
  <2>4. \A k \in 1..inserted' : iterations'[k].index = IF k = inserted + 1 THEN process[p].index
                                                       ELSE iterations[k].index
    BY <1>8, <1>0, BoundsAssumption DEF BeginIteration, TypeOK, Rows
  <2>5. \A k \in 1..inserted' : iterations'[k].index <= inserted'
    BY <1>0, <2>2, <2>4 DEF IndexesBounded
  <2>6. ASSUME NEW q \in Processes
        PROVE  /\ process'[q].index <= inserted' + 1
               /\ process'[q].pc \in {"act", "acted", "end"}
                    => process'[q].index <= inserted' /\ process'[q].row \in 1..inserted'
    BY <1>0, <2>1, <2>2, <2>3 DEF IndexesBounded
  <2> QED
    BY <2>5, <2>6 DEF IndexesBounded
<1>9. CASE CommitAction(p) \/ ActionRaises(p)
  <2>1. PICK ok \in BOOLEAN :
          process' = [process EXCEPT ![p] = [process[p] EXCEPT !.pc = "end", !.ok = ok]]
    BY <1>9 DEF CommitAction, ActionRaises
  <2> DEFINE state == [process[p] EXCEPT !.pc = "end", !.ok = ok]
  <2>2. state.index = process[p].index /\ state.row = process[p].row
    BY DEF TypeOK, Process
  <2> HIDE DEF state
  <2>3. process' = [process EXCEPT ![p] = state]
    BY <2>1 DEF state
  <2>4. process[p].pc \in {"act", "acted"}
    BY <1>9 DEF CommitAction, ActionRaises
  <2>5. state.index <= inserted + 1 /\ state.index <= inserted /\ state.row \in 1..inserted
    BY <2>2, <2>4 DEF IndexesBounded
  <2>6. UNCHANGED <<inserted, iterations>>
    BY <1>9 DEF CommitAction, ActionRaises
  <2> QED
    BY <1>1, <2>3, <2>5, <2>6
<1>10. CASE EndIteration(p)
  <2>1. /\ inserted' = inserted
        /\ \A k \in 1..inserted : iterations'[k].index = iterations[k].index
    BY <1>0, <1>10 DEF EndIteration, TypeOK, Iteration
  <2>2. CASE Leave(p)
    <3>1. Idle.index <= inserted + 1 /\ Idle.pc = "idle"
      BY <1>0 DEF Idle
    <3> QED
      BY <1>1, <2>1, <2>2, <3>1 DEF Leave
  <2> DEFINE state == [Idle EXCEPT !.pc = "begin", !.index = process[p].index + 1,
                                   !.last = process[p].last]
  <2>3. CASE process' = [process EXCEPT ![p] = state]
    <3>1. state.pc = "begin" /\ state.index = process[p].index + 1
      BY DEF Idle
    <3> HIDE DEF state
    <3>2. process[p].index <= inserted
      BY <1>10 DEF EndIteration, IndexesBounded
    <3>3. state.index <= inserted + 1
      BY <1>0, <3>1, <3>2
    <3> QED
      BY <1>1, <2>1, <2>3, <3>1, <3>3
  <2> QED
    BY <1>10, <2>2, <2>3 DEF EndIteration
<1>11. CASE ReadRun(p) /\ NeedsReview
  BY <1>2, <1>11 DEF ReadRun
<1>12. CASE GateBlocks(p) \/ GateAsks(p) \/ Crash(p)
  BY <1>3, <1>12 DEF GateBlocks, GateAsks, Crash
<1>13. CASE GatePasses(p)
  BY <1>4, <1>13 DEF GatePasses, Steps
<1>14. CASE TakeEffect(p)
  BY <1>4, <1>14 DEF TakeEffect, Steps
<1> QED
  BY <1>5, <1>6, <1>7, <1>8, <1>9, <1>10, <1>11, <1>12, <1>13, <1>14 DEF Step

LEMMA NextTyped ==
    ASSUME TypeOK, IndexesBounded, [Next]_vars
    PROVE  TypeOK' /\ IndexesBounded'
<1>1. ASSUME NEW p \in Processes, StartRun(p) \/ ReadRun(p) \/ Step(p) \/ Crash(p)
      PROVE  TypeOK' /\ IndexesBounded'
  BY <1>1, ProcessTyped, ProcessBounded
<1>2. CASE Cancel \/ Answer \/ Approve \/ Reject
  <2>1. UNCHANGED <<inserted, iterations, process>>
    BY <1>2 DEF Cancel, Answer, Approve, Reject, rows
  <2>2. IndexesBounded'
    BY <2>1 DEF IndexesBounded
  <2> QED
    BY <1>2, <2>2, OthersTyped
<1>3. CASE UNCHANGED vars
  BY <1>3 DEF TypeOK, IndexesBounded, vars, rows
<1> QED
  BY <1>1, <1>2, <1>3 DEF Next

\* Every variable keeps its type: the run never gets a status or stop reason that the rest
\* of the code does not know, and iterations are only inserted at the end.
THEOREM TypeCorrect == Spec => []TypeOK
<1>1. Init => TypeOK /\ IndexesBounded
  BY InitTyped
<1>2. TypeOK /\ IndexesBounded /\ [Next]_vars => TypeOK' /\ IndexesBounded'
  BY NextTyped
<1> QED
  BY <1>1, <1>2, PTL DEF Spec

-----------------------------------------------------------------------------
(* The stop reason explains the status.                                      *)

\* A process that is to reopen the run read a status and a reason that fit.
ReadersSawFittingReasons ==
    \A p \in Processes :
        process[p].pc = "reopen" => /\ process[p].seen.status # "absent"
                                    /\ process[p].seen.stop \in ReasonsOf(process[p].seen.status)

\* A status other than running has a reason, and running has none: so the two columns are
\* both sent or both left out when a run is reopened.
LEMMA ReopenWritesBothColumns ==
    ASSUME NEW now \in Run, NEW seen \in Run, seen.status # "absent",
           now.stop \in ReasonsOf(now.status), seen.stop \in ReasonsOf(seen.status)
    PROVE  Written(now.stop, seen.stop, "") \in ReasonsOf(Written(now.status, seen.status, "running"))
<1>1. seen.status \in RunStatus
  BY DEF Run
<1>2. CASE seen.status = "running"
  BY <1>2 DEF ReasonsOf, Written
<1>3. CASE seen.status # "running"
  <2>1. seen.stop # ""
    BY <1>1, <1>3 DEF ReasonsOf, RunStatus
  <2> QED
    BY <1>3, <2>1 DEF ReasonsOf, Written
<1> QED
  BY <1>2, <1>3

\* A write to the two columns at once that fits the status keeps the invariant.
LEMMA CloseFits ==
    ASSUME TypeOK, NEW status \in RunStatus, NEW stop \in ReasonsOf(status), Close(status, stop)
    PROVE  StopReasonFitsStatus'
<1>1. run'.status = status /\ run'.stop = stop
  BY DEF TypeOK, Run, Close
<1> QED
  BY <1>1 DEF StopReasonFitsStatus, ReasonsOf

LEMMA ReadersUndisturbed ==
    ASSUME TypeOK, ReadersSawFittingReasons, NEW p \in Processes, NEW state,
           process' = [process EXCEPT ![p] = state],
           state.pc = "reopen" => /\ state.seen.status # "absent"
                                  /\ state.seen.stop \in ReasonsOf(state.seen.status)
    PROVE  ReadersSawFittingReasons'
<1>1. \A q \in Processes : process'[q] = IF q = p THEN state ELSE process[q]
  BY DEF TypeOK
<1>2. ASSUME NEW q \in Processes, process'[q].pc = "reopen"
      PROVE  /\ process'[q].seen.status # "absent"
             /\ process'[q].seen.stop \in ReasonsOf(process'[q].seen.status)
  <2>1. CASE q = p
    BY <1>1, <1>2, <2>1
  <2>2. CASE q # p
    BY <1>1, <1>2, <2>2 DEF ReadersSawFittingReasons
  <2> QED
    BY <2>1, <2>2
<1>3. \A status : ReasonsOf(status)' = ReasonsOf(status)
  BY DEF ReasonsOf
<1> QED
  BY <1>2, <1>3 DEF ReadersSawFittingReasons

ReasonInvariant == StopReasonFitsStatus /\ ReadersSawFittingReasons

LEMMA ReasonsPreserved ==
    ASSUME TypeOK, ReasonInvariant, [Next]_vars
    PROVE  ReasonInvariant'
<1> USE DEF ReasonInvariant
<1>1. ASSUME UNCHANGED run PROVE StopReasonFitsStatus'
  BY <1>1 DEF StopReasonFitsStatus, ReasonsOf
<1>2. ASSUME UNCHANGED process PROVE ReadersSawFittingReasons'
  BY <1>2 DEF ReadersSawFittingReasons, ReasonsOf
<1>3. ASSUME NEW p \in Processes, Leave(p) PROVE ReadersSawFittingReasons'
  <2>1. Idle.pc # "reopen"
    BY DEF Idle
  <2> QED
    BY <1>3, <2>1, ReadersUndisturbed DEF Leave
<1>4. ASSUME NEW p \in Processes, NEW step \in Steps, Goto(p, step), step # "reopen"
      PROVE  ReadersSawFittingReasons'
  <2> DEFINE state == [process[p] EXCEPT !.pc = step]
  <2>1. state.pc # "reopen"
    BY <1>4 DEF TypeOK, Process
  <2>2. process' = [process EXCEPT ![p] = state]
    BY <1>4 DEF Goto
  <2> HIDE DEF state
  <2> QED
    BY <2>1, <2>2, ReadersUndisturbed
<1>5. ASSUME NEW p \in Processes, StartRun(p) PROVE ReasonInvariant'
  <2>1. PICK budget \in 1..MaxBudget :
          /\ run' = [status |-> "running", stop |-> "", max |-> budget]
          /\ process' = [process EXCEPT ![p] =
                           [Idle EXCEPT !.pc = "gate", !.index = 1, !.last = budget]]
    BY <1>5 DEF StartRun, Enter
  <2> DEFINE state == [Idle EXCEPT !.pc = "gate", !.index = 1, !.last = budget]
  <2>2. state.pc = "gate"
    BY DEF Idle
  <2>3. process' = [process EXCEPT ![p] = state]
    BY <2>1
  <2> HIDE DEF state
  <2>4. ReadersSawFittingReasons'
    BY <2>2, <2>3, ReadersUndisturbed
  <2>5. StopReasonFitsStatus'
    BY <2>1 DEF StopReasonFitsStatus, ReasonsOf
  <2> QED
    BY <2>4, <2>5
<1>6. ASSUME NEW p \in Processes, ReadRun(p) PROVE ReasonInvariant'
  <2>1. CASE NeedsReview
    <3>1. Close("waiting_input", "resume_manual_review_required") /\ UNCHANGED process
      BY <1>6, <2>1 DEF ReadRun
    <3>2. /\ "waiting_input" \in RunStatus
          /\ "resume_manual_review_required" \in ReasonsOf("waiting_input")
      BY DEF RunStatus, ReasonsOf
    <3> QED
      BY <1>2, <3>1, <3>2, CloseFits
  <2>2. CASE ~NeedsReview
    <3>1. PICK budget \in 1..MaxBudget :
            process' = [process EXCEPT ![p] =
                [Idle EXCEPT !.pc = "reopen", !.seen = run, !.index = LastIndex + 1,
                             !.last = LastIndex + budget]]
      BY <1>6, <2>2 DEF ReadRun, Enter
    <3> DEFINE state == [Idle EXCEPT !.pc = "reopen", !.seen = run, !.index = LastIndex + 1,
                                     !.last = LastIndex + budget]
    <3>2. state.seen = run
      BY DEF Idle
    <3>3. process' = [process EXCEPT ![p] = state]
      BY <3>1
    <3> HIDE DEF state
    <3>4. run.status # "absent" /\ run.stop \in ReasonsOf(run.status)
      BY <1>6 DEF ReadRun, StopReasonFitsStatus
    <3>5. ReadersSawFittingReasons'
      BY <3>2, <3>3, <3>4, ReadersUndisturbed
    <3> QED
      BY <1>1, <1>6, <2>2, <3>5 DEF ReadRun
  <2> QED
    BY <2>1, <2>2
<1>7. ASSUME NEW p \in Processes, ReopenRun(p) PROVE ReasonInvariant'
  <2> DEFINE seen == process[p].seen
             state == [process[p] EXCEPT !.pc = "begin", !.seen = NoRun]
  <2>1. /\ seen \in Run /\ seen.status # "absent" /\ seen.stop \in ReasonsOf(seen.status)
        /\ run \in Run /\ run.stop \in ReasonsOf(run.status)
    BY <1>7 DEF ReopenRun, TypeOK, Process, ReadersSawFittingReasons, StopReasonFitsStatus
  <2>2. /\ run'.status = Written(run.status, seen.status, "running")
        /\ run'.stop = Written(run.stop, seen.stop, "")
    BY <1>7 DEF ReopenRun
  <2>3. state.pc = "begin"
    BY DEF TypeOK, Process
  <2>4. process' = [process EXCEPT ![p] = state]
    BY <1>7 DEF ReopenRun
  <2> HIDE DEF seen, state
  <2>5. run'.stop \in ReasonsOf(run'.status)
    BY <2>1, <2>2, ReopenWritesBothColumns
  <2>6. StopReasonFitsStatus'
    BY <2>5 DEF StopReasonFitsStatus, ReasonsOf
  <2>7. ReadersSawFittingReasons'
    BY <2>3, <2>4, ReadersUndisturbed
  <2> QED
    BY <2>6, <2>7
<1>8. ASSUME NEW p \in Processes, BeginIteration(p) PROVE ReasonInvariant'
  <2> DEFINE state == [process[p] EXCEPT !.pc = "act", !.row = inserted + 1]
  <2>1. state.pc = "act"
    BY DEF TypeOK, Process
  <2>2. process' = [process EXCEPT ![p] = state]
    BY <1>8 DEF BeginIteration
  <2> HIDE DEF state
  <2>3. ReadersSawFittingReasons'
    BY <2>1, <2>2, ReadersUndisturbed
  <2> QED
    BY <1>1, <1>8, <2>3 DEF BeginIteration
<1>9. ASSUME NEW p \in Processes, CommitAction(p) \/ ActionRaises(p) PROVE ReasonInvariant'
  <2>1. PICK ok \in BOOLEAN :
          process' = [process EXCEPT ![p] = [process[p] EXCEPT !.pc = "end", !.ok = ok]]
    BY <1>9 DEF CommitAction, ActionRaises
  <2> DEFINE state == [process[p] EXCEPT !.pc = "end", !.ok = ok]
  <2>2. state.pc = "end"
    BY DEF TypeOK, Process
  <2>3. process' = [process EXCEPT ![p] = state]
    BY <2>1
  <2> HIDE DEF state
  <2>4. ReadersSawFittingReasons'
    BY <2>2, <2>3, ReadersUndisturbed
  <2>5. UNCHANGED run
    BY <1>9 DEF CommitAction, ActionRaises
  <2> QED
    BY <1>1, <2>4, <2>5
<1>10. ASSUME NEW p \in Processes, EndIteration(p) PROVE ReasonInvariant'
  <2>1. CASE (Close("completed", "success") \/ Close("failed", "max_iterations_reached"))
             /\ Leave(p)
    <3>1. /\ "completed" \in RunStatus /\ "success" \in ReasonsOf("completed")
          /\ "failed" \in RunStatus /\ "max_iterations_reached" \in ReasonsOf("failed")
      BY DEF RunStatus, ReasonsOf
    <3> QED
      BY <1>3, <2>1, <3>1, CloseFits
  <2> DEFINE state == [Idle EXCEPT !.pc = "begin", !.index = process[p].index + 1,
                                   !.last = process[p].last]
  <2>2. CASE process' = [process EXCEPT ![p] = state] /\ UNCHANGED run
    <3>1. state.pc = "begin"
      BY DEF Idle
    <3> HIDE DEF state
    <3>2. ReadersSawFittingReasons'
      BY <2>2, <3>1, ReadersUndisturbed
    <3> QED
      BY <1>1, <2>2, <3>2
  <2> QED
    BY <1>10, <2>1, <2>2 DEF EndIteration
<1>11. ASSUME NEW p \in Processes, GateBlocks(p) \/ GateAsks(p) PROVE ReasonInvariant'
  <2>1. /\ "blocked" \in RunStatus /\ "intent_blocked" \in ReasonsOf("blocked")
        /\ "waiting_input" \in RunStatus /\ "clarification_required" \in ReasonsOf("waiting_input")
    BY DEF RunStatus, ReasonsOf
  <2> QED
    BY <1>3, <1>11, <2>1, CloseFits DEF GateBlocks, GateAsks
<1>12. ASSUME NEW p \in Processes, GatePasses(p) \/ TakeEffect(p) PROVE ReasonInvariant'
  BY <1>1, <1>4, <1>12 DEF GatePasses, TakeEffect, Steps
<1>13. ASSUME NEW p \in Processes, Crash(p) PROVE ReasonInvariant'
  BY <1>1, <1>3, <1>13 DEF Crash
<1>14. CASE Cancel \/ Answer \/ Approve \/ Reject
  <2>1. /\ "cancelled" \in RunStatus /\ "cancelled" \in ReasonsOf("cancelled")
        /\ "user_rejected" \in ReasonsOf("cancelled")
        /\ "completed" \in RunStatus /\ "clarification_answered" \in ReasonsOf("completed")
    BY DEF RunStatus, ReasonsOf
  <2>2. UNCHANGED process
    BY <1>14 DEF Cancel, Answer, Approve, Reject
  <2>3. StopReasonFitsStatus'
    BY <1>1, <1>14, <2>1, CloseFits DEF Cancel, Answer, Approve, Reject
  <2> QED
    BY <1>2, <2>2, <2>3
<1>15. CASE UNCHANGED vars
  BY <1>1, <1>2, <1>15 DEF vars
<1> QED
  BY <1>5, <1>6, <1>7, <1>8, <1>9, <1>10, <1>11, <1>12, <1>13, <1>14, <1>15 DEF Next, Step

\* The stop reason explains the status, for any number of processes that resume, cancel,
\* answer and reject the run at once, each column of it written only when the writer
\* changed what it had read.
THEOREM StopReasonExplainsStatus == Spec => []StopReasonFitsStatus
<1>1. Init => ReasonInvariant
  <2> SUFFICES ASSUME Init PROVE ReasonInvariant
    OBVIOUS
  <2>1. run.status = "absent" /\ run.stop = ""
    BY DEF Init, NoRun
  <2>2. \A p \in Processes : process[p].pc = "idle"
    BY DEF Init, Idle
  <2> QED
    BY <2>1, <2>2 DEF ReasonInvariant, StopReasonFitsStatus, ReasonsOf, ReadersSawFittingReasons
<1>2. TypeOK /\ ReasonInvariant /\ [Next]_vars => ReasonInvariant'
  BY ReasonsPreserved
<1>3. ReasonInvariant => StopReasonFitsStatus
  BY DEF ReasonInvariant
<1> QED
  BY <1>1, <1>2, <1>3, TypeCorrect, PTL DEF Spec

-----------------------------------------------------------------------------
(* The iterations of a run that one process at a time works on.              *)

\* The rows are numbered in order, none beyond max_iterations, and each step of the process
\* knows where the next one goes.
InOrder ==
    /\ \A k \in 1..inserted : iterations[k].index = k
    /\ inserted <= run.max
    /\ run.status = "absent" => inserted = 0 /\ \A p \in Processes : process[p].pc = "idle"

Placed(state, count, max) ==
    /\ state.pc = "gate" => count = 0 /\ state.index = 1 /\ state.last = max /\ 1 <= max
    /\ state.pc = "reopen" => /\ state.index = count + 1 /\ state.index <= state.last
                              /\ state.seen.max = max /\ state.seen.status # "absent"
    /\ state.pc = "begin" => state.index = count + 1 /\ state.index <= state.last /\ state.last <= max
    /\ state.pc \in {"act", "acted", "end"} => state.index = count /\ state.last <= max

AllPlaced == \A p \in Processes : Placed(process[p], inserted, run.max)

LEMMA LastIndexExact ==
    ASSUME TypeOK, \A k \in 1..inserted : iterations[k].index = k
    PROVE  LastIndex = inserted
<1>1. inserted \in Nat
  BY BoundsAssumption DEF TypeOK
<1>2. CASE inserted = 0
  BY <1>2 DEF LastIndex
<1>3. CASE inserted # 0
  <2> DEFINE Indexes == {iterations[k].index : k \in 1..inserted}
             Last(i) == \A k \in 1..inserted : iterations[k].index <= i
  <2>1. inserted \in Indexes /\ Last(inserted)
    BY <1>1, <1>3
  <2>2. \A i \in Indexes : Last(i) => i = inserted
    BY <1>1, <1>3
  <2>3. (CHOOSE i \in Indexes : Last(i)) = inserted
    BY <2>1, <2>2
  <2> QED
    BY <1>3, <2>3 DEF LastIndex
<1> QED
  BY <1>2, <1>3

\* The processes take turns: no two work on the run at once.
TakingTurns ==
    \A p, q \in Processes : process[p].pc # "idle" /\ process[q].pc # "idle" => p = q

\* The step of a process while the others are idle.
LEMMA AloneMoves ==
    ASSUME TypeOK, TakingTurns, TakingTurns', NEW p \in Processes, NEW state,
           process' = [process EXCEPT ![p] = state],
           process[p].pc # "idle" \/ state.pc # "idle",
           Placed(state, inserted', run'.max)
    PROVE  AllPlaced'
<1>1. \A q \in Processes : process'[q] = IF q = p THEN state ELSE process[q]
  BY DEF TypeOK
<1>2. \A q \in Processes : q # p => process'[q].pc = "idle"
  BY <1>1 DEF TakingTurns
<1>3. ASSUME NEW q \in Processes PROVE Placed(process'[q], inserted', run'.max)
  <2>1. CASE q = p
    BY <1>1, <2>1
  <2>2. CASE q # p
    BY <1>2, <2>2 DEF Placed
  <2> QED
    BY <2>1, <2>2
<1> QED
  BY <1>3 DEF AllPlaced, Placed

LEMMA OrderPreserved ==
    ASSUME TypeOK, TakingTurns, TakingTurns', InOrder, AllPlaced, [Next]_vars
    PROVE  InOrder' /\ AllPlaced'
<1>0. inserted \in Nat /\ run.max \in Nat
  BY BoundsAssumption DEF TypeOK, Run
<1>1. ASSUME UNCHANGED <<iterations, inserted>>, run'.max = run.max, run'.status # "absent"
      PROVE  InOrder'
  BY <1>1 DEF InOrder
<1>2. ASSUME NEW p \in Processes, Leave(p), process[p].pc # "idle" PROVE AllPlaced'
  <2>1. Placed(Idle, inserted', run'.max)
    BY DEF Idle, Placed
  <2> QED
    BY <1>2, <2>1, AloneMoves DEF Leave
<1>3. ASSUME NEW status \in RunStatus \ {"absent"}, NEW stop \in StopReason, Close(status, stop)
      PROVE  run'.max = run.max /\ run'.status # "absent"
  BY <1>3 DEF Close, TypeOK, Run
<1>4. \A p \in Processes : process[p].pc # "idle" => run.status # "absent"
  BY DEF InOrder
<1>5. ASSUME NEW p \in Processes, StartRun(p) PROVE InOrder' /\ AllPlaced'
  <2>1. PICK budget \in 1..MaxBudget :
          /\ run' = [status |-> "running", stop |-> "", max |-> budget]
          /\ process' = [process EXCEPT ![p] =
                           [Idle EXCEPT !.pc = "gate", !.index = 1, !.last = budget]]
    BY <1>5 DEF StartRun, Enter
  <2>2. UNCHANGED <<iterations, inserted>> /\ run.status = "absent"
    BY <1>5 DEF StartRun, rows
  <2>3. inserted = 0
    BY <2>2 DEF InOrder
  <2>4. 1 <= budget /\ budget \in Nat
    BY BoundsAssumption
  <2> DEFINE state == [Idle EXCEPT !.pc = "gate", !.index = 1, !.last = budget]
  <2>5. state.pc = "gate" /\ state.index = 1 /\ state.last = budget
    BY DEF Idle
  <2>6. process' = [process EXCEPT ![p] = state]
    BY <2>1
  <2> HIDE DEF state
  <2>7. Placed(state, inserted', run'.max)
    BY <2>1, <2>2, <2>3, <2>4, <2>5 DEF Placed
  <2>8. AllPlaced'
    BY <2>5, <2>6, <2>7, AloneMoves
  <2>9. run'.max = budget /\ run'.status # "absent" /\ inserted' = 0
    BY <2>1, <2>2, <2>3
  <2>10. \A k \in 1..inserted' : iterations'[k].index = k
    BY <2>9
  <2>11. InOrder'
    BY <2>4, <2>9, <2>10 DEF InOrder
  <2> QED
    BY <2>8, <2>11
<1>6. ASSUME NEW p \in Processes, ReadRun(p) PROVE InOrder' /\ AllPlaced'
  <2>1. UNCHANGED <<iterations, inserted>> /\ run.status # "absent"
    BY <1>6 DEF ReadRun, rows
  <2>2. CASE NeedsReview
    <3>1. Close("waiting_input", "resume_manual_review_required") /\ UNCHANGED process
      BY <1>6, <2>2 DEF ReadRun
    <3>2. run'.max = run.max /\ run'.status # "absent"
      BY <1>3, <3>1 DEF RunStatus, StopReason
    <3> QED
      BY <1>1, <2>1, <3>1, <3>2 DEF AllPlaced, Placed
  <2>3. CASE ~NeedsReview
    <3>1. PICK budget \in 1..MaxBudget :
            process' = [process EXCEPT ![p] =
                [Idle EXCEPT !.pc = "reopen", !.seen = run, !.index = LastIndex + 1,
                             !.last = LastIndex + budget]]
      BY <1>6, <2>3 DEF ReadRun, Enter
    <3>2. UNCHANGED run
      BY <1>6, <2>3 DEF ReadRun
    <3> DEFINE state == [Idle EXCEPT !.pc = "reopen", !.seen = run, !.index = LastIndex + 1,
                                     !.last = LastIndex + budget]
    <3>3. /\ state.pc = "reopen" /\ state.seen = run
          /\ state.index = LastIndex + 1 /\ state.last = LastIndex + budget
      BY DEF Idle
    <3>4. process' = [process EXCEPT ![p] = state]
      BY <3>1
    <3> HIDE DEF state
    <3>5. LastIndex = inserted
      BY LastIndexExact DEF InOrder
    <3>6. 1 <= budget /\ budget \in Nat
      BY BoundsAssumption
    <3>7. state.index = inserted + 1 /\ state.index <= state.last
      BY <1>0, <3>3, <3>5, <3>6
    <3>8. Placed(state, inserted', run'.max)
      BY <2>1, <3>2, <3>3, <3>7 DEF Placed
    <3>9. AllPlaced'
      BY <3>3, <3>4, <3>8, AloneMoves
    <3> QED
      BY <1>1, <2>1, <3>2, <3>9
  <2> QED
    BY <2>2, <2>3
<1>7. ASSUME NEW p \in Processes, ReopenRun(p) PROVE InOrder' /\ AllPlaced'
  <2> DEFINE seen == process[p].seen
             last == process[p].last
             state == [process[p] EXCEPT !.pc = "begin", !.seen = NoRun]
  <2>1. /\ seen.max = run.max /\ seen.status # "absent"
        /\ process[p].index = inserted + 1 /\ process[p].index <= last
    BY <1>7 DEF ReopenRun, AllPlaced, Placed
  <2>2. last \in Nat /\ run.status # "absent"
    BY <1>4, <1>7 DEF ReopenRun, TypeOK, Process
  <2>3. /\ run'.max = Written(run.max, seen.max, IF last > seen.max THEN last ELSE seen.max)
        /\ run'.status = Written(run.status, seen.status, "running")
    BY <1>7 DEF ReopenRun
  <2>4. UNCHANGED <<iterations, inserted>>
    BY <1>7 DEF ReopenRun, rows
  <2>5. state.pc = "begin" /\ state.index = process[p].index /\ state.last = last
    BY DEF TypeOK, Process
  <2>6. process' = [process EXCEPT ![p] = state]
    BY <1>7 DEF ReopenRun
  <2> HIDE DEF seen, last, state
  <2>7. last <= run'.max /\ run.max <= run'.max /\ run'.max \in Nat
    BY <1>0, <2>1, <2>2, <2>3 DEF Written
  <2>8. run'.status # "absent"
    BY <2>1, <2>2, <2>3 DEF Written
  <2>9. InOrder'
    BY <1>0, <2>4, <2>7, <2>8 DEF InOrder
  <2>10. Placed(state, inserted', run'.max)
    BY <2>1, <2>4, <2>5, <2>7 DEF Placed
  <2>11. AllPlaced'
    BY <2>5, <2>6, <2>10, AloneMoves
  <2> QED
    BY <2>9, <2>11
<1>8. ASSUME NEW p \in Processes, BeginIteration(p) PROVE InOrder' /\ AllPlaced'
  <2> DEFINE state == [process[p] EXCEPT !.pc = "act", !.row = inserted + 1]
  <2>1. state.pc = "act" /\ state.index = process[p].index /\ state.last = process[p].last
    BY DEF TypeOK, Process
  <2>2. process' = [process EXCEPT ![p] = state]
    BY <1>8 DEF BeginIteration
  <2> HIDE DEF state
  <2>3. /\ process[p].pc = "begin" /\ process[p].index = inserted + 1
        /\ process[p].index <= process[p].last /\ process[p].last <= run.max
    BY <1>8 DEF BeginIteration, AllPlaced, Placed
  <2>4. process[p].index \in Nat /\ process[p].last \in Nat /\ run.status # "absent"
    BY <1>4, <2>3 DEF TypeOK, Process
  <2>5. inserted' = inserted + 1 /\ UNCHANGED run
    BY <1>8 DEF BeginIteration
  <2>6. \A k \in 1..inserted' : iterations'[k].index = IF k = inserted + 1 THEN process[p].index
                                                       ELSE iterations[k].index
    BY <1>8, <1>0, BoundsAssumption DEF BeginIteration, TypeOK, Rows
  <2>7. \A k \in 1..inserted' : iterations'[k].index = k
    BY <1>0, <2>3, <2>5, <2>6 DEF InOrder
  <2>8. inserted' <= run'.max
    BY <1>0, <2>3, <2>4, <2>5
  <2>9. Placed(state, inserted', run'.max)
    BY <2>1, <2>3, <2>5 DEF Placed
  <2>10. AllPlaced'
    BY <2>1, <2>2, <2>9, AloneMoves
  <2> QED
    BY <2>4, <2>5, <2>7, <2>8, <2>10 DEF InOrder
<1>9. ASSUME NEW p \in Processes, NEW step \in {"acted", "end"}, NEW ok \in BOOLEAN,
             process' = [process EXCEPT ![p] = [process[p] EXCEPT !.pc = step, !.ok = ok]],
             process[p].pc \in {"act", "acted"}, UNCHANGED <<run, iterations, inserted>>
      PROVE  InOrder' /\ AllPlaced'
  <2> DEFINE state == [process[p] EXCEPT !.pc = step, !.ok = ok]
  <2>1. state.pc = step /\ state.index = process[p].index /\ state.last = process[p].last
    BY DEF TypeOK, Process
  <2>2. process' = [process EXCEPT ![p] = state]
    BY <1>9
  <2> HIDE DEF state
  <2>3. process[p].index = inserted /\ process[p].last <= run.max /\ run.status # "absent"
    BY <1>4, <1>9 DEF AllPlaced, Placed
  <2>4. Placed(state, inserted', run'.max)
    BY <1>9, <2>1, <2>3 DEF Placed
  <2> QED
    BY <1>1, <1>9, <2>2, <2>3, <2>4, AloneMoves
<1>10. ASSUME NEW p \in Processes, CommitAction(p) \/ ActionRaises(p) PROVE InOrder' /\ AllPlaced'
  <2>1. PICK ok \in BOOLEAN :
          process' = [process EXCEPT ![p] = [process[p] EXCEPT !.pc = "end", !.ok = ok]]
    BY <1>10 DEF CommitAction, ActionRaises
  <2>2. process[p].pc \in {"act", "acted"} /\ UNCHANGED <<run, iterations, inserted>>
    BY <1>10 DEF CommitAction, ActionRaises, rows
  <2> QED
    BY <1>9, <2>1, <2>2
<1>11. ASSUME NEW p \in Processes, TakeEffect(p) PROVE InOrder' /\ AllPlaced'
  <2> DEFINE state == [process[p] EXCEPT !.pc = "acted"]
  <2>1. state.pc = "acted" /\ state.index = process[p].index /\ state.last = process[p].last
    BY DEF TypeOK, Process
  <2>2. process' = [process EXCEPT ![p] = state]
    BY <1>11 DEF TakeEffect, Goto
  <2> HIDE DEF state
  <2>3. UNCHANGED <<run, iterations, inserted>> /\ process[p].pc = "act"
    BY <1>11 DEF TakeEffect
  <2>4. process[p].index = inserted /\ process[p].last <= run.max /\ run.status # "absent"
    BY <1>4, <2>3 DEF AllPlaced, Placed
  <2>5. Placed(state, inserted', run'.max)
    BY <2>1, <2>3, <2>4 DEF Placed
  <2> QED
    BY <1>1, <2>2, <2>3, <2>4, <2>5, AloneMoves
<1>12. ASSUME NEW p \in Processes, GatePasses(p) PROVE InOrder' /\ AllPlaced'
  <2> DEFINE state == [process[p] EXCEPT !.pc = "begin"]
  <2>1. state.pc = "begin" /\ state.index = process[p].index /\ state.last = process[p].last
    BY DEF TypeOK, Process
  <2>2. process' = [process EXCEPT ![p] = state]
    BY <1>12 DEF GatePasses, Goto
  <2> HIDE DEF state
  <2>3. UNCHANGED <<run, iterations, inserted>> /\ process[p].pc = "gate"
    BY <1>12 DEF GatePasses, rows
  <2>4. /\ inserted = 0 /\ process[p].index = 1 /\ process[p].last = run.max /\ 1 <= run.max
        /\ run.status # "absent"
    BY <1>4, <2>3 DEF AllPlaced, Placed
  <2>5. Placed(state, inserted', run'.max)
    BY <1>0, <2>1, <2>3, <2>4 DEF Placed
  <2> QED
    BY <1>1, <2>2, <2>3, <2>4, <2>5, AloneMoves
<1>13. ASSUME NEW p \in Processes, EndIteration(p) PROVE InOrder' /\ AllPlaced'
  <2>1. /\ inserted' = inserted
        /\ \A k \in 1..inserted : iterations'[k].index = iterations[k].index
    BY <1>0, <1>13 DEF EndIteration, TypeOK, Iteration
  <2>2. /\ process[p].pc = "end" /\ run.status # "absent"
        /\ process[p].index = inserted /\ process[p].last <= run.max
    BY <1>4, <1>13 DEF EndIteration, AllPlaced, Placed
  <2>3. process[p].index \in Nat /\ process[p].last \in Nat
    BY DEF TypeOK, Process
  <2>4. ASSUME run'.max = run.max, run'.status # "absent" PROVE InOrder'
    BY <2>1, <2>4 DEF InOrder
  <2>5. CASE (Close("completed", "success") \/ Close("failed", "max_iterations_reached"))
             /\ Leave(p)
    <3>1. run'.max = run.max /\ run'.status # "absent"
      BY <1>3, <2>5 DEF RunStatus, StopReason
    <3> QED
      BY <1>2, <2>2, <2>4, <2>5, <3>1
  <2> DEFINE state == [Idle EXCEPT !.pc = "begin", !.index = process[p].index + 1,
                                   !.last = process[p].last]
  <2>6. CASE /\ process' = [process EXCEPT ![p] = state] /\ UNCHANGED run
             /\ process[p].index < process[p].last
    <3>1. state.pc = "begin" /\ state.index = process[p].index + 1 /\ state.last = process[p].last
      BY DEF Idle
    <3> HIDE DEF state
    <3>2. state.index = inserted + 1 /\ state.index <= state.last /\ state.last <= run.max
      BY <2>2, <2>3, <2>6, <3>1
    <3>3. Placed(state, inserted', run'.max)
      BY <2>1, <2>6, <3>1, <3>2 DEF Placed
    <3>4. AllPlaced'
      BY <2>6, <3>1, <3>3, AloneMoves
    <3> QED
      BY <2>2, <2>4, <2>6, <3>4
  <2> QED
    BY <1>13, <2>5, <2>6 DEF EndIteration
<1>14. ASSUME NEW p \in Processes, GateBlocks(p) \/ GateAsks(p) PROVE InOrder' /\ AllPlaced'
  <2>1. UNCHANGED <<iterations, inserted>>
    BY <1>14 DEF GateBlocks, GateAsks, rows
  <2>2. run'.max = run.max /\ run'.status # "absent"
    BY <1>3, <1>14 DEF GateBlocks, GateAsks, RunStatus, StopReason
  <2> QED
    BY <1>1, <1>2, <1>14, <2>1, <2>2 DEF GateBlocks, GateAsks
<1>15. ASSUME NEW p \in Processes, Crash(p) PROVE InOrder' /\ AllPlaced'
  <2>1. UNCHANGED <<run, iterations, inserted>> /\ run.status # "absent"
    BY <1>4, <1>15 DEF Crash, rows
  <2> QED
    BY <1>1, <1>2, <1>15, <2>1 DEF Crash
<1>16. CASE Cancel \/ Answer \/ Approve \/ Reject
  <2>1. UNCHANGED <<iterations, inserted, process>>
    BY <1>16 DEF Cancel, Answer, Approve, Reject, rows
  <2>2. run'.max = run.max
    BY <1>3, <1>16 DEF Cancel, Answer, Approve, Reject, RunStatus, StopReason
  <2>3. run'.status = "absent" => run.status = "absent"
    BY <1>3, <1>16 DEF Cancel, Answer, Approve, Reject, RunStatus, StopReason
  <2> QED
    BY <2>1, <2>2, <2>3 DEF InOrder, AllPlaced, Placed
<1>17. CASE UNCHANGED vars
  BY <1>17 DEF vars, rows, InOrder, AllPlaced, Placed
<1> QED
  BY <1>5, <1>6, <1>7, <1>8, <1>10, <1>11, <1>12, <1>13, <1>14, <1>15, <1>16, <1>17
     DEF Next, Step

LEMMA InitInOrder == ASSUME Init PROVE InOrder /\ AllPlaced /\ TakingTurns
<1>1. inserted = 0 /\ run.max = 0
  BY DEF Init, NoRun
<1>2. \A p \in Processes : process[p].pc = "idle"
  BY DEF Init, Idle
<1> QED
  BY <1>1, <1>2 DEF InOrder, AllPlaced, Placed, TakingTurns

LEMMA InOrderSuffices == ASSUME TypeOK, InOrder PROVE IterationsInOrder
<1>1. inserted \in Nat /\ run.max \in Nat
  BY BoundsAssumption DEF TypeOK, Run
<1> QED
  BY <1>1 DEF InOrder, IterationsInOrder

\* While one process works on the run, resumed as often as you like, killed at any point,
\* cancelled and answered by others meanwhile, its iterations are numbered 1, 2, 3 ... and
\* never exceed max_iterations.
THEOREM IterationsStayInOrder ==
    ASSUME \A p, q \in Processes : p = q
    PROVE  Spec => []IterationsInOrder
<1>1. TakingTurns /\ TakingTurns'
  BY DEF TakingTurns
<1>2. Init => InOrder /\ AllPlaced
  BY InitInOrder
<1>3. TypeOK /\ InOrder /\ AllPlaced /\ [Next]_vars => InOrder' /\ AllPlaced'
  BY <1>1, OrderPreserved
<1>4. TypeOK /\ InOrder => IterationsInOrder
  BY InOrderSuffices
<1> QED
  BY <1>2, <1>3, <1>4, TypeCorrect, PTL DEF Spec

\* While no two processes were at work at once, the rows and the processes are in order.
TurnInvariant == alone => TakingTurns /\ InOrder /\ AllPlaced

LEMMA AtMostOne ==
    ASSUME NEW S, IsFiniteSet(S), Cardinality(S) <= 1, NEW x \in S, NEW y \in S
    PROVE  x = y
<1>1. Cardinality(S) \in Nat
  BY FS_CardinalityType
<1>2. Cardinality(S) # 0
  BY FS_EmptySet
<1>3. Cardinality(S) = 1
  BY <1>1, <1>2
<1>4. PICK z : S = {z}
  BY <1>3, FS_Singleton
<1> QED
  BY <1>4

\* Any number of processes run, resume and are killed: as long as their turns never
\* overlapped, iterations are numbered in order, without gap or repetition and within
\* max_iterations, whoever answers or cancels meanwhile.
THEOREM TurnsAlwaysKeepOrder ==
    ASSUME IsFiniteSet(Processes)
    PROVE  SharedSpec => []TurnsKeepOrder
<1>1. SharedInit => TurnInvariant
  BY InitInOrder DEF SharedInit, TurnInvariant
<1>2. TypeOK /\ TurnInvariant /\ [SharedNext]_<<vars, alone>> => TurnInvariant'
  <2> SUFFICES ASSUME TypeOK, TurnInvariant, [SharedNext]_<<vars, alone>>, alone'
               PROVE  (TakingTurns /\ InOrder /\ AllPlaced)'
    BY DEF TurnInvariant
  <2>1. alone /\ [Next]_vars
    BY DEF SharedNext
  <2>2. TakingTurns'
    <3>1. CASE SharedNext
      <4>1. Cardinality(AtWork') <= 1
        BY <3>1 DEF SharedNext
      <4>2. AtWork' \subseteq Processes
        BY DEF AtWork
      <4>3. IsFiniteSet(AtWork')
        BY <4>2, FS_Subset
      <4>4. \A p, q \in AtWork' : p = q
        BY <4>1, <4>3, AtMostOne
      <4> QED
        BY <4>4 DEF AtWork, TakingTurns
    <3>2. CASE UNCHANGED <<vars, alone>>
      BY <3>2, <2>1 DEF TurnInvariant, TakingTurns, vars, rows
    <3> QED
      BY <3>1, <3>2
  <2> QED
    BY <2>1, <2>2, OrderPreserved DEF TurnInvariant
<1>3. TypeOK /\ TurnInvariant => TurnsKeepOrder
  BY InOrderSuffices DEF TurnInvariant, TurnsKeepOrder
<1>4. SharedInit => Init
  BY DEF SharedInit
<1>5. [SharedNext]_<<vars, alone>> => [Next]_vars
  BY DEF SharedNext
<1>6. SharedSpec => []TypeOK
  BY <1>4, <1>5, TypeCorrect, PTL DEF SharedSpec, Spec
<1> QED
  BY <1>1, <1>2, <1>3, <1>6, PTL DEF SharedSpec

-----------------------------------------------------------------------------
(* Iterations left behind.                                                   *)

AtAction == {"act", "acted", "end"}

\* A step of p that leaves no iteration: the one it was at is still its own, or has ended,
\* and one that starts is its own.
LEMMA NothingLeft ==
    ASSUME TypeOK, NEW p \in Processes, NEW state,
           process' = [process EXCEPT ![p] = state],
           \A k \in Rows : iterations'[k].status = "running" =>
               \/ iterations[k].status = "running"
               \/ state.row = k /\ state.pc \in AtAction,
           process[p].pc \in AtAction =>
               \/ state.row = process[p].row /\ state.pc \in AtAction
               \/ iterations'[process[p].row].status # "running"
    PROVE  Orphans' \subseteq Orphans
<1>1. \A q \in Processes : process'[q] = IF q = p THEN state ELSE process[q]
  BY DEF TypeOK
<1> SUFFICES ASSUME NEW k \in Rows, iterations'[k].status = "running", ~WorkedOn(k)'
             PROVE  iterations[k].status = "running" /\ ~WorkedOn(k)
  BY DEF Orphans
<1>2. ~(state.row = k /\ state.pc \in AtAction)
  BY <1>1 DEF WorkedOn, AtAction
<1>3. \A q \in Processes : q # p => ~(process[q].row = k /\ process[q].pc \in AtAction)
  BY <1>1 DEF WorkedOn, AtAction
<1>4. ~(process[p].row = k /\ process[p].pc \in AtAction)
  BY <1>2
<1> QED
  BY <1>2, <1>3, <1>4 DEF WorkedOn, AtAction

LEMMA SameRowsSameOrphans ==
    ASSUME UNCHANGED <<iterations, process>>
    PROVE  Orphans' = Orphans
BY DEF Orphans, WorkedOn

\* A step of p that neither starts nor ends an iteration, and keeps the one p is at.
LEMMA RowsAlone ==
    ASSUME TypeOK, NEW p \in Processes, NEW state,
           process' = [process EXCEPT ![p] = state], UNCHANGED iterations,
           process[p].pc \in AtAction => state.row = process[p].row /\ state.pc \in AtAction
    PROVE  Orphans' \subseteq Orphans
BY NothingLeft

LEMMA StepsLeaveNothing ==
    ASSUME TypeOK, IndexesBounded, NEW p \in Processes, StartRun(p) \/ ReadRun(p) \/ Step(p)
    PROVE  Orphans' \subseteq Orphans
<1> USE DEF rows
<1>0. process[p] \in Process
  BY DEF TypeOK
<1>1. CASE StartRun(p) \/ ReadRun(p)
  <2>1. UNCHANGED iterations
    BY <1>1 DEF StartRun, ReadRun
  <2>2. CASE UNCHANGED process
    BY <2>1, <2>2, SameRowsSameOrphans
  <2>3. CASE process[p].pc = "idle" /\ \E state : process' = [process EXCEPT ![p] = state]
    BY <2>1, <2>3, RowsAlone DEF AtAction
  <2> QED
    BY <1>1, <2>2, <2>3 DEF StartRun, ReadRun, Enter
<1>2. CASE GatePasses(p) \/ GateBlocks(p) \/ GateAsks(p) \/ ReopenRun(p)
  <2>1. UNCHANGED iterations /\ process[p].pc \notin AtAction
    BY <1>2 DEF GatePasses, GateBlocks, GateAsks, ReopenRun, AtAction
  <2>2. \E state : process' = [process EXCEPT ![p] = state]
    BY <1>2 DEF GatePasses, GateBlocks, GateAsks, ReopenRun, Goto, Leave
  <2> QED
    BY <2>1, <2>2, RowsAlone
<1>3. CASE BeginIteration(p)
  <2> DEFINE state == [process[p] EXCEPT !.pc = "act", !.row = inserted + 1]
  <2>1. process' = [process EXCEPT ![p] = state]
    BY <1>3 DEF BeginIteration
  <2>2. state.pc = "act" /\ state.row = inserted + 1
    BY <1>0 DEF Process
  <2> HIDE DEF state
  <2>3. process[p].pc \notin AtAction
    BY <1>3 DEF BeginIteration, AtAction
  <2>4. \A k \in Rows : k # inserted + 1 => iterations'[k] = iterations[k]
    BY <1>3 DEF BeginIteration, TypeOK
  <2> QED
    BY <2>1, <2>2, <2>3, <2>4, NothingLeft DEF AtAction
<1>4. CASE TakeEffect(p)
  <2> DEFINE state == [process[p] EXCEPT !.pc = "acted"]
  <2>1. process' = [process EXCEPT ![p] = state] /\ UNCHANGED iterations
    BY <1>4 DEF TakeEffect, Goto
  <2>2. state.pc = "acted" /\ state.row = process[p].row
    BY <1>0 DEF Process
  <2> HIDE DEF state
  <2> QED
    BY <2>1, <2>2, RowsAlone DEF AtAction
<1>5. CASE CommitAction(p) \/ ActionRaises(p)
  <2>1. PICK ok \in BOOLEAN :
          process' = [process EXCEPT ![p] = [process[p] EXCEPT !.pc = "end", !.ok = ok]]
    BY <1>5 DEF CommitAction, ActionRaises
  <2> DEFINE state == [process[p] EXCEPT !.pc = "end", !.ok = ok]
  <2>2. process' = [process EXCEPT ![p] = state]
    BY <2>1
  <2>3. state.pc = "end" /\ state.row = process[p].row
    BY <1>0 DEF Process
  <2>4. UNCHANGED iterations
    BY <1>5 DEF CommitAction, ActionRaises
  <2> HIDE DEF state
  <2> QED
    BY <2>2, <2>3, <2>4, RowsAlone DEF AtAction
<1>6. CASE EndIteration(p)
  <2>1. \E status \in {"completed", "failed"} :
          iterations' = [iterations EXCEPT ![process[p].row].status = status]
    BY <1>6 DEF EndIteration
  <2>2. process[p].row \in Rows
    BY <1>6, BoundsAssumption DEF EndIteration, IndexesBounded, TypeOK, Rows
  <2>3. iterations'[process[p].row].status # "running"
    BY <2>1, <2>2 DEF TypeOK, Iteration
  <2>4. \A k \in Rows : iterations'[k].status = "running" => iterations[k].status = "running"
    BY <2>1, <2>2 DEF TypeOK, Iteration
  <2>5. \E state : process' = [process EXCEPT ![p] = state]
    BY <1>6 DEF EndIteration, Leave
  <2> QED
    BY <2>3, <2>4, <2>5, NothingLeft
<1> QED
  BY <1>1, <1>2, <1>3, <1>4, <1>5, <1>6 DEF Step

\* A killed process leaves the iteration it was at and no other.
LEMMA CrashesLeaveOne ==
    ASSUME TypeOK, NEW p \in Processes, Crash(p)
    PROVE  Orphans' \subseteq Orphans \cup {process[p].row} /\ crashes' = crashes + 1
<1>1. \A q \in Processes : q # p => process'[q] = process[q]
  BY DEF Crash, Leave, TypeOK
<1>2. UNCHANGED iterations /\ crashes' = crashes + 1
  BY DEF Crash, rows
<1> SUFFICES ASSUME NEW k \in Rows, iterations'[k].status = "running", ~WorkedOn(k)',
                    k # process[p].row
             PROVE  iterations[k].status = "running" /\ ~WorkedOn(k)
  BY <1>2 DEF Orphans
<1> QED
  BY <1>1, <1>2 DEF WorkedOn

LEMMA OrphansFinite == ASSUME TypeOK PROVE IsFiniteSet(Orphans) /\ Cardinality(Orphans) \in Nat
<1>1. IsFiniteSet(Rows)
  BY BoundsAssumption, FS_Interval DEF Rows
<1>2. Orphans \subseteq Rows
  BY DEF Orphans
<1> QED
  BY <1>1, <1>2, FS_Subset, FS_CardinalityType

LEMMA OrphansPreserved ==
    ASSUME TypeOK, IndexesBounded, OrphanIterationsNeedCrashes, [Next]_vars
    PROVE  OrphanIterationsNeedCrashes'
<1>1. /\ IsFiniteSet(Orphans) /\ Cardinality(Orphans) \in Nat
      /\ Cardinality(Orphans) <= crashes /\ crashes \in Nat
  BY OrphansFinite, BoundsAssumption DEF OrphanIterationsNeedCrashes, TypeOK
<1>2. ASSUME Orphans' \subseteq Orphans, crashes' = crashes PROVE OrphanIterationsNeedCrashes'
  <2>1. Cardinality(Orphans') <= Cardinality(Orphans) /\ IsFiniteSet(Orphans')
    BY <1>1, <1>2, FS_Subset
  <2>2. Cardinality(Orphans') \in Nat
    BY <2>1, FS_CardinalityType
  <2> QED
    BY <1>1, <1>2, <2>1, <2>2 DEF OrphanIterationsNeedCrashes
<1>3. ASSUME NEW x, Orphans' \subseteq Orphans \cup {x}, crashes' = crashes + 1
      PROVE  OrphanIterationsNeedCrashes'
  <2>1. IsFiniteSet(Orphans \cup {x}) /\ Cardinality(Orphans \cup {x}) <= Cardinality(Orphans) + 1
    BY <1>1, FS_AddElement
  <2>2. /\ Cardinality(Orphans') <= Cardinality(Orphans \cup {x}) /\ Cardinality(Orphans') \in Nat
        /\ Cardinality(Orphans \cup {x}) \in Nat
    BY <1>3, <2>1, FS_Subset, FS_CardinalityType
  <2> QED
    BY <1>1, <1>3, <2>1, <2>2 DEF OrphanIterationsNeedCrashes
<1>4. ASSUME NEW p \in Processes, StartRun(p) \/ ReadRun(p) \/ Step(p) PROVE crashes' = crashes
  BY <1>4 DEF StartRun, ReadRun, Step, GatePasses, GateBlocks, GateAsks, ReopenRun, BeginIteration,
              TakeEffect, CommitAction, ActionRaises, EndIteration
<1>5. ASSUME NEW p \in Processes, StartRun(p) \/ ReadRun(p) \/ Step(p) \/ Crash(p)
      PROVE  OrphanIterationsNeedCrashes'
  BY <1>2, <1>3, <1>4, <1>5, StepsLeaveNothing, CrashesLeaveOne
<1>6. CASE Cancel \/ Answer \/ Approve \/ Reject \/ UNCHANGED vars
  <2>1. UNCHANGED <<iterations, process, crashes>>
    BY <1>6 DEF Cancel, Answer, Approve, Reject, rows, vars
  <2> QED
    BY <1>2, <2>1, SameRowsSameOrphans
<1> QED
  BY <1>5, <1>6 DEF Next

\* However many processes run and resume the agent run at once, the iterations left "running"
\* with nobody at work on them are no more than the processes killed.
THEOREM OrphanIterationsAlwaysNeedCrashes == Spec => []OrphanIterationsNeedCrashes
<1>1. Init => TypeOK /\ IndexesBounded
  BY InitTyped
<1>2. TypeOK /\ IndexesBounded /\ [Next]_vars => TypeOK' /\ IndexesBounded'
  BY NextTyped
<1>3. Init => OrphanIterationsNeedCrashes
  <2> SUFFICES ASSUME Init PROVE OrphanIterationsNeedCrashes
    OBVIOUS
  <2>1. Orphans = {} /\ crashes = 0
    BY DEF Init, Orphans
  <2>2. Cardinality({}) = 0
    BY FS_EmptySet
  <2> QED
    BY <2>1, <2>2 DEF OrphanIterationsNeedCrashes
<1>4. TypeOK /\ IndexesBounded /\ OrphanIterationsNeedCrashes /\ [Next]_vars
        => OrphanIterationsNeedCrashes'
  BY OrphansPreserved
<1> QED
  BY <1>1, <1>2, <1>3, <1>4, PTL DEF Spec
=============================================================================
