---------------------------- MODULE TaskLifecycle ----------------------------
(***************************************************************************)
(* What the task queue promises of a task, seen from outside: it is        *)
(* created pending, claimed once, by one holder that has no other, and     *)
(* ended by that holder; a holder that dies leaves it running for ever.    *)
(* TaskQueue implements it when one worker alone executes tasks.           *)
(***************************************************************************)
CONSTANTS Tasks, Holders, Nobody

VARIABLES status, holder

lifecycle == <<status, holder>>

Init ==
    /\ status = [t \in Tasks |-> "absent"]
    /\ holder = [t \in Tasks |-> Nobody]

Create(t) ==
    /\ status[t] = "absent"
    /\ status' = [status EXCEPT ![t] = "pending"]
    /\ UNCHANGED holder

Claim(t, h) ==
    /\ status[t] = "pending"
    /\ h \notin {holder[u] : u \in Tasks}
    /\ status' = [status EXCEPT ![t] = "running"]
    /\ holder' = [holder EXCEPT ![t] = h]

Finish(t) ==
    /\ status[t] = "running" /\ holder[t] # Nobody
    /\ \E outcome \in {"completed", "failed"} : status' = [status EXCEPT ![t] = outcome]
    /\ holder' = [holder EXCEPT ![t] = Nobody]

Abandon(t) ==
    /\ holder[t] # Nobody
    /\ holder' = [holder EXCEPT ![t] = Nobody]
    /\ UNCHANGED status

Next == \E t \in Tasks :
    Create(t) \/ (\E h \in Holders : Claim(t, h)) \/ Finish(t) \/ Abandon(t)

Spec == Init /\ [][Next]_lifecycle
=============================================================================
