--------------------------- MODULE MCMemoryReview ---------------------------
(* Instances of MemoryReview for TLC.                                      *)
EXTENDS MemoryReview

FirstOwner == CHOOSE o \in Owners : TRUE

VARIABLE scene

FirstCandidate == 1
LoopKinds == {"approve candidate", "revoke", "confirm"}

\* Two processes apply decisions on records, and nothing else changes them.
OwnersNext ==
    /\ scene = "owners"
    /\ \/ \E o \in Owners : \/ StartAction(o) /\ owner'[o].action.kind \notin EdgeKinds
                            \/ owner[o].pc # "idle" /\ (OwnerStep(o) \/ OwnerCrashes(o))
       \/ \E c \in Candidates : Resolve(c)

\* One process applies decisions on records, or on edges, beside the cognitive loop.
LoopNext ==
    /\ scene \in {"loop", "edges"}
    /\ \/ /\ StartAction(FirstOwner)
          /\ LET a == owner'[FirstOwner].action IN
               /\ a.kind \in IF scene = "loop" THEN LoopKinds ELSE EdgeKinds
               /\ a.kind = "approve candidate" => a.target = FirstCandidate
       \/ owner[FirstOwner].pc # "idle" /\ (OwnerStep(FirstOwner) \/ OwnerCrashes(FirstOwner))
       \/ Resolve(FirstCandidate)
       \/ LoopStep /\ (scene = "edges" => loop'.job = "")
       \/ SyncStep \/ (scene = "edges" /\ (LoopCrashes \/ SyncCrashes))

SceneInit == Init /\ scene \in {"owners", "loop", "edges"}
SceneNext == (OwnersNext \/ LoopNext) /\ UNCHANGED scene

SceneSpec == SceneInit /\ [][SceneNext]_<<vars, scene>>
=============================================================================
