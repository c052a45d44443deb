------------------------------ MODULE MCMemoryOS ------------------------------
(* Five components of Memory OS that share no state here: a behaviour is    *)
(* that of the scene chosen at its start, with the inputs that matter to it.*)
EXTENDS Proposals, Provider, OwnerDigest, Heartbeat, Lanes, TLC

CONSTANTS p1, p2

VARIABLE scene   \* what the behaviour is about

memoryOSVars == <<scene, proposalVars, providerVars, digestVars, heartbeatVars, laneVars>>

MCKinds == {p1 :> a @@ p2 :> (IF a = "cleanup" THEN "unknown" ELSE "plan") : a \in Kinds}
MCPasts == {[agreed |-> 0, disagreed |-> 0, routed |-> 0], [agreed |-> 20, disagreed |-> 0, routed |-> 3],
            [agreed |-> 19, disagreed |-> 1, routed |-> 3]}
MCReady == {{}, {p1}}
MCReviewed == 1 :> "candidate" @@ 2 :> "cleanup" @@ 3 :> "template" @@ 4 :> "provisional" @@ 5 :> "speak"
              @@ 9 :> "source"
MCLimits == [action |-> 1, review |-> 1, fyi |-> 2]
MCEvents == 1 :> "turn" @@ 2 :> "self" @@ 3 :> "journal"
MCSymmetry == Permutations(Hands)   \* Providers, Replying, Sending, Beating and Runners are the same set

\* Two processes, with the history of the lane from the start.
ProposalsStep == ProposalsNext /\ jobs' + proposalCrashes' <= 3

\* The anchors of two providers, of any texts, without what becomes of the events ...
TasksStep ==
  /\ \E p \in Providers :
       \/ Initialize(p) \/ CrashProvider(p) \/ WriterStep(p)
       \/ \E intent \in Intents(provider[p].anchor), text \in Texts : Prefetch(p, intent, text)
       \/ \E busy \in BOOLEAN : SyncTurn(p, busy) \/ \E user \in BOOLEAN : PreCompress(p, user, busy)
  /\ turns' + inits' + providerCrashes' <= 4 \/ inits' = 1

\* ... and their events, of texts about nothing.
EventsStep ==
  /\ \E p \in Providers :
       \/ Initialize(p) \/ CrashProvider(p) \/ Shutdown(p)
       \/ WriterStep(p) \/ WorkerStep(p) \/ ClosingStep(p)
       \/ SyncTurn(p, FALSE) \/ \E text \in {Small, Command} : Prefetch(p, "unclassified", text)
  /\ turns' + inits' + providerCrashes' <= 5

\* One reply at a time, on two channels, while the queue ages: a candidate, a provisional
\* record, a message and a recall, or what shares their anchors.
DigestStep(items) ==
  \/ NextDay
  \/ \E i \in items : Arrive(i)
  \/ \E c \in Channels : RecordDigest(c)
  \/ ReplyNext
Alone == Cardinality({h \in Replying : replier'[h].pc # "idle"}) <= 1 /\ digestCrashes' = 0
AgeStep(items) == DigestStep(items) /\ Alone /\ Len(digests') + 2 * replies' + day' <= 5

\* Two replies at a time, one of them killed.
HandsStep ==
  /\ ReplyNext \/ Arrive(1) \/ Arrive(5) \/ RecordDigest(Home)
  /\ born' # born => born'[5] \in {Never, 0} /\ born'[1] \in {Never, 0}

\* Two processes in two periods; of one event alone, until its item is pruned.
BeatsStep ==
  /\ HeartbeatNext
  /\ \/ beats' + time' + beatFaults' <= 3
     \/ Cardinality(arrived') = 1 /\ beats' <= 2 /\ beatFaults' = 0 /\ queued' = {}

SignalsStep ==
  /\ \/ PassGateTime
     \/ \E s \in Signals : ChangeSignal(s)
     \/ \E r \in Runners : GateStep(r) \/ SignalStep(r)
  /\ Len(permits') + gateTime' + laneFaults' <= 4

SessionsStep ==
  /\ \/ CorruptState \/ PassGateTime
     \/ \E word \in {"once", "graduated", "disabled"} : Approve(word)
     \/ ChangeSession(1) \/ \E s \in Sessions : CaptureSession(s)
     \/ \E r \in Runners : GateStep(r) \/ MirrorStep(r)
  /\ Len(permits') + gateTime' + laneFaults' <= 2
  /\ session'[1].content > 1 => captured' = {} /\ gateTime' + laneFaults' = 0

MCInit ==
  /\ scene \in {"proposals", "tasks", "events", "ages", "anchors", "hands", "deliveries", "beats", "signals", "sessions"}
  /\ ProposalsInit /\ ProviderInit /\ OwnerDigestInit /\ HeartbeatInit /\ LanesInit
  /\ scene # "proposals" => kind[p1] = "plan" /\ samples.agreed = 0 /\ queue[p1].state = "candidate"
  /\ Approved(p1) => samples.agreed = 0
  /\ \A s \in Sessions : session[s].talk = (s = 1)

MCNext ==
  /\ scene' = scene
  /\ \/ scene = "proposals" /\ ProposalsStep
        /\ UNCHANGED <<providerVars, digestVars, heartbeatVars, laneVars>>
     \/ scene \in {"tasks", "events"} /\ (IF scene = "tasks" THEN TasksStep ELSE EventsStep)
        /\ UNCHANGED <<proposalVars, digestVars, heartbeatVars, laneVars>>
     \/ /\ \/ scene = "ages" /\ AgeStep({1, 4})
           \/ scene = "anchors" /\ AgeStep({2, 3})
           \/ scene = "hands" /\ HandsStep
           \/ scene = "deliveries" /\ DeliverNext
        /\ UNCHANGED <<proposalVars, providerVars, heartbeatVars, laneVars>>
     \/ scene = "beats" /\ BeatsStep
        /\ UNCHANGED <<proposalVars, providerVars, digestVars, laneVars>>
     \/ scene \in {"signals", "sessions"} /\ (IF scene = "signals" THEN SignalsStep ELSE SessionsStep)
        /\ UNCHANGED <<proposalVars, providerVars, digestVars, heartbeatVars>>

MCSpec == MCInit /\ [][MCNext]_memoryOSVars

\* Every component's variables have their types.
MemoryOSTypeOK ==
  ProposalsTypeOK /\ ProviderTypeOK /\ OwnerDigestTypeOK /\ HeartbeatTypeOK /\ LanesTypeOK
================================================================================
