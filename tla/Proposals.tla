------------------------------ MODULE Proposals ------------------------------
(***************************************************************************)
(* What becomes of an approved proposal (hermes/memory_os/owner_actions.py *)
(* and the review commands of its cli.py).  The queue of proposals is one  *)
(* JSON document that every writer reads, empties and writes again.  An    *)
(* owner approves a proposal, or the automatic lane does; OpsGate reviews  *)
(* it; the owner's explicit apply then writes a policy, a ticket or the    *)
(* queue itself.  The queue's own module and OpsGate are not in this       *)
(* repository: what they do is one step.                                   *)
(* An operator named Faulty... is a definition with a bug put in.          *)
(***************************************************************************)
EXTENDS Integers, FiniteSets

CONSTANTS
  Proposals,            \* what was ever proposed
  KindChoices,          \* what the proposals may be: functions on Proposals
  Pasts,                \* what the ledger may say at first of owner and lane: counts
  ReadyChoices,         \* sets of proposals that may be ready to be applied at first
  Hands,                \* processes that apply owner actions or run review commands
  MaxJobs,              \* bound: actions and commands
  MaxProposalCrashes    \* bound: processes killed

Kinds == {"expression", "sources", "cleanup", "reflection", "weekly", "validation", "plan", "unknown"}

ASSUME ProposalsAssumption ==
  /\ KindChoices \subseteq [Proposals -> Kinds]
  /\ \A past \in Pasts : past.agreed \in Nat /\ past.disagreed \in Nat /\ past.routed \in Nat
  /\ MaxJobs \in Nat /\ MaxProposalCrashes \in Nat

Surfaces == {"expression", "sources", "reflection"}   \* each has a policy file

VARIABLES
  kind,      \* what each proposal is: kind, proposal_class, title
  queue,     \* system-modules/proposal_queue/queue.json
  review,    \* ops_gate/reports.jsonl: the last decision on each
  ticket,    \* execution tickets: the state of the last of each
  applies,   \* apply records of each
  policy,    \* the policy file of each surface
  noted,     \* owner_actions.jsonl: the actions recorded as applied
  samples,   \* in it: how often owner and lane agreed and disagreed
  routed,    \* audit log: how many proposals the lane has routed
  hand,      \* the local state of each process
  jobs, proposalCrashes,
  writes,    \* history: how often each was carried out
  explicit,  \* history: the proposals whose apply was explicit and allowed
  automatic, \* history: the proposals the lane promoted
  lastWord,  \* history: the last decision the owner took of each
  lost,      \* history: the queue was overwritten or left empty
  overlapped \* history: a proposal was applied by two processes at once

proposalFiles == <<kind, queue, review, ticket, applies, policy, noted, samples, routed>>
proposalHistory == <<writes, explicit, automatic, lastWord, lost, overlapped>>
proposalVars == <<proposalFiles, hand, jobs, proposalCrashes, proposalHistory>>

\* _explicit_proposal_apply_kind, _unsupported_proposal_execution_ticket_kind.
HasApplyKind(p) == kind[p] \in {"expression", "sources", "cleanup"}
HasTicketKind(p) == kind[p] \in {"reflection", "weekly", "validation", "plan"}

Open == {"candidate", "owner_eligible", "owner_defer"}
Missing == [state |-> "missing", followup |-> "none"]
NoQueue == [p \in Proposals |-> Missing]
AtEase == [pc |-> "idle", job |-> "none", of |-> {}, todo |-> {}, seen |-> NoQueue, doc |-> NoQueue,
           version |-> 0, sample |-> "none", evidence |-> FALSE, count |-> 0]
NoPolicy == [version |-> 0, from |-> {}]

ProposalsInit ==
  /\ kind \in KindChoices
  /\ \E ready \in ReadyChoices :      \* approved and reviewed before
       /\ queue = [p \in Proposals |-> [state |-> IF p \in ready THEN "approved_for_proposal" ELSE "candidate",
                                        followup |-> "none"]]
       /\ review = [p \in Proposals |-> IF p \in ready THEN "would_allow" ELSE "none"]
  /\ ticket = [p \in Proposals |-> "none"]
  /\ applies = [p \in Proposals |-> 0]
  /\ policy = [s \in Surfaces |-> NoPolicy]
  /\ noted = {}
  /\ \E past \in Pasts : /\ samples = [agreed |-> past.agreed, disagreed |-> past.disagreed]
                         /\ routed = past.routed
  /\ hand = [h \in Hands |-> AtEase]
  /\ jobs = 0 /\ proposalCrashes = 0
  /\ writes = [p \in Proposals |-> 0]
  /\ explicit = {} /\ automatic = {}
  /\ lastWord = [p \in Proposals |-> "none"]
  /\ lost = FALSE /\ overlapped = FALSE

-----------------------------------------------------------------------------
(* What the reports say.                                                   *)

\* approved_proposal_followups_report, of one proposal.
FollowupState(p) ==
  CASE kind[p] \in {"expression", "sources", "cleanup"} /\ applies[p] > 0 -> "applied"
    [] kind[p] = "reflection" /\ applies[p] > 0 -> "bounded_policy_written"
    [] ticket[p] # "none" -> ticket[p]
    [] review[p] # "none" /\ HasApplyKind(p) -> "supported_apply_ready"
    [] review[p] # "none" /\ HasTicketKind(p) -> "unsupported_requires_execution_ticket"
    [] review[p] # "none" -> "unsupported_apply_kind"
    [] OTHER -> "awaiting_ops_gate_review"

Approved(p) == queue[p].state = "approved_for_proposal"
AwaitingReview == {p \in Proposals : Approved(p) /\ FollowupState(p) = "awaiting_ops_gate_review"}

\* proposal_auto_route_boundary_clean: of the kind "proposal", with nothing to apply.
BoundaryClean(p) == kind[p] \in {"plan", "validation"}

\* _proposal_followup_auto_route_eligible
AutoRoutable(p) == queue[p].state \in Open /\ BoundaryClean(p)

\* _wilson_lower_bound(agreed, n) >= 0.8 with z = 1.96, solved for the counts.
WilsonAtLeast80(agreed, n) ==
  LET excess == 10 * agreed - 8 * n
  IN n > 0 /\ excess >= 0 /\ 10000 * excess * excess >= 614656 * n

\* _proposal_followup_auto_route_calibration
FullAuto ==
  LET n == samples.agreed + samples.disagreed
  IN n >= 20 /\ 10 * samples.agreed >= 9 * n /\ WilsonAtLeast80(samples.agreed, n)
AutoRouteCap == IF routed >= 3 THEN 3 ELSE 1

-----------------------------------------------------------------------------
(* Processes.                                                              *)

Begins(h, state) ==
  /\ hand[h].pc = "idle" /\ jobs < MaxJobs
  /\ jobs' = jobs + 1
  /\ hand' = [hand EXCEPT ![h] = state]
  /\ UNCHANGED proposalCrashes

HandIs(h, state) == hand' = [hand EXCEPT ![h] = state]
Continues(h, pc) == HandIs(h, [hand[h] EXCEPT !.pc = pc])

\* An owner action is noted at its end, whatever came of it; a command is over.
Done(h) == IF hand[h].job = "execute" THEN HandIs(h, AtEase) ELSE Continues(h, "note")

Target(h) == CHOOSE p \in Proposals : p \in hand[h].of

Ready(p) == Approved(p) /\ (HasApplyKind(p) \/ HasTicketKind(p)) /\ review[p] = "would_allow"

\* apply_owner_action: an action that was noted is ignored, another one validated
\* (_validate_action_target).
StartOwnerAction(h, job, p) ==
  /\ <<job, p>> \notin noted
  /\ CASE job = "approve" -> queue[p].state \in Open
       [] job = "reject"  -> queue[p].state \in Open \/ Approved(p)
       [] job = "apply"   -> Ready(p)
  /\ Begins(h, [AtEase EXCEPT !.pc = IF job = "apply" THEN "decide" ELSE "transition",
                              !.job = job, !.of = {p},
                              !.sample = IF job # "apply" /\ AutoRoutable(p) THEN job ELSE "none"])
  /\ UNCHANGED <<proposalFiles, proposalHistory>>

\* review proposal-followups --execution-apply --apply --owner-approved
StartExecution(h, p, evidence) ==
  /\ evidence => kind[p] \in {"validation", "weekly"}   \* no other kind looks at it
  /\ Begins(h, [AtEase EXCEPT !.pc = "decide", !.job = "execute", !.of = {p}, !.evidence = evidence])
  /\ UNCHANGED <<proposalFiles, proposalHistory>>

Word(job) == IF job = "reject" THEN "owner_declined" ELSE "approved_for_proposal"

\* ProposalQueueModule.transition: raises when the proposal is not in the queue.
TransitionProposal(h) ==
  /\ hand[h].pc = "transition"
  /\ LET p == Target(h) IN
     IF queue[p] = Missing
     THEN HandIs(h, AtEase) /\ UNCHANGED <<queue, lastWord>>
     ELSE /\ queue' = [queue EXCEPT ![p].state = Word(hand[h].job)]
          /\ lastWord' = [lastWord EXCEPT ![p] = Word(hand[h].job)]
          /\ Continues(h, "note")
  /\ UNCHANGED <<kind, review, ticket, applies, policy, noted, samples, routed, jobs, proposalCrashes,
                 writes, explicit, automatic, lost, overlapped>>

\* The action is appended, with what the lane would have done
\* (_proposal_followup_auto_route_owner_decision_context).
NoteOwnerAction(h) ==
  /\ hand[h].pc = "note"
  /\ noted' = noted \cup {<<hand[h].job, Target(h)>>}
  /\ samples' = [agreed |-> samples.agreed + (IF hand[h].sample = "approve" THEN 1 ELSE 0),
                 disagreed |-> samples.disagreed + (IF hand[h].sample = "reject" THEN 1 ELSE 0)]
  /\ HandIs(h, AtEase)
  /\ UNCHANGED <<kind, queue, review, ticket, applies, policy, routed, jobs, proposalCrashes,
                 proposalHistory>>

-----------------------------------------------------------------------------
(* apply_approved_proposal_execution_decision, with owner_approved.        *)

Working(h) == hand[h].pc \notin {"idle", "note"} /\ hand[h].job \in {"apply", "execute"}

\* _legacy_template_cleanup_targets: the proposals made from old templates, which here
\* are those of unknown kind.
CleanupTargets(q, p) ==
  {t \in Proposals \ {p} : /\ kind[t] = "unknown" /\ q[t] # Missing
                           /\ q[t].state \notin {"owner_declined", "expired", "pressure_blocked"}
                           /\ q[t].followup = "none"}

FaultyAlreadyDone(p) == FALSE   \* no look at the apply records

\* The apply records of a proposal make a second apply a duplicate.
AlreadyDone(p) == applies[p] > 0

\* What is to be done about p first, by what is read now; "none" is nothing.
FirstTask(h, p) ==
  CASE ~Ready(p) -> "none"
    [] kind[p] \in {"expression", "sources"} -> IF AlreadyDone(p) THEN "none" ELSE "write policy"
    [] kind[p] = "cleanup" -> IF AlreadyDone(p) THEN "none" ELSE "read queue"
    [] ticket[p] = "none" -> "append ticket"
    [] kind[p] = "weekly" /\ hand[h].evidence -> "append ticket"
    [] kind[p] = "reflection" -> IF AlreadyDone(p) THEN "none" ELSE "write policy"
    [] OTHER -> "none"

DecideExecution(h) ==
  LET p == Target(h)
      first == FirstTask(h, p)
  IN
  /\ hand[h].pc = "decide"
  /\ IF first = "none"
     THEN Done(h) /\ UNCHANGED <<explicit, overlapped>>
     ELSE /\ HandIs(h, [hand[h] EXCEPT !.pc = first, !.todo = CleanupTargets(queue, p),
                           !.version = IF kind[p] \in Surfaces THEN policy[kind[p]].version + 1 ELSE 0])
          /\ explicit' = explicit \cup {p}
          /\ overlapped' = (overlapped \/ \E g \in Hands \ {h} : Working(g) /\ Target(g) = p)
  /\ UNCHANGED <<proposalFiles, jobs, proposalCrashes, writes, automatic, lastWord, lost>>

\* _write_right_brain_expression_policy, _write_memory_sources_policy,
\* _write_deep_reflection_policy: the file ...
WriteProposalPolicy(h) ==
  LET p == Target(h) IN
  /\ hand[h].pc = "write policy"
  /\ policy' = [policy EXCEPT ![kind[p]] = [version |-> hand[h].version, from |-> {p}]]
  /\ writes' = [writes EXCEPT ![p] = @ + 1]
  /\ Continues(h, "append apply")
  /\ UNCHANGED <<kind, queue, review, ticket, applies, noted, samples, routed, jobs, proposalCrashes,
                 explicit, automatic, lastWord, lost, overlapped>>

\* ... and the record of it.
AppendApplyRecord(h) ==
  LET p == Target(h) IN
  /\ hand[h].pc = "append apply"
  /\ applies' = [applies EXCEPT ![p] = @ + 1]
  /\ CASE kind[p] = "cleanup" -> Done(h)
       [] kind[p] = "reflection" -> Continues(h, "append ticket")
       [] OTHER -> Continues(h, "read queue")
  /\ UNCHANGED <<kind, queue, review, ticket, policy, noted, samples, routed, jobs, proposalCrashes,
                 proposalHistory>>

\* _approved_proposal_execution_ticket_result: the state of the ticket it appends.
TicketState(h, p) ==
  CASE kind[p] = "reflection" /\ applies[p] > 0 -> "bounded_policy_written"
    [] kind[p] = "validation" /\ hand[h].evidence -> "evidence_resolved"
    [] kind[p] = "weekly" /\ ticket[p] # "none" -> "evidence_resolved"
    [] OTHER -> "awaiting_typed_execution_plan"

AppendTicket(h) ==
  LET p == Target(h) IN
  /\ hand[h].pc = "append ticket"
  /\ ticket' = [ticket EXCEPT ![p] = TicketState(h, p)]
  /\ Done(h)
  /\ UNCHANGED <<kind, queue, review, applies, policy, noted, samples, routed, jobs, proposalCrashes,
                 proposalHistory>>

\* _mark_proposal_policy_applied, _mark_proposal_memory_sources_policy_applied and
\* the loop of the cleanup, which looks again at each of its targets.
Marked(h, q) ==
  [t \in Proposals |->
     IF q[t] = Missing THEN Missing
     ELSE IF t \in hand[h].of THEN [q[t] EXCEPT !.followup = "applied"]
     ELSE IF kind[Target(h)] = "cleanup" /\ t \in hand[h].todo /\ t \in CleanupTargets(q, Target(h))
     THEN [state |-> "pressure_blocked", followup |-> "closed"] ELSE q[t]]

\* The document is read; one that is empty at the moment has no items.  The cleanup
\* writes it back in any case.
ReadQueueDocument(h) ==
  /\ hand[h].pc = "read queue"
  /\ IF queue[Target(h)] = Missing /\ kind[Target(h)] # "cleanup"
     THEN Done(h)
     ELSE HandIs(h, [hand[h] EXCEPT !.pc = "empty queue", !.seen = queue, !.doc = Marked(h, queue)])
  /\ UNCHANGED <<proposalFiles, jobs, proposalCrashes, proposalHistory>>

\* _write_proposal_queue_document: opening it for writing empties it.
EmptyQueueDocument(h) ==
  /\ hand[h].pc = "empty queue"
  /\ queue' = NoQueue
  /\ lost' = (lost \/ queue # hand[h].seen)
  /\ Continues(h, "write queue")
  /\ UNCHANGED <<kind, review, ticket, applies, policy, noted, samples, routed, jobs, proposalCrashes,
                 writes, explicit, automatic, lastWord, overlapped>>

WriteQueueDocument(h) ==
  /\ hand[h].pc = "write queue"
  /\ queue' = hand[h].doc
  /\ lost' = (lost \/ queue # NoQueue)
  /\ IF kind[Target(h)] = "cleanup"
     THEN /\ Continues(h, "append apply")
          /\ writes' = [writes EXCEPT ![Target(h)] = @ + 1]
     ELSE Done(h) /\ UNCHANGED writes
  /\ UNCHANGED <<kind, review, ticket, applies, policy, noted, samples, routed, jobs, proposalCrashes,
                 explicit, automatic, lastWord, overlapped>>

-----------------------------------------------------------------------------
(* The way to OpsGate.                                                     *)

\* route_approved_proposal_followup_to_ops_gate, or all that wait for it.
StartRoute(h, todo) ==
  /\ todo # {} /\ (todo = AwaitingReview \/ Cardinality(todo) = 1)
  /\ Begins(h, [AtEase EXCEPT !.pc = "route", !.job = "route", !.todo = todo])
  /\ UNCHANGED <<proposalFiles, proposalHistory>>

\* auto_route_safe_proposal_followups_to_ops_gate takes as many as it may ...
StartAutoRoute(h, chosen) ==
  LET candidates == {p \in Proposals : AutoRoutable(p)} IN
  /\ chosen \subseteq candidates
  /\ IF FullAuto THEN chosen = candidates
     ELSE Cardinality(chosen) = IF Cardinality(candidates) < AutoRouteCap THEN Cardinality(candidates)
                                                                          ELSE AutoRouteCap
  /\ Begins(h, [AtEase EXCEPT !.pc = "promote", !.job = "auto", !.todo = chosen])
  /\ UNCHANGED <<proposalFiles, proposalHistory>>

\* ... approves each, an exception ends the process ...
PromoteProposal(h) ==
  /\ hand[h].pc = "promote"
  /\ IF hand[h].todo = {}
     THEN /\ HandIs(h, [hand[h] EXCEPT !.pc = "route", !.todo = AwaitingReview])
          /\ UNCHANGED <<queue, automatic, lastWord>>
     ELSE \E p \in hand[h].todo :
          IF queue[p] = Missing
          THEN HandIs(h, AtEase) /\ UNCHANGED <<queue, automatic, lastWord>>
          ELSE /\ queue' = [queue EXCEPT ![p].state = "approved_for_proposal"]
               /\ automatic' = automatic \cup {p}
               /\ lastWord' = [lastWord EXCEPT ![p] = "approved_for_proposal"]
               /\ HandIs(h, [hand[h] EXCEPT !.todo = @ \ {p}, !.count = @ + 1])
  /\ UNCHANGED <<kind, review, ticket, applies, policy, noted, samples, routed, jobs, proposalCrashes,
                 writes, explicit, lost, overlapped>>

\* ... and routes what awaits a review, one after the other: a reviewed one is skipped.
LookAtReview(h) ==
  /\ hand[h].pc = "route"
  /\ \E p \in hand[h].todo :
       HandIs(h, [hand[h] EXCEPT !.todo = @ \ {p},
                     !.of = IF Approved(p) /\ review[p] = "none" THEN {p} ELSE {},
                     !.pc = IF Approved(p) /\ review[p] = "none" THEN "report" ELSE "route"])
  /\ UNCHANGED <<proposalFiles, jobs, proposalCrashes, proposalHistory>>

\* OpsGateModule.run_once appends its report.
ReportReview(h, verdict) ==
  /\ hand[h].pc = "report"
  /\ review' = [review EXCEPT ![Target(h)] = verdict]
  /\ HandIs(h, [hand[h] EXCEPT !.pc = "route", !.of = {}])
  /\ UNCHANGED <<kind, queue, ticket, applies, policy, noted, samples, routed, jobs, proposalCrashes,
                 proposalHistory>>

\* The lane's audit record counts what it promoted.
EndRoute(h) ==
  /\ hand[h].pc = "route" /\ hand[h].todo = {}
  /\ routed' = routed + hand[h].count
  /\ HandIs(h, AtEase)
  /\ UNCHANGED <<kind, queue, review, ticket, applies, policy, noted, samples, jobs, proposalCrashes,
                 proposalHistory>>

CrashHand(h) ==
  /\ hand[h].pc # "idle" /\ proposalCrashes < MaxProposalCrashes
  /\ proposalCrashes' = proposalCrashes + 1
  /\ lost' = (lost \/ hand[h].pc = "write queue")
  /\ HandIs(h, AtEase)
  /\ UNCHANGED <<proposalFiles, jobs, writes, explicit, automatic, lastWord, overlapped>>

HandStep(h) ==
  \/ TransitionProposal(h) \/ NoteOwnerAction(h) \/ DecideExecution(h) \/ WriteProposalPolicy(h)
  \/ AppendApplyRecord(h) \/ AppendTicket(h) \/ ReadQueueDocument(h) \/ EmptyQueueDocument(h)
  \/ WriteQueueDocument(h) \/ PromoteProposal(h) \/ LookAtReview(h) \/ EndRoute(h)
  \/ \E verdict \in {"would_allow", "would_block"} : ReportReview(h, verdict)

ProposalsNext ==
  \E h \in Hands :
    \/ \E p \in Proposals :
         \/ \E job \in {"approve", "reject", "apply"} : StartOwnerAction(h, job, p)
         \/ \E evidence \in BOOLEAN : StartExecution(h, p, evidence)
    \/ \E todo \in SUBSET Proposals : StartRoute(h, todo) \/ StartAutoRoute(h, todo)
    \/ HandStep(h)
    \/ CrashHand(h)

ProposalsSpec == ProposalsInit /\ [][ProposalsNext]_proposalVars

-----------------------------------------------------------------------------
(* Properties                                                              *)

Items == [state : {"missing", "candidate", "approved_for_proposal", "owner_declined", "pressure_blocked"},
          followup : {"none", "applied", "closed"}]

\* The files have the values the code gives them.
ProposalsTypeOK ==
  /\ kind \in [Proposals -> Kinds]
  /\ queue \in [Proposals -> Items]
  /\ review \in [Proposals -> {"none", "would_allow", "would_block"}]
  /\ ticket \in [Proposals -> {"none", "awaiting_typed_execution_plan", "evidence_resolved",
                               "bounded_policy_written"}]
  /\ applies \in [Proposals -> Nat] /\ writes \in [Proposals -> Nat]
  /\ \A s \in Surfaces : policy[s].version \in Nat /\ policy[s].from \subseteq Proposals
  /\ noted \subseteq {"approve", "reject", "apply"} \X Proposals
  /\ routed \in Nat /\ jobs \in 0..MaxJobs /\ proposalCrashes \in 0..MaxProposalCrashes

\* A policy, a ticket and a cleanup of the queue come from a proposal that a person
\* approved, OpsGate allowed and a person had applied: the lane that approves by itself
\* never carries a proposal with a policy to them.
PoliciesAreSanctioned ==
  \A p \in Proposals : applies[p] > 0 \/ writes[p] > 0 => p \in explicit /\ p \notin automatic

\* However often and by whom the apply of a proposal is asked for, it is carried out
\* once, unless a process was killed before it noted it or two worked on it at once.
ProposalsAreAppliedOnce ==
  \A p \in Proposals : ~overlapped => writes[p] <= 1 + proposalCrashes

Quiet == \A h \in Hands : hand[h].pc # "write queue"

\* What the owner, or the lane, decided last is what the queue says, and no proposal
\* vanishes from it, as long as no writer put an older document in its place: applying
\* one proposal leaves the decisions on the others alone.
QueueKeepsDecisions ==
  ~lost /\ Quiet => \A p \in Proposals :
    /\ queue[p] # Missing
    /\ lastWord[p] # "none" => queue[p].state \in {lastWord[p], "pressure_blocked"}

\* The three together: what is written is sanctioned, once, and the queue remembers.
ProposalsAreGoverned == PoliciesAreSanctioned /\ ProposalsAreAppliedOnce /\ QueueKeepsDecisions
================================================================================
