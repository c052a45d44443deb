--------------------------------- MODULE Knobs ---------------------------------
(***************************************************************************)
(* The overrides of knobs (hermes/memory_os/knob_overrides.py): a log of   *)
(* registrations, confirmations and reversions, from which the value of a  *)
(* knob is read, newest record first.  The owner decides on an override    *)
(* that was listed; so does the evaluation of the overrides, a plugin.     *)
(* Neither holds a lock from the look to the record.                       *)
(* An operator named Faulty... is a definition with a bug put in.          *)
(***************************************************************************)
EXTENDS Integers, Sequences, FiniteSets

CONSTANTS
  Knobs,          \* the knobs that somebody proposes to override
  Offered,        \* the values proposed, numbers; a switch is 0 or 1
  Allowed,        \* OVERRIDABLE_KNOBS: the values a knob may have, none if it is not there
  Default,        \* what a knob is without an override
  Deciders,       \* processes that decide on overrides
  MaxOverrides, MaxKnobDay   \* bounds: records, days

ASSUME KnobsAssumption ==
  /\ Offered \subseteq Int /\ MaxOverrides \in Nat /\ MaxKnobDay \in Nat
  /\ Allowed \in [Knobs -> SUBSET Int] /\ Default \in [Knobs -> Int]

VARIABLES
  overrides,      \* knob_overrides.jsonl, oldest record first; an id is a place in it
  decision,       \* what each process has in hand
  knobDay         \* the clock, in days

knobVars == <<overrides, decision, knobDay>>

Forever == 0

\* A record; registered (the registration it goes back to) and crossed (decided on a list
\* that had changed since) are history.
Override(k, value, state, expires, registered, crossed) ==
  [knob |-> k, value |-> value, state |-> state, expires |-> expires,
   registered |-> registered, crossed |-> crossed]

NothingInHand == [verb |-> "none", target |-> 0, seen |-> 0]

KnobsTypeOK ==
  /\ Len(overrides) <= MaxOverrides
  /\ \A i \in DOMAIN overrides :
       overrides[i] \in [knob: Knobs, value: Int, state: {"active", "confirmed", "reverted"},
                         expires: 0..(MaxKnobDay + 1), registered: 1..i, crossed: BOOLEAN]
  /\ decision \in [Deciders -> [verb: {"none", "confirm", "reject"}, target: 0..MaxOverrides,
                                seen: 0..MaxOverrides]]
  /\ knobDay \in 0..MaxKnobDay

KnobsInit ==
  /\ overrides = <<>>
  /\ decision = [d \in Deciders |-> NothingInHand]
  /\ knobDay = 0

-----------------------------------------------------------------------------
(* Reading the log.                                                        *)

RecordsOf(k) == {i \in DOMAIN overrides : overrides[i].knob = k}

Newest(places) == CHOOSE i \in places : \A j \in places : j <= i

\* An expired provisional record is passed over, by both readers.
Expired(i) ==
  /\ overrides[i].state = "active"
  /\ overrides[i].expires # Forever /\ overrides[i].expires <= knobDay

FaultyResolveKnob(k) ==   \* an expired record ends the search
  IF RecordsOf(k) = {} THEN Default[k]
  ELSE LET last == Newest(RecordsOf(k))
       IN IF overrides[last].state = "reverted" \/ Expired(last) THEN Default[k] ELSE overrides[last].value

\* resolve_knob: the newest record that has not expired; a reversion means the default,
\* whatever was there before the override that it reverts.
ResolveKnob(k) ==
  LET live == {i \in RecordsOf(k) : ~Expired(i)}
  IN IF live = {} THEN Default[k]
     ELSE IF overrides[Newest(live)].state = "reverted" THEN Default[k]
     ELSE overrides[Newest(live)].value

\* list_active_overrides: active or confirmed, not expired, and all that is newer expired.
ListActiveOverrides ==
  {i \in DOMAIN overrides :
     /\ overrides[i].state # "reverted" /\ ~Expired(i)
     /\ \A j \in RecordsOf(overrides[i].knob) : j > i => Expired(j)}

-----------------------------------------------------------------------------
(* Writing it.                                                             *)

\* register_override: provisional, for some days; a value out of bounds, or a knob that is
\* not there, raises.
RegisterOverride(k, value, days) ==
  /\ Len(overrides) < MaxOverrides
  /\ value \in Allowed[k]
  /\ overrides' = Append(overrides, Override(k, value, "active", knobDay + days, Len(overrides) + 1, FALSE))
  /\ UNCHANGED <<decision, knobDay>>

\* _validate_action_target: the target is one of the listed overrides, a confirmed one too.
TakeDecision(d, verb) ==
  /\ decision[d] = NothingInHand
  /\ \E i \in ListActiveOverrides :
       decision' = [decision EXCEPT ![d] = [verb |-> verb, target |-> i, seen |-> Len(overrides)]]
  /\ UNCHANGED <<overrides, knobDay>>

\* A decision is crossed by a record of the knob that came in between, or stands on one
\* that was.
Crossed(d) ==
  LET target == overrides[decision[d].target]
  IN target.crossed \/ \E i \in RecordsOf(target.knob) : i > decision[d].seen

Decide(d, record) ==
  /\ Len(overrides) < MaxOverrides
  /\ overrides' = Append(overrides, record)
  /\ decision' = [decision EXCEPT ![d] = NothingInHand]
  /\ UNCHANGED knobDay

\* _apply_confirm_provisional_knob_override, confirm_override: the value of the target, for
\* good, without another look at what became of it.
ConfirmOverride(d) ==
  /\ decision[d].verb = "confirm"
  /\ LET target == overrides[decision[d].target]
     IN Decide(d, Override(target.knob, target.value, "confirmed", Forever, target.registered, Crossed(d)))

\* _apply_reject_provisional_knob_override, revert_override; the prior value that the record
\* carries is read by nobody and left out.
RevertOverride(d) ==
  /\ decision[d].verb = "reject"
  /\ LET target == overrides[decision[d].target]
     IN Decide(d, Override(target.knob, target.value, "reverted", Forever, target.registered, Crossed(d)))

KnobDayPasses ==
  /\ knobDay < MaxKnobDay
  /\ knobDay' = knobDay + 1
  /\ UNCHANGED <<overrides, decision>>

KnobsNext ==
  \/ \E k \in Knobs, value \in Offered : RegisterOverride(k, value, 1)
  \/ \E d \in Deciders, verb \in {"confirm", "reject"} : TakeDecision(d, verb)
  \/ \E d \in Deciders : ConfirmOverride(d) \/ RevertOverride(d)
  \/ KnobDayPasses

KnobsSpec == KnobsInit /\ [][KnobsNext]_knobVars

-----------------------------------------------------------------------------
(* Properties.                                                             *)

Registration(i) == overrides[overrides[i].registered]

\* A registration was rejected, or swept.
Rejected(i) == \E j \in DOMAIN overrides : overrides[j].state = "reverted" /\ overrides[j].registered = i

\* What is listed is what is in force: the two readers of the log agree, one record a knob.
ListedIsInForce ==
  \A k \in Knobs :
    LET listed == ListActiveOverrides \cap RecordsOf(k)
    IN IF listed = {} THEN ResolveKnob(k) = Default[k]
       ELSE Cardinality(listed) = 1 /\ \A i \in listed : ResolveKnob(k) = overrides[i].value

\* A knob has a value that is allowed for it, or its default, whatever was registered,
\* confirmed and reverted, and in which order.
ValuesAreAllowed == \A k \in Knobs : ResolveKnob(k) \in Allowed[k] \cup {Default[k]}

\* A rejected override does not come back, by an expiry or a confirmation, unless a decision
\* was crossed by another one.
RejectedStaysRejected ==
  \A i \in ListActiveOverrides : Rejected(overrides[i].registered) => overrides[i].crossed

\* The last registration is in force until it expires or is rejected, unless a decision on an
\* older one crossed it.
LastRegistrationHolds ==
  \A k \in Knobs : RecordsOf(k) # {} =>
    LET last == Newest(RecordsOf(k))
        registered == Newest({i \in RecordsOf(k) : overrides[i].registered = i})
    IN Expired(registered) \/ Rejected(registered) \/ overrides[last].crossed
       \/ \E i \in ListActiveOverrides : overrides[i].registered = registered

OverridesAreObeyed == ListedIsInForce /\ ValuesAreAllowed /\ RejectedStaysRejected /\ LastRegistrationHolds
================================================================================
