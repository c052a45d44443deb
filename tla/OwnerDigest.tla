------------------------------ MODULE OwnerDigest ------------------------------
(***************************************************************************)
(* The owner review of Memory OS (hermes/memory_os/owner_actions.py): the  *)
(* queue of what waits for the owner, the digests that show it under       *)
(* anchors (A1, R2, F1) and tokens, the replies that name one of the two,  *)
(* and the digests that are sent.  The files are appended to without a     *)
(* lock, by the hands of several processes.  MemoryReview and Proposals    *)
(* have what the actions do to a memory and to a proposal.                 *)
(* An operator named Faulty... is a definition with a bug put in.          *)
(***************************************************************************)
EXTENDS Integers, Sequences, FiniteSets, FiniteSetsExt

CONSTANTS
  Reviewed,        \* what can wait in the queue: numbers, in the order of type and id
  Sources,         \* records of recalls that can be rated: numbers, newest first
  KindOf,          \* the kind of each of both
  Channels,        \* where digests are shown and replies come from
  Home,            \* the channel of the recurring delivery, "none" if there is none
  Replying,        \* processes that handle replies
  Sending,         \* processes that send a digest
  DeliveryKeys,    \* keys of deliveries
  ActionDays,      \* aging_action_required_days
  FyiDays,         \* aging_fyi_days
  LifeDays,        \* days a provisional record lives; urgent from the last on
  Limits,          \* how many of each priority a digest shows
  MaxDay, MaxDigests, MaxReplies, MaxDigestCrashes   \* bounds

ASSUME OwnerDigestAssumption ==
  /\ Reviewed \subseteq Nat /\ Sources \subseteq Nat /\ Reviewed \cap Sources = {}
  /\ \A i \in Reviewed : KindOf[i] # "source"
  /\ \A s \in Sources : KindOf[s] = "source"
  /\ ActionDays \in Nat /\ FyiDays \in Nat /\ ActionDays <= FyiDays
  /\ MaxDay \in Nat /\ MaxDigests \in Nat /\ MaxReplies \in Nat

VARIABLES
  day,             \* the clock
  born,            \* when each item began to wait: a day, Never or Unknown
  effect,          \* what became of each item: "none" while nothing was written to it
  ledger,          \* owner_actions.jsonl: actions that were applied
  digests,         \* owner_review_rendered_digests.jsonl
  replier,         \* what each process does with a reply
  sender,          \* what each process does with a delivery
  deliveries,      \* the keys in owner_review_deliveries.jsonl
  replies, digestCrashes,   \* counters of the bounds
  spoken,          \* history: how often each item's message was sent
  sent,            \* history: how often a digest was sent under each key
  acts,            \* history: what the last reply with an anchor acted on, and what was shown
  disturbed        \* history: items and keys two processes had in hand at once, or one that was killed

digestVars == <<day, born, effect, ledger, digests, replier, sender, deliveries, replies, digestCrashes,
                spoken, sent, acts, disturbed>>

Never == -1
Unknown == -2
Nothing == 0

Idle == [pc |-> "idle", action |-> "none", item |-> Nothing]
NotSending == [pc |-> "idle", key |-> "none"]

OwnerDigestInit ==
  /\ day = 0
  /\ born = [i \in Reviewed |-> Never]
  /\ effect = [i \in Reviewed |-> "none"]
  /\ ledger = <<>> /\ digests = <<>>
  /\ replier = [h \in Replying |-> Idle]
  /\ sender = [s \in Sending |-> NotSending]
  /\ deliveries = {}
  /\ replies = 0 /\ digestCrashes = 0
  /\ spoken = [i \in Reviewed |-> 0]
  /\ sent = [k \in DeliveryKeys |-> 0]
  /\ acts = {} /\ disturbed = {}

-----------------------------------------------------------------------------
(* The queue.                                                              *)

\* _owner_action_type_from_reply: what a verb means for a kind, named by an anchor.
ActionOf(verb, sort) ==
  CASE sort \in {"candidate", "template"} /\ verb \in {"approve", "reject"} -> verb
    [] sort = "provisional" /\ verb = "approve" -> "confirm"
    [] sort = "provisional" /\ verb = "reject" -> "reject"
    [] sort = "speak" /\ verb = "allow" -> "allow"
    [] sort = "source" /\ verb = "feedback" -> "feedback"
    [] OTHER -> "none"

\* _review_actions: the actions a digest prints a token for; a template must mature first.
TokenActions(sort) ==
  CASE sort = "candidate" -> {"approve", "reject"}
    [] sort = "provisional" -> {"confirm", "reject"}
    [] sort = "speak" -> {"allow"}
    [] sort = "source" -> {"feedback"}
    [] OTHER -> {}

Verbs == {"approve", "reject", "allow", "feedback"}   \* _normalize_reply_verb knows no confirm

Age(i) == IF born[i] = Unknown THEN Unknown ELSE day - born[i]

Remaining(i) == IF LifeDays > Age(i) THEN LifeDays - Age(i) ELSE 0

\* The priority the producer gives: a provisional record becomes urgent as it expires.
SourcePriority(i) ==
  CASE KindOf[i] = "candidate" -> "action"
    [] KindOf[i] = "cleanup" -> "fyi"
    [] KindOf[i] = "provisional" -> IF Remaining(i) <= 1 THEN "action" ELSE "fyi"
    [] OTHER -> "review"

\* _apply_review_aging: what required an action sinks as it gets older.
Priority(i) ==
  IF SourcePriority(i) # "action" THEN SourcePriority(i)
  ELSE CASE Age(i) = Unknown -> "review"
         [] Age(i) > FyiDays -> "fyi"
         [] Age(i) > ActionDays -> "review"
         [] OTHER -> "action"

\* _closed_targets, and the states the builders of review items leave out: of a candidate
\* that was rejected and a message that was allowed only the ledger knows.
Decided(i) ==
  \/ effect[i] # "none"
  \/ KindOf[i] # "template" /\ \E n \in 1..Len(ledger) : ledger[n].item = i

Pending == {i \in Reviewed : born[i] # Never /\ ~Decided(i)}

\* _with_anchors: the anchors number the whole queue, the digest shows a part of it.
Anchor(priority, i) == <<priority[i], Cardinality({j \in DOMAIN priority : priority[j] = priority[i] /\ j <= i})>>

\* _suppress_stale_informational_digest_items
Stale(i) == SourcePriority(i) # "action" /\ Age(i) # Unknown /\ Age(i) > FyiDays

FirstN(S, n) == {i \in S : Cardinality({j \in S : j <= i}) <= n}

Section(priority, level) ==
  FirstN({i \in DOMAIN priority : priority[i] = level /\ ~Stale(i)}, Limits[level])

\* owner_review_digest_preview.  Records of recalls (_memory_source_fyi_items) fill up the
\* last section and are numbered after what is shown there, which may be a number that the
\* queue has given to another item; of two items under one anchor the later counts
\* (_rendered_anchor_map).
Preview ==
  LET priority == [i \in Pending |-> Priority(i)]
      fyi == Section(priority, "fyi")
      shown == Section(priority, "action") \cup Section(priority, "review") \cup fyi
      sources == FirstN(Sources, Limits["fyi"] - Cardinality(fyi))
      SourceAnchor(s) == <<"fyi", Cardinality(fyi) + Cardinality({r \in sources : r <= s})>>
      anchors == {Anchor(priority, i) : i \in shown}
      sourceAnchors == {SourceAnchor(s) : s \in sources}
  IN
  [items |-> shown \cup sources,
   anchors |-> [a \in anchors \cup sourceAnchors |->
                  IF a \in sourceAnchors THEN CHOOSE s \in sources : SourceAnchor(s) = a
                  ELSE CHOOSE i \in shown : Anchor(priority, i) = a]]

Rendered(channel, preview) ==
  [channel |-> channel, home |-> channel = Home, anchors |-> preview.anchors, items |-> preview.items]

\* render_owner_review_digest with record_active
RecordDigest(channel) ==
  /\ Len(digests) < MaxDigests
  /\ digests' = Append(digests, Rendered(channel, Preview))
  /\ UNCHANGED <<day, born, effect, ledger, replier, sender, deliveries, replies, digestCrashes, spoken, sent,
                 acts, disturbed>>

\* Something comes up for review, with or without a date.
Arrive(i) ==
  /\ born[i] = Never
  /\ \E b \in {day, Unknown} : /\ b = Unknown => KindOf[i] = "candidate"
                               /\ born' = [born EXCEPT ![i] = b]
  /\ UNCHANGED <<day, effect, ledger, digests, replier, sender, deliveries, replies, digestCrashes, spoken, sent,
                 acts, disturbed>>

NextDay ==
  /\ day < MaxDay
  /\ day' = day + 1
  /\ UNCHANGED <<born, effect, ledger, digests, replier, sender, deliveries, replies, digestCrashes, spoken, sent,
                 acts, disturbed>>

-----------------------------------------------------------------------------
(* Replies.                                                                *)

NoDigest == [channel |-> "none", home |-> FALSE, anchors |-> [a \in {} |-> Nothing], items |-> {}]

HasToken(d, action, i) == i \in d.items /\ action \in TokenActions(KindOf[i])

LastOf(S) == IF S = {} THEN NoDigest ELSE digests[Max(S)]

FaultyLatestOn(channel) == LastOf(1..Len(digests))   \* of any channel

LatestOn(channel) == LastOf({n \in 1..Len(digests) : digests[n].channel = channel})

LatestHome(having) == LastOf({n \in having : digests[n].home})

\* _resolve_reply_digest: the digest that was named, the last one of the channel, the last
\* one that was sent home and has what the reply names, or what would be shown now.
Resolve(channel, named, having, required, preview) ==
  LET here == LatestOn(channel)
      home == LatestHome(having)
  IN
  IF named # 0 THEN IF digests[named].channel = channel THEN digests[named] ELSE NoDigest
  ELSE IF here # NoDigest THEN here
  ELSE IF home # NoDigest THEN home
  ELSE IF required THEN NoDigest ELSE Rendered(channel, preview)

AnyDigest == {0} \cup 1..Len(digests)

\* _surface_action_token_map: a recall can be rated by its token without any digest.
OnSurface(action, i) == i \in Sources /\ action = "feedback"

FaultyAlreadyApplied(action, i) == i \in Reviewed /\ effect[i] = action   \* by what became of it

\* _find_idempotent_action
AlreadyApplied(action, i) == \E n \in 1..Len(ledger) : ledger[n] = [item |-> i, action |-> action]

\* _validate_action_target: a decided template or record is refused, a candidate that is
\* decided and a message that was allowed are not.
Valid(action, i) ==
  /\ i \in Reviewed => born[i] # Never
  /\ i \in Reviewed /\ KindOf[i] = "template" =>
       effect[i] = "none" \/ (effect[i] = "approve" /\ action = "reject")
  /\ i \in Reviewed /\ KindOf[i] = "provisional" => effect[i] = "none"

InHand(i) == \E h \in Replying : replier[h].pc # "idle" /\ replier[h].item = i

\* apply_owner_action up to the change: a repetition is ignored, a wrong target an error.
Take(h, action, i) ==
  IF action # "none" /\ ~AlreadyApplied(action, i) /\ Valid(action, i)
  THEN /\ replier' = [replier EXCEPT ![h] = [pc |-> "change", action |-> action, item |-> i]]
       /\ disturbed' = disturbed \cup (IF InHand(i) THEN {<<"item", i>>} ELSE {})
  ELSE UNCHANGED <<replier, disturbed>>

Answers(h) == replier[h].pc = "idle" /\ replies < MaxReplies

\* parse_owner_review_reply with an anchor, from the command line
ReplyAnchor(h, channel, verb, anchor, named, preview) ==
  LET Has(d) == anchor \in DOMAIN d.anchors
      d == Resolve(channel, named, {n \in 1..Len(digests) : Has(digests[n])}, FALSE, preview)
      i == d.anchors[anchor]
      last == {n \in 1..Len(digests) : digests[n].channel = channel}
      seen == IF named # 0 THEN digests[named] ELSE IF last = {} THEN d ELSE digests[Max(last)]
  IN
  /\ Answers(h) /\ Has(d)
  /\ replies' = replies + 1
  /\ Take(h, ActionOf(verb, KindOf[i]), i)
  /\ acts' = {[item |-> i, shown |-> IF Has(seen) THEN seen.anchors[anchor] ELSE Nothing]}
  /\ UNCHANGED <<day, born, effect, ledger, digests, sender, deliveries, digestCrashes, spoken, sent>>

\* ... and with a token, from the command line or from the host (which requires a digest):
\* _reply_verb_matches_action_type lets no verb confirm.
ReplyToken(h, channel, action, i, named, required, preview) ==
  LET Has(d) == HasToken(d, action, i)
      d == Resolve(channel, named, {n \in 1..Len(digests) : Has(digests[n])}, required, preview)
  IN
  /\ Answers(h)
  /\ Has(d) \/ OnSurface(action, i)
  /\ action \in Verbs
  /\ replies' = replies + 1
  /\ Take(h, action, i)
  /\ UNCHANGED <<day, born, effect, ledger, digests, sender, deliveries, digestCrashes, spoken, sent, acts>>

\* oa_confirm_<id>: whoever names a record confirms it, whatever the digest shows, also one
\* that was rejected, also without apply; the ledger is not told.
RawConfirm(h, channel, i, required, preview) ==
  /\ Answers(h) /\ KindOf[i] = "provisional" /\ born[i] # Never
  /\ Resolve(channel, 0, {}, required, preview) # NoDigest
  /\ replies' = replies + 1
  /\ effect' = [effect EXCEPT ![i] = "confirm"]
  /\ UNCHANGED <<day, born, ledger, digests, replier, sender, deliveries, digestCrashes, spoken, sent, acts, disturbed>>

\* _apply_state_transition: the change first; a message that is allowed is sent here, and if
\* that fails the line in the ledger closes nothing ...
MakeChange(h, works) ==
  LET r == replier[h]
      speaks == r.action = "allow"
  IN
  /\ r.pc = "change" /\ (~works => speaks)
  /\ replier' = [replier EXCEPT ![h] = IF works THEN [r EXCEPT !.pc = "append"] ELSE Idle]
  /\ effect' = IF r.item \in Sources \/ speaks \/ (KindOf[r.item] = "candidate" /\ r.action = "reject")
               THEN effect ELSE [effect EXCEPT ![r.item] = r.action]
  /\ spoken' = IF speaks /\ works THEN [spoken EXCEPT ![r.item] = @ + 1] ELSE spoken
  /\ UNCHANGED <<day, born, ledger, digests, sender, deliveries, replies, digestCrashes, sent, acts, disturbed>>

\* ... then the line in the ledger (_append_owner_action).
AppendAction(h) ==
  LET r == replier[h] IN
  /\ r.pc = "append"
  /\ ledger' = Append(ledger, [item |-> r.item, action |-> r.action])
  /\ replier' = [replier EXCEPT ![h] = Idle]
  /\ UNCHANGED <<day, born, effect, digests, sender, deliveries, replies, digestCrashes, spoken, sent, acts, disturbed>>

-----------------------------------------------------------------------------
(* Deliveries: deliver_owner_review_digest_once.  What is sent is not      *)
(* recorded as a digest, so its anchors are those of another one.          *)

FaultyDelivered(key) == FALSE   \* the ledger of deliveries is not looked at

\* _find_delivery_by_key: any line with the key counts, also of a delivery that failed.
Delivered(key) == key \in deliveries

KeyInHand(key) == \E s \in Sending : sender[s].pc # "idle" /\ sender[s].key = key

\* The gate is open or not; what is not sent takes the key as well.
StartDelivery(s, key, open) ==
  /\ sender[s].pc = "idle" /\ ~Delivered(key)
  /\ sender' = [sender EXCEPT ![s] = [pc |-> IF open THEN "send" ELSE "record", key |-> key]]
  /\ disturbed' = disturbed \cup (IF KeyInHand(key) THEN {<<"key", key>>} ELSE {})
  /\ UNCHANGED <<day, born, effect, ledger, digests, replier, deliveries, replies, digestCrashes, spoken, sent, acts>>

SendDigest(s, works) ==
  /\ sender[s].pc = "send"
  /\ sender' = [sender EXCEPT ![s].pc = "record"]
  /\ sent' = [sent EXCEPT ![sender[s].key] = @ + (IF works THEN 1 ELSE 0)]
  /\ UNCHANGED <<day, born, effect, ledger, digests, replier, deliveries, replies, digestCrashes, spoken, acts, disturbed>>

RecordDelivery(s) ==
  /\ sender[s].pc = "record"
  /\ deliveries' = deliveries \cup {sender[s].key}
  /\ sender' = [sender EXCEPT ![s] = NotSending]
  /\ UNCHANGED <<day, born, effect, ledger, digests, replier, replies, digestCrashes, spoken, sent, acts, disturbed>>

\* A process is killed in the middle.
KillReply(h) ==
  /\ replier[h].pc # "idle" /\ digestCrashes < MaxDigestCrashes
  /\ digestCrashes' = digestCrashes + 1
  /\ disturbed' = disturbed \cup {<<"item", replier[h].item>>}
  /\ replier' = [replier EXCEPT ![h] = Idle]
  /\ UNCHANGED <<day, born, effect, ledger, digests, sender, deliveries, replies, spoken, sent, acts>>

KillDelivery(s) ==
  /\ sender[s].pc # "idle" /\ digestCrashes < MaxDigestCrashes
  /\ digestCrashes' = digestCrashes + 1
  /\ disturbed' = disturbed \cup {<<"key", sender[s].key>>}
  /\ sender' = [sender EXCEPT ![s] = NotSending]
  /\ UNCHANGED <<day, born, effect, ledger, digests, replier, deliveries, replies, spoken, sent, acts>>

AnyAnchor(preview) == (UNION {DOMAIN digests[n].anchors : n \in 1..Len(digests)}) \cup DOMAIN preview.anchors

Reply(h, channel, named, preview) ==
  \/ \E verb \in Verbs, a \in AnyAnchor(preview) : ReplyAnchor(h, channel, verb, a, named, preview)
  \/ \E i \in Reviewed \cup Sources, required \in BOOLEAN :
       \/ \E action \in TokenActions(KindOf[i]) : ReplyToken(h, channel, action, i, named, required, preview)
       \/ named = 0 /\ i \in Reviewed /\ RawConfirm(h, channel, i, required, preview)

ReplyNext ==
  \E h \in Replying :
    \/ Answers(h) /\ \E preview \in {Preview}, c \in Channels, named \in AnyDigest : Reply(h, c, named, preview)
    \/ \E works \in BOOLEAN : MakeChange(h, works)
    \/ AppendAction(h) \/ KillReply(h)

DeliverNext ==
  \E s \in Sending :
    \/ \E key \in DeliveryKeys, open \in BOOLEAN : StartDelivery(s, key, open)
    \/ \E works \in BOOLEAN : SendDigest(s, works)
    \/ RecordDelivery(s) \/ KillDelivery(s)

OwnerDigestNext ==
  \/ NextDay \/ \E i \in Reviewed : Arrive(i)
  \/ \E c \in Channels : RecordDigest(c)
  \/ ReplyNext \/ DeliverNext

OwnerDigestSpec == OwnerDigestInit /\ [][OwnerDigestNext]_digestVars
-----------------------------------------------------------------------------
(* Properties                                                              *)

\* The variables have the values the code gives them.
OwnerDigestTypeOK ==
  /\ day \in 0..MaxDay
  /\ \A i \in Reviewed : /\ born[i] \in {Never, Unknown} \cup 0..MaxDay
                         /\ effect[i] \in {"none", "approve", "reject", "confirm"} /\ spoken[i] \in Nat
  /\ \A n \in 1..Len(ledger) : ledger[n].item \in Reviewed \cup Sources
  /\ \A n \in 1..Len(digests) : digests[n].items \subseteq Reviewed \cup Sources
  /\ \A h \in Replying : replier[h].pc \in {"idle", "change", "append"}
  /\ \A s \in Sending : sender[s].pc \in {"idle", "send", "record"}
  /\ deliveries \subseteq DeliveryKeys

\* A reply that names an anchor acts on what the digest it answers shows under it: the one
\* it names, or the last one recorded for its channel, however the queue, the priorities
\* and the digests of other channels have changed since.
RepliesActOnWhatWasShown == \A a \in acts : a.shown \in {Nothing, a.item}

\* The owner's decision is applied once, and what it sends is sent once, through however
\* many digests and channels it is given again, unless two processes had it in hand at the
\* same time or one was killed between the change and the line in the ledger.
DecisionsAreAppliedOnce ==
  /\ \A m, n \in 1..Len(ledger) : ledger[m] = ledger[n] /\ <<"item", ledger[n].item>> \notin disturbed => m = n
  /\ \A i \in Reviewed : <<"item", i>> \notin disturbed => spoken[i] <= 1

\* A digest is sent once under a key, with the same exceptions.
OneDigestPerKey == \A k \in DeliveryKeys : <<"key", k>> \notin disturbed => sent[k] <= 1

\* The three together.
DigestsAreAnswered == RepliesActOnWhatWasShown /\ DecisionsAreAppliedOnce /\ OneDigestPerKey
================================================================================
