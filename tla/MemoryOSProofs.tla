----------------------------- MODULE MemoryOSProofs -----------------------------
(* What the memory os guarantees: the overrides of knobs, the owner review, the *)
(* session provider and the lanes, each for any values of its constants.        *)
EXTENDS Proposals, Knobs, OwnerDigest, Provider, Lanes, WellFoundedInduction, FiniteSetTheorems, TLAPS

-----------------------------------------------------------------------------

LEMMA GreatestExists ==
    ASSUME NEW n \in Nat, NEW T \in SUBSET (1..n), T # {}
    PROVE  \E m \in T : \A t \in T : t <= m
<1> DEFINE Less == {pair \in Nat \X Nat : pair[1] < pair[2]}
           Left == {n - t : t \in T}
<1>1. IsWellFoundedOn(Less, Nat)
  BY NatLessThanWellFounded DEF OpToRel
<1>2. Left \subseteq Nat /\ Left # {}
  <2>1. \A t \in T : n - t \in Nat
    OBVIOUS
  <2>2. PICK t \in T : TRUE
    OBVIOUS
  <2> QED
    BY <2>1, <2>2
<1>3. PICK x \in Left : \A y \in Left : ~(<<y, x>> \in Less)
  <2> HIDE DEF Less, Left
  <2> QED
    BY <1>1, <1>2, WFMin
<1>4. PICK m \in T : x = n - m
  BY <1>3
<1>5. ASSUME NEW t \in T PROVE t <= m
  <2>1. t \in 1..n /\ m \in 1..n
    OBVIOUS
  <2>2. ~(<<n - t, n - m>> \in Less)
    BY <1>3, <1>4
  <2>3. ~(n - t < n - m)
    BY <2>1, <2>2
  <2> QED
    BY <2>1, <2>3
<1> QED
  BY <1>5

LEMMA NewestIsThere ==
    ASSUME NEW n \in Nat, NEW T \in SUBSET (1..n), T # {}
    PROVE  Newest(T) \in T /\ \A t \in T : t <= Newest(T)
BY GreatestExists DEF Newest

Records == [knob: Knobs, value: Int, state: {"active", "confirmed", "reverted"},
            expires: 0..(MaxKnobDay + 1), registered: Nat, crossed: BOOLEAN]

LogTyped ==
    /\ overrides \in Seq(Records) /\ Len(overrides) <= MaxOverrides
    /\ knobDay \in 0..MaxKnobDay

\* A record goes back to a registration of its knob with its value, which was allowed; only a
\* registration expires.
RecordsGoBack ==
    \A i \in 1..Len(overrides) :
      LET o == overrides[i]
      IN /\ o.registered \in 1..i
         /\ overrides[o.registered].registered = o.registered
         /\ overrides[o.registered].state = "active"
         /\ overrides[o.registered].knob = o.knob
         /\ o.value \in Allowed[o.knob]
         /\ o.state = "active" => o.registered = i

\* Who decides has in hand an override that was in force when it was listed: what was newer
\* then had expired.
TargetsWereListed ==
    /\ decision \in [Deciders -> [verb: {"none", "confirm", "reject"}, target: 0..MaxOverrides,
                                  seen: 0..MaxOverrides]]
    /\ \A d \in Deciders : decision[d].verb # "none" =>
         /\ decision[d].target \in 1..Len(overrides)
         /\ decision[d].seen \in decision[d].target..Len(overrides)
         /\ overrides[decision[d].target].state # "reverted"
         /\ \A j \in 1..decision[d].seen :
              j > decision[d].target /\ overrides[j].knob = overrides[decision[d].target].knob => Expired(j)

\* What was decided on a rejected registration after its rejection was crossed by it.
RejectionsCross ==
    \A i, j \in 1..Len(overrides) :
      j < i /\ overrides[j].state = "reverted" /\ overrides[j].registered = overrides[i].registered
        => overrides[i].crossed

\* What was decided on a registration after a newer one was crossed by that, unless it had expired.
NewerOnesCross ==
    \A i, q \in 1..Len(overrides) :
      /\ q <= i /\ overrides[q].registered = q /\ overrides[q].knob = overrides[i].knob
      /\ q > overrides[i].registered
      => overrides[i].crossed \/ Expired(q)

KnobsInv == LogTyped /\ RecordsGoBack /\ TargetsWereListed /\ RejectionsCross /\ NewerOnesCross

LEMMA RecordTyped ==
    ASSUME LogTyped, NEW i \in 1..Len(overrides)
    PROVE  overrides[i] \in Records /\ DOMAIN overrides = 1..Len(overrides) /\ Len(overrides) \in Nat
BY DEF LogTyped

LEMMA KnobsInvInit == KnobsInit => KnobsInv
<1> SUFFICES ASSUME KnobsInit PROVE KnobsInv
  OBVIOUS
<1>1. overrides = <<>> /\ Len(overrides) = 0 /\ 1..Len(overrides) = {} /\ knobDay = 0
  BY DEF KnobsInit
<1>2. decision \in [Deciders -> [verb: {"none", "confirm", "reject"}, target: 0..MaxOverrides, seen: 0..MaxOverrides]]
      /\ \A d \in Deciders : decision[d].verb = "none"
  BY KnobsAssumption DEF KnobsInit, NothingInHand
<1> QED
  BY <1>1, <1>2, KnobsAssumption
     DEF KnobsInv, LogTyped, RecordsGoBack, TargetsWereListed, RejectionsCross, NewerOnesCross

\* The log after a record: the old ones as they were.
LEMMA Appended ==
    ASSUME LogTyped, NEW o \in Records, overrides' = Append(overrides, o), Len(overrides) < MaxOverrides
    PROVE  /\ overrides' \in Seq(Records) /\ Len(overrides') = Len(overrides) + 1 /\ Len(overrides') <= MaxOverrides
           /\ overrides'[Len(overrides) + 1] = o
           /\ \A i \in 1..Len(overrides) : overrides'[i] = overrides[i]
           /\ 1..Len(overrides') = (1..Len(overrides)) \cup {Len(overrides) + 1}
           /\ Len(overrides) \in Nat /\ Len(overrides) + 1 \notin 1..Len(overrides)
<1>1. Len(overrides) \in Nat /\ overrides \in Seq(Records) /\ MaxOverrides \in Nat
  BY KnobsAssumption DEF LogTyped
<1> QED
  BY <1>1

\* What has expired stays so.
LEMMA ExpiredStays ==
    ASSUME LogTyped, NEW i \in 1..Len(overrides), Expired(i),
           overrides'[i] = overrides[i], knobDay' \in Nat, knobDay' >= knobDay
    PROVE  Expired(i)'
<1>1. knobDay \in Nat /\ overrides[i].expires \in Nat
  BY RecordTyped, KnobsAssumption, SMTT(30) DEF LogTyped, Records
<1> QED
  BY <1>1 DEF Expired

LEMMA RegisterKeeps ==
    ASSUME KnobsInv, NEW k \in Knobs, NEW value \in Offered, RegisterOverride(k, value, 1)
    PROVE  KnobsInv'
<1> DEFINE n == Len(overrides)
           o == Override(k, value, "active", knobDay + 1, n + 1, FALSE)
<1>1. n \in Nat /\ knobDay \in 0..MaxKnobDay /\ MaxKnobDay \in Nat /\ LogTyped
  BY KnobsAssumption DEF KnobsInv, LogTyped
<1>2. /\ o \in Records /\ o.knob = k /\ o.value = value /\ o.state = "active" /\ o.registered = n + 1
      /\ value \in Allowed[k]
  <2>1. value \in Int /\ knobDay + 1 \in 0..(MaxKnobDay + 1) /\ value \in Allowed[k]
    BY <1>1, KnobsAssumption DEF RegisterOverride
  <2> QED
    BY <1>1, <2>1 DEF Override, Records
<1>3. overrides' = Append(overrides, o) /\ n < MaxOverrides /\ UNCHANGED <<decision, knobDay>>
  BY DEF RegisterOverride
<1> HIDE DEF n, o
<1>4. /\ overrides' \in Seq(Records) /\ Len(overrides') = n + 1 /\ Len(overrides') <= MaxOverrides
      /\ overrides'[n + 1] = o
      /\ \A i \in 1..n : overrides'[i] = overrides[i]
      /\ 1..Len(overrides') = (1..n) \cup {n + 1} /\ n + 1 \notin 1..n
  BY <1>1, <1>2, <1>3, Appended DEF n
<1>5. \A i \in 1..n : Expired(i) => Expired(i)'
  BY <1>1, <1>3, <1>4, ExpiredStays DEF n
<1>6. LogTyped'
  BY <1>1, <1>3, <1>4 DEF LogTyped
<1>7. RecordsGoBack'
  <2> SUFFICES ASSUME NEW i \in 1..(n + 1)
               PROVE  /\ overrides'[i].registered \in 1..i
                      /\ overrides'[overrides'[i].registered].registered = overrides'[i].registered
                      /\ overrides'[overrides'[i].registered].state = "active"
                      /\ overrides'[overrides'[i].registered].knob = overrides'[i].knob
                      /\ overrides'[i].value \in Allowed[overrides'[i].knob]
                      /\ overrides'[i].state = "active" => overrides'[i].registered = i
    BY <1>4 DEF RecordsGoBack
  <2>1. CASE i = n + 1
    BY <1>1, <1>2, <1>4, <2>1
  <2>2. CASE i \in 1..n
    <3>1. /\ overrides[i].registered \in 1..n
          /\ overrides'[i] = overrides[i]
          /\ overrides'[overrides[i].registered] = overrides[overrides[i].registered]
      BY <1>1, <1>4, <2>2 DEF KnobsInv, RecordsGoBack, n
    <3> QED
      BY <2>2, <3>1 DEF KnobsInv, RecordsGoBack, n
  <2> QED
    BY <1>1, <2>1, <2>2
<1>8. TargetsWereListed'
  <2>1. ASSUME NEW d \in Deciders, decision[d].verb # "none"
        PROVE  /\ decision[d].target \in 1..(n + 1)
               /\ decision[d].seen \in decision[d].target..(n + 1)
               /\ overrides'[decision[d].target].state # "reverted"
               /\ \A j \in 1..decision[d].seen :
                    j > decision[d].target /\ overrides'[j].knob = overrides'[decision[d].target].knob
                      => Expired(j)'
    <3>1. /\ decision[d].target \in 1..n
          /\ decision[d].seen \in decision[d].target..n
          /\ overrides[decision[d].target].state # "reverted"
          /\ \A j \in 1..decision[d].seen :
               j > decision[d].target /\ overrides[j].knob = overrides[decision[d].target].knob => Expired(j)
      BY <2>1 DEF KnobsInv, TargetsWereListed, n
    <3>2. \A j \in 1..decision[d].seen : j \in 1..n
      BY <1>1, <3>1
    <3>3. /\ decision[d].target \in 1..(n + 1)
          /\ decision[d].seen \in decision[d].target..(n + 1)
      BY <1>1, <3>1
    <3>4. overrides'[decision[d].target] = overrides[decision[d].target]
      BY <1>4, <3>1
    <3>5. ASSUME NEW j \in 1..decision[d].seen, j > decision[d].target,
                 overrides'[j].knob = overrides'[decision[d].target].knob
          PROVE  Expired(j)'
      <4>1. j \in 1..n
        BY <3>2
      <4>2. overrides'[j] = overrides[j]
        BY <1>4, <4>1
      <4>3. Expired(j)
        BY <3>1, <3>4, <3>5, <4>2
      <4> QED
        BY <1>5, <4>1, <4>3
    <3> QED
      BY <3>1, <3>3, <3>4, <3>5
  <2> QED
    BY <1>3, <1>4, <2>1 DEF KnobsInv, TargetsWereListed
<1>9. RejectionsCross'
  <2> SUFFICES ASSUME NEW i \in 1..(n + 1), NEW j \in 1..(n + 1), j < i, overrides'[j].state = "reverted",
                      overrides'[j].registered = overrides'[i].registered
               PROVE  overrides'[i].crossed
    BY <1>4 DEF RejectionsCross
  <2>1. j \in 1..n
    BY <1>1
  <2>2. CASE i \in 1..n
    BY <1>4, <2>1, <2>2 DEF KnobsInv, RejectionsCross, n
  <2>3. CASE i = n + 1
    <3>1. overrides[j].registered = n + 1 /\ overrides[j].registered \in 1..j
      BY <1>2, <1>4, <2>1, <2>3 DEF KnobsInv, RecordsGoBack, n
    <3> QED
      BY <1>1, <2>1, <3>1
  <2> QED
    BY <1>1, <2>2, <2>3
<1>10. NewerOnesCross'
  <2> SUFFICES ASSUME NEW i \in 1..(n + 1), NEW q \in 1..(n + 1), q <= i, overrides'[q].registered = q,
                      overrides'[q].knob = overrides'[i].knob, q > overrides'[i].registered
               PROVE  overrides'[i].crossed \/ Expired(q)'
    BY <1>4 DEF NewerOnesCross
  <2>1. i \in 1..n
    BY <1>1, <1>2, <1>4
  <2>2. q \in 1..n
    BY <1>1, <2>1
  <2>3. overrides[i].crossed \/ Expired(q)
    BY <1>4, <2>1, <2>2 DEF KnobsInv, NewerOnesCross, n
  <2> QED
    BY <1>4, <1>5, <2>1, <2>2, <2>3
<1> QED
  BY <1>6, <1>7, <1>8, <1>9, <1>10 DEF KnobsInv

LEMMA TakeKeeps ==
    ASSUME KnobsInv, NEW d \in Deciders, NEW verb \in {"confirm", "reject"}, TakeDecision(d, verb)
    PROVE  KnobsInv'
<1> DEFINE n == Len(overrides)
<1>1. n \in Nat /\ n <= MaxOverrides /\ MaxOverrides \in Nat /\ DOMAIN overrides = 1..n
  BY KnobsAssumption DEF KnobsInv, LogTyped
<1>2. PICK i \in ListActiveOverrides :
        decision' = [decision EXCEPT ![d] = [verb |-> verb, target |-> i, seen |-> n]]
  BY DEF TakeDecision
<1>3. UNCHANGED <<overrides, knobDay>>
  BY DEF TakeDecision
<1>4. i \in 1..n /\ overrides[i].state # "reverted"
      /\ \A j \in 1..n : overrides[j].knob = overrides[i].knob /\ j > i => Expired(j)
  BY <1>1, <1>2 DEF ListActiveOverrides, RecordsOf
<1>5. \A j \in 1..n : Expired(j)' <=> Expired(j)
  BY <1>3 DEF Expired
<1>6. TargetsWereListed'
  <2>1. decision \in [Deciders -> [verb: {"none", "confirm", "reject"}, target: 0..MaxOverrides,
                                    seen: 0..MaxOverrides]]
    BY DEF KnobsInv, TargetsWereListed
  <2>2. decision' \in [Deciders -> [verb: {"none", "confirm", "reject"}, target: 0..MaxOverrides,
                                     seen: 0..MaxOverrides]]
    <3>1. i \in 0..MaxOverrides /\ n \in 0..MaxOverrides
      BY <1>1, <1>4
    <3> HIDE DEF n
    <3> QED
      BY <1>2, <2>1, <3>1
  <2>3. ASSUME NEW e \in Deciders, decision'[e].verb # "none"
        PROVE  /\ decision'[e].target \in 1..n
               /\ decision'[e].seen \in decision'[e].target..n
               /\ overrides[decision'[e].target].state # "reverted"
               /\ \A j \in 1..decision'[e].seen :
                    j > decision'[e].target /\ overrides[j].knob = overrides[decision'[e].target].knob
                      => Expired(j)
    <3>1. CASE e = d
      <4>1. decision'[e].target = i /\ decision'[e].seen = n
        BY <1>2, <2>1, <3>1
      <4>2. n \in i..n
        BY <1>1, <1>4
      <4> HIDE DEF n
      <4> QED
        BY <1>4, <4>1, <4>2
    <3>2. CASE e # d
      <4>1. decision'[e] = decision[e]
        BY <1>2, <2>1, <3>2
      <4> QED
        BY <2>3, <4>1 DEF KnobsInv, TargetsWereListed
    <3> QED
      BY <3>1, <3>2
  <2>4. \A e \in Deciders : decision'[e].verb # "none" => \A j \in 1..decision'[e].seen : j \in 1..n
    BY <1>1, <2>3
  <2> QED
    BY <1>3, <1>5, <2>2, <2>3, <2>4 DEF TargetsWereListed
<1>7. LogTyped' /\ RecordsGoBack' /\ RejectionsCross' /\ NewerOnesCross'
  <2>1. LogTyped' /\ RecordsGoBack' /\ RejectionsCross'
    BY <1>3 DEF KnobsInv, LogTyped, RecordsGoBack, RejectionsCross
  <2>2. NewerOnesCross'
    BY <1>3, <1>5 DEF KnobsInv, NewerOnesCross
  <2> QED
    BY <2>1, <2>2
<1> QED
  BY <1>6, <1>7 DEF KnobsInv

LEMMA DecideKeeps ==
    ASSUME KnobsInv, NEW d \in Deciders, decision[d].verb # "none", NEW state \in {"confirmed", "reverted"},
           Decide(d, Override(overrides[decision[d].target].knob, overrides[decision[d].target].value, state,
                              Forever, overrides[decision[d].target].registered, Crossed(d)))
    PROVE  KnobsInv'
<1> DEFINE n == Len(overrides)
           t == decision[d].target
           r == overrides[t].registered
           o == Override(overrides[t].knob, overrides[t].value, state, Forever, r, Crossed(d))
<1>1. n \in Nat /\ knobDay \in 0..MaxKnobDay /\ MaxKnobDay \in Nat /\ LogTyped /\ DOMAIN overrides = 1..n
  BY KnobsAssumption DEF KnobsInv, LogTyped
<1>2. /\ t \in 1..n /\ decision[d].seen \in t..n /\ overrides[t].state # "reverted" /\ overrides[t] \in Records
      /\ \A j \in 1..decision[d].seen : j > t /\ overrides[j].knob = overrides[t].knob => Expired(j)
  BY RecordTyped DEF KnobsInv, TargetsWereListed
<1>3. /\ r \in 1..t /\ overrides[r].registered = r /\ overrides[r].state = "active"
      /\ overrides[r].knob = overrides[t].knob /\ overrides[t].value \in Allowed[overrides[t].knob]
  BY <1>2 DEF KnobsInv, RecordsGoBack
<1>4. Crossed(d) \in BOOLEAN
  BY <1>2 DEF Crossed, Records
<1>5. /\ o \in Records /\ o.knob = overrides[t].knob /\ o.value = overrides[t].value /\ o.state = state
      /\ o.registered = r /\ o.crossed = Crossed(d)
  <2>1. overrides[t].knob \in Knobs /\ overrides[t].value \in Int /\ r \in Nat
    BY <1>2 DEF Records
  <2>2. Forever \in 0..(MaxKnobDay + 1)
    BY <1>1 DEF Forever
  <2> HIDE DEF r, t
  <2> QED
    BY <1>4, <2>1, <2>2 DEF Override, Records
<1>6. /\ overrides' = Append(overrides, o) /\ n < MaxOverrides
      /\ decision' = [decision EXCEPT ![d] = NothingInHand] /\ knobDay' = knobDay
  BY DEF Decide
<1>7. Crossed(d) \/ (~overrides[t].crossed /\ \A i \in 1..n : overrides[i].knob = overrides[t].knob => i <= decision[d].seen)
  BY <1>1, <1>2, SMTT(30) DEF Crossed, RecordsOf
<1> HIDE DEF n, o, r, t
<1>8. /\ overrides' \in Seq(Records) /\ Len(overrides') = n + 1 /\ Len(overrides') <= MaxOverrides
      /\ overrides'[n + 1] = o
      /\ \A i \in 1..n : overrides'[i] = overrides[i]
      /\ 1..Len(overrides') = (1..n) \cup {n + 1} /\ n + 1 \notin 1..n
  BY <1>1, <1>5, <1>6, Appended DEF n
<1>9. \A i \in 1..n : Expired(i) => Expired(i)'
  BY <1>1, <1>6, <1>8, ExpiredStays DEF n
<1>10. LogTyped'
  BY <1>1, <1>6, <1>8 DEF LogTyped
<1>11. RecordsGoBack'
  <2> SUFFICES ASSUME NEW i \in 1..(n + 1)
               PROVE  /\ overrides'[i].registered \in 1..i
                      /\ overrides'[overrides'[i].registered].registered = overrides'[i].registered
                      /\ overrides'[overrides'[i].registered].state = "active"
                      /\ overrides'[overrides'[i].registered].knob = overrides'[i].knob
                      /\ overrides'[i].value \in Allowed[overrides'[i].knob]
                      /\ overrides'[i].state = "active" => overrides'[i].registered = i
    BY <1>8 DEF RecordsGoBack
  <2>1. CASE i = n + 1
    <3>1. r \in 1..n /\ overrides'[r] = overrides[r] /\ r \in 1..(n + 1)
      BY <1>1, <1>2, <1>3, <1>8
    <3> QED
      BY <1>3, <1>5, <1>8, <2>1, <3>1
  <2>2. CASE i \in 1..n
    <3>1. /\ overrides[i].registered \in 1..n
          /\ overrides'[i] = overrides[i]
          /\ overrides'[overrides[i].registered] = overrides[overrides[i].registered]
      BY <1>1, <1>8, <2>2 DEF KnobsInv, RecordsGoBack, n
    <3> QED
      BY <2>2, <3>1 DEF KnobsInv, RecordsGoBack, n
  <2> QED
    BY <1>1, <2>1, <2>2
<1>12. TargetsWereListed'
  <2>1. decision' \in [Deciders -> [verb: {"none", "confirm", "reject"}, target: 0..MaxOverrides,
                                     seen: 0..MaxOverrides]]
    <3>1. NothingInHand \in [verb: {"none", "confirm", "reject"}, target: 0..MaxOverrides, seen: 0..MaxOverrides]
      BY KnobsAssumption DEF NothingInHand
    <3> QED
      BY <1>6, <3>1 DEF KnobsInv, TargetsWereListed
  <2>2. ASSUME NEW e \in Deciders, decision'[e].verb # "none"
        PROVE  /\ decision'[e].target \in 1..(n + 1)
               /\ decision'[e].seen \in decision'[e].target..(n + 1)
               /\ overrides'[decision'[e].target].state # "reverted"
               /\ \A j \in 1..decision'[e].seen :
                    j > decision'[e].target /\ overrides'[j].knob = overrides'[decision'[e].target].knob
                      => Expired(j)'
    <3>1. decision'[e] = decision[e]
      <4>1. e # d
        BY <1>6, <2>2 DEF NothingInHand, KnobsInv, TargetsWereListed
      <4> QED
        BY <1>6, <4>1 DEF KnobsInv, TargetsWereListed
    <3>2. /\ decision[e].target \in 1..n
          /\ decision[e].seen \in decision[e].target..n
          /\ overrides[decision[e].target].state # "reverted"
          /\ \A j \in 1..decision[e].seen :
               j > decision[e].target /\ overrides[j].knob = overrides[decision[e].target].knob => Expired(j)
      BY <2>2, <3>1 DEF KnobsInv, TargetsWereListed, n
    <3>3. \A j \in 1..decision[e].seen : j \in 1..n
      BY <1>1, <3>2
    <3> QED
      BY <1>1, <1>8, <1>9, <3>1, <3>2, <3>3
  <2> QED
    BY <1>8, <2>1, <2>2 DEF TargetsWereListed
<1>13. RejectionsCross'
  <2> SUFFICES ASSUME NEW i \in 1..(n + 1), NEW j \in 1..(n + 1), j < i, overrides'[j].state = "reverted",
                      overrides'[j].registered = overrides'[i].registered
               PROVE  overrides'[i].crossed
    BY <1>8 DEF RejectionsCross
  <2>1. j \in 1..n
    BY <1>1
  <2>2. CASE i \in 1..n
    BY <1>8, <2>1, <2>2 DEF KnobsInv, RejectionsCross, n
  <2>3. CASE i = n + 1
    <3> SUFFICES ASSUME ~Crossed(d) PROVE FALSE
      BY <1>5, <1>8, <2>3
    <3>1. overrides[j].registered = r /\ overrides[j].state = "reverted"
      BY <1>5, <1>8, <2>1, <2>3
    <3>2. overrides[j].knob = overrides[t].knob
      BY <1>3, <2>1, <3>1 DEF KnobsInv, RecordsGoBack, n
    <3>3. j \in 1..decision[d].seen
      BY <1>1, <1>7, <2>1, <3>2
    <3>4. ~Expired(j)
      BY <3>1 DEF Expired
    <3>5. ~(j > t) /\ j # t
      BY <1>2, <3>1, <3>2, <3>3, <3>4
    <3>6. j < t
      BY <1>1, <1>2, <2>1, <3>5
    <3>7. overrides[t].crossed
      BY <1>2, <2>1, <3>1, <3>6 DEF KnobsInv, RejectionsCross, n, r
    <3> QED
      BY <1>7, <3>7
  <2> QED
    BY <1>1, <2>2, <2>3
<1>14. NewerOnesCross'
  <2> SUFFICES ASSUME NEW i \in 1..(n + 1), NEW q \in 1..(n + 1), q <= i, overrides'[q].registered = q,
                      overrides'[q].knob = overrides'[i].knob, q > overrides'[i].registered
               PROVE  overrides'[i].crossed \/ Expired(q)'
    BY <1>8 DEF NewerOnesCross
  <2>1. q \in 1..n
    BY <1>1, <1>2, <1>3, <1>5, <1>8
  <2>2. CASE i \in 1..n
    BY <1>8, <1>9, <2>1, <2>2 DEF KnobsInv, NewerOnesCross, n
  <2>3. CASE i = n + 1
    <3> SUFFICES ASSUME ~Crossed(d) PROVE Expired(q)
      BY <1>5, <1>8, <1>9, <2>1, <2>3
    <3>1. overrides[q].registered = q /\ overrides[q].knob = overrides[t].knob /\ q > r
      BY <1>5, <1>8, <2>1, <2>3
    <3>2. q \in 1..decision[d].seen
      BY <1>1, <1>7, <2>1, <3>1
    <3>3. CASE q > t
      BY <1>2, <3>1, <3>2, <3>3
    <3>4. CASE ~(q > t)
      <4>1. q <= t
        BY <1>1, <1>2, <2>1, <3>4
      <4>2. overrides[t].crossed \/ Expired(q)
        BY <1>2, <2>1, <3>1, <4>1 DEF KnobsInv, NewerOnesCross, n, r
      <4> QED
        BY <1>7, <4>2
    <3> QED
      BY <3>3, <3>4
  <2> QED
    BY <1>1, <2>2, <2>3
<1> QED
  BY <1>10, <1>11, <1>12, <1>13, <1>14 DEF KnobsInv

LEMMA KnobsInvNext ==
    ASSUME KnobsInv, [KnobsNext]_knobVars
    PROVE  KnobsInv'
<1>1. ASSUME NEW d \in Deciders, ConfirmOverride(d) PROVE KnobsInv'
  BY <1>1, DecideKeeps DEF ConfirmOverride
<1>2. ASSUME NEW d \in Deciders, RevertOverride(d) PROVE KnobsInv'
  BY <1>2, DecideKeeps DEF RevertOverride
<1>3. CASE KnobDayPasses \/ UNCHANGED knobVars
  <2>1. UNCHANGED <<overrides, decision>> /\ knobDay' \in 0..MaxKnobDay /\ knobDay' >= knobDay /\ knobDay' \in Nat
    BY <1>3, KnobsAssumption DEF KnobDayPasses, knobVars, KnobsInv, LogTyped
  <2>2. \A i \in 1..Len(overrides) : Expired(i) => Expired(i)'
    BY <2>1, ExpiredStays DEF KnobsInv
  <2>3. LogTyped' /\ RecordsGoBack' /\ RejectionsCross'
    BY <2>1 DEF KnobsInv, LogTyped, RecordsGoBack, RejectionsCross
  <2>4. NewerOnesCross'
    BY <2>1, <2>2 DEF KnobsInv, NewerOnesCross
  <2>5. TargetsWereListed'
    <3>1. \A d \in Deciders : decision[d].verb # "none" => \A j \in 1..decision[d].seen : j \in 1..Len(overrides)
      BY DEF KnobsInv, LogTyped, TargetsWereListed
    <3> QED
      BY <2>1, <2>2, <3>1 DEF KnobsInv, TargetsWereListed
  <2> QED
    BY <2>3, <2>4, <2>5 DEF KnobsInv
<1> QED
  BY <1>1, <1>2, <1>3, RegisterKeeps, TakeKeeps DEF KnobsNext

LEMMA KnobsInvHolds == KnobsSpec => []KnobsInv
BY KnobsInvInit, KnobsInvNext, PTL DEF KnobsSpec

\* The log, the decisions in hand and the clock have the values the code gives them.
THEOREM KnobsTypeCorrect == KnobsSpec => []KnobsTypeOK
<1>1. KnobsInv => KnobsTypeOK
  <2> SUFFICES ASSUME KnobsInv PROVE KnobsTypeOK
    OBVIOUS
  <2>1. ASSUME NEW i \in DOMAIN overrides
        PROVE  overrides[i] \in [knob: Knobs, value: Int, state: {"active", "confirmed", "reverted"},
                                 expires: 0..(MaxKnobDay + 1), registered: 1..i, crossed: BOOLEAN]
    <3>1. i \in 1..Len(overrides)
      BY DEF KnobsInv, LogTyped
    <3>2. overrides[i] \in Records /\ overrides[i].registered \in 1..i
      BY <3>1, RecordTyped DEF KnobsInv, RecordsGoBack
    <3> QED
      BY <3>2 DEF Records
  <2> QED
    BY <2>1 DEF KnobsInv, LogTyped, TargetsWereListed, KnobsTypeOK
<1> QED
  BY <1>1, KnobsInvHolds, PTL

LEMMA ListedInForce ==
    ASSUME KnobsInv
    PROVE  ListedIsInForce
<1> SUFFICES ASSUME NEW k \in Knobs
             PROVE  LET listed == ListActiveOverrides \cap RecordsOf(k)
                    IN IF listed = {} THEN ResolveKnob(k) = Default[k]
                       ELSE Cardinality(listed) = 1 /\ \A i \in listed : ResolveKnob(k) = overrides[i].value
  BY DEF ListedIsInForce
<1> DEFINE n == Len(overrides)
           listed == ListActiveOverrides \cap RecordsOf(k)
           live == {i \in RecordsOf(k) : ~Expired(i)}
<1>1. n \in Nat /\ DOMAIN overrides = 1..n
  BY DEF KnobsInv, LogTyped
<1>2. live \in SUBSET (1..n)
  BY <1>1 DEF RecordsOf
<1>3. ASSUME live = {} PROVE listed = {} /\ ResolveKnob(k) = Default[k]
  BY <1>3 DEF ListActiveOverrides, ResolveKnob
<1>4. ASSUME live # {}, overrides[Newest(live)].state = "reverted"
      PROVE  listed = {} /\ ResolveKnob(k) = Default[k]
  <2> DEFINE last == Newest(live)
  <2>1. last \in live /\ \A j \in live : j <= last
    BY <1>1, <1>2, <1>4, NewestIsThere
  <2>3. overrides[last].state = "reverted"
    BY <1>4
  <2> HIDE DEF last
  <2>2. ASSUME NEW i \in listed PROVE FALSE
    <3>1. i \in live /\ overrides[i].state # "reverted" /\ overrides[i].knob = k
      BY DEF ListActiveOverrides, RecordsOf
    <3>2. i < last
      <4>1. i \in 1..n /\ last \in 1..n /\ i <= last /\ i # last
        BY <1>2, <2>1, <2>3, <3>1
      <4> QED
        BY <1>1, <4>1
    <3>3. last \in RecordsOf(overrides[i].knob) /\ ~Expired(last)
      BY <2>1, <3>1
    <3> QED
      BY <1>1, <1>2, <2>1, <3>2, <3>3 DEF ListActiveOverrides
  <2> QED
    BY <1>4, <2>2 DEF ResolveKnob
<1>5. ASSUME live # {}, overrides[Newest(live)].state # "reverted"
      PROVE  listed = {Newest(live)} /\ ResolveKnob(k) = overrides[Newest(live)].value
  <2> DEFINE last == Newest(live)
  <2>1. last \in live /\ \A j \in live : j <= last
    BY <1>1, <1>2, <1>5, NewestIsThere
  <2>2. ResolveKnob(k) = overrides[last].value
    BY <1>5 DEF ResolveKnob
  <2>3. overrides[last].state # "reverted"
    BY <1>5
  <2> HIDE DEF last
  <2>4. ASSUME NEW i \in listed PROVE i = last
    <3>1. i \in live /\ overrides[i].knob = k
      BY DEF ListActiveOverrides, RecordsOf
    <3>2. last \in RecordsOf(overrides[i].knob) /\ ~Expired(last) /\ i <= last
      BY <2>1, <3>1
    <3>3. ~(last > i)
      BY <3>2 DEF ListActiveOverrides
    <3> QED
      BY <1>1, <1>2, <2>1, <3>1, <3>2, <3>3
  <2>5. last \in listed
    <3>1. last \in 1..n /\ overrides[last].knob = k /\ ~Expired(last) /\ last \in RecordsOf(k)
      BY <1>1, <1>2, <2>1 DEF RecordsOf
    <3>2. \A j \in RecordsOf(k) : j > last => Expired(j)
      <4>1. \A j \in RecordsOf(k) : j \in 1..n
        BY <1>1 DEF RecordsOf
      <4> QED
        BY <1>1, <2>1, <3>1, <4>1
    <3> QED
      BY <1>1, <2>3, <3>1, <3>2 DEF ListActiveOverrides
  <2> QED
    BY <2>2, <2>4, <2>5 DEF last
<1> HIDE DEF listed, live
<1>6. \A x : Cardinality({x}) = 1
  BY FS_Singleton
<1> QED
  BY <1>3, <1>4, <1>5, <1>6 DEF listed

LEMMA AllowedValues ==
    ASSUME KnobsInv
    PROVE  ValuesAreAllowed
<1> SUFFICES ASSUME NEW k \in Knobs, ResolveKnob(k) # Default[k] PROVE ResolveKnob(k) \in Allowed[k]
  BY DEF ValuesAreAllowed
<1> DEFINE n == Len(overrides)
           live == {i \in RecordsOf(k) : ~Expired(i)}
<1>1. n \in Nat /\ DOMAIN overrides = 1..n
  BY DEF KnobsInv, LogTyped
<1>2. live \in SUBSET (1..n) /\ live # {} /\ ResolveKnob(k) = overrides[Newest(live)].value
  BY <1>1 DEF RecordsOf, ResolveKnob
<1>3. Newest(live) \in live
  BY <1>1, <1>2, NewestIsThere
<1>4. Newest(live) \in 1..n /\ overrides[Newest(live)].knob = k
  BY <1>2, <1>3 DEF RecordsOf
<1> QED
  BY <1>2, <1>4 DEF KnobsInv, RecordsGoBack

LEMMA RejectedStays ==
    ASSUME KnobsInv
    PROVE  RejectedStaysRejected
<1> SUFFICES ASSUME NEW i \in ListActiveOverrides, NEW j \in DOMAIN overrides,
                    overrides[j].state = "reverted", overrides[j].registered = overrides[i].registered
             PROVE  overrides[i].crossed
  BY DEF RejectedStaysRejected, Rejected
<1> DEFINE n == Len(overrides)
<1>1. n \in Nat /\ DOMAIN overrides = 1..n
  BY DEF KnobsInv, LogTyped
<1>2. /\ i \in 1..n /\ overrides[i].state # "reverted"
      /\ \A x \in RecordsOf(overrides[i].knob) : x > i => Expired(x)
  BY <1>1 DEF ListActiveOverrides
<1>3. j \in RecordsOf(overrides[i].knob) /\ ~Expired(j) /\ j # i
  <2>1. overrides[j].knob = overrides[i].knob
    BY <1>1, <1>2 DEF KnobsInv, RecordsGoBack
  <2> QED
    BY <1>2, <2>1 DEF RecordsOf, Expired
<1>4. j < i
  BY <1>1, <1>2, <1>3
<1> QED
  BY <1>1, <1>2, <1>4 DEF KnobsInv, RejectionsCross

LEMMA LastHolds ==
    ASSUME KnobsInv
    PROVE  LastRegistrationHolds
<1> SUFFICES ASSUME NEW k \in Knobs, RecordsOf(k) # {}
             PROVE  LET last == Newest(RecordsOf(k))
                        registered == Newest({i \in RecordsOf(k) : overrides[i].registered = i})
                    IN Expired(registered) \/ Rejected(registered) \/ overrides[last].crossed
                       \/ \E i \in ListActiveOverrides : overrides[i].registered = registered
  BY DEF LastRegistrationHolds
<1> DEFINE n == Len(overrides)
           mine == RecordsOf(k)
           last == Newest(mine)
           registrations == {i \in mine : overrides[i].registered = i}
           registered == Newest(registrations)
           r == overrides[last].registered
<1>1. n \in Nat /\ DOMAIN overrides = 1..n
  BY DEF KnobsInv, LogTyped
<1>2. mine \in SUBSET (1..n) /\ mine # {} /\ \A i \in mine : overrides[i].knob = k
  BY <1>1 DEF RecordsOf
<1>3. last \in mine /\ \A i \in mine : i <= last
  BY <1>1, <1>2, NewestIsThere
<1>4. r \in registrations /\ r \in 1..last
  <2>1. r \in 1..last /\ overrides[r].registered = r /\ overrides[r].knob = k
    BY <1>2, <1>3 DEF KnobsInv, RecordsGoBack
  <2>2. r \in 1..n
    BY <1>1, <1>2, <1>3, <2>1
  <2> QED
    BY <1>1, <2>1, <2>2 DEF RecordsOf
<1>5. registered \in registrations /\ \A i \in registrations : i <= registered
  <2>1. registrations \in SUBSET (1..n) /\ registrations # {}
    BY <1>2, <1>4
  <2> HIDE DEF registrations
  <2> QED
    BY <1>1, <2>1, NewestIsThere
<1>6. /\ registered \in 1..n /\ registered <= last /\ r <= registered /\ overrides[registered].registered = registered
      /\ overrides[registered].knob = overrides[last].knob
  BY <1>2, <1>3, <1>4, <1>5
<1> HIDE DEF mine, last, registrations, registered
<1> SUFFICES ASSUME ~Expired(registered), ~Rejected(registered), ~overrides[last].crossed
             PROVE  \E i \in ListActiveOverrides : overrides[i].registered = registered
  BY DEF mine, last, registrations, registered
<1>7. r = registered
  <2>1. last \in 1..n /\ r \in Nat
    BY <1>1, <1>2, <1>3, <1>4
  <2>2. ~(registered > r)
    BY <1>6, <2>1 DEF KnobsInv, NewerOnesCross
  <2> QED
    BY <1>1, <1>6, <2>1, <2>2
<1>8. overrides[last].state # "reverted"
  BY <1>1, <1>2, <1>3, <1>7 DEF Rejected
<1>9. ~Expired(last)
  <2>1. overrides[last].state = "active" => last = r
    BY <1>2, <1>3 DEF KnobsInv, RecordsGoBack
  <2> QED
    BY <1>7, <2>1 DEF Expired
<1>10. last \in ListActiveOverrides
  <2>1. \A j \in RecordsOf(overrides[last].knob) : ~(j > last)
    BY <1>1, <1>2, <1>3 DEF mine
  <2> QED
    BY <1>1, <1>2, <1>3, <1>8, <1>9, <2>1 DEF ListActiveOverrides
<1> QED
  BY <1>7, <1>10

\* Whatever is registered, confirmed and reverted, by any number of processes that hold no
\* lock, and whatever expires meanwhile: both readers of the log agree, a value is an allowed
\* one or the default, what was rejected stays rejected and the last registration holds,
\* unless a decision crossed another one.
THEOREM OverridesAreAlwaysObeyed == KnobsSpec => []OverridesAreObeyed
<1>1. KnobsInv => OverridesAreObeyed
  BY ListedInForce, AllowedValues, RejectedStays, LastHolds DEF OverridesAreObeyed
<1> QED
  BY <1>1, KnobsInvHolds, PTL

-----------------------------------------------------------------------------
(* The owner review, for any items, channels, processes and bounds.          *)

Asked == Reviewed \cup Sources

Replies ==
  {Idle} \cup [pc : {"change", "append"}, action : {"feedback"}, item : Sources]
         \cup [pc : {"change", "append"}, action : {"allow", "approve", "reject", "confirm"}, item : Reviewed]

LedgerLines == [item : Asked, action : {"feedback", "allow", "approve", "reject", "confirm"}]

OwnerTyped ==
  /\ day \in 0..MaxDay
  /\ born \in [Reviewed -> {Never, Unknown} \cup 0..MaxDay]
  /\ effect \in [Reviewed -> {"none", "approve", "reject", "confirm"}]
  /\ spoken \in [Reviewed -> Nat] /\ sent \in [DeliveryKeys -> Nat]
  /\ deliveries \subseteq DeliveryKeys
  /\ ledger \in Seq(LedgerLines)
  /\ replier \in [Replying -> Replies]
  /\ sender \in [Sending -> {NotSending} \cup [pc : {"send", "record"}, key : DeliveryKeys]]

ShowsWhatIsThere(d) == d.items \subseteq Asked /\ \A a \in DOMAIN d.anchors : d.anchors[a] \in Asked

\* A digest shows what waited for the owner, or a recall.
DigestsTyped ==
  /\ digests \in Seq({digests[n] : n \in DOMAIN digests})
  /\ \A n \in 1..Len(digests) : ShowsWhatIsThere(digests[n])

Spoilt(i) == <<"item", i>> \in disturbed

LedgerOnce == \A m, n \in 1..Len(ledger) : ledger[m] = ledger[n] /\ ~Spoilt(ledger[n].item) => m = n

SpokenOnce == \A i \in Reviewed : ~Spoilt(i) => spoken[i] <= 1

\* Two processes with the same item disturb each other.
RepliesDiffer ==
  \A g, h \in Replying :
    (/\ g # h /\ replier[g].pc # "idle" /\ replier[h].pc # "idle"
     /\ replier[g].item = replier[h].item) => Spoilt(replier[h].item)

\* What a process has in hand is not in the ledger.
RepliesAreNew ==
  \A h \in Replying : replier[h].pc # "idle" /\ ~Spoilt(replier[h].item)
                        => ~AlreadyApplied(replier[h].action, replier[h].item)

\* A message that was sent is in the ledger, or who sent it is about to note it.
SpokenIsNoted ==
  \A i \in Reviewed : ~Spoilt(i) /\ spoken[i] > 0 =>
    \/ AlreadyApplied("allow", i)
    \/ \E h \in Replying : replier[h] = [pc |-> "append", action |-> "allow", item |-> i]

RepliesInv == LedgerOnce /\ SpokenOnce /\ RepliesDiffer /\ RepliesAreNew /\ SpokenIsNoted

KeySpoilt(k) == <<"key", k>> \in disturbed

SendersDiffer ==
  \A r, s \in Sending :
    (/\ r # s /\ sender[r].pc # "idle" /\ sender[s].pc # "idle"
     /\ sender[r].key = sender[s].key) => KeySpoilt(sender[s].key)

SendersAreNew ==
  \A s \in Sending : sender[s].pc # "idle" /\ ~KeySpoilt(sender[s].key) => ~Delivered(sender[s].key)

SentIsRecorded ==
  \A k \in DeliveryKeys : ~KeySpoilt(k) /\ sent[k] > 0 =>
    \/ Delivered(k)
    \/ \E s \in Sending : sender[s] = [pc |-> "record", key |-> k]

DeliveriesInv == OneDigestPerKey /\ SendersDiffer /\ SendersAreNew /\ SentIsRecorded

OwnerInv == OwnerTyped /\ DigestsTyped /\ RepliesActOnWhatWasShown /\ RepliesInv /\ DeliveriesInv

LEMMA OwnerInvInit == OwnerDigestInit => OwnerInv
<1> SUFFICES ASSUME OwnerDigestInit PROVE OwnerInv
  OBVIOUS
<1> USE DEF OwnerDigestInit
<1>1. OwnerTyped
  BY OwnerDigestAssumption DEF OwnerTyped, Replies
<1>2. DigestsTyped
  BY DEF DigestsTyped
<1>3. RepliesActOnWhatWasShown
  BY DEF RepliesActOnWhatWasShown
<1>4. RepliesInv
  BY DEF RepliesInv, LedgerOnce, SpokenOnce, RepliesDiffer, RepliesAreNew, SpokenIsNoted, Idle
<1>5. DeliveriesInv
  BY DEF DeliveriesInv, OneDigestPerKey, SendersDiffer, SendersAreNew, SentIsRecorded, NotSending
<1> QED
  BY <1>1, <1>2, <1>3, <1>4, <1>5 DEF OwnerInv

LEMMA ReplyTyped ==
    ASSUME OwnerTyped, NEW h \in Replying
    PROVE  /\ replier[h].pc \in {"idle", "change", "append"}
           /\ replier[h].pc = "idle" => replier[h] = Idle
           /\ replier[h].pc # "idle" =>
                /\ replier[h].item \in Asked /\ replier[h].action \in {"feedback", "allow", "approve", "reject", "confirm"}
                /\ replier[h].action = "feedback" => replier[h].item \in Sources
                /\ replier[h].action # "feedback" => replier[h].item \in Reviewed
                /\ replier[h] = [pc |-> replier[h].pc, action |-> replier[h].action, item |-> replier[h].item]
BY DEF OwnerTyped, Replies, Idle, Asked

LEMMA LedgerGrows ==
    ASSUME ledger \in Seq(LedgerLines), NEW line \in LedgerLines, ledger' = Append(ledger, line)
    PROVE  /\ ledger' \in Seq(LedgerLines) /\ Len(ledger) \in Nat
           /\ Len(ledger') = Len(ledger) + 1 /\ ledger'[Len(ledger) + 1] = line
           /\ \A n \in 1..Len(ledger) : ledger'[n] = ledger[n]
OBVIOUS

LEMMA RepliesQuiet ==
    ASSUME RepliesInv, UNCHANGED <<ledger, replier, spoken>>, disturbed \subseteq disturbed'
    PROVE  RepliesInv'
<1>1. \A i : Spoilt(i) => Spoilt(i)'
  BY DEF Spoilt
<1>2. \A a, i : AlreadyApplied(a, i)' = AlreadyApplied(a, i)
  BY DEF AlreadyApplied
<1>3. LedgerOnce' /\ SpokenOnce'
  BY <1>1 DEF RepliesInv, LedgerOnce, SpokenOnce
<1>4. RepliesDiffer' /\ RepliesAreNew'
  BY <1>1, <1>2 DEF RepliesInv, RepliesDiffer, RepliesAreNew
<1>5. SpokenIsNoted'
  BY <1>1, <1>2 DEF RepliesInv, SpokenIsNoted
<1> QED
  BY <1>3, <1>4, <1>5 DEF RepliesInv

LEMMA OwnerTakeKeeps ==
    ASSUME OwnerTyped, RepliesInv, NEW h \in Replying, NEW action, NEW i \in Asked,
           replier[h].pc = "idle", Take(h, action, i), UNCHANGED <<ledger, spoken>>
    PROVE  RepliesInv' /\ disturbed \subseteq disturbed'
<1>1. CASE UNCHANGED <<replier, disturbed>>
  BY <1>1, RepliesQuiet
<1>2. CASE /\ ~AlreadyApplied(action, i)
           /\ replier' = [replier EXCEPT ![h] = [pc |-> "change", action |-> action, item |-> i]]
           /\ disturbed' = disturbed \cup (IF InHand(i) THEN {<<"item", i>>} ELSE {})
  <2> DEFINE new == [pc |-> "change", action |-> action, item |-> i]
  <2>0. replier'[h] = new /\ \A g \in Replying : g # h => replier'[g] = replier[g]
    BY <1>2 DEF OwnerTyped
  <2>1. new.pc = "change" /\ new.action = action /\ new.item = i
    OBVIOUS
  <2> HIDE DEF new
  <2>2. disturbed \subseteq disturbed' /\ (InHand(i) => Spoilt(i)')
    BY <1>2 DEF Spoilt
  <2>3. \A k : Spoilt(k) => Spoilt(k)'
    BY <2>2 DEF Spoilt
  <2>4. \A a, k : AlreadyApplied(a, k)' = AlreadyApplied(a, k)
    BY DEF AlreadyApplied
  <2>5. LedgerOnce' /\ SpokenOnce'
    BY <2>3 DEF RepliesInv, LedgerOnce, SpokenOnce
  <2>6. RepliesDiffer'
    <3> SUFFICES ASSUME NEW g \in Replying, NEW k \in Replying, g # k, replier'[g].pc # "idle",
                        replier'[k].pc # "idle", replier'[g].item = replier'[k].item
                 PROVE  <<"item", replier'[k].item>> \in disturbed'
      BY DEF RepliesDiffer, Spoilt
    <3>1. CASE g # h /\ k # h
      BY <3>1, <2>0, <2>2 DEF RepliesInv, RepliesDiffer, Spoilt
    <3>2. CASE g = h \/ k = h
      <4>1. replier'[k].item = i /\ InHand(i)
        BY <3>2, <2>0, <2>1 DEF InHand
      <4> QED
        BY <4>1, <2>2 DEF Spoilt
    <3> QED
      BY <3>1, <3>2
  <2>7. RepliesAreNew'
    BY <1>2, <2>0, <2>1, <2>3, <2>4 DEF RepliesInv, RepliesAreNew
  <2>8. SpokenIsNoted'
    <3> SUFFICES ASSUME NEW k \in Reviewed, ~Spoilt(k)', spoken'[k] > 0, ~AlreadyApplied("allow", k)'
                 PROVE  \E g \in Replying : replier'[g] = [pc |-> "append", action |-> "allow", item |-> k]
      BY DEF SpokenIsNoted
    <3>1. PICK g \in Replying : replier[g] = [pc |-> "append", action |-> "allow", item |-> k]
      BY <2>3, <2>4 DEF RepliesInv, SpokenIsNoted
    <3>2. replier[g].pc = "append"
      BY <3>1
    <3> QED
      BY <3>1, <3>2, <2>0
  <2> QED
    BY <2>2, <2>5, <2>6, <2>7, <2>8 DEF RepliesInv
<1> QED
  BY <1>1, <1>2 DEF Take

LEMMA ChangeKeeps ==
    ASSUME OwnerTyped, RepliesInv, NEW h \in Replying, NEW works \in BOOLEAN, MakeChange(h, works)
    PROVE  RepliesInv'
<1> DEFINE i == replier[h].item
<1>0. /\ replier[h].pc = "change" /\ ledger' = ledger /\ disturbed' = disturbed
      /\ replier[h].action = "allow" => i \in Reviewed
      /\ replier[h] = [pc |-> replier[h].pc, action |-> replier[h].action, item |-> i]
  BY ReplyTyped DEF MakeChange
<1>1. /\ \A g \in Replying : g # h => replier'[g] = replier[g]
      /\ works => replier'[h] = [replier[h] EXCEPT !.pc = "append"]
      /\ ~works => replier'[h] = Idle
  BY DEF MakeChange, OwnerTyped
<1>2. /\ works => replier'[h] = [pc |-> "append", action |-> replier[h].action, item |-> i]
      /\ replier'[h].pc # "idle" => /\ replier'[h].action = replier[h].action
                                    /\ replier'[h].item = replier[h].item
  BY <1>0, <1>1 DEF Idle
<1>4. /\ replier[h].action = "allow" /\ works => spoken' = [spoken EXCEPT ![i] = @ + 1]
      /\ ~(replier[h].action = "allow" /\ works) => spoken' = spoken
  BY DEF MakeChange
<1>5. \A k : Spoilt(k)' = Spoilt(k)
  BY <1>0 DEF Spoilt
<1>6. \A a, k : AlreadyApplied(a, k)' = AlreadyApplied(a, k)
  BY <1>0 DEF AlreadyApplied
<1>7. LedgerOnce'
  BY <1>0, <1>5 DEF RepliesInv, LedgerOnce
<1>8. replier[h].action = "allow" /\ ~Spoilt(i) => spoken[i] = 0
  <2> SUFFICES ASSUME replier[h].action = "allow", ~Spoilt(i), spoken[i] # 0
               PROVE  FALSE
    OBVIOUS
  <2>1. i \in Reviewed /\ spoken[i] > 0
    BY <1>0 DEF OwnerTyped
  <2>2. ~AlreadyApplied("allow", i)
    BY <1>0 DEF RepliesInv, RepliesAreNew
  <2>3. PICK g \in Replying : replier[g] = [pc |-> "append", action |-> "allow", item |-> i]
    BY <2>1, <2>2 DEF RepliesInv, SpokenIsNoted
  <2>4. g # h /\ replier[g].pc # "idle" /\ replier[g].item = i
    BY <2>3, <1>0
  <2> QED
    BY <2>4, <1>0 DEF RepliesInv, RepliesDiffer
<1>9. SpokenOnce'
  <2> SUFFICES ASSUME NEW k \in Reviewed, ~Spoilt(k) PROVE spoken'[k] <= 1
    BY <1>5 DEF SpokenOnce
  <2>1. spoken[k] <= 1 /\ spoken \in [Reviewed -> Nat]
    BY DEF RepliesInv, SpokenOnce, OwnerTyped
  <2>2. CASE replier[h].action = "allow" /\ works /\ k = i
    <3>1. spoken[k] = 0 /\ spoken'[k] = spoken[k] + 1
      BY <2>1, <2>2, <1>4, <1>8
    <3> QED
      BY <3>1
  <2>3. CASE ~(replier[h].action = "allow" /\ works /\ k = i)
    BY <2>1, <2>3, <1>4
  <2> QED
    BY <2>2, <2>3
<1>10. RepliesDiffer'
  <2> SUFFICES ASSUME NEW g \in Replying, NEW k \in Replying, g # k, replier'[g].pc # "idle",
                      replier'[k].pc # "idle", replier'[g].item = replier'[k].item
               PROVE  <<"item", replier'[k].item>> \in disturbed'
    BY DEF RepliesDiffer, Spoilt
  <2>1. \A f \in Replying : replier'[f].pc # "idle" => replier[f].pc # "idle" /\ replier'[f].item = replier[f].item
    BY <1>0, <1>1, <1>2
  <2> QED
    BY <2>1, <1>0 DEF RepliesInv, RepliesDiffer, Spoilt
<1>11. RepliesAreNew'
  <2>1. \A f \in Replying : replier'[f].pc # "idle" =>
          replier[f].pc # "idle" /\ replier'[f].item = replier[f].item /\ replier'[f].action = replier[f].action
    BY <1>0, <1>1, <1>2
  <2> QED
    BY <2>1, <1>5, <1>6 DEF RepliesInv, RepliesAreNew
<1>12. SpokenIsNoted'
  <2> SUFFICES ASSUME NEW k \in Reviewed, ~Spoilt(k), spoken'[k] > 0, ~AlreadyApplied("allow", k)
               PROVE  \E g \in Replying : replier'[g] = [pc |-> "append", action |-> "allow", item |-> k]
    BY <1>5, <1>6 DEF SpokenIsNoted
  <2>1. CASE replier[h].action = "allow" /\ works /\ k = i
    BY <2>1, <1>2
  <2>2. CASE ~(replier[h].action = "allow" /\ works /\ k = i)
    <3>1. spoken[k] > 0
      BY <2>2, <1>0, <1>4 DEF OwnerTyped
    <3>2. PICK g \in Replying : replier[g] = [pc |-> "append", action |-> "allow", item |-> k]
      BY <3>1 DEF RepliesInv, SpokenIsNoted
    <3>3. g # h
      BY <3>2, <1>0
    <3> QED
      BY <3>2, <3>3, <1>1
  <2> QED
    BY <2>1, <2>2
<1> QED
  BY <1>7, <1>9, <1>10, <1>11, <1>12 DEF RepliesInv

LEMMA AppendKeeps ==
    ASSUME OwnerTyped, RepliesInv, NEW h \in Replying, AppendAction(h)
    PROVE  RepliesInv'
<1> PICK i, a : i = replier[h].item /\ a = replier[h].action
  OBVIOUS
<1> DEFINE line == [item |-> i, action |-> a]
<1>0. /\ replier[h].pc = "append" /\ disturbed' = disturbed /\ spoken' = spoken
      /\ i \in Asked /\ line \in LedgerLines /\ ledger' = Append(ledger, line)
      /\ replier[h] = [pc |-> replier[h].pc, action |-> a, item |-> i]
  BY ReplyTyped DEF AppendAction, LedgerLines
<1>1. replier'[h] = Idle /\ \A g \in Replying : g # h => replier'[g] = replier[g]
  BY DEF AppendAction, OwnerTyped
<1>2. replier'[h].pc = "idle"
  BY <1>1 DEF Idle
<1>3. line.item = i /\ line.action = a
  OBVIOUS
<1>4. ~Spoilt(i) => ~AlreadyApplied(a, i)
  BY <1>0 DEF RepliesInv, RepliesAreNew
<1>5. AlreadyApplied(a, i) <=> \E n \in 1..Len(ledger) : ledger[n] = line
  BY DEF AlreadyApplied
<1>6. /\ ledger \in Seq(LedgerLines)
      /\ \A b, k : AlreadyApplied(b, k)' <=> \E n \in 1..Len(ledger') : ledger'[n] = [item |-> k, action |-> b]
  BY DEF OwnerTyped, AlreadyApplied
<1>61. \A b, k : [item |-> k, action |-> b] = line => b = a /\ k = i
  OBVIOUS
<1> HIDE DEF line
<1>7. /\ Len(ledger) \in Nat /\ Len(ledger') = Len(ledger) + 1 /\ ledger'[Len(ledger) + 1] = line
      /\ \A n \in 1..Len(ledger) : ledger'[n] = ledger[n]
  BY <1>0, <1>6, LedgerGrows
<1>8. \A k : Spoilt(k)' = Spoilt(k)
  BY <1>0 DEF Spoilt
<1>9. LedgerOnce'
  <2> SUFFICES ASSUME NEW m \in 1..Len(ledger'), NEW n \in 1..Len(ledger'), ledger'[m] = ledger'[n],
                      ~Spoilt(ledger'[n].item)
               PROVE  m = n
    BY <1>0 DEF LedgerOnce, Spoilt
  <2>1. CASE m \in 1..Len(ledger) /\ n \in 1..Len(ledger)
    BY <2>1, <1>7 DEF RepliesInv, LedgerOnce
  <2>2. CASE m = Len(ledger) + 1 /\ n = Len(ledger) + 1
    BY <2>2
  <2>3. CASE m = Len(ledger) + 1 /\ n \in 1..Len(ledger)
    BY <2>3, <1>3, <1>4, <1>5, <1>7
  <2>4. CASE n = Len(ledger) + 1 /\ m \in 1..Len(ledger)
    BY <2>4, <1>3, <1>4, <1>5, <1>7
  <2> QED
    BY <2>1, <2>2, <2>3, <2>4, <1>7
<1>10. \A b, k : AlreadyApplied(b, k) => AlreadyApplied(b, k)'
  <2> SUFFICES ASSUME NEW b, NEW k, NEW n \in 1..Len(ledger), ledger[n] = [item |-> k, action |-> b]
               PROVE  \E m \in 1..Len(ledger') : ledger'[m] = [item |-> k, action |-> b]
    BY <1>6 DEF AlreadyApplied
  <2> QED
    BY <1>7
<1>11. AlreadyApplied(a, i)'
  <2>1. Len(ledger) + 1 \in 1..Len(ledger')
    BY <1>7
  <2>2. ledger'[Len(ledger) + 1] = [item |-> i, action |-> a]
    BY <1>7 DEF line
  <2> QED
    BY <2>1, <2>2, <1>6
<1>12. \A b, k : AlreadyApplied(b, k)' => AlreadyApplied(b, k) \/ (b = a /\ k = i)
  <2> SUFFICES ASSUME NEW b, NEW k, NEW n \in 1..Len(ledger'), ledger'[n] = [item |-> k, action |-> b],
                      ~(b = a /\ k = i)
               PROVE  \E m \in 1..Len(ledger) : ledger[m] = [item |-> k, action |-> b]
    BY <1>6 DEF AlreadyApplied
  <2>1. n # Len(ledger) + 1
    BY <1>7, <1>61
  <2> QED
    BY <2>1, <1>7
<1>13. SpokenOnce'
  BY <1>0, <1>8 DEF RepliesInv, SpokenOnce
<1>14. \A f \in Replying : replier'[f].pc # "idle" => f # h /\ replier'[f] = replier[f]
  BY <1>1, <1>2
<1>15. RepliesDiffer'
  <2> SUFFICES ASSUME NEW g \in Replying, NEW k \in Replying, g # k, replier'[g].pc # "idle",
                      replier'[k].pc # "idle", replier'[g].item = replier'[k].item
               PROVE  <<"item", replier'[k].item>> \in disturbed'
    BY DEF RepliesDiffer, Spoilt
  <2> QED
    BY <1>14, <1>0 DEF RepliesInv, RepliesDiffer, Spoilt
<1>16. RepliesAreNew'
  <2> SUFFICES ASSUME NEW f \in Replying, replier'[f].pc # "idle",
                      <<"item", replier'[f].item>> \notin disturbed',
                      \E n \in 1..Len(ledger') : ledger'[n] = [item |-> replier[f].item, action |-> replier[f].action]
               PROVE  FALSE
    BY <1>14 DEF RepliesAreNew, Spoilt, AlreadyApplied
  <2>1. f # h /\ replier[f].pc # "idle" /\ ~Spoilt(replier[f].item)
    BY <1>14, <1>0 DEF Spoilt
  <2>2. ~AlreadyApplied(replier[f].action, replier[f].item)
    BY <2>1 DEF RepliesInv, RepliesAreNew
  <2>3. PICK b, k : b = replier[f].action /\ k = replier[f].item
    OBVIOUS
  <2>4. AlreadyApplied(b, k)' /\ ~AlreadyApplied(b, k)
    BY <2>2, <2>3 DEF AlreadyApplied
  <2>5. replier[f].item = i
    BY <2>3, <2>4, <1>12
  <2> QED
    BY <2>1, <2>5, <1>0 DEF RepliesInv, RepliesDiffer
<1>17. SpokenIsNoted'
  <2> SUFFICES ASSUME NEW k \in Reviewed, ~Spoilt(k), spoken[k] > 0, ~AlreadyApplied("allow", k)'
               PROVE  \E g \in Replying : replier'[g] = [pc |-> "append", action |-> "allow", item |-> k]
    BY <1>0, <1>8 DEF SpokenIsNoted
  <2>1. PICK g \in Replying : replier[g] = [pc |-> "append", action |-> "allow", item |-> k]
    BY <1>10 DEF RepliesInv, SpokenIsNoted
  <2>2. g # h
    <3> SUFFICES ASSUME g = h PROVE FALSE
      OBVIOUS
    <3>1. a = "allow" /\ i = k
      BY <2>1
    <3> QED
      BY <3>1, <1>11
  <2> QED
    BY <2>1, <2>2, <1>1
<1> QED
  BY <1>9, <1>13, <1>15, <1>16, <1>17 DEF RepliesInv

LEMMA KillReplyKeeps ==
    ASSUME OwnerTyped, RepliesInv, NEW h \in Replying, KillReply(h)
    PROVE  RepliesInv'
<1> PICK i : i = replier[h].item
  OBVIOUS
<1>0. /\ ledger' = ledger /\ spoken' = spoken /\ disturbed' = disturbed \cup {<<"item", i>>}
      /\ replier'[h] = Idle /\ \A g \in Replying : g # h => replier'[g] = replier[g]
  BY DEF KillReply, OwnerTyped
<1>1. \A k : Spoilt(k) => Spoilt(k)'
  BY <1>0 DEF Spoilt
<1>2. Spoilt(i)'
  BY <1>0 DEF Spoilt
<1>3. \A a, k : AlreadyApplied(a, k)' = AlreadyApplied(a, k)
  BY <1>0 DEF AlreadyApplied
<1>4. LedgerOnce' /\ SpokenOnce'
  BY <1>0, <1>1 DEF RepliesInv, LedgerOnce, SpokenOnce
<1>5. \A f \in Replying : replier'[f].pc # "idle" => f # h /\ replier'[f] = replier[f]
  BY <1>0 DEF Idle
<1>6. RepliesDiffer'
  <2> SUFFICES ASSUME NEW g \in Replying, NEW k \in Replying, g # k, replier'[g].pc # "idle",
                      replier'[k].pc # "idle", replier'[g].item = replier'[k].item
               PROVE  <<"item", replier'[k].item>> \in disturbed'
    BY DEF RepliesDiffer, Spoilt
  <2> QED
    BY <1>5, <1>0 DEF RepliesInv, RepliesDiffer, Spoilt
<1>7. RepliesAreNew'
  BY <1>1, <1>3, <1>5 DEF RepliesInv, RepliesAreNew
<1>8. SpokenIsNoted'
  <2> SUFFICES ASSUME NEW k \in Reviewed, ~Spoilt(k)', spoken[k] > 0, ~AlreadyApplied("allow", k)
               PROVE  \E g \in Replying : replier'[g] = [pc |-> "append", action |-> "allow", item |-> k]
    BY <1>0, <1>3 DEF SpokenIsNoted
  <2>1. PICK g \in Replying : replier[g] = [pc |-> "append", action |-> "allow", item |-> k]
    BY <1>1 DEF RepliesInv, SpokenIsNoted
  <2>2. g # h
    BY <2>1, <1>2
  <2> QED
    BY <2>1, <2>2, <1>0
<1> QED
  BY <1>4, <1>6, <1>7, <1>8 DEF RepliesInv

LEMMA DeliveriesQuiet ==
    ASSUME DeliveriesInv, UNCHANGED <<sender, deliveries, sent>>, disturbed \subseteq disturbed'
    PROVE  DeliveriesInv'
<1>1. \A k : KeySpoilt(k) => KeySpoilt(k)'
  BY DEF KeySpoilt
<1>2. \A k : Delivered(k)' = Delivered(k)
  BY DEF Delivered
<1>3. OneDigestPerKey' /\ SendersDiffer'
  BY <1>1 DEF DeliveriesInv, OneDigestPerKey, SendersDiffer, KeySpoilt
<1>4. SendersAreNew'
  BY <1>1, <1>2 DEF DeliveriesInv, SendersAreNew
<1>5. SentIsRecorded'
  BY <1>1, <1>2 DEF DeliveriesInv, SentIsRecorded
<1> QED
  BY <1>3, <1>4, <1>5 DEF DeliveriesInv

LEMMA SenderTyped ==
    ASSUME OwnerTyped, NEW s \in Sending
    PROVE  /\ sender[s].pc \in {"idle", "send", "record"}
           /\ sender[s].pc # "idle" => /\ sender[s].key \in DeliveryKeys
                                       /\ sender[s] = [pc |-> sender[s].pc, key |-> sender[s].key]
BY DEF OwnerTyped, NotSending

LEMMA StartDeliveryKeeps ==
    ASSUME OwnerTyped, DeliveriesInv, NEW s \in Sending, NEW key \in DeliveryKeys, NEW open \in BOOLEAN,
           StartDelivery(s, key, open)
    PROVE  DeliveriesInv' /\ disturbed \subseteq disturbed'
<1> PICK pc \in {"send", "record"} : sender' = [sender EXCEPT ![s] = [pc |-> pc, key |-> key]]
  BY DEF StartDelivery
<1> DEFINE new == [pc |-> pc, key |-> key]
<1>0. sender'[s] = new /\ \A r \in Sending : r # s => sender'[r] = sender[r]
  BY DEF OwnerTyped
<1>1. new.pc # "idle" /\ new.key = key
  OBVIOUS
<1> HIDE DEF new
<1>2. /\ sender[s].pc = "idle" /\ ~Delivered(key) /\ UNCHANGED <<deliveries, sent>>
      /\ disturbed \subseteq disturbed' /\ (KeyInHand(key) => KeySpoilt(key)')
  BY DEF StartDelivery, KeySpoilt
<1>3. \A k : KeySpoilt(k) => KeySpoilt(k)'
  BY <1>2 DEF KeySpoilt
<1>4. \A k : Delivered(k)' = Delivered(k)
  BY <1>2 DEF Delivered
<1>5. OneDigestPerKey'
  BY <1>2, <1>3 DEF DeliveriesInv, OneDigestPerKey, KeySpoilt
<1>6. SendersDiffer'
  <2> SUFFICES ASSUME NEW r \in Sending, NEW t \in Sending, r # t, sender'[r].pc # "idle",
                      sender'[t].pc # "idle", sender'[r].key = sender'[t].key
               PROVE  <<"key", sender'[t].key>> \in disturbed'
    BY DEF SendersDiffer, KeySpoilt
  <2>1. CASE r # s /\ t # s
    BY <2>1, <1>0, <1>2 DEF DeliveriesInv, SendersDiffer, KeySpoilt
  <2>2. CASE r = s \/ t = s
    <3>1. sender'[t].key = key /\ KeyInHand(key)
      BY <2>2, <1>0, <1>1 DEF KeyInHand
    <3> QED
      BY <3>1, <1>2 DEF KeySpoilt
  <2> QED
    BY <2>1, <2>2
<1>7. SendersAreNew'
  BY <1>0, <1>1, <1>2, <1>3, <1>4 DEF DeliveriesInv, SendersAreNew
<1>8. SentIsRecorded'
  <2> SUFFICES ASSUME NEW k \in DeliveryKeys, ~KeySpoilt(k)', sent[k] > 0, ~Delivered(k)
               PROVE  \E t \in Sending : sender'[t] = [pc |-> "record", key |-> k]
    BY <1>2, <1>4 DEF SentIsRecorded
  <2>1. PICK t \in Sending : sender[t] = [pc |-> "record", key |-> k]
    BY <1>3 DEF DeliveriesInv, SentIsRecorded
  <2>2. sender[t].pc = "record"
    BY <2>1
  <2> QED
    BY <2>1, <2>2, <1>0, <1>2
<1> QED
  BY <1>2, <1>5, <1>6, <1>7, <1>8 DEF DeliveriesInv

LEMMA SendKeeps ==
    ASSUME OwnerTyped, DeliveriesInv, NEW s \in Sending, NEW works \in BOOLEAN, SendDigest(s, works)
    PROVE  DeliveriesInv'
<1> PICK key : key = sender[s].key
  OBVIOUS
<1>0. /\ sender[s].pc = "send" /\ key \in DeliveryKeys /\ UNCHANGED <<deliveries, disturbed>>
      /\ sender[s] = [pc |-> "send", key |-> key]
      /\ sent' = [sent EXCEPT ![key] = @ + (IF works THEN 1 ELSE 0)]
  BY SenderTyped DEF SendDigest
<1>1. /\ sender'[s] = [pc |-> "record", key |-> key]
      /\ \A r \in Sending : r # s => sender'[r] = sender[r]
  BY <1>0 DEF SendDigest, OwnerTyped
<1>2. \A k : KeySpoilt(k)' = KeySpoilt(k)
  BY <1>0 DEF KeySpoilt
<1>3. \A k : Delivered(k)' = Delivered(k)
  BY <1>0 DEF Delivered
<1>4. ~KeySpoilt(key) => sent[key] = 0
  <2> SUFFICES ASSUME ~KeySpoilt(key), sent[key] # 0 PROVE FALSE
    OBVIOUS
  <2>1. sent[key] > 0
    BY <1>0 DEF OwnerTyped
  <2>2. ~Delivered(key)
    BY <1>0 DEF DeliveriesInv, SendersAreNew
  <2>3. PICK t \in Sending : sender[t] = [pc |-> "record", key |-> key]
    BY <2>1, <2>2, <1>0 DEF DeliveriesInv, SentIsRecorded
  <2>4. sender[t].pc = "record" /\ sender[t].key = key
    BY <2>3
  <2>5. t # s /\ sender[t].pc # "idle"
    BY <2>4, <1>0
  <2> QED
    BY <2>4, <2>5, <1>0 DEF DeliveriesInv, SendersDiffer
<1>5. OneDigestPerKey'
  <2> SUFFICES ASSUME NEW k \in DeliveryKeys, ~KeySpoilt(k) PROVE sent'[k] <= 1
    BY <1>2 DEF OneDigestPerKey, KeySpoilt
  <2>1. sent[k] <= 1 /\ sent \in [DeliveryKeys -> Nat]
    BY DEF DeliveriesInv, OneDigestPerKey, KeySpoilt, OwnerTyped
  <2>2. CASE k = key
    BY <2>1, <2>2, <1>0, <1>4
  <2>3. CASE k # key
    BY <2>1, <2>3, <1>0
  <2> QED
    BY <2>2, <2>3
<1>55. sender'[s].key = key /\ sender[s].key = key
  BY <1>0, <1>1
<1>6. \A t \in Sending : sender'[t].pc # "idle" => sender[t].pc # "idle" /\ sender'[t].key = sender[t].key
  BY <1>0, <1>1, <1>55
<1>7. SendersDiffer'
  <2> SUFFICES ASSUME NEW r \in Sending, NEW t \in Sending, r # t, sender'[r].pc # "idle",
                      sender'[t].pc # "idle", sender'[r].key = sender'[t].key
               PROVE  <<"key", sender'[t].key>> \in disturbed'
    BY DEF SendersDiffer, KeySpoilt
  <2> QED
    BY <1>6, <1>0 DEF DeliveriesInv, SendersDiffer, KeySpoilt
<1>8. SendersAreNew'
  BY <1>2, <1>3, <1>6 DEF DeliveriesInv, SendersAreNew
<1>9. SentIsRecorded'
  <2> SUFFICES ASSUME NEW k \in DeliveryKeys, ~KeySpoilt(k), sent'[k] > 0, ~Delivered(k)
               PROVE  \E t \in Sending : sender'[t] = [pc |-> "record", key |-> k]
    BY <1>2, <1>3 DEF SentIsRecorded
  <2>1. CASE k = key
    BY <2>1, <1>1
  <2>2. CASE k # key
    <3>1. sent[k] > 0
      BY <2>2, <1>0 DEF OwnerTyped
    <3>2. PICK t \in Sending : sender[t] = [pc |-> "record", key |-> k]
      BY <3>1 DEF DeliveriesInv, SentIsRecorded
    <3> QED
      BY <3>2, <1>0, <1>1
  <2> QED
    BY <2>1, <2>2
<1> QED
  BY <1>5, <1>7, <1>8, <1>9 DEF DeliveriesInv

LEMMA EndDeliveryKeeps ==
    ASSUME OwnerTyped, DeliveriesInv, NEW s \in Sending, RecordDelivery(s) \/ KillDelivery(s)
    PROVE  DeliveriesInv' /\ disturbed \subseteq disturbed'
<1> PICK key : key = sender[s].key
  OBVIOUS
<1>0. /\ sender[s].pc # "idle" /\ sent' = sent
      /\ sender'[s] = NotSending /\ \A r \in Sending : r # s => sender'[r] = sender[r]
  BY DEF RecordDelivery, KillDelivery, OwnerTyped
<1>1. /\ deliveries \subseteq deliveries' /\ disturbed \subseteq disturbed'
      /\ \A k \in deliveries' : k \in deliveries \/ k = key
      /\ key \in deliveries' \/ <<"key", key>> \in disturbed'
  BY DEF RecordDelivery, KillDelivery
<1>2. \A k : KeySpoilt(k) => KeySpoilt(k)'
  BY <1>1 DEF KeySpoilt
<1>3. OneDigestPerKey'
  BY <1>0, <1>2 DEF DeliveriesInv, OneDigestPerKey, KeySpoilt
<1>4. \A t \in Sending : sender'[t].pc # "idle" => t # s /\ sender'[t] = sender[t]
  BY <1>0 DEF NotSending
<1>5. SendersDiffer'
  <2> SUFFICES ASSUME NEW r \in Sending, NEW t \in Sending, r # t, sender'[r].pc # "idle",
                      sender'[t].pc # "idle", sender'[r].key = sender'[t].key
               PROVE  <<"key", sender'[t].key>> \in disturbed'
    BY DEF SendersDiffer, KeySpoilt
  <2> QED
    BY <1>1, <1>4 DEF DeliveriesInv, SendersDiffer, KeySpoilt
<1>6. SendersAreNew'
  <2> SUFFICES ASSUME NEW t \in Sending, sender'[t].pc # "idle", <<"key", sender[t].key>> \notin disturbed',
                      sender[t].key \in deliveries'
               PROVE  FALSE
    BY <1>4 DEF SendersAreNew, KeySpoilt, Delivered
  <2>1. t # s /\ sender[t].pc # "idle" /\ ~KeySpoilt(sender[t].key)
    BY <1>1, <1>4 DEF KeySpoilt
  <2>2. sender[t].key = key
    BY <2>1, <1>1 DEF DeliveriesInv, SendersAreNew, Delivered
  <2> QED
    BY <2>1, <2>2, <1>0 DEF DeliveriesInv, SendersDiffer
<1>7. SentIsRecorded'
  <2> SUFFICES ASSUME NEW k \in DeliveryKeys, <<"key", k>> \notin disturbed', sent[k] > 0, k \notin deliveries'
               PROVE  \E t \in Sending : sender'[t] = [pc |-> "record", key |-> k]
    BY <1>0 DEF SentIsRecorded, KeySpoilt, Delivered
  <2>1. PICK t \in Sending : sender[t] = [pc |-> "record", key |-> k]
    BY <1>1 DEF DeliveriesInv, SentIsRecorded, KeySpoilt, Delivered
  <2>2. t # s
    <3> SUFFICES ASSUME t = s PROVE FALSE
      OBVIOUS
    <3>1. key = k
      BY <2>1
    <3> QED
      BY <3>1, <1>1
  <2> QED
    BY <2>1, <2>2, <1>0
<1> QED
  BY <1>1, <1>3, <1>5, <1>6, <1>7 DEF DeliveriesInv

Suits(action, i) ==
  \/ action = "none"
  \/ i \in Sources /\ action = "feedback"
  \/ i \in Reviewed /\ action \in {"allow", "approve", "reject", "confirm"}

LEMMA SortedActions ==
    ASSUME NEW i \in Asked, NEW verb
    PROVE  \A action \in {ActionOf(verb, KindOf[i])} \cup TokenActions(KindOf[i]) : Suits(action, i)
<1>1. \/ i \in Reviewed /\ KindOf[i] # "source"
      \/ i \in Sources /\ KindOf[i] = "source"
  BY OwnerDigestAssumption DEF Asked
<1>2. ActionOf(verb, KindOf[i]) # "none" =>
        IF KindOf[i] = "source" THEN ActionOf(verb, KindOf[i]) = "feedback"
        ELSE ActionOf(verb, KindOf[i]) \in {"allow", "approve", "reject", "confirm"}
  BY DEF ActionOf
<1>3. \A action \in TokenActions(KindOf[i]) :
        IF KindOf[i] = "source" THEN action = "feedback"
        ELSE action \in {"allow", "approve", "reject", "confirm"}
  BY DEF TokenActions
<1> QED
  BY <1>1, <1>2, <1>3 DEF Suits

LEMMA PreviewShows == Preview.items \subseteq Asked /\ \A a \in DOMAIN Preview.anchors : Preview.anchors[a] \in Asked
<1> DEFINE priority == [i \in Pending |-> Priority(i)]
           fyi == Section(priority, "fyi")
           shown == Section(priority, "action") \cup Section(priority, "review") \cup fyi
           sources == FirstN(Sources, Limits["fyi"] - Cardinality(fyi))
           SourceAnchor(s) == <<"fyi", Cardinality(fyi) + Cardinality({r \in sources : r <= s})>>
           anchors == {Anchor(priority, i) : i \in shown}
           sourceAnchors == {SourceAnchor(s) : s \in sources}
           map == [a \in anchors \cup sourceAnchors |->
                  IF a \in sourceAnchors THEN CHOOSE s \in sources : SourceAnchor(s) = a
                  ELSE CHOOSE i \in shown : Anchor(priority, i) = a]
<1>1. Preview = [items |-> shown \cup sources, anchors |-> map]
  BY DEF Preview
<1>2. \A level : Section(priority, level) \subseteq Pending
  BY DEF Section, FirstN
<1>3. shown \cup sources \subseteq Asked
  BY <1>2 DEF FirstN, Pending, Asked
<1>4. ASSUME NEW a \in DOMAIN map PROVE map[a] \in shown \cup sources
  <2>1. CASE a \in sourceAnchors
    <3>1. \E s \in sources : SourceAnchor(s) = a
      BY <2>1
    <3> HIDE DEF sources, SourceAnchor
    <3> QED
      BY <2>1, <3>1
  <2>2. CASE a \notin sourceAnchors
    <3>1. \E i \in shown : Anchor(priority, i) = a
      BY <2>2
    <3>2. map[a] = CHOOSE i \in shown : Anchor(priority, i) = a
      BY <2>2
    <3> HIDE DEF shown, map
    <3> QED
      BY <3>1, <3>2
  <2> QED
    BY <2>1, <2>2
<1> HIDE DEF shown, sources, map
<1> QED
  BY <1>1, <1>3, <1>4

LEMMA LastShows ==
    ASSUME DigestsTyped, NEW S \in SUBSET (1..Len(digests))
    PROVE  ShowsWhatIsThere(LastOf(S))
<1>1. CASE S = {}
  BY <1>1 DEF LastOf, NoDigest, ShowsWhatIsThere
<1>2. CASE S # {}
  <2>1. Len(digests) \in Nat
    BY DEF DigestsTyped
  <2>2. \E m \in S : \A t \in S : t <= m
    BY <1>2, <2>1, GreatestExists
  <2>3. \E m \in S : \A t \in S : m >= t
    BY <2>1, <2>2
  <2>4. Max(S) \in S
    BY <2>3 DEF Max
  <2> QED
    BY <1>2, <2>4 DEF LastOf, DigestsTyped
<1> QED
  BY <1>1, <1>2

LEMMA ResolvedShows ==
    ASSUME DigestsTyped, NEW channel, NEW named \in AnyDigest, NEW having \in SUBSET (1..Len(digests)),
           NEW required \in BOOLEAN
    PROVE  ShowsWhatIsThere(Resolve(channel, named, having, required, Preview))
<1>1. ShowsWhatIsThere(NoDigest)
  BY DEF NoDigest, ShowsWhatIsThere
<1>2. ShowsWhatIsThere(Rendered(channel, Preview))
  BY PreviewShows DEF Rendered, ShowsWhatIsThere
<1>3. ShowsWhatIsThere(LatestOn(channel))
  BY LastShows DEF LatestOn
<1>4. ShowsWhatIsThere(LatestHome(having))
  <2> DEFINE S == {n \in having : digests[n].home}
  <2>1. S \in SUBSET (1..Len(digests))
    OBVIOUS
  <2> HIDE DEF S
  <2>2. ShowsWhatIsThere(LastOf(S))
    BY <2>1, LastShows
  <2> QED
    BY <2>2 DEF LatestHome, S
<1>5. named # 0 => ShowsWhatIsThere(digests[named])
  BY DEF AnyDigest, DigestsTyped
<1> QED
  BY <1>1, <1>2, <1>3, <1>4, <1>5 DEF Resolve

LEMMA AnchorsName ==
    ASSUME DigestsTyped, NEW h \in Replying, NEW channel \in Channels, NEW verb, NEW anchor,
           NEW named \in AnyDigest, ReplyAnchor(h, channel, verb, anchor, named, Preview)
    PROVE  /\ RepliesActOnWhatWasShown'
           /\ replier[h].pc = "idle"
           /\ \E i \in Asked : Take(h, ActionOf(verb, KindOf[i]), i)
           /\ UNCHANGED <<day, born, effect, ledger, digests, sender, deliveries, spoken, sent>>
<1> DEFINE having == {n \in 1..Len(digests) : anchor \in DOMAIN digests[n].anchors}
           last == {n \in 1..Len(digests) : digests[n].channel = channel}
<1> PICK d : d = Resolve(channel, named, having, FALSE, Preview)
  OBVIOUS
<1> PICK i : i = d.anchors[anchor]
  OBVIOUS
<1> PICK seen : seen = IF named # 0 THEN digests[named] ELSE IF last = {} THEN d ELSE digests[Max(last)]
  OBVIOUS
<1>1. /\ Answers(h) /\ anchor \in DOMAIN d.anchors
      /\ Take(h, ActionOf(verb, KindOf[i]), i)
      /\ acts' = {[item |-> i, shown |-> IF anchor \in DOMAIN seen.anchors THEN seen.anchors[anchor] ELSE Nothing]}
      /\ UNCHANGED <<day, born, effect, ledger, digests, sender, deliveries, spoken, sent>>
  BY DEF ReplyAnchor
<1>2. ShowsWhatIsThere(d)
  BY ResolvedShows
<1>3. i \in Asked
  BY <1>1, <1>2 DEF ShowsWhatIsThere
<1>4. DOMAIN NoDigest.anchors = {}
  BY DEF NoDigest
<1>5. d = seen \/ seen = NoDigest
  <2>1. CASE named # 0
    BY <2>1, <1>1, <1>4 DEF Resolve
  <2>2. CASE named = 0 /\ last = {}
    BY <2>2
  <2>3. CASE named = 0 /\ last # {}
    <3>1. LatestOn(channel) = digests[Max(last)]
      BY <2>3 DEF LatestOn, LastOf
    <3> QED
      BY <2>3, <3>1 DEF Resolve
  <2> QED
    BY <2>1, <2>2, <2>3
<1>6. (IF anchor \in DOMAIN seen.anchors THEN seen.anchors[anchor] ELSE Nothing) \in {Nothing, i}
  BY <1>4, <1>5
<1>7. RepliesActOnWhatWasShown'
  <2>1. PICK shown : shown = IF anchor \in DOMAIN seen.anchors THEN seen.anchors[anchor] ELSE Nothing
    OBVIOUS
  <2>2. acts' = {[item |-> i, shown |-> shown]} /\ shown \in {Nothing, i}
    BY <1>1, <1>6, <2>1
  <2>3. PICK act : act = [item |-> i, shown |-> shown]
    OBVIOUS
  <2>4. acts' = {act} /\ act.item = i /\ act.shown = shown
    BY <2>2, <2>3
  <2> QED
    BY <2>2, <2>4 DEF RepliesActOnWhatWasShown
<1> QED
  BY <1>1, <1>3, <1>7 DEF Answers

LEMMA TakeTyped ==
    ASSUME OwnerTyped, NEW h \in Replying, NEW i \in Asked, NEW action, Take(h, action, i),
           Suits(action, i)
    PROVE  replier' \in [Replying -> Replies]
<1>1. CASE replier' = replier
  BY <1>1 DEF OwnerTyped
<1>2. CASE /\ action # "none"
           /\ replier' = [replier EXCEPT ![h] = [pc |-> "change", action |-> action, item |-> i]]
  <2>1. [pc |-> "change", action |-> action, item |-> i] \in Replies
    BY <1>2 DEF Replies, Suits
  <2> QED
    BY <1>2, <2>1 DEF OwnerTyped
<1> QED
  BY <1>1, <1>2 DEF Take

ReplierMoves(h) ==
  \/ \E preview \in {Preview}, c \in Channels, named \in AnyDigest : Reply(h, c, named, preview)
  \/ \E works \in BOOLEAN : MakeChange(h, works)
  \/ AppendAction(h) \/ KillReply(h)

LEMMA TakenKeeps ==
    ASSUME OwnerInv, NEW h \in Replying, NEW i \in Asked, NEW action, replier[h].pc = "idle", Take(h, action, i),
           Suits(action, i),
           UNCHANGED <<day, born, effect, ledger, digests, sender, deliveries, spoken, sent>>,
           RepliesActOnWhatWasShown'
    PROVE  OwnerInv'
<1>1. OwnerTyped /\ DigestsTyped /\ RepliesInv /\ DeliveriesInv
  BY DEF OwnerInv
<1>2. replier' \in [Replying -> Replies]
  BY <1>1, TakeTyped
<1>3. OwnerTyped'
  BY <1>1, <1>2 DEF OwnerTyped
<1>4. RepliesInv' /\ disturbed \subseteq disturbed'
  BY <1>1, OwnerTakeKeeps
<1>5. DeliveriesInv'
  BY <1>1, <1>4, DeliveriesQuiet
<1>6. DigestsTyped'
  BY <1>1 DEF DigestsTyped
<1> QED
  BY <1>3, <1>4, <1>5, <1>6 DEF OwnerInv

LEMMA ReplyKeeps ==
    ASSUME OwnerInv, NEW h \in Replying, NEW c \in Channels, NEW named \in AnyDigest, Reply(h, c, named, Preview)
    PROVE  OwnerInv'
<1>1. OwnerTyped /\ DigestsTyped /\ RepliesInv /\ DeliveriesInv /\ RepliesActOnWhatWasShown
  BY DEF OwnerInv
<1>2. ASSUME NEW verb, NEW a, ReplyAnchor(h, c, verb, a, named, Preview) PROVE OwnerInv'
  <2>1. PICK i \in Asked : Take(h, ActionOf(verb, KindOf[i]), i)
    BY <1>1, <1>2, AnchorsName
  <2>2. /\ RepliesActOnWhatWasShown' /\ replier[h].pc = "idle"
        /\ UNCHANGED <<day, born, effect, ledger, digests, sender, deliveries, spoken, sent>>
    BY <1>1, <1>2, AnchorsName
  <2>3. PICK action : action = ActionOf(verb, KindOf[i])
    OBVIOUS
  <2>4. Suits(action, i)
    BY <2>3, SortedActions
  <2> QED
    BY <2>1, <2>2, <2>3, <2>4, TakenKeeps
<1>3. ASSUME NEW i \in Asked, NEW required \in BOOLEAN, NEW action \in TokenActions(KindOf[i]),
             ReplyToken(h, c, action, i, named, required, Preview)
      PROVE OwnerInv'
  <2>1. /\ Take(h, action, i) /\ replier[h].pc = "idle" /\ acts' = acts
        /\ UNCHANGED <<day, born, effect, ledger, digests, sender, deliveries, spoken, sent>>
    BY <1>3 DEF ReplyToken, Answers
  <2>2. RepliesActOnWhatWasShown'
    BY <1>1, <2>1 DEF RepliesActOnWhatWasShown
  <2>3. Suits(action, i)
    BY SortedActions
  <2> QED
    BY <2>1, <2>2, <2>3, TakenKeeps
<1>4. ASSUME NEW i \in Reviewed, NEW required \in BOOLEAN, RawConfirm(h, c, i, required, Preview) PROVE OwnerInv'
  <2>1. /\ effect' = [effect EXCEPT ![i] = "confirm"]
        /\ UNCHANGED <<day, born, ledger, digests, replier, sender, deliveries, spoken, sent, acts, disturbed>>
    BY <1>4 DEF RawConfirm
  <2>2. OwnerTyped'
    BY <1>1, <2>1 DEF OwnerTyped
  <2>3. RepliesInv' /\ DeliveriesInv'
    BY <1>1, <2>1, RepliesQuiet, DeliveriesQuiet
  <2>4. DigestsTyped' /\ RepliesActOnWhatWasShown'
    BY <1>1, <2>1 DEF DigestsTyped, RepliesActOnWhatWasShown
  <2> QED
    BY <2>2, <2>3, <2>4 DEF OwnerInv
<1> QED
  BY <1>2, <1>3, <1>4 DEF Reply, Asked

LEMMA ChangesKeep ==
    ASSUME OwnerInv, NEW h \in Replying,
           (\E works \in BOOLEAN : MakeChange(h, works)) \/ AppendAction(h) \/ KillReply(h)
    PROVE  OwnerInv'
<1>1. OwnerTyped /\ DigestsTyped /\ RepliesInv /\ DeliveriesInv /\ RepliesActOnWhatWasShown
  BY DEF OwnerInv
<1>2. /\ UNCHANGED <<day, born, digests, sender, deliveries, sent, acts>>
      /\ disturbed \subseteq disturbed'
  BY DEF MakeChange, AppendAction, KillReply
<1>3. DeliveriesInv' /\ DigestsTyped' /\ RepliesActOnWhatWasShown'
  BY <1>1, <1>2, DeliveriesQuiet DEF DigestsTyped, RepliesActOnWhatWasShown
<1>4. RepliesInv'
  BY <1>1, ChangeKeeps, AppendKeeps, KillReplyKeeps
<1>5. Idle \in Replies
  BY DEF Replies
<1>6. ASSUME NEW works \in BOOLEAN, MakeChange(h, works)
      PROVE  effect' \in [Reviewed -> {"none", "approve", "reject", "confirm"}] /\ spoken' \in [Reviewed -> Nat]
             /\ replier' \in [Replying -> Replies] /\ ledger' = ledger
  <2>1. PICK r : r = replier[h]
    OBVIOUS
  <2>2. /\ r.pc = "change" /\ r.item \in Asked /\ r.action \in {"feedback", "allow", "approve", "reject", "confirm"}
        /\ r.action = "feedback" => r.item \in Sources
        /\ r.action # "feedback" => r.item \in Reviewed
    BY <1>1, <1>6, <2>1, ReplyTyped DEF MakeChange
  <2>3. /\ effect' = effect \/ (r.item \notin Sources /\ r.action # "allow" /\ effect' = [effect EXCEPT ![r.item] = r.action])
        /\ spoken' = spoken \/ (r.action = "allow" /\ spoken' = [spoken EXCEPT ![r.item] = @ + 1])
        /\ replier' = [replier EXCEPT ![h] = IF works THEN [r EXCEPT !.pc = "append"] ELSE Idle]
        /\ ledger' = ledger
    BY <1>6, <2>1 DEF MakeChange
  <2>4. [r EXCEPT !.pc = "append"] \in Replies
    <3>1. r \in Replies /\ r # Idle
      BY <1>1, <2>1, <2>2 DEF OwnerTyped, Idle
    <3> QED
      BY <3>1 DEF Replies
  <2>5. effect' \in [Reviewed -> {"none", "approve", "reject", "confirm"}]
    BY <1>1, <2>2, <2>3 DEF OwnerTyped
  <2>6. spoken' \in [Reviewed -> Nat]
    BY <1>1, <2>2, <2>3 DEF OwnerTyped
  <2>7. replier' \in [Replying -> Replies]
    BY <1>1, <1>5, <2>3, <2>4 DEF OwnerTyped
  <2> QED
    BY <2>3, <2>5, <2>6, <2>7
<1>7. ASSUME AppendAction(h) PROVE ledger' \in Seq(LedgerLines)
  <2>1. PICK line : line = [item |-> replier[h].item, action |-> replier[h].action]
    OBVIOUS
  <2>2. line \in LedgerLines /\ ledger' = Append(ledger, line)
    BY <1>1, <1>7, <2>1, ReplyTyped DEF AppendAction, LedgerLines
  <2> QED
    BY <1>1, <2>2, LedgerGrows DEF OwnerTyped
<1>8. CASE \E works \in BOOLEAN : MakeChange(h, works)
  BY <1>1, <1>2, <1>6, <1>8, <1>3, <1>4 DEF OwnerTyped, OwnerInv
<1>9. CASE AppendAction(h)
  <2>1. UNCHANGED <<effect, spoken>> /\ replier' = [replier EXCEPT ![h] = Idle]
    BY <1>9 DEF AppendAction
  <2> QED
    BY <1>1, <1>2, <1>3, <1>4, <1>5, <1>7, <1>9, <2>1 DEF OwnerTyped, OwnerInv
<1>10. CASE KillReply(h)
  <2>1. UNCHANGED <<effect, spoken, ledger>> /\ replier' = [replier EXCEPT ![h] = Idle]
    BY <1>10 DEF KillReply
  <2> QED
    BY <1>1, <1>2, <1>3, <1>4, <1>5, <2>1 DEF OwnerTyped, OwnerInv
<1> QED
  BY <1>8, <1>9, <1>10

LEMMA DeliverKeeps ==
    ASSUME OwnerInv, DeliverNext
    PROVE  OwnerInv'
<1>1. OwnerTyped /\ DigestsTyped /\ RepliesInv /\ DeliveriesInv /\ RepliesActOnWhatWasShown
  BY DEF OwnerInv
<1>2. UNCHANGED <<day, born, effect, spoken, ledger, replier, digests, acts>>
  BY DEF DeliverNext, StartDelivery, SendDigest, RecordDelivery, KillDelivery
<1>3. DeliveriesInv' /\ disturbed \subseteq disturbed'
  <2>1. ASSUME NEW s \in Sending, NEW works \in BOOLEAN, SendDigest(s, works)
        PROVE  disturbed' = disturbed
    BY <2>1 DEF SendDigest
  <2> QED
    BY <1>1, <2>1, StartDeliveryKeeps, SendKeeps, EndDeliveryKeeps DEF DeliverNext
<1>4. RepliesInv'
  BY <1>1, <1>2, <1>3, RepliesQuiet
<1>5. /\ sender' \in [Sending -> {NotSending} \cup [pc : {"send", "record"}, key : DeliveryKeys]]
      /\ sent' \in [DeliveryKeys -> Nat] /\ deliveries' \subseteq DeliveryKeys
  <2> USE <1>1 DEF OwnerTyped
  <2>1. ASSUME NEW s \in Sending, NEW key \in DeliveryKeys, NEW open \in BOOLEAN, StartDelivery(s, key, open)
        PROVE  <1>5!:
    BY <2>1 DEF StartDelivery
  <2>2. ASSUME NEW s \in Sending, NEW works \in BOOLEAN, SendDigest(s, works)
        PROVE  <1>5!:
    <3>1. PICK key \in DeliveryKeys : key = sender[s].key /\ sender[s] = [pc |-> "send", key |-> key]
      BY <2>2, SenderTyped DEF SendDigest
    <3>2. sender' = [sender EXCEPT ![s] = [pc |-> "record", key |-> key]]
      <4>1. sender' = [sender EXCEPT ![s].pc = "record"]
        BY <2>2 DEF SendDigest
      <4>2. [sender[s] EXCEPT !.pc = "record"] = [pc |-> "record", key |-> key]
        BY <3>1
      <4> QED
        BY <4>1, <4>2
    <3>3. sent' = [sent EXCEPT ![key] = @ + (IF works THEN 1 ELSE 0)] /\ deliveries' = deliveries
      BY <2>2, <3>1 DEF SendDigest
    <3> QED
      BY <3>2, <3>3
  <2>3. ASSUME NEW s \in Sending, RecordDelivery(s)
        PROVE  <1>5!:
    BY <2>3, SenderTyped DEF RecordDelivery
  <2>4. ASSUME NEW s \in Sending, KillDelivery(s)
        PROVE  <1>5!:
    BY <2>4 DEF KillDelivery
  <2> QED
    BY <2>1, <2>2, <2>3, <2>4 DEF DeliverNext
<1>6. OwnerTyped'
  BY <1>1, <1>2, <1>5 DEF OwnerTyped
<1>7. DigestsTyped' /\ RepliesActOnWhatWasShown'
  BY <1>1, <1>2 DEF DigestsTyped, RepliesActOnWhatWasShown
<1> QED
  BY <1>3, <1>4, <1>6, <1>7 DEF OwnerInv

LEMMA RecordKeepsDigests ==
    ASSUME DigestsTyped, NEW channel \in Channels, RecordDigest(channel)
    PROVE  DigestsTyped'
<1> PICK d : d = Rendered(channel, Preview)
  OBVIOUS
<1>1. ShowsWhatIsThere(d)
  BY PreviewShows DEF Rendered, ShowsWhatIsThere
<1>2. digests' = Append(digests, d)
  BY DEF RecordDigest
<1>3. PICK S : S = {digests[n] : n \in DOMAIN digests}
  OBVIOUS
<1>4. digests \in Seq(S)
  BY <1>3 DEF DigestsTyped
<1>5. /\ Len(digests) \in Nat /\ Len(digests') = Len(digests) + 1 /\ digests'[Len(digests) + 1] = d
      /\ \A n \in 1..Len(digests) : digests'[n] = digests[n]
      /\ DOMAIN digests' = 1..Len(digests') /\ digests' \in Seq(S \cup {d})
  BY <1>2, <1>4
<1>6. digests' \in Seq({digests'[n] : n \in DOMAIN digests'})
  <2>1. PICK T : T = {digests'[n] : n \in DOMAIN digests'}
    OBVIOUS
  <2>2. digests' \in [1..Len(digests') -> T] /\ Len(digests') \in Nat
    BY <1>5, <2>1
  <2> QED
    BY <2>1, <2>2
<1>7. \A n \in 1..Len(digests') : ShowsWhatIsThere(digests'[n])
  BY <1>1, <1>5 DEF DigestsTyped
<1> QED
  BY <1>6, <1>7 DEF DigestsTyped, ShowsWhatIsThere

LEMMA OwnerInvNext == OwnerInv /\ [OwnerDigestNext]_digestVars => OwnerInv'
<1> SUFFICES ASSUME OwnerInv, [OwnerDigestNext]_digestVars PROVE OwnerInv'
  OBVIOUS
<1>1. OwnerTyped /\ DigestsTyped /\ RepliesInv /\ DeliveriesInv /\ RepliesActOnWhatWasShown
  BY DEF OwnerInv
<1>2. ASSUME UNCHANGED <<effect, ledger, replier, sender, deliveries, spoken, sent, acts, disturbed>>,
             day' \in 0..MaxDay, born' \in [Reviewed -> {Never, Unknown} \cup 0..MaxDay], DigestsTyped'
      PROVE  OwnerInv'
  <2>1. OwnerTyped'
    BY <1>1, <1>2 DEF OwnerTyped
  <2>2. RepliesInv' /\ DeliveriesInv'
    BY <1>1, <1>2, RepliesQuiet, DeliveriesQuiet
  <2> QED
    BY <1>1, <1>2, <2>1, <2>2 DEF OwnerInv, RepliesActOnWhatWasShown
<1>3. CASE UNCHANGED digestVars
  BY <1>1, <1>2, <1>3 DEF digestVars, OwnerTyped, DigestsTyped
<1>4. CASE NextDay
  BY <1>1, <1>2, <1>4, OwnerDigestAssumption DEF NextDay, OwnerTyped, DigestsTyped
<1>5. ASSUME NEW i \in Reviewed, Arrive(i) PROVE OwnerInv'
  <2>1. born' \in [Reviewed -> {Never, Unknown} \cup 0..MaxDay]
    BY <1>1, <1>5 DEF Arrive, OwnerTyped
  <2> QED
    BY <1>1, <1>2, <1>5, <2>1 DEF Arrive, OwnerTyped, DigestsTyped
<1>6. ASSUME NEW c \in Channels, RecordDigest(c) PROVE OwnerInv'
  BY <1>1, <1>2, <1>6, RecordKeepsDigests DEF RecordDigest, OwnerTyped
<1>7. CASE ReplyNext
  BY <1>7, ReplyKeeps, ChangesKeep DEF ReplyNext
<1>8. CASE DeliverNext
  BY <1>8, DeliverKeeps
<1> QED
  BY <1>3, <1>4, <1>5, <1>6, <1>7, <1>8 DEF OwnerDigestNext

LEMMA OwnerInvHolds == OwnerDigestSpec => []OwnerInv
BY OwnerInvInit, OwnerInvNext, PTL DEF OwnerDigestSpec

\* The owner review is typed in every reachable state, the actions in hand among it.
THEOREM DigestsTypeCorrect == OwnerDigestSpec => []OwnerDigestTypeOK
<1>1. OwnerInv => OwnerDigestTypeOK
  <2> SUFFICES ASSUME OwnerTyped, DigestsTyped PROVE OwnerDigestTypeOK
    BY DEF OwnerInv
  <2>1. \A n \in 1..Len(ledger) : ledger[n].item \in Reviewed \cup Sources
    <3>1. \A n \in 1..Len(ledger) : ledger[n] \in LedgerLines
      BY DEF OwnerTyped
    <3> QED
      BY <3>1 DEF LedgerLines, Asked
  <2>2. \A n \in 1..Len(digests) : digests[n].items \subseteq Reviewed \cup Sources
    BY DEF DigestsTyped, ShowsWhatIsThere, Asked
  <2> QED
    BY <2>1, <2>2, ReplyTyped, SenderTyped DEF OwnerTyped, OwnerDigestTypeOK
<1> QED
  BY <1>1, OwnerInvHolds, PTL

\* apply_owner_action and deliver_owner_review_digest_once: a reply acts on what its digest
\* showed, a decision is applied and its message sent once, and a digest is sent once under
\* a key, unless two processes crossed or one was killed.
THEOREM DigestsAreAlwaysAnswered == OwnerDigestSpec => []DigestsAreAnswered
<1>1. OwnerInv => DigestsAreAnswered
  BY DEF OwnerInv, RepliesInv, DeliveriesInv, LedgerOnce, SpokenOnce, Spoilt, DigestsAreAnswered,
         DecisionsAreAppliedOnce
<1> QED
  BY <1>1, OwnerInvHolds, PTL

-----------------------------------------------------------------------------
(* The session provider, for any processes, topics, sizes and bounds.        *)

ObjectStates == {"off", "idle", "turn", "joining", "draining", "closed"}

AnchorLines == [status : {"none", "active", "superseded", "completed", "cancelled"}, anchor : Anchors]

Objects == [pc : ObjectStates, anchor : Anchors, switches : 0..1, only : BOOLEAN, text : Texts, id : Nat,
            write : AnchorLines]

Threads == [queue : Seq(Nat), unfinished : Nat, busy : Nat, worker : {"none", "alive", "ended"}, stop : BOOLEAN]

ProviderTyped ==
  /\ provider \in [Providers -> Objects] /\ outbox \in [Providers -> Threads]
  /\ anchorFile \in [last : AnchorLines, active : BOOLEAN] /\ deferredFile \in Anchors
  /\ events \in Seq(Nat) /\ turns \in 0..MaxTurns /\ inits \in 0..MaxInits
  /\ \A p \in Providers : Len(outbox[p].queue) <= QueueSize

\* The line that is about to be written says what the provider works under ...
WriteFits(s) ==
  \/ s.write.status = "active" /\ s.write.anchor = s.anchor
  \/ s.write.status = "completed" /\ s.anchor.form = "none"
  \/ s.write.status = "cancelled" /\ s.anchor.form = "cancelled"

WritesFit == \A p \in Providers : ~Steady(p) => WriteFits(provider[p])

\* ... and the last line what its writer works under, in whatever state it is.
LastLineFits ==
  \A p \in Providers :
    Steady(p) /\ lastWriter = p /\ provider[p].anchor.form \notin {"none", "cancelled"}
      => Recovered = provider[p].anchor

InTheHand(p) == IF outbox[p].busy = 0 THEN 0 ELSE 1

\* unfinished counts the queue and the hand of the thread, or one less after the queue was
\* replaced under it.
Counted ==
  \A p \in Providers :
    /\ outbox[p].unfinished <= Len(outbox[p].queue) + InTheHand(p)
    /\ Len(outbox[p].queue) + InTheHand(p) <= outbox[p].unfinished + 1
    /\ ~Works(p) => outbox[p].busy = 0 /\ outbox[p].unfinished = Len(outbox[p].queue)

ClosedIsEmpty ==
  \A p \in Providers :
    /\ provider[p].pc = "draining" => ~Works(p)
    /\ provider[p].pc = "closed" => ~Works(p) /\ Len(outbox[p].queue) = 0

In(seq) == {seq[i] : i \in 1..Len(seq)}

Queued(p) == In(outbox[p].queue)
Held(p) == Queued(p) \cup ({outbox[p].busy} \ {0})
Stored == In(events)

NoRepeats(seq) == \A i, j \in 1..Len(seq) : seq[i] = seq[j] => i = j

InTurn(p) == provider[p].pc = "turn"

\* An event is in one place: a turn, a queue, the hand of a thread or the store.
Places ==
  /\ NoRepeats(events) /\ Stored \subseteq 1..turns
  /\ \A p \in Providers :
       /\ NoRepeats(outbox[p].queue) /\ outbox[p].busy \notin Queued(p)
       /\ Held(p) \subseteq 1..turns /\ Held(p) \cap Stored = {}
       /\ InTurn(p) => provider[p].id \in 1..turns /\ provider[p].id \notin Stored
  /\ \A p, q \in Providers :
       /\ p # q => Held(p) \cap Held(q) = {}
       /\ InTurn(p) => provider[p].id \notin Held(q)
       /\ p # q /\ InTurn(p) /\ InTurn(q) => provider[p].id # provider[q].id

AcceptedAreThere ==
  \A e \in accepted \ excused : e \in Stored \/ \E p \in Providers : e \in Held(p)

ProviderInv ==
  ProviderTyped /\ WritesFit /\ LastLineFits /\ Counted /\ ClosedIsEmpty /\ Places /\ AcceptedAreThere

LEMMA NoAnchorTyped == NoAnchor \in Anchors /\ NoWrite \in AnchorLines
BY DEF NoAnchor, NoWrite, Anchors, Forms, AnchorLines

LEMMA NewTyped == NewObject \in Objects /\ NoThread \in Threads
<1>1. Small \in Texts
  BY DEF Texts
<1> HIDE DEF NoWrite, NoAnchor
<1> QED
  BY <1>1, NoAnchorTyped DEF NewObject, NoThread, Objects, Threads, ObjectStates

LEMMA NewFields ==
  /\ NewObject.pc = "off" /\ NewObject.anchor = NoAnchor /\ NewObject.write = NoWrite
  /\ NoThread.queue = <<>> /\ NoThread.unfinished = 0 /\ NoThread.busy = 0 /\ NoThread.worker = "none"
BY DEF NewObject, NoThread

LEMMA ProviderInvInit == ProviderInit => ProviderInv
<1> SUFFICES ASSUME ProviderInit PROVE ProviderInv
  OBVIOUS
<1>1. \A p \in Providers : provider[p] = NewObject /\ outbox[p] = NoThread
  BY DEF ProviderInit
<1>2. provider \in [Providers -> Objects] /\ outbox \in [Providers -> Threads]
  BY NewTyped DEF ProviderInit
<1>3. /\ events = <<>> /\ turns = 0 /\ inits = 0 /\ deferredFile = NoAnchor /\ accepted = {}
      /\ anchorFile = [last |-> NoWrite, active |-> FALSE]
  BY DEF ProviderInit
<1>31. \A p \in Providers : Len(outbox[p].queue) = 0
  BY <1>1, NewFields
<1>4. ProviderTyped
  <2>1. anchorFile \in [last : AnchorLines, active : BOOLEAN]
    BY <1>3, NoAnchorTyped
  <2> QED
    BY <1>2, <1>3, <1>31, <2>1, NoAnchorTyped, ProviderAssumption DEF ProviderTyped
<1>5. WritesFit /\ LastLineFits
  <2>1. NoAnchor.form = "none"
    BY DEF NoAnchor
  <2> QED
    BY <1>1, <2>1, NewFields DEF WritesFit, LastLineFits, Steady
<1>6. Counted /\ ClosedIsEmpty
  <2>1. \A p \in Providers : /\ outbox[p].unfinished = 0 /\ outbox[p].busy = 0 /\ ~Works(p)
                             /\ provider[p].pc = "off" /\ InTheHand(p) = 0
    BY <1>1, NewFields DEF Works, InTheHand
  <2> QED
    BY <1>31, <2>1 DEF Counted, ClosedIsEmpty
<1>7. \A p \in Providers : Queued(p) = {} /\ Held(p) = {} /\ ~InTurn(p) /\ NoRepeats(outbox[p].queue)
  BY <1>1, <1>31, NewFields DEF Queued, Held, InTurn, NoRepeats, In
<1>8. Stored = {} /\ NoRepeats(events)
  BY <1>3 DEF Stored, NoRepeats, In
<1>9. Places /\ AcceptedAreThere
  BY <1>3, <1>7, <1>8 DEF Places, AcceptedAreThere
<1> QED
  BY <1>4, <1>5, <1>6, <1>9 DEF ProviderInv

LEMMA PlacesMove ==
    ASSUME Places, NEW p \in Providers, turns \in Nat, turns' \in Nat, turns <= turns',
           \A q \in Providers : q # p => outbox'[q] = outbox[q] /\ provider'[q] = provider[q],
           NoRepeats(outbox'[p].queue), outbox'[p].busy \notin Queued(p)', NoRepeats(events'),
           Held(p)' \cap Stored' = {}, Stored' \subseteq Stored \cup Held(p),
           \A e \in Held(p)' : e \in Held(p) \/ (e = provider[p].id /\ InTurn(p) /\ provider'[p].pc # "turn"),
           provider'[p].pc = "turn" =>
             \/ InTurn(p) /\ provider'[p].id = provider[p].id
             \/ provider'[p].id = turns + 1 /\ turns + 1 <= turns'
    PROVE  Places'
<1>1. \A q \in Providers : q # p => /\ Queued(q)' = Queued(q) /\ Held(q)' = Held(q)
                                    /\ InTurn(q)' = InTurn(q) /\ provider'[q].id = provider[q].id
  BY DEF Queued, Held, InTurn
<1>2. InTurn(p)' <=> provider'[p].pc = "turn"
  BY DEF InTurn
<1>3. Stored' \subseteq 1..turns'
  BY DEF Places
<1>4. \A q \in Providers : Held(q)' \subseteq 1..turns'
  BY <1>1 DEF Places
<1>5. \A q \in Providers : Held(q)' \cap Stored' = {}
  BY <1>1 DEF Places
<1>6. \A q \in Providers : InTurn(q)' => provider'[q].id \in 1..turns' /\ provider'[q].id \notin Stored'
  <2>1. ASSUME NEW q \in Providers, q # p, InTurn(q)'
        PROVE  provider'[q].id \in 1..turns' /\ provider'[q].id \notin Stored'
    BY <1>1, <2>1 DEF Places
  <2>2. ASSUME InTurn(p)'
        PROVE  provider'[p].id \in 1..turns' /\ provider'[p].id \notin Stored'
    <3>1. CASE InTurn(p) /\ provider'[p].id = provider[p].id
      BY <3>1 DEF Places
    <3>2. CASE provider'[p].id = turns + 1 /\ turns + 1 <= turns'
      BY <3>2 DEF Places
    <3> QED
      BY <1>2, <2>2, <3>1, <3>2
  <2> QED
    BY <2>1, <2>2
<1>7. \A q, r \in Providers : q # r => Held(q)' \cap Held(r)' = {}
  <2>1. ASSUME NEW q \in Providers, q # p PROVE Held(p)' \cap Held(q)' = {}
    BY <1>1, <2>1 DEF Places
  <2> QED
    BY <1>1, <2>1 DEF Places
<1>8. \A q, r \in Providers : InTurn(q)' => provider'[q].id \notin Held(r)'
  <2>1. ASSUME NEW q \in Providers, NEW r \in Providers, q # p, InTurn(q)' PROVE provider'[q].id \notin Held(r)'
    BY <1>1, <2>1 DEF Places
  <2>2. ASSUME NEW r \in Providers, InTurn(p)' PROVE provider'[p].id \notin Held(r)'
    <3>1. Held(r)' \subseteq Held(r)
      BY <1>1, <1>2, <2>2
    <3>2. CASE InTurn(p) /\ provider'[p].id = provider[p].id
      BY <3>1, <3>2 DEF Places
    <3>3. CASE provider'[p].id = turns + 1
      BY <3>1, <3>3 DEF Places
    <3> QED
      BY <1>2, <2>2, <3>2, <3>3
  <2> QED
    BY <2>1, <2>2
<1>9. \A q, r \in Providers : q # r /\ InTurn(q)' /\ InTurn(r)' => provider'[q].id # provider'[r].id
  <2>1. ASSUME NEW q \in Providers, q # p, InTurn(q)', InTurn(p)' PROVE provider'[q].id # provider'[p].id
    <3>1. InTurn(q) /\ provider'[q].id = provider[q].id /\ provider[q].id \in 1..turns
      BY <1>1, <2>1 DEF Places
    <3>2. CASE InTurn(p) /\ provider'[p].id = provider[p].id
      BY <3>1, <3>2, <2>1 DEF Places
    <3>3. CASE provider'[p].id = turns + 1
      BY <3>1, <3>3
    <3> QED
      BY <1>2, <2>1, <3>2, <3>3
  <2> QED
    BY <1>1, <2>1 DEF Places
<1>10. \A q \in Providers : NoRepeats(outbox'[q].queue) /\ outbox'[q].busy \notin Queued(q)'
  BY <1>1 DEF Places
<1> QED
  BY <1>3, <1>4, <1>5, <1>6, <1>7, <1>8, <1>9, <1>10 DEF Places, NoRepeats

LEMMA AcceptedMove ==
    ASSUME AcceptedAreThere, NEW p \in Providers,
           \A q \in Providers : q # p => outbox'[q] = outbox[q],
           excused \subseteq excused', Stored \subseteq Stored',
           \A e \in accepted' : e \in accepted \/ e \in Held(p)',
           \A e \in Held(p) : e \in Held(p)' \/ e \in Stored' \/ e \in excused'
    PROVE  AcceptedAreThere'
<1>1. \A q \in Providers : q # p => Held(q)' = Held(q)
  BY DEF Queued, Held
<1> SUFFICES ASSUME NEW e \in accepted', e \notin excused'
             PROVE  e \in Stored' \/ \E q \in Providers : e \in Held(q)'
  BY DEF AcceptedAreThere
<1>2. CASE e \in Held(p)'
  BY <1>2
<1>3. CASE e \in accepted
  <2>1. e \in Stored \/ \E q \in Providers : e \in Held(q)
    BY <1>3 DEF AcceptedAreThere
  <2> QED
    BY <2>1, <1>1
<1> QED
  BY <1>2, <1>3

LEMMA LinesMove ==
    ASSUME WritesFit, LastLineFits, NEW p \in Providers, UNCHANGED <<anchorFile, lastWriter>>,
           \A q \in Providers : q # p => provider'[q] = provider[q],
           \/ provider'[p].write # NoWrite /\ WriteFits(provider'[p])
           \/ provider'[p].write = NoWrite /\ provider'[p].anchor.form = "none"
           \/ provider'[p].write = NoWrite /\ provider'[p].anchor = Recovered
           \/ provider'[p].write = provider[p].write /\ provider'[p].anchor = provider[p].anchor
    PROVE  WritesFit' /\ LastLineFits'
<1>1. \A q \in Providers : q # p => Steady(q)' = Steady(q)
  BY DEF Steady
<1>2. Steady(p)' <=> provider'[p].write = NoWrite
  BY DEF Steady
<1>3. Recovered' = Recovered
  BY DEF Recovered
<1>4. WritesFit'
  <2>1. ASSUME provider'[p].write # NoWrite PROVE WriteFits(provider'[p])
    BY <2>1 DEF WritesFit, Steady, WriteFits
  <2> QED
    BY <1>1, <1>2, <2>1 DEF WritesFit, WriteFits
<1>5. LastLineFits'
  <2>1. ASSUME provider'[p].write = NoWrite, lastWriter = p, provider'[p].anchor.form \notin {"none", "cancelled"}
        PROVE  Recovered = provider'[p].anchor
    <3>1. CASE provider'[p].write = provider[p].write /\ provider'[p].anchor = provider[p].anchor
      BY <2>1, <3>1 DEF LastLineFits, Steady
    <3> QED
      BY <2>1, <3>1
  <2> QED
    BY <1>1, <1>2, <1>3, <2>1 DEF LastLineFits
<1> QED
  BY <1>4, <1>5

\* What a turn makes of the anchor: a line that fits it, none and the same, or none at all.
RefreshFits(s, t) ==
  \/ t.write # NoWrite /\ WriteFits(t)
  \/ t.write = NoWrite /\ t.anchor.form = "none"
  \/ t.write = NoWrite /\ t.anchor = s.anchor

LEMMA AnchoredIs ==
    ASSUME NEW s \in Objects, NEW a \in Anchors, NEW status \in {"active", "completed", "cancelled"},
           NEW only \in BOOLEAN
    PROVE  /\ Anchored(s, a, status, only) \in Objects
           /\ Anchored(s, a, status, only).anchor = a
           /\ status = "active" \/ (status = "cancelled" /\ a.form = "cancelled")
                => WriteFits(Anchored(s, a, status, only))
           /\ Anchored(s, a, status, only).write # NoWrite
           /\ Anchored(s, a, status, only).pc = s.pc /\ Anchored(s, a, status, only).id = s.id
<1> DEFINE w == Writes(status, a)
<1>1. w.status = status /\ w.anchor = a /\ w \in AnchorLines /\ w # NoWrite
  BY DEF Writes, AnchorLines, NoWrite
<1> HIDE DEF w
<1>2. Anchored(s, a, status, only) = [s EXCEPT !.anchor = a, !.only = only, !.write = w]
  BY DEF Anchored, w
<1>3. PICK t : t = [s EXCEPT !.anchor = a, !.only = only, !.write = w]
  OBVIOUS
<1>4. t \in Objects /\ t.anchor = a /\ t.write = w /\ t.pc = s.pc /\ t.id = s.id
  BY <1>1, <1>3 DEF Objects
<1>5. status = "active" \/ (status = "cancelled" /\ a.form = "cancelled") => WriteFits(t)
  BY <1>1, <1>4 DEF WriteFits
<1> QED
  BY <1>1, <1>2, <1>3, <1>4, <1>5

LEMMA AnchorsMade ==
    ASSUME NEW a \in Anchors, NEW task \in Texts, NEW ops \in SUBSET Texts
    PROVE  /\ TaskAnchor(task, ops) \in Anchors
           /\ DeferredAnchor(a) \in Anchors /\ CancelledAnchor(a) \in Anchors /\ ResumedAnchor(a) \in Anchors
           /\ AmbiguousAnchor \in Anchors /\ CancelledAnchor(a).form = "cancelled" /\ NoAnchor.form = "none"
           /\ a.ops \subseteq Texts
BY DEF TaskAnchor, DeferredAnchor, CancelledAnchor, ResumedAnchor, AmbiguousAnchor, NoAnchor, Anchors, Forms

LEMMA ClearedFits ==
    ASSUME NEW s \in Objects
    PROVE  Cleared(s) \in Objects /\ RefreshFits(s, Cleared(s))
<1> DEFINE w == IF s.anchor = NoAnchor THEN NoWrite ELSE Writes("completed", s.anchor)
<1>1. w \in AnchorLines /\ (w # NoWrite => w.status = "completed")
  BY NoAnchorTyped DEF Objects, Writes, AnchorLines
<1> HIDE DEF w
<1>2. PICK off \in BOOLEAN : off = FALSE
  OBVIOUS
<1>3. PICK s1 : s1 = [s EXCEPT !.anchor = NoAnchor]
  OBVIOUS
<1>4. PICK s2 : s2 = [s1 EXCEPT !.switches = 0]
  OBVIOUS
<1>5. PICK s3 : s3 = [s2 EXCEPT !.only = off]
  OBVIOUS
<1>6. PICK t : t = [s3 EXCEPT !.write = w]
  OBVIOUS
<1>7. Cleared(s) = t
  BY <1>2, <1>3, <1>4, <1>5, <1>6 DEF Cleared, w
<1>8. s1 \in Objects /\ s1.anchor = NoAnchor
  BY <1>3, NoAnchorTyped DEF Objects
<1>9. s2 \in Objects /\ s2.anchor = NoAnchor
  BY <1>4, <1>8 DEF Objects
<1>10. s3 \in Objects /\ s3.anchor = NoAnchor
  BY <1>5, <1>9 DEF Objects
<1>11. t \in Objects /\ t.anchor = NoAnchor /\ t.write = w
  BY <1>1, <1>6, <1>10 DEF Objects
<1>12. NoAnchor.form = "none"
  BY DEF NoAnchor
<1>13. RefreshFits(s, t)
  BY <1>1, <1>11, <1>12 DEF RefreshFits, WriteFits
<1> QED
  BY <1>7, <1>11, <1>13

LEMMA RefreshedFits ==
    ASSUME NEW s \in Objects, s.write = NoWrite, deferredFile \in Anchors, NEW intent, NEW text \in Texts
    PROVE  Refreshed(s, intent, text) \in Objects /\ RefreshFits(s, Refreshed(s, intent, text))
<1>0. s.anchor \in Anchors /\ s.only \in BOOLEAN /\ Small \in Texts /\ s.anchor.ops \subseteq Texts
  BY AnchorsMade DEF Objects, Texts
<1>1. Deferred(s) \in Objects /\ RefreshFits(s, Deferred(s))
  <2>1. PICK a \in Anchors : a = DeferredAnchor(s.anchor)
    BY <1>0, AnchorsMade
  <2>2. PICK on \in BOOLEAN : on = TRUE
    OBVIOUS
  <2>3. Deferred(s) = Anchored(s, a, "active", on)
    BY <2>1, <2>2 DEF Deferred
  <2>4. Anchored(s, a, "active", on) \in Objects /\ RefreshFits(s, Anchored(s, a, "active", on))
    BY AnchoredIs DEF RefreshFits
  <2> QED
    BY <2>3, <2>4
<1>2. Resumed(s) \in Objects /\ RefreshFits(s, Resumed(s))
  <2>1. PICK a \in Anchors : a = IF deferredFile = NoAnchor THEN AmbiguousAnchor ELSE ResumedAnchor(deferredFile)
    BY <1>0, AnchorsMade
  <2>2. PICK on \in BOOLEAN : on = TRUE
    OBVIOUS
  <2>3. Resumed(s) = Anchored(s, a, "active", on)
    BY <2>1, <2>2 DEF Resumed
  <2>4. Anchored(s, a, "active", on) \in Objects /\ RefreshFits(s, Anchored(s, a, "active", on))
    BY AnchoredIs DEF RefreshFits
  <2> QED
    BY <2>3, <2>4
<1>3. /\ Anchored(s, CancelledAnchor(s.anchor), "cancelled", TRUE) \in Objects
      /\ RefreshFits(s, Anchored(s, CancelledAnchor(s.anchor), "cancelled", TRUE))
  <2>1. PICK a \in Anchors : a = CancelledAnchor(s.anchor) /\ a.form = "cancelled"
    BY <1>0, AnchorsMade
  <2>2. PICK on \in BOOLEAN : on = TRUE
    OBVIOUS
  <2>3. Anchored(s, a, "cancelled", on) \in Objects /\ RefreshFits(s, Anchored(s, a, "cancelled", on))
    BY <2>1, AnchoredIs, ZenonT(60) DEF RefreshFits
  <2> QED
    BY <2>1, <2>2, <2>3
<1>4. [s EXCEPT !.only = TRUE] \in Objects /\ RefreshFits(s, [s EXCEPT !.only = TRUE])
  <2>1. PICK on \in BOOLEAN : on = TRUE
    OBVIOUS
  <2>2. PICK t : t = [s EXCEPT !.only = on]
    OBVIOUS
  <2>3. t \in Objects /\ t.write = s.write /\ t.anchor = s.anchor
    BY <2>2 DEF Objects
  <2>4. RefreshFits(s, t)
    BY <2>3 DEF RefreshFits
  <2> QED
    BY <2>1, <2>2, <2>3, <2>4
<1>5. Followed(s, text) \in Objects /\ RefreshFits(s, Followed(s, text))
  <2>1. PICK off \in BOOLEAN : off = FALSE
    OBVIOUS
  <2>2. ASSUME s.switches + 1 < 2
        PROVE  /\ [s EXCEPT !.switches = @ + 1, !.only = FALSE] \in Objects
               /\ RefreshFits(s, [s EXCEPT !.switches = @ + 1, !.only = FALSE])
    <3>1. PICK n \in 0..1 : n = s.switches + 1
      BY <2>2 DEF Objects
    <3>2. PICK s1 : s1 = [s EXCEPT !.switches = n]
      OBVIOUS
    <3>3. PICK s2 : s2 = [s1 EXCEPT !.only = off]
      OBVIOUS
    <3>4. [s EXCEPT !.switches = @ + 1, !.only = FALSE] = s2
      BY <2>1, <3>1, <3>2, <3>3
    <3>5. s1 \in Objects /\ s1.write = s.write /\ s1.anchor = s.anchor
      BY <3>2 DEF Objects
    <3>6. s2 \in Objects /\ s2.write = s.write /\ s2.anchor = s.anchor
      BY <3>3, <3>5 DEF Objects
    <3>7. RefreshFits(s, s2)
      BY <3>6 DEF RefreshFits
    <3> QED
      BY <3>4, <3>6, <3>7
  <2>3. PICK t : t = [s EXCEPT !.switches = 0]
    OBVIOUS
  <2>31. t \in Objects /\ t.write = s.write /\ t.anchor = s.anchor
    BY <2>3 DEF Objects
  <2>4. PICK a \in Anchors : a = TaskAnchor(text, s.anchor.ops)
    BY <1>0, AnchorsMade
  <2>5. Anchored(t, a, "active", off) \in Objects /\ RefreshFits(s, Anchored(t, a, "active", off))
    BY <2>31, AnchoredIs DEF RefreshFits
  <2>6. RefreshFits(s, t)
    BY <2>31 DEF RefreshFits
  <2>7. CASE IsTopicSwitch(s.anchor, text)
    <3>1. CASE s.switches + 1 >= 2
      <4>1. Followed(s, text) = Cleared(s)
        BY <2>7, <3>1 DEF Followed
      <4> QED
        BY <4>1, ClearedFits
    <3>2. CASE ~(s.switches + 1 >= 2)
      <4>1. s.switches + 1 < 2
        BY <3>2 DEF Objects
      <4>2. Followed(s, text) = [s EXCEPT !.switches = @ + 1, !.only = FALSE]
        BY <2>7, <3>2 DEF Followed
      <4> QED
        BY <4>1, <4>2, <2>2
    <3> QED
      BY <3>1, <3>2
  <2>8. CASE ~IsTopicSwitch(s.anchor, text)
    <3>1. Followed(s, text) = t \/ Followed(s, text) = Anchored(t, a, "active", off)
      BY <2>1, <2>3, <2>4, <2>8 DEF Followed
    <3> QED
      BY <3>1, <2>31, <2>5, <2>6
  <2> QED
    BY <2>7, <2>8
<1> QED
  BY <1>1, <1>2, <1>3, <1>4, <1>5, ClearedFits DEF Refreshed

LEMMA ProviderParts ==
    ASSUME ProviderInv
    PROVE  /\ ProviderTyped /\ WritesFit /\ LastLineFits /\ Counted /\ ClosedIsEmpty /\ Places
           /\ AcceptedAreThere /\ turns \in Nat /\ MaxTurns \in Nat
           /\ \A p \in Providers : provider[p] \in Objects /\ outbox[p] \in Threads
BY ProviderAssumption DEF ProviderInv, ProviderTyped

LEMMA ThreadFields ==
    ASSUME NEW o \in Threads
    PROVE  /\ o.queue \in Seq(Nat) /\ Len(o.queue) \in Nat /\ o.unfinished \in Nat /\ o.busy \in Nat
           /\ o.worker \in {"none", "alive", "ended"}
BY DEF Threads

LEMMA BoxSame ==
    ASSUME UNCHANGED <<outbox, events>>
    PROVE  /\ \A q \in Providers : /\ Queued(q)' = Queued(q) /\ Held(q)' = Held(q) /\ Works(q)' = Works(q)
                                    /\ InTheHand(q)' = InTheHand(q)
           /\ Stored' = Stored
BY DEF Queued, Held, Works, InTheHand, Stored

\* Who keeps the queue and the thread as they are, in a turn of its own or after one.
LEMMA BoxKept ==
    ASSUME ProviderInv, NEW p \in Providers, UNCHANGED <<outbox, events, accepted, excused>>,
           turns' \in Nat, turns <= turns',
           \A q \in Providers : q # p => provider'[q] = provider[q],
           provider'[p].pc = "turn" => \/ InTurn(p) /\ provider'[p].id = provider[p].id
                                       \/ provider'[p].id = turns + 1 /\ turns + 1 <= turns',
           provider'[p].pc = "draining" => ~Works(p),
           provider'[p].pc = "closed" => ~Works(p) /\ Len(outbox[p].queue) = 0
    PROVE  Counted' /\ ClosedIsEmpty' /\ Places' /\ AcceptedAreThere'
<1>1. /\ \A q \in Providers : /\ Queued(q)' = Queued(q) /\ Held(q)' = Held(q) /\ Works(q)' = Works(q)
                               /\ InTheHand(q)' = InTheHand(q)
      /\ Stored' = Stored
  BY BoxSame
<1>2. Counted /\ ClosedIsEmpty /\ Places /\ AcceptedAreThere /\ turns \in Nat
  BY ProviderParts
<1>3. Counted'
  BY <1>1, <1>2 DEF Counted
<1>4. ClosedIsEmpty'
  BY <1>1, <1>2 DEF ClosedIsEmpty
<1>5. Places'
  <2>1. NoRepeats(outbox'[p].queue) /\ outbox'[p].busy \notin Queued(p)' /\ NoRepeats(events')
    BY <1>1, <1>2 DEF Places
  <2>2. Held(p)' \cap Stored' = {} /\ Stored' \subseteq Stored \cup Held(p)
    BY <1>1, <1>2 DEF Places
  <2>3. \A e \in Held(p)' : e \in Held(p)
    BY <1>1
  <2>4. \A q \in Providers : q # p => outbox'[q] = outbox[q] /\ provider'[q] = provider[q]
    OBVIOUS
  <2> QED
    BY <1>2, <2>1, <2>2, <2>3, <2>4, PlacesMove
<1>6. AcceptedAreThere'
  BY <1>1, <1>2 DEF AcceptedAreThere
<1> QED
  BY <1>3, <1>4, <1>5, <1>6

LEMMA BecomesSets ==
    ASSUME provider \in [Providers -> Objects], NEW p \in Providers, NEW t \in Objects, Becomes(p, t)
    PROVE  /\ provider' \in [Providers -> Objects] /\ provider'[p] = t
           /\ \A q \in Providers : q # p => provider'[q] = provider[q]
BY DEF Becomes

LEMMA PrefetchKeeps ==
    ASSUME ProviderInv, NEW p \in Providers, NEW intent, NEW text \in Texts, Prefetch(p, intent, text)
    PROVE  ProviderInv'
<1>0. /\ ProviderTyped /\ WritesFit /\ LastLineFits /\ turns \in Nat
      /\ provider[p] \in Objects
  BY ProviderParts
<1> PICK s \in Objects : s = provider[p]
  BY <1>0
<1> PICK r : r = Refreshed(s, intent, text)
  OBVIOUS
<1>1. s.pc = "idle" /\ s.write = NoWrite /\ turns < MaxTurns /\ turns' = turns + 1
  BY DEF Prefetch, Steady
<1>2. r \in Objects /\ RefreshFits(s, r)
  BY <1>0, <1>1, RefreshedFits DEF ProviderTyped
<1> PICK t : t = [r EXCEPT !.pc = "turn", !.text = text, !.id = turns + 1]
  OBVIOUS
<1>3. t \in Objects /\ t.pc = "turn" /\ t.id = turns + 1 /\ t.write = r.write /\ t.anchor = r.anchor
  <2>1. PICK n \in Nat : n = turns + 1
    BY <1>0
  <2>2. PICK t1 : t1 = [r EXCEPT !.pc = "turn"]
    OBVIOUS
  <2>3. PICK t2 : t2 = [t1 EXCEPT !.text = text]
    OBVIOUS
  <2>4. PICK t3 : t3 = [t2 EXCEPT !.id = n]
    OBVIOUS
  <2>5. t = t3
    BY <2>1, <2>2, <2>3, <2>4
  <2>6. t1 \in Objects /\ t1.pc = "turn" /\ t1.write = r.write /\ t1.anchor = r.anchor
    BY <1>2, <2>2 DEF Objects, ObjectStates
  <2>7. t2 \in Objects /\ t2.pc = "turn" /\ t2.write = r.write /\ t2.anchor = r.anchor
    BY <2>3, <2>6 DEF Objects
  <2>8. t3 \in Objects /\ t3.pc = "turn" /\ t3.id = n /\ t3.write = r.write /\ t3.anchor = r.anchor
    BY <2>4, <2>7 DEF Objects
  <2> QED
    BY <2>1, <2>5, <2>8
<1>4. Becomes(p, t)
  BY DEF Prefetch
<1>5. /\ provider' \in [Providers -> Objects] /\ provider'[p] = t
      /\ \A q \in Providers : q # p => provider'[q] = provider[q]
  BY <1>0, <1>3, <1>4, BecomesSets DEF ProviderTyped
<1>6. UNCHANGED <<outbox, anchorFile, events, inits, accepted, excused, lastWriter>>
  BY DEF Prefetch
<1>7. WritesFit' /\ LastLineFits'
  <2>1. \/ t.write # NoWrite /\ WriteFits(t)
        \/ t.write = NoWrite /\ t.anchor.form = "none"
        \/ t.write = s.write /\ t.anchor = s.anchor
    BY <1>1, <1>2, <1>3 DEF RefreshFits, WriteFits
  <2> QED
    BY <1>0, <1>5, <1>6, <2>1, LinesMove, ZenonT(60) DEF WriteFits
<1>8. Counted' /\ ClosedIsEmpty' /\ Places' /\ AcceptedAreThere'
  <2>1. provider'[p].id = turns + 1 /\ turns + 1 <= turns' /\ turns' \in Nat /\ turns <= turns'
        /\ provider'[p].pc = "turn"
    BY <1>0, <1>1, <1>3, <1>5
  <2> QED
    BY <1>5, <1>6, <2>1, BoxKept
<1>9. deferredFile' \in Anchors
  BY <1>0 DEF Prefetch, ProviderTyped, Objects
<1>10. ProviderTyped'
  BY <1>0, <1>1, <1>5, <1>6, <1>9, ProviderAssumption DEF ProviderTyped
<1> QED
  BY <1>7, <1>8, <1>10 DEF ProviderInv

LEMMA SupersedeKeeps ==
    ASSUME ProviderInv, NEW p \in Providers, SupersedeAnchors(p)
    PROVE  ProviderInv'
<1>0. ProviderTyped /\ WritesFit /\ LastLineFits /\ turns \in Nat
  BY ProviderParts
<1>1. /\ ~Steady(p) /\ lastWriter' = p
      /\ UNCHANGED <<provider, outbox, deferredFile, events, turns, inits, accepted, excused>>
      /\ anchorFile' = [anchorFile EXCEPT !.last = Writes("superseded", anchorFile.last.anchor)]
  BY DEF SupersedeAnchors, Steady
<1>2. anchorFile' \in [last : AnchorLines, active : BOOLEAN]
  <2>1. PICK w : w = Writes("superseded", anchorFile.last.anchor)
    OBVIOUS
  <2>2. w \in AnchorLines
    BY <1>0, <2>1 DEF ProviderTyped, Writes, AnchorLines
  <2> QED
    BY <1>0, <1>1, <2>1, <2>2 DEF ProviderTyped
<1>3. ProviderTyped'
  BY <1>0, <1>1, <1>2 DEF ProviderTyped
<1>4. \A q \in Providers : Steady(q)' = Steady(q)
  BY <1>1 DEF Steady
<1>5. WritesFit' /\ LastLineFits'
  BY <1>0, <1>1, <1>4 DEF WritesFit, LastLineFits, WriteFits
<1>6. Counted' /\ ClosedIsEmpty' /\ Places' /\ AcceptedAreThere'
  <2>1. /\ turns' \in Nat /\ turns <= turns'
        /\ (provider'[p].pc = "turn" => InTurn(p) /\ provider'[p].id = provider[p].id)
        /\ provider'[p] = provider[p]
    BY <1>0, <1>1 DEF InTurn
  <2>2. /\ provider[p].pc = "draining" => ~Works(p)
        /\ provider[p].pc = "closed" => ~Works(p) /\ Len(outbox[p].queue) = 0
    BY DEF ProviderInv, ClosedIsEmpty
  <2> QED
    BY <1>1, <2>1, <2>2, BoxKept
<1> QED
  BY <1>3, <1>5, <1>6 DEF ProviderInv

LEMMA WriteAnchorKeeps ==
    ASSUME ProviderInv, NEW p \in Providers, WriteAnchor(p)
    PROVE  ProviderInv'
<1>0. /\ ProviderTyped /\ WritesFit /\ LastLineFits /\ turns \in Nat
      /\ provider[p] \in Objects
  BY ProviderParts
<1> PICK s \in Objects : s = provider[p]
  BY <1>0
<1> PICK t : t = [s EXCEPT !.write = NoWrite]
  OBVIOUS
<1>1. t \in Objects /\ t.pc = s.pc /\ t.id = s.id /\ t.write = NoWrite /\ t.anchor = s.anchor
  BY NoAnchorTyped DEF Objects
<1>2. /\ s.write # NoWrite /\ lastWriter' = p /\ Becomes(p, t)
      /\ UNCHANGED <<outbox, deferredFile, events, turns, inits, accepted, excused>>
      /\ anchorFile' = [last |-> s.write, active |-> anchorFile.active \/ s.write.status = "active"]
  BY DEF WriteAnchor
<1>3. /\ provider' \in [Providers -> Objects] /\ provider'[p] = t
      /\ \A q \in Providers : q # p => provider'[q] = provider[q]
  BY <1>0, <1>1, <1>2, BecomesSets DEF ProviderTyped
<1>4. anchorFile' \in [last : AnchorLines, active : BOOLEAN] /\ anchorFile'.last = s.write
  <2>1. PICK b \in BOOLEAN : b = (anchorFile.active \/ s.write.status = "active")
    OBVIOUS
  <2>2. anchorFile' = [last |-> s.write, active |-> b]
    BY <1>2, <2>1
  <2> QED
    BY <2>2 DEF Objects
<1>5. ProviderTyped'
  BY <1>0, <1>2, <1>3, <1>4 DEF ProviderTyped
<1>6. \A q \in Providers : q # p => Steady(q)' = Steady(q)
  BY <1>3 DEF Steady
<1>7. Steady(p)'
  BY <1>1, <1>3 DEF Steady
<1>8. WritesFit'
  BY <1>0, <1>3, <1>6, <1>7 DEF WritesFit, WriteFits
<1>9. LastLineFits'
  <2>1. WriteFits(s)
    BY <1>0, <1>2 DEF WritesFit, Steady
  <2>2. s.anchor.form \notin {"none", "cancelled"} => Recovered' = s.anchor
    BY <1>4, <2>1 DEF WriteFits, Recovered
  <2> QED
    BY <1>1, <1>2, <1>3, <2>2 DEF LastLineFits
<1>10. Counted' /\ ClosedIsEmpty' /\ Places' /\ AcceptedAreThere'
  <2>1. /\ turns' \in Nat /\ turns <= turns'
        /\ (provider'[p].pc = "turn" => InTurn(p) /\ provider'[p].id = provider[p].id)
        /\ provider'[p].pc = provider[p].pc
    BY <1>0, <1>1, <1>2, <1>3 DEF InTurn
  <2>2. /\ provider[p].pc = "draining" => ~Works(p)
        /\ provider[p].pc = "closed" => ~Works(p) /\ Len(outbox[p].queue) = 0
    BY DEF ProviderInv, ClosedIsEmpty
  <2> QED
    BY <1>2, <1>3, <2>1, <2>2, BoxKept
<1> QED
  BY <1>5, <1>8, <1>9, <1>10 DEF ProviderInv

LEMMA TaskAnchored ==
    ASSUME NEW s \in Objects, NEW a \in Anchors
    PROVE  /\ Anchored(s, a, "active", s.only) \in Objects
           /\ RefreshFits(s, Anchored(s, a, "active", s.only))
           /\ Anchored(s, a, "active", s.only).pc = s.pc /\ Anchored(s, a, "active", s.only).id = s.id
<1>1. PICK only \in BOOLEAN : only = s.only
  BY DEF Objects
<1>2. /\ Anchored(s, a, "active", only) \in Objects /\ WriteFits(Anchored(s, a, "active", only))
      /\ Anchored(s, a, "active", only).write # NoWrite
      /\ Anchored(s, a, "active", only).pc = s.pc /\ Anchored(s, a, "active", only).id = s.id
  BY AnchoredIs
<1> QED
  BY <1>1, <1>2 DEF RefreshFits

LEMMA CapturedFits ==
    ASSUME NEW s \in Objects, s.write = NoWrite, NEW busy \in BOOLEAN
    PROVE  /\ Captured(s, busy) \in Objects /\ RefreshFits(s, Captured(s, busy))
           /\ Captured(s, busy).pc = s.pc /\ Captured(s, busy).id = s.id
<1>1. s.anchor \in Anchors /\ s.only \in BOOLEAN /\ s.anchor.ops \cup {s.text} \in SUBSET Texts
  BY DEF Objects, Anchors
<1>2. RefreshFits(s, s)
  BY DEF RefreshFits
<1>3. CASE busy /\ s.anchor.form = "task"
  <2>1. s.anchor.task \in Texts \cup {"none"}
    BY <1>1 DEF Anchors
  <2>2. PICK a : a = TaskAnchor(s.anchor.task, s.anchor.ops \cup {s.text})
    OBVIOUS
  <2>3. a \in Anchors
    BY <1>1, <2>1, <2>2 DEF TaskAnchor, Anchors, Forms
  <2>4. Captured(s, busy) = Anchored(s, a, "active", s.only)
    BY <1>3, <2>2 DEF Captured
  <2> QED
    BY <2>3, <2>4, TaskAnchored
<1>4. CASE ~(busy /\ s.anchor.form = "task")
  <2>1. Captured(s, busy) = s
    BY <1>4 DEF Captured
  <2> QED
    BY <1>2, <2>1
<1> QED
  BY <1>3, <1>4

\* The other queues and threads stay: what a step of p does to its own is all there is.
LEMMA BoxSets ==
    ASSUME outbox \in [Providers -> Threads], NEW p \in Providers, NEW t \in Threads,
           outbox' = [outbox EXCEPT ![p] = t]
    PROVE  /\ outbox' \in [Providers -> Threads] /\ outbox'[p] = t
           /\ \A q \in Providers : q # p => outbox'[q] = outbox[q]
OBVIOUS

LEMMA AppendAdds ==
    ASSUME NEW seq \in Seq(Nat), NEW e \in Nat
    PROVE  /\ Append(seq, e) \in Seq(Nat) /\ Len(Append(seq, e)) = Len(seq) + 1
           /\ In(Append(seq, e)) = In(seq) \cup {e}
           /\ (NoRepeats(seq) /\ e \notin In(seq)) => NoRepeats(Append(seq, e))
<1> PICK a : a = Append(seq, e)
  OBVIOUS
<1>1. /\ a \in Seq(Nat) /\ Len(a) = Len(seq) + 1 /\ Len(seq) \in Nat
      /\ a[Len(seq) + 1] = e /\ \A i \in 1..Len(seq) : a[i] = seq[i]
  OBVIOUS
<1>2. 1..Len(a) = (1..Len(seq)) \cup {Len(seq) + 1}
  BY <1>1
<1>3. In(a) = In(seq) \cup {e}
  BY <1>1, <1>2 DEF In
<1>4. (NoRepeats(seq) /\ e \notin In(seq)) => NoRepeats(a)
  BY <1>1, <1>2 DEF NoRepeats, In
<1> QED
  BY <1>1, <1>3, <1>4

LEMMA TailTakes ==
    ASSUME NEW seq \in Seq(Nat), seq # <<>>
    PROVE  /\ Head(seq) \in Nat /\ Tail(seq) \in Seq(Nat) /\ Len(Tail(seq)) = Len(seq) - 1 /\ Len(seq) > 0
           /\ In(seq) = In(Tail(seq)) \cup {Head(seq)}
           /\ NoRepeats(seq) => /\ NoRepeats(Tail(seq))
                                /\ Head(seq) \notin In(Tail(seq))
<1> PICK t : t = Tail(seq)
  OBVIOUS
<1>1. /\ t \in Seq(Nat) /\ Len(t) = Len(seq) - 1 /\ Len(seq) > 0 /\ Len(seq) \in Nat
      /\ Head(seq) = seq[1] /\ Head(seq) \in Nat /\ \A i \in 1..Len(t) : t[i] = seq[i + 1]
  OBVIOUS
<1>2. \A i \in 1..Len(t) : i + 1 \in 1..Len(seq) /\ i + 1 # 1
  BY <1>1
<1>3. \A i \in 1..Len(seq) : i = 1 \/ (i - 1 \in 1..Len(t) /\ t[i - 1] = seq[i])
  BY <1>1
<1>4. In(seq) = In(t) \cup {Head(seq)}
  <2>1. ASSUME NEW i \in 1..Len(seq) PROVE seq[i] \in In(t) \cup {Head(seq)}
    BY <1>1, <1>3 DEF In
  <2>2. ASSUME NEW i \in 1..Len(t) PROVE t[i] \in In(seq)
    BY <1>1, <1>2 DEF In
  <2>3. Head(seq) \in In(seq)
    BY <1>1 DEF In
  <2> QED
    BY <2>1, <2>2, <2>3 DEF In
<1>5. NoRepeats(seq) => NoRepeats(t) /\ Head(seq) \notin In(t)
  BY <1>1, <1>2 DEF NoRepeats, In
<1> QED
  BY <1>1, <1>4, <1>5

\* What the queue and the thread of p hold, once they are t.
\* Put into the queue of a thread, and taken from it.
LEMMA EnqueuedIs ==
    ASSUME NEW o \in Threads, NEW e \in Nat
    PROVE  \E t \in Threads :
             /\ t = [o EXCEPT !.queue = Append(@, e), !.unfinished = @ + 1]
             /\ t.busy = o.busy /\ t.worker = o.worker /\ t.unfinished = o.unfinished + 1
             /\ Len(t.queue) = Len(o.queue) + 1 /\ In(t.queue) = In(o.queue) \cup {e}
             /\ NoRepeats(o.queue) /\ e \notin In(o.queue) => NoRepeats(t.queue)
<1>1. o.queue \in Seq(Nat) /\ o.unfinished \in Nat
  BY ThreadFields
<1>2. PICK q \in Seq(Nat) : q = Append(o.queue, e)
  BY <1>1, AppendAdds
<1>3. PICK n \in Nat : n = o.unfinished + 1
  BY <1>1
<1>4. PICK t1 : t1 = [o EXCEPT !.queue = q]
  OBVIOUS
<1>5. PICK t2 : t2 = [t1 EXCEPT !.unfinished = n]
  OBVIOUS
<1>6. t1 \in Threads /\ t1.queue = q /\ t1.busy = o.busy /\ t1.worker = o.worker
  BY <1>4 DEF Threads
<1>7. t2 \in Threads /\ t2.queue = q /\ t2.busy = o.busy /\ t2.worker = o.worker /\ t2.unfinished = n
  BY <1>5, <1>6 DEF Threads
<1>8. t2 = [o EXCEPT !.queue = Append(@, e), !.unfinished = @ + 1]
  BY <1>2, <1>3, <1>4, <1>5
<1>9. /\ Len(q) = Len(o.queue) + 1 /\ In(q) = In(o.queue) \cup {e}
      /\ NoRepeats(o.queue) /\ e \notin In(o.queue) => NoRepeats(q)
  BY <1>1, <1>2, AppendAdds
<1> QED
  BY <1>3, <1>7, <1>8, <1>9

LEMMA ReplacedIs ==
    ASSUME NEW o \in Threads
    PROVE  \E t \in Threads :
             /\ t = [o EXCEPT !.queue = <<>>, !.unfinished = 0, !.stop = FALSE,
                              !.worker = IF @ = "none" THEN "alive" ELSE @]
             /\ t.queue = <<>> /\ t.busy = o.busy /\ t.unfinished = 0
             /\ t.worker = IF o.worker = "none" THEN "alive" ELSE o.worker
<1>1. PICK w \in {"none", "alive", "ended"} : w = IF o.worker = "none" THEN "alive" ELSE o.worker
  BY ThreadFields
<1>2. PICK off \in BOOLEAN : off = FALSE
  OBVIOUS
<1>3. PICK none : none = <<>>
  OBVIOUS
<1>31. none \in Seq(Nat)
  BY <1>3
<1>4. PICK t1 : t1 = [o EXCEPT !.queue = none]
  OBVIOUS
<1>5. PICK t2 : t2 = [t1 EXCEPT !.unfinished = 0]
  OBVIOUS
<1>6. PICK t3 : t3 = [t2 EXCEPT !.stop = off]
  OBVIOUS
<1>7. PICK t4 : t4 = [t3 EXCEPT !.worker = w]
  OBVIOUS
<1>8. t1 \in Threads /\ t1.queue = none /\ t1.busy = o.busy /\ t1.worker = o.worker
  BY <1>4, <1>31 DEF Threads
<1>9. t2 \in Threads /\ t2.queue = none /\ t2.busy = o.busy /\ t2.worker = o.worker /\ t2.unfinished = 0
  BY <1>5, <1>8 DEF Threads
<1>10. t3 \in Threads /\ t3.queue = none /\ t3.busy = o.busy /\ t3.worker = o.worker /\ t3.unfinished = 0
  BY <1>6, <1>9 DEF Threads
<1>11. t4 \in Threads /\ t4.queue = none /\ t4.busy = o.busy /\ t4.worker = w /\ t4.unfinished = 0
  BY <1>7, <1>10 DEF Threads
<1>12. t4 = [o EXCEPT !.queue = <<>>, !.unfinished = 0, !.stop = FALSE,
                      !.worker = IF @ = "none" THEN "alive" ELSE @]
  BY <1>1, <1>2, <1>3, <1>4, <1>5, <1>6, <1>7 DEF Threads
<1> QED
  BY <1>1, <1>3, <1>11, <1>12

LEMMA BoxHolds ==
    ASSUME NEW p \in Providers, NEW t \in Threads, outbox'[p] = t
    PROVE  /\ Queued(p)' = In(t.queue)
           /\ Held(p)' = In(t.queue) \cup ({t.busy} \ {0})
           /\ InTheHand(p)' = (IF t.busy = 0 THEN 0 ELSE 1)
           /\ Works(p)' = (t.worker = "alive")
BY DEF Queued, Held, InTheHand, Works

\* The counts stay right when those of p are.
LEMMA CountsMove ==
    ASSUME Counted, ClosedIsEmpty, NEW p \in Providers, NEW t \in Threads, outbox'[p] = t,
           \A q \in Providers : q # p => outbox'[q] = outbox[q] /\ provider'[q] = provider[q],
           NEW inHand \in 0..1, inHand = (IF t.busy = 0 THEN 0 ELSE 1),
           t.unfinished <= Len(t.queue) + inHand, Len(t.queue) + inHand <= t.unfinished + 1,
           t.worker # "alive" => t.busy = 0 /\ t.unfinished = Len(t.queue),
           provider'[p].pc = "draining" => t.worker # "alive",
           provider'[p].pc = "closed" => t.worker # "alive" /\ Len(t.queue) = 0
    PROVE  Counted' /\ ClosedIsEmpty'
<1>1. \A q \in Providers : q # p => Works(q)' = Works(q) /\ InTheHand(q)' = InTheHand(q)
  BY DEF Works, InTheHand
<1>2. InTheHand(p)' = inHand /\ Works(p)' = (t.worker = "alive")
  BY BoxHolds
<1> QED
  BY <1>1, <1>2 DEF Counted, ClosedIsEmpty

LEMMA PreCompressKeeps ==
    ASSUME ProviderInv, NEW p \in Providers, NEW user \in BOOLEAN, NEW busy \in BOOLEAN,
           PreCompress(p, user, busy)
    PROVE  ProviderInv'
<1>0. /\ ProviderTyped /\ WritesFit /\ LastLineFits /\ turns \in Nat
      /\ provider[p] \in Objects
  BY ProviderParts
<1> PICK s \in Objects : s = provider[p]
  BY <1>0
<1>1. /\ s.pc = "turn" /\ s.write = NoWrite
      /\ UNCHANGED <<outbox, anchorFile, deferredFile, events, turns, inits, accepted, excused, lastWriter>>
  BY DEF PreCompress, Steady
<1> PICK t : t = IF user
                 THEN Anchored(s, TaskAnchor(s.text, s.anchor.ops \cup (IF busy THEN {s.text} ELSE {})),
                               "active", s.only)
                 ELSE [s EXCEPT !.anchor = NoAnchor]
  OBVIOUS
<1>2. Becomes(p, t)
  BY DEF PreCompress
<1>3. t \in Objects /\ t.pc = s.pc /\ t.id = s.id /\ RefreshFits(s, t)
  <2>1. CASE user
    <3>1. PICK a : a = TaskAnchor(s.text, s.anchor.ops \cup (IF busy THEN {s.text} ELSE {}))
      OBVIOUS
    <3>2. s.text \in Texts /\ s.anchor.ops \cup (IF busy THEN {s.text} ELSE {}) \in SUBSET Texts
      BY DEF Objects, Anchors
    <3>3. a \in Anchors
      BY <3>1, <3>2 DEF TaskAnchor, Anchors, Forms
    <3>4. t = Anchored(s, a, "active", s.only)
      BY <2>1, <3>1
    <3> QED
      BY <3>3, <3>4, TaskAnchored
  <2>2. CASE ~user
    <3>1. t = [s EXCEPT !.anchor = NoAnchor]
      BY <2>2
    <3>2. t \in Objects /\ t.pc = s.pc /\ t.id = s.id /\ t.write = s.write /\ t.anchor = NoAnchor
      BY <3>1, NoAnchorTyped DEF Objects
    <3>3. NoAnchor.form = "none"
      BY DEF NoAnchor
    <3> QED
      BY <1>1, <3>2, <3>3 DEF RefreshFits
  <2> QED
    BY <2>1, <2>2
<1>4. /\ provider' \in [Providers -> Objects] /\ provider'[p] = t
      /\ \A q \in Providers : q # p => provider'[q] = provider[q]
  BY <1>0, <1>2, <1>3, BecomesSets DEF ProviderTyped
<1>5. WritesFit' /\ LastLineFits'
  <2>1. \/ t.write # NoWrite /\ WriteFits(t)
        \/ t.write = NoWrite /\ t.anchor.form = "none"
        \/ t.write = s.write /\ t.anchor = s.anchor
    BY <1>1, <1>3 DEF RefreshFits
  <2> QED
    BY <1>0, <1>1, <1>4, <2>1, LinesMove DEF WriteFits
<1>6. Counted' /\ ClosedIsEmpty' /\ Places' /\ AcceptedAreThere'
  <2>1. /\ turns' \in Nat /\ turns <= turns' /\ provider'[p].pc = "turn"
        /\ InTurn(p) /\ provider'[p].id = provider[p].id
    BY <1>0, <1>1, <1>3, <1>4 DEF InTurn
  <2> QED
    BY <1>1, <1>4, <2>1, BoxKept
<1>7. ProviderTyped'
  BY <1>0, <1>1, <1>4 DEF ProviderTyped
<1> QED
  BY <1>5, <1>6, <1>7 DEF ProviderInv

LEMMA SyncTurnKeeps ==
    ASSUME ProviderInv, NEW p \in Providers, NEW busy \in BOOLEAN, SyncTurn(p, busy)
    PROVE  ProviderInv'
<1>0. /\ ProviderTyped /\ WritesFit /\ LastLineFits /\ Counted /\ ClosedIsEmpty /\ Places /\ AcceptedAreThere
      /\ turns \in Nat /\ provider[p] \in Objects /\ outbox[p] \in Threads
  BY ProviderParts
<1> PICK s \in Objects : s = provider[p]
  BY <1>0
<1> PICK o \in Threads : o = outbox[p]
  BY <1>0
<1>1. /\ s.pc = "turn" /\ s.write = NoWrite /\ InTurn(p)
      /\ UNCHANGED <<anchorFile, deferredFile, events, turns, inits, excused, lastWriter>>
  BY DEF SyncTurn, Steady, InTurn
<1> PICK r : r = IF s.text = Command THEN s ELSE Captured(s, busy)
  OBVIOUS
<1>2. r \in Objects /\ RefreshFits(s, r) /\ r.id = s.id
  <2>1. RefreshFits(s, s)
    BY <1>1 DEF RefreshFits
  <2>2. Captured(s, busy) \in Objects /\ RefreshFits(s, Captured(s, busy)) /\ Captured(s, busy).id = s.id
    BY <1>1, CapturedFits
  <2> QED
    BY <2>1, <2>2
<1> PICK t : t = [r EXCEPT !.pc = "idle"]
  OBVIOUS
<1>3. t \in Objects /\ t.pc = "idle" /\ t.write = r.write /\ t.anchor = r.anchor
  BY <1>2 DEF Objects, ObjectStates
<1>4. Becomes(p, t)
  BY DEF SyncTurn
<1>5. /\ provider' \in [Providers -> Objects] /\ provider'[p] = t
      /\ \A q \in Providers : q # p => provider'[q] = provider[q]
  BY <1>0, <1>3, <1>4, BecomesSets DEF ProviderTyped
<1>6. WritesFit' /\ LastLineFits'
  <2>1. \/ t.write # NoWrite /\ WriteFits(t)
        \/ t.write = NoWrite /\ t.anchor.form = "none"
        \/ t.write = s.write /\ t.anchor = s.anchor
    BY <1>1, <1>2, <1>3 DEF RefreshFits, WriteFits
  <2> QED
    BY <1>0, <1>1, <1>5, <2>1, LinesMove, ZenonT(60) DEF WriteFits
<1>7. CASE s.text # Command /\ Len(o.queue) < QueueSize
  <2>1. /\ outbox' = [outbox EXCEPT ![p] = [o EXCEPT !.queue = Append(@, s.id), !.unfinished = @ + 1]]
        /\ accepted' = accepted \cup {s.id}
    BY <1>7 DEF SyncTurn
  <2>2. s.id \in 1..turns /\ s.id \notin Held(p) /\ s.id \notin Stored /\ s.id \in Nat
    BY <1>0, <1>1 DEF Places
  <2>3. PICK t2 \in Threads :
          /\ t2 = [o EXCEPT !.queue = Append(@, s.id), !.unfinished = @ + 1]
          /\ t2.busy = o.busy /\ t2.worker = o.worker /\ t2.unfinished = o.unfinished + 1
          /\ Len(t2.queue) = Len(o.queue) + 1 /\ In(t2.queue) = In(o.queue) \cup {s.id}
          /\ NoRepeats(o.queue) /\ s.id \notin In(o.queue) => NoRepeats(t2.queue)
    BY <2>2, EnqueuedIs
  <2>8. outbox' = [outbox EXCEPT ![p] = t2]
    BY <2>1, <2>3
  <2>10. /\ outbox' \in [Providers -> Threads] /\ outbox'[p] = t2
         /\ \A r2 \in Providers : r2 # p => outbox'[r2] = outbox[r2]
    BY <1>0, <2>8, BoxSets DEF ProviderTyped
  <2>11. Len(o.queue) \in Nat /\ o.unfinished \in Nat
    BY ThreadFields
  <2>12. Queued(p) = In(o.queue) /\ Held(p) = Queued(p) \cup ({o.busy} \ {0})
    BY DEF Queued, Held
  <2>13. Queued(p)' = Queued(p) \cup {s.id} /\ Held(p)' = Held(p) \cup {s.id}
    <3>1. Queued(p)' = In(t2.queue) /\ Held(p)' = In(t2.queue) \cup ({t2.busy} \ {0})
      BY <2>10, BoxHolds
    <3> QED
      BY <2>3, <2>12, <3>1
  <2>14. Stored' = Stored
    BY <1>1 DEF Stored
  <2>15. Counted' /\ ClosedIsEmpty'
    <3>1. PICK inHand \in 0..1 : inHand = (IF o.busy = 0 THEN 0 ELSE 1)
      OBVIOUS
    <3>2. /\ o.unfinished <= Len(o.queue) + inHand /\ Len(o.queue) + inHand <= o.unfinished + 1
          /\ o.worker # "alive" => o.busy = 0 /\ o.unfinished = Len(o.queue)
      BY <1>0, <3>1 DEF Counted, InTheHand, Works
    <3>3. /\ t2.unfinished <= Len(t2.queue) + inHand /\ Len(t2.queue) + inHand <= t2.unfinished + 1
          /\ t2.worker # "alive" => t2.busy = 0 /\ t2.unfinished = Len(t2.queue)
      BY <2>3, <2>11, <3>2
    <3>4. provider'[p].pc = "idle" /\ inHand = (IF t2.busy = 0 THEN 0 ELSE 1)
      BY <1>3, <1>5, <2>3, <3>1
    <3> QED
      BY <1>0, <1>5, <2>10, <3>3, <3>4, CountsMove
  <2>16. Places'
    <3>1. NoRepeats(outbox'[p].queue)
      BY <1>0, <2>2, <2>3, <2>10, <2>12 DEF Places
    <3>2. outbox'[p].busy \notin Queued(p)'
      <4>1. o.busy \notin Queued(p) /\ (o.busy # 0 => o.busy \in Held(p)) /\ s.id # 0
        BY <1>0, <2>2, <2>12 DEF Places
      <4> QED
        BY <2>2, <2>3, <2>10, <2>13, <4>1
    <3>3. NoRepeats(events') /\ Held(p)' \cap Stored' = {} /\ Stored' \subseteq Stored \cup Held(p)
      BY <1>0, <1>1, <2>2, <2>13, <2>14 DEF Places
    <3>4. \A e \in Held(p)' : e \in Held(p) \/ (e = provider[p].id /\ InTurn(p) /\ provider'[p].pc # "turn")
      BY <1>1, <1>3, <1>5, <2>13
    <3>5. turns' \in Nat /\ turns <= turns' /\ provider'[p].pc # "turn"
      BY <1>0, <1>1, <1>3, <1>5
    <3>6. \A r2 \in Providers : r2 # p => outbox'[r2] = outbox[r2] /\ provider'[r2] = provider[r2]
      BY <1>5, <2>10
    <3> QED
      BY <1>0, <3>1, <3>2, <3>3, <3>4, <3>5, <3>6, PlacesMove
  <2>17. AcceptedAreThere'
    <3>1. \A e \in accepted' : e \in accepted \/ e \in Held(p)'
      BY <2>1, <2>13
    <3>2. \A e \in Held(p) : e \in Held(p)' \/ e \in Stored' \/ e \in excused'
      BY <2>13
    <3> QED
      BY <1>0, <1>1, <2>10, <2>14, <3>1, <3>2, AcceptedMove
  <2>18. ProviderTyped'
    <3>1. Len(outbox'[p].queue) <= QueueSize
      BY <1>7, <2>3, <2>10, <2>11, ProviderAssumption
    <3> QED
      BY <1>0, <1>1, <1>5, <2>10, <3>1 DEF ProviderTyped
  <2> QED
    BY <1>6, <2>15, <2>16, <2>17, <2>18 DEF ProviderInv
<1>8. CASE ~(s.text # Command /\ Len(o.queue) < QueueSize)
  <2>1. UNCHANGED <<outbox, accepted>>
    BY <1>8 DEF SyncTurn
  <2>2. Counted' /\ ClosedIsEmpty' /\ Places' /\ AcceptedAreThere'
    <3>1. turns' \in Nat /\ turns <= turns' /\ provider'[p].pc = "idle"
      BY <1>0, <1>1, <1>3, <1>5
    <3> QED
      BY <1>1, <1>5, <2>1, <3>1, BoxKept
  <2>3. ProviderTyped'
    BY <1>0, <1>1, <1>5, <2>1 DEF ProviderTyped
  <2> QED
    BY <1>6, <2>2, <2>3 DEF ProviderInv
<1> QED
  BY <1>7, <1>8

LEMMA InitializeKeeps ==
    ASSUME ProviderInv, NEW p \in Providers, Initialize(p)
    PROVE  ProviderInv'
<1>0. /\ ProviderTyped /\ WritesFit /\ LastLineFits /\ Counted /\ ClosedIsEmpty /\ Places /\ AcceptedAreThere
      /\ turns \in Nat /\ provider[p] \in Objects /\ outbox[p] \in Threads
  BY ProviderParts
<1> PICK s \in Objects : s = provider[p]
  BY <1>0
<1> PICK o \in Threads : o = outbox[p]
  BY <1>0
<1>1. /\ s.write = NoWrite /\ inits < MaxInits /\ inits' = inits + 1
      /\ UNCHANGED <<anchorFile, deferredFile, events, turns, accepted, lastWriter>>
      /\ excused' = excused \cup In(o.queue)
  BY DEF Initialize, Steady, In
<1> PICK a : a = IF s.anchor = NoAnchor THEN Recovered ELSE s.anchor
  OBVIOUS
<1>2. a \in Anchors
  BY <1>0, NoAnchorTyped DEF Recovered, ProviderTyped, AnchorLines, Objects
<1> PICK s1 : s1 = [s EXCEPT !.pc = "idle"]
  OBVIOUS
<1> PICK t : t = [s1 EXCEPT !.anchor = a]
  OBVIOUS
<1>3. t \in Objects /\ t.pc = "idle" /\ t.write = NoWrite /\ t.anchor = a
  <2>1. s1 \in Objects /\ s1.pc = "idle" /\ s1.write = NoWrite
    BY <1>1 DEF Objects, ObjectStates
  <2> QED
    BY <1>2, <2>1 DEF Objects
<1>4. Becomes(p, t)
  <2>1. t = [s EXCEPT !.pc = "idle", !.anchor = IF @ = NoAnchor THEN Recovered ELSE @]
    BY DEF Objects
  <2> QED
    BY <2>1 DEF Initialize
<1>5. /\ provider' \in [Providers -> Objects] /\ provider'[p] = t
      /\ \A q \in Providers : q # p => provider'[q] = provider[q]
  BY <1>0, <1>3, <1>4, BecomesSets DEF ProviderTyped
<1>6. WritesFit' /\ LastLineFits'
  <2>1. \/ t.write = NoWrite /\ t.anchor = Recovered
        \/ t.write = s.write /\ t.anchor = s.anchor
    BY <1>1, <1>3
  <2> QED
    BY <1>0, <1>1, <1>5, <2>1, LinesMove
<1>7. PICK o4 \in Threads :
        /\ o4 = [o EXCEPT !.queue = <<>>, !.unfinished = 0, !.stop = FALSE,
                          !.worker = IF @ = "none" THEN "alive" ELSE @]
        /\ o4.queue = <<>> /\ o4.busy = o.busy /\ o4.unfinished = 0
        /\ o4.worker = IF o.worker = "none" THEN "alive" ELSE o.worker
  BY ReplacedIs
<1>15. o4.queue = <<>> /\ o4.busy = o.busy /\ o4.unfinished = 0
  BY <1>7
<1>17. outbox' = [outbox EXCEPT ![p] = o4]
  BY <1>7 DEF Initialize
<1>18. /\ outbox' \in [Providers -> Threads] /\ outbox'[p] = o4
       /\ \A q \in Providers : q # p => outbox'[q] = outbox[q]
  BY <1>0, <1>17, BoxSets DEF ProviderTyped
<1>19. Queued(p) = In(o.queue) /\ Held(p) = Queued(p) \cup ({o.busy} \ {0})
  BY DEF Queued, Held
<1>20. Len(o4.queue) = 0 /\ Queued(p)' = {} /\ Held(p)' = {o.busy} \ {0}
  <2>1. Queued(p)' = In(o4.queue) /\ Held(p)' = In(o4.queue) \cup ({o4.busy} \ {0})
    BY <1>18, BoxHolds
  <2>2. Len(<<>>) = 0 /\ In(<<>>) = {}
    BY DEF In
  <2> QED
    BY <1>15, <2>1, <2>2
<1>21. Stored' = Stored
  BY <1>1 DEF Stored
<1>22. Counted' /\ ClosedIsEmpty'
  <2>1. PICK inHand \in 0..1 : inHand = (IF o.busy = 0 THEN 0 ELSE 1)
    OBVIOUS
  <2>2. o.worker # "alive" => o.busy = 0
    BY <1>0 DEF Counted, Works
  <2>3. /\ o4.unfinished <= Len(o4.queue) + inHand /\ Len(o4.queue) + inHand <= o4.unfinished + 1
        /\ o4.worker # "alive" => o4.busy = 0 /\ o4.unfinished = Len(o4.queue)
    BY <1>7, <1>15, <1>20, <2>2
  <2>4. provider'[p].pc = "idle" /\ inHand = (IF o4.busy = 0 THEN 0 ELSE 1)
    BY <1>3, <1>5, <1>15, <2>1
  <2> QED
    BY <1>0, <1>5, <1>15, <1>18, <2>3, <2>4, CountsMove
<1>23. Places'
  <2>1. NoRepeats(outbox'[p].queue)
    BY <1>15, <1>18 DEF NoRepeats
  <2>2. NoRepeats(events') /\ Held(p)' \cap Stored' = {} /\ Stored' \subseteq Stored \cup Held(p)
    BY <1>0, <1>1, <1>19, <1>20, <1>21 DEF Places
  <2>3. \A e \in Held(p)' : e \in Held(p)
    BY <1>19, <1>20
  <2>4. turns' \in Nat /\ turns <= turns' /\ provider'[p].pc # "turn"
    BY <1>0, <1>1, <1>3, <1>5
  <2>5. \A q \in Providers : q # p => outbox'[q] = outbox[q] /\ provider'[q] = provider[q]
    BY <1>5, <1>18
  <2> QED
    BY <1>0, <1>20, <2>1, <2>2, <2>3, <2>4, <2>5, PlacesMove
<1>24. AcceptedAreThere'
  <2>1. \A e \in Held(p) : e \in Held(p)' \/ e \in Stored' \/ e \in excused'
    BY <1>1, <1>19, <1>20
  <2> QED
    BY <1>0, <1>1, <1>18, <1>21, <2>1, AcceptedMove
<1>25. ProviderTyped'
  <2>1. Len(outbox'[p].queue) <= QueueSize
    BY <1>18, <1>20, ProviderAssumption
  <2>2. inits' \in 0..MaxInits
    BY <1>0, <1>1, ProviderAssumption DEF ProviderTyped
  <2> QED
    BY <1>0, <1>1, <1>5, <1>18, <2>1, <2>2 DEF ProviderTyped
<1> QED
  BY <1>6, <1>22, <1>23, <1>24, <1>25 DEF ProviderInv

LEMMA TakenIs ==
    ASSUME NEW o \in Threads, o.queue # <<>>
    PROVE  \E t \in Threads :
             /\ t = [o EXCEPT !.busy = Head(o.queue), !.queue = Tail(o.queue)]
             /\ t.busy = Head(o.queue) /\ t.queue = Tail(o.queue) /\ t.worker = o.worker
             /\ t.unfinished = o.unfinished
<1>1. PICK h : h = Head(o.queue)
  OBVIOUS
<1>2. PICK q : q = Tail(o.queue)
  OBVIOUS
<1>3. h \in Nat /\ q \in Seq(Nat)
  BY <1>1, <1>2, ThreadFields, TailTakes
<1>4. PICK t1 : t1 = [o EXCEPT !.busy = h]
  OBVIOUS
<1>5. PICK t2 : t2 = [t1 EXCEPT !.queue = q]
  OBVIOUS
<1>6. t1 \in Threads /\ t1.busy = h /\ t1.worker = o.worker /\ t1.unfinished = o.unfinished
  BY <1>3, <1>4 DEF Threads
<1>7. /\ t2 \in Threads /\ t2.busy = h /\ t2.worker = o.worker /\ t2.unfinished = o.unfinished
      /\ t2.queue = q
  BY <1>3, <1>5, <1>6 DEF Threads
<1>8. t2 = [o EXCEPT !.busy = Head(o.queue), !.queue = Tail(o.queue)]
  BY <1>1, <1>2, <1>4, <1>5
<1> QED
  BY <1>1, <1>2, <1>7, <1>8

LEMMA WrittenIs ==
    ASSUME NEW o \in Threads
    PROVE  \E t \in Threads :
             /\ t = IF o.unfinished = 0 THEN [o EXCEPT !.busy = 0, !.worker = "ended"]
                    ELSE [o EXCEPT !.busy = 0, !.unfinished = @ - 1]
             /\ t.busy = 0 /\ t.queue = o.queue
             /\ o.unfinished = 0 => t.worker = "ended" /\ t.unfinished = 0
             /\ o.unfinished # 0 => t.worker = o.worker /\ t.unfinished = o.unfinished - 1
<1>1. PICK t1 : t1 = [o EXCEPT !.busy = 0]
  OBVIOUS
<1>2. /\ t1 \in Threads /\ t1.busy = 0 /\ t1.queue = o.queue /\ t1.worker = o.worker
      /\ t1.unfinished = o.unfinished /\ o.unfinished \in Nat
  BY <1>1 DEF Threads
<1>3. CASE o.unfinished = 0
  <2>1. PICK t2 : t2 = [t1 EXCEPT !.worker = "ended"]
    OBVIOUS
  <2>2. /\ t2 \in Threads /\ t2.busy = 0 /\ t2.queue = o.queue /\ t2.worker = "ended"
        /\ t2.unfinished = o.unfinished
    BY <1>2, <2>1 DEF Threads
  <2>3. t2 = [o EXCEPT !.busy = 0, !.worker = "ended"]
    BY <1>1, <2>1
  <2> QED
    BY <1>3, <2>2, <2>3
<1>4. CASE o.unfinished # 0
  <2>1. PICK n \in Nat : n = o.unfinished - 1
    BY <1>2, <1>4
  <2>2. PICK t2 : t2 = [t1 EXCEPT !.unfinished = n]
    OBVIOUS
  <2>3. /\ t2 \in Threads /\ t2.busy = 0 /\ t2.queue = o.queue /\ t2.worker = o.worker
        /\ t2.unfinished = n
    BY <1>2, <2>2 DEF Threads
  <2>4. t2 = [o EXCEPT !.busy = 0, !.unfinished = @ - 1]
    BY <1>1, <2>1, <2>2
  <2> QED
    BY <1>4, <2>1, <2>3, <2>4
<1> QED
  BY <1>3, <1>4

LEMMA DrainedIs ==
    ASSUME NEW o \in Threads, o.queue # <<>>, o.unfinished > 0
    PROVE  \E t \in Threads :
             /\ t = [o EXCEPT !.queue = Tail(o.queue), !.unfinished = @ - 1]
             /\ t.busy = o.busy /\ t.queue = Tail(o.queue) /\ t.worker = o.worker
             /\ t.unfinished = o.unfinished - 1
<1>1. PICK q : q = Tail(o.queue)
  OBVIOUS
<1>2. q \in Seq(Nat)
  BY <1>1, ThreadFields, TailTakes
<1>3. PICK n \in Nat : n = o.unfinished - 1
  BY ThreadFields
<1>4. PICK t1 : t1 = [o EXCEPT !.queue = q]
  OBVIOUS
<1>5. PICK t2 : t2 = [t1 EXCEPT !.unfinished = n]
  OBVIOUS
<1>6. t1 \in Threads /\ t1.busy = o.busy /\ t1.worker = o.worker /\ t1.queue = q
  BY <1>2, <1>4 DEF Threads
<1>7. t2 \in Threads /\ t2.busy = o.busy /\ t2.worker = o.worker /\ t2.queue = q /\ t2.unfinished = n
  BY <1>5, <1>6 DEF Threads
<1>8. t2 = [o EXCEPT !.queue = Tail(o.queue), !.unfinished = @ - 1]
  BY <1>1, <1>3, <1>4, <1>5
<1> QED
  BY <1>1, <1>3, <1>7, <1>8

LEMMA EndedIs ==
    ASSUME outbox \in [Providers -> Threads], NEW p \in Providers
    PROVE  \E t \in Threads :
             /\ [outbox EXCEPT ![p].worker = "ended"] = [outbox EXCEPT ![p] = t]
             /\ t.busy = outbox[p].busy /\ t.queue = outbox[p].queue /\ t.worker = "ended"
             /\ t.unfinished = outbox[p].unfinished
<1>1. PICK o \in Threads : o = outbox[p]
  OBVIOUS
<1>2. PICK t : t = [o EXCEPT !.worker = "ended"]
  OBVIOUS
<1>3. /\ t \in Threads /\ t.busy = o.busy /\ t.queue = o.queue /\ t.worker = "ended"
      /\ t.unfinished = o.unfinished
  BY <1>2 DEF Threads
<1>4. [outbox EXCEPT ![p].worker = "ended"] = [outbox EXCEPT ![p] = t]
  BY <1>1, <1>2
<1> QED
  BY <1>1, <1>3, <1>4

LEMMA StoppedIs ==
    ASSUME outbox \in [Providers -> Threads], NEW p \in Providers, NEW stop \in BOOLEAN
    PROVE  \E t \in Threads :
             /\ [outbox EXCEPT ![p].stop = stop] = [outbox EXCEPT ![p] = t]
             /\ t.busy = outbox[p].busy /\ t.queue = outbox[p].queue /\ t.worker = outbox[p].worker
             /\ t.unfinished = outbox[p].unfinished
<1>1. PICK o \in Threads : o = outbox[p]
  OBVIOUS
<1>2. PICK t : t = [o EXCEPT !.stop = stop]
  OBVIOUS
<1>3. /\ t \in Threads /\ t.busy = o.busy /\ t.queue = o.queue /\ t.worker = o.worker
      /\ t.unfinished = o.unfinished
  BY <1>2 DEF Threads
<1>4. [outbox EXCEPT ![p].stop = stop] = [outbox EXCEPT ![p] = t]
  BY <1>1, <1>2
<1> QED
  BY <1>1, <1>3, <1>4

\* What is asked of a step that changes the queue and the thread of p, once they are t.
BoxFits(p, t) ==
  /\ t.unfinished <= Len(t.queue) + (IF t.busy = 0 THEN 0 ELSE 1)
  /\ Len(t.queue) + (IF t.busy = 0 THEN 0 ELSE 1) <= t.unfinished + 1
  /\ t.worker # "alive" => t.busy = 0 /\ t.unfinished = Len(t.queue)
  /\ NoRepeats(t.queue) /\ t.busy \notin In(t.queue) /\ Len(t.queue) <= QueueSize
  /\ In(t.queue) \cup ({t.busy} \ {0}) \subseteq Held(p)

LEMMA BoxMoves ==
    ASSUME ProviderInv, NEW p \in Providers, NEW t \in Threads, outbox' = [outbox EXCEPT ![p] = t],
           provider' \in [Providers -> Objects],
           \A q \in Providers : q # p => provider'[q] = provider[q],
           UNCHANGED <<turns, accepted>>, excused \subseteq excused',
           provider'[p].pc = "turn" => InTurn(p) /\ provider'[p].id = provider[p].id,
           provider'[p].pc = "draining" => t.worker # "alive",
           provider'[p].pc = "closed" => t.worker # "alive" /\ Len(t.queue) = 0,
           BoxFits(p, t), NoRepeats(events'), Stored \subseteq Stored', Stored' \subseteq Stored \cup Held(p),
           (In(t.queue) \cup ({t.busy} \ {0})) \cap Stored' = {},
           \A e \in Held(p) : e \in In(t.queue) \cup ({t.busy} \ {0}) \/ e \in Stored' \/ e \in excused'
    PROVE  /\ Counted' /\ ClosedIsEmpty' /\ Places' /\ AcceptedAreThere'
           /\ outbox' \in [Providers -> Threads]
           /\ \A q \in Providers : Len(outbox'[q].queue) <= QueueSize
<1>0. /\ ProviderTyped /\ Counted /\ ClosedIsEmpty /\ Places /\ AcceptedAreThere /\ turns \in Nat
  BY ProviderParts
<1>1. /\ outbox' \in [Providers -> Threads] /\ outbox'[p] = t
      /\ \A q \in Providers : q # p => outbox'[q] = outbox[q]
  BY <1>0, BoxSets DEF ProviderTyped
<1>2. Queued(p)' = In(t.queue) /\ Held(p)' = In(t.queue) \cup ({t.busy} \ {0})
  BY <1>1, BoxHolds
<1>3. \A q \in Providers : Len(outbox'[q].queue) <= QueueSize
  BY <1>0, <1>1 DEF ProviderTyped, BoxFits
<1>4. Counted' /\ ClosedIsEmpty'
  <2>1. PICK inHand \in 0..1 : inHand = (IF t.busy = 0 THEN 0 ELSE 1)
    OBVIOUS
  <2>2. /\ t.unfinished <= Len(t.queue) + inHand /\ Len(t.queue) + inHand <= t.unfinished + 1
        /\ t.worker # "alive" => t.busy = 0 /\ t.unfinished = Len(t.queue)
    BY <2>1 DEF BoxFits
  <2> QED
    BY <1>0, <1>1, <2>1, <2>2, CountsMove
<1>5. Places'
  <2>1. NoRepeats(outbox'[p].queue) /\ outbox'[p].busy \notin Queued(p)'
    BY <1>1, <1>2 DEF BoxFits
  <2>2. Held(p)' \cap Stored' = {} /\ \A e \in Held(p)' : e \in Held(p)
    BY <1>2 DEF BoxFits
  <2>3. \A q \in Providers : q # p => outbox'[q] = outbox[q] /\ provider'[q] = provider[q]
    BY <1>1
  <2>4. turns' \in Nat /\ turns <= turns'
    BY <1>0
  <2> QED
    BY <1>0, <2>1, <2>2, <2>3, <2>4, PlacesMove
<1>6. AcceptedAreThere'
  <2>1. \A e \in Held(p) : e \in Held(p)' \/ e \in Stored' \/ e \in excused'
    BY <1>2
  <2>2. \A e \in accepted' : e \in accepted \/ e \in Held(p)'
    OBVIOUS
  <2> QED
    BY <1>0, <1>1, <2>1, <2>2, AcceptedMove
<1> QED
  BY <1>1, <1>3, <1>4, <1>5, <1>6

\* Steps that leave the objects and the anchors as they are.
LEMMA LinesSame ==
    ASSUME WritesFit, LastLineFits, UNCHANGED <<provider, anchorFile, lastWriter>>
    PROVE  WritesFit' /\ LastLineFits'
<1>1. Recovered' = Recovered /\ \A q \in Providers : Steady(q)' = Steady(q)
  BY DEF Recovered, Steady
<1> QED
  BY <1>1 DEF WritesFit, LastLineFits, WriteFits

\* What is in the queue and the hand of p.
LEMMA BoxFacts ==
    ASSUME ProviderInv, NEW p \in Providers, NEW o \in Threads, o = outbox[p]
    PROVE  /\ Held(p) = In(o.queue) \cup ({o.busy} \ {0}) /\ Works(p) = (o.worker = "alive")
           /\ NoRepeats(o.queue) /\ o.busy \notin In(o.queue) /\ Held(p) \subseteq 1..turns
           /\ Held(p) \cap Stored = {} /\ NoRepeats(events) /\ Len(o.queue) <= QueueSize
           /\ o.unfinished <= Len(o.queue) + (IF o.busy = 0 THEN 0 ELSE 1)
           /\ Len(o.queue) + (IF o.busy = 0 THEN 0 ELSE 1) <= o.unfinished + 1
           /\ o.worker # "alive" => o.busy = 0 /\ o.unfinished = Len(o.queue)
<1>1. ProviderTyped /\ Counted /\ Places
  BY ProviderParts
<1>2. Held(p) = In(o.queue) \cup ({o.busy} \ {0}) /\ Works(p) = (o.worker = "alive") /\ Queued(p) = In(o.queue)
  BY DEF Held, Queued, Works
<1>3. /\ NoRepeats(o.queue) /\ o.busy \notin In(o.queue) /\ Held(p) \subseteq 1..turns
      /\ Held(p) \cap Stored = {} /\ NoRepeats(events)
  BY <1>1, <1>2 DEF Places
<1>4. Len(o.queue) <= QueueSize
  BY <1>1 DEF ProviderTyped
<1>5. /\ o.unfinished <= Len(o.queue) + (IF o.busy = 0 THEN 0 ELSE 1)
      /\ Len(o.queue) + (IF o.busy = 0 THEN 0 ELSE 1) <= o.unfinished + 1
      /\ o.worker # "alive" => o.busy = 0 /\ o.unfinished = Len(o.queue)
  BY <1>1, <1>2 DEF Counted, InTheHand
<1> QED
  BY <1>2, <1>3, <1>4, <1>5

LEMMA TakeEventKeeps ==
    ASSUME ProviderInv, NEW p \in Providers, TakeEvent(p)
    PROVE  ProviderInv'
<1>0. /\ ProviderTyped /\ WritesFit /\ LastLineFits /\ ClosedIsEmpty /\ turns \in Nat
      /\ provider[p] \in Objects /\ outbox[p] \in Threads
  BY ProviderParts
<1> PICK o \in Threads : o = outbox[p]
  BY <1>0
<1>01. /\ Held(p) = In(o.queue) \cup ({o.busy} \ {0}) /\ Works(p) = (o.worker = "alive")
       /\ NoRepeats(o.queue) /\ o.busy \notin In(o.queue) /\ Held(p) \subseteq 1..turns
       /\ Held(p) \cap Stored = {} /\ NoRepeats(events) /\ Len(o.queue) <= QueueSize
       /\ o.unfinished <= Len(o.queue) + (IF o.busy = 0 THEN 0 ELSE 1)
       /\ Len(o.queue) + (IF o.busy = 0 THEN 0 ELSE 1) <= o.unfinished + 1
       /\ o.worker # "alive" => o.busy = 0 /\ o.unfinished = Len(o.queue)
  BY BoxFacts
<1>02. Len(o.queue) \in Nat /\ o.unfinished \in Nat /\ o.busy \in Nat /\ o.queue \in Seq(Nat)
  BY ThreadFields
<1>03. /\ provider[p].pc = "draining" => ~Works(p)
       /\ provider[p].pc = "closed" => ~Works(p) /\ Len(outbox[p].queue) = 0
  BY <1>0 DEF ClosedIsEmpty
<1>1. /\ o.worker = "alive" /\ o.busy = 0 /\ o.queue # <<>>
      /\ UNCHANGED <<provider, anchorFile, deferredFile, events, turns, inits, accepted, excused, lastWriter>>
  BY DEF TakeEvent, Works
<1>11. /\ Head(o.queue) \in Nat /\ Len(Tail(o.queue)) = Len(o.queue) - 1
       /\ In(o.queue) = In(Tail(o.queue)) \cup {Head(o.queue)}
       /\ NoRepeats(Tail(o.queue)) /\ Head(o.queue) \notin In(Tail(o.queue))
  BY <1>01, <1>02, <1>1, TailTakes
<1>2. PICK t \in Threads :
        /\ outbox' = [outbox EXCEPT ![p] = t]
        /\ t.busy = Head(o.queue) /\ t.queue = Tail(o.queue) /\ t.worker = o.worker
        /\ t.unfinished = o.unfinished
  <2>1. outbox' = [outbox EXCEPT ![p] = [o EXCEPT !.busy = Head(o.queue), !.queue = Tail(o.queue)]]
    BY DEF TakeEvent
  <2> QED
    BY <1>1, <2>1, TakenIs
<1>3. BoxFits(p, t)
  <2>1. Head(o.queue) # 0
    BY <1>01, <1>11
  <2>2. In(t.queue) \cup ({t.busy} \ {0}) \subseteq Held(p)
    BY <1>01, <1>11, <1>2
  <2>3. /\ t.unfinished <= Len(t.queue) + (IF t.busy = 0 THEN 0 ELSE 1)
        /\ Len(t.queue) + (IF t.busy = 0 THEN 0 ELSE 1) <= t.unfinished + 1
        /\ Len(t.queue) <= QueueSize
    BY <1>01, <1>02, <1>1, <1>11, <1>2, <2>1, ProviderAssumption
  <2> QED
    BY <1>1, <1>11, <1>2, <2>2, <2>3 DEF BoxFits
<1>4. /\ NoRepeats(events') /\ Stored \subseteq Stored' /\ Stored' \subseteq Stored \cup Held(p)
      /\ (In(t.queue) \cup ({t.busy} \ {0})) \cap Stored' = {}
      /\ \A e \in Held(p) : e \in In(t.queue) \cup ({t.busy} \ {0}) \/ e \in Stored' \/ e \in excused'
  <2>1. Stored' = Stored
    BY <1>1 DEF Stored
  <2> QED
    BY <1>01, <1>1, <1>11, <1>2, <2>1
<1>5. WritesFit' /\ LastLineFits'
  BY <1>0, <1>1, LinesSame
<1>6. /\ Counted' /\ ClosedIsEmpty' /\ Places' /\ AcceptedAreThere'
      /\ outbox' \in [Providers -> Threads] /\ \A q \in Providers : Len(outbox'[q].queue) <= QueueSize
  <2>1. provider' \in [Providers -> Objects] /\ \A q \in Providers : q # p => provider'[q] = provider[q]
    BY <1>0, <1>1 DEF ProviderTyped
  <2>2. /\ provider'[p].pc = "turn" => InTurn(p) /\ provider'[p].id = provider[p].id
        /\ excused \subseteq excused' /\ UNCHANGED <<turns, accepted>>
    BY <1>1 DEF InTurn
  <2>3. /\ provider'[p].pc = "draining" => t.worker # "alive"
        /\ provider'[p].pc = "closed" => t.worker # "alive" /\ Len(t.queue) = 0
    BY <1>01, <1>03, <1>1
  <2> QED
    BY <1>2, <1>3, <1>4, <2>1, <2>2, <2>3, BoxMoves
<1>7. ProviderTyped'
  BY <1>0, <1>1, <1>6 DEF ProviderTyped
<1> QED
  BY <1>5, <1>6, <1>7 DEF ProviderInv

LEMMA WriteEventKeeps ==
    ASSUME ProviderInv, NEW p \in Providers, WriteEvent(p)
    PROVE  ProviderInv'
<1>0. /\ ProviderTyped /\ WritesFit /\ LastLineFits /\ ClosedIsEmpty /\ turns \in Nat
      /\ provider[p] \in Objects /\ outbox[p] \in Threads
  BY ProviderParts
<1> PICK o \in Threads : o = outbox[p]
  BY <1>0
<1>01. /\ Held(p) = In(o.queue) \cup ({o.busy} \ {0}) /\ Works(p) = (o.worker = "alive")
       /\ NoRepeats(o.queue) /\ o.busy \notin In(o.queue) /\ Held(p) \subseteq 1..turns
       /\ Held(p) \cap Stored = {} /\ NoRepeats(events) /\ Len(o.queue) <= QueueSize
       /\ o.unfinished <= Len(o.queue) + (IF o.busy = 0 THEN 0 ELSE 1)
       /\ Len(o.queue) + (IF o.busy = 0 THEN 0 ELSE 1) <= o.unfinished + 1
       /\ o.worker # "alive" => o.busy = 0 /\ o.unfinished = Len(o.queue)
  BY BoxFacts
<1>02. Len(o.queue) \in Nat /\ o.unfinished \in Nat /\ o.busy \in Nat /\ o.queue \in Seq(Nat)
  BY ThreadFields
<1>03. /\ provider[p].pc = "draining" => ~Works(p)
       /\ provider[p].pc = "closed" => ~Works(p) /\ Len(outbox[p].queue) = 0
  BY <1>0 DEF ClosedIsEmpty
<1>1. /\ o.worker = "alive" /\ o.busy # 0 /\ events' = Append(events, o.busy)
      /\ UNCHANGED <<provider, anchorFile, deferredFile, turns, inits, accepted, excused, lastWriter>>
  BY DEF WriteEvent, Works
<1>2. PICK t \in Threads :
        /\ outbox' = [outbox EXCEPT ![p] = t]
        /\ t.busy = 0 /\ t.queue = o.queue
        /\ o.unfinished = 0 => t.worker = "ended" /\ t.unfinished = 0
        /\ o.unfinished # 0 => t.worker = o.worker /\ t.unfinished = o.unfinished - 1
  <2>1. outbox' = [outbox EXCEPT ![p] =
                     IF o.unfinished = 0 THEN [o EXCEPT !.busy = 0, !.worker = "ended"]
                     ELSE [o EXCEPT !.busy = 0, !.unfinished = @ - 1]]
    BY DEF WriteEvent
  <2> QED
    BY <2>1, WrittenIs
<1>3. BoxFits(p, t)
  <2>1. In(t.queue) \cup ({t.busy} \ {0}) \subseteq Held(p)
    BY <1>01, <1>2
  <2>2. 0 \notin In(t.queue)
    BY <1>01, <1>2
  <2>3. /\ t.unfinished <= Len(t.queue) + 0 /\ Len(t.queue) + 0 <= t.unfinished + 1
        /\ t.worker # "alive" => t.unfinished = Len(t.queue)
        /\ Len(t.queue) <= QueueSize
    BY <1>01, <1>02, <1>1, <1>2
  <2> QED
    BY <1>01, <1>2, <2>1, <2>2, <2>3 DEF BoxFits
<1>4. /\ NoRepeats(events') /\ Stored \subseteq Stored' /\ Stored' \subseteq Stored \cup Held(p)
      /\ (In(t.queue) \cup ({t.busy} \ {0})) \cap Stored' = {}
      /\ \A e \in Held(p) : e \in In(t.queue) \cup ({t.busy} \ {0}) \/ e \in Stored' \/ e \in excused'
  <2>1. o.busy \in Held(p) /\ o.busy \notin Stored
    BY <1>01, <1>02, <1>1
  <2>2. Stored' = Stored \cup {o.busy} /\ NoRepeats(events')
    BY <1>0, <1>01, <1>02, <1>1, <2>1, AppendAdds DEF ProviderTyped, Stored
  <2> QED
    BY <1>01, <1>1, <1>2, <2>1, <2>2
<1>5. WritesFit' /\ LastLineFits'
  BY <1>0, <1>1, LinesSame
<1>6. /\ Counted' /\ ClosedIsEmpty' /\ Places' /\ AcceptedAreThere'
      /\ outbox' \in [Providers -> Threads] /\ \A q \in Providers : Len(outbox'[q].queue) <= QueueSize
  <2>1. provider' \in [Providers -> Objects] /\ \A q \in Providers : q # p => provider'[q] = provider[q]
    BY <1>0, <1>1 DEF ProviderTyped
  <2>2. /\ provider'[p].pc = "turn" => InTurn(p) /\ provider'[p].id = provider[p].id
        /\ excused \subseteq excused' /\ UNCHANGED <<turns, accepted>>
    BY <1>1 DEF InTurn
  <2>3. /\ provider'[p].pc = "draining" => t.worker # "alive"
        /\ provider'[p].pc = "closed" => t.worker # "alive" /\ Len(t.queue) = 0
    BY <1>01, <1>03, <1>1
  <2> QED
    BY <1>2, <1>3, <1>4, <2>1, <2>2, <2>3, BoxMoves
<1>7. ProviderTyped'
  <2>1. events' \in Seq(Nat)
    BY <1>0, <1>02, <1>1, AppendAdds DEF ProviderTyped
  <2> QED
    BY <1>0, <1>1, <1>6, <2>1 DEF ProviderTyped
<1> QED
  BY <1>5, <1>6, <1>7 DEF ProviderInv

LEMMA EndWorkerKeeps ==
    ASSUME ProviderInv, NEW p \in Providers, EndWorker(p)
    PROVE  ProviderInv'
<1>0. /\ ProviderTyped /\ WritesFit /\ LastLineFits /\ ClosedIsEmpty /\ turns \in Nat
      /\ provider[p] \in Objects /\ outbox[p] \in Threads
  BY ProviderParts
<1> PICK o \in Threads : o = outbox[p]
  BY <1>0
<1>01. /\ Held(p) = In(o.queue) \cup ({o.busy} \ {0}) /\ Works(p) = (o.worker = "alive")
       /\ NoRepeats(o.queue) /\ o.busy \notin In(o.queue) /\ Held(p) \subseteq 1..turns
       /\ Held(p) \cap Stored = {} /\ NoRepeats(events) /\ Len(o.queue) <= QueueSize
       /\ o.unfinished <= Len(o.queue) + (IF o.busy = 0 THEN 0 ELSE 1)
       /\ Len(o.queue) + (IF o.busy = 0 THEN 0 ELSE 1) <= o.unfinished + 1
       /\ o.worker # "alive" => o.busy = 0 /\ o.unfinished = Len(o.queue)
  BY BoxFacts
<1>02. Len(o.queue) \in Nat /\ o.unfinished \in Nat /\ o.busy \in Nat /\ o.queue \in Seq(Nat)
  BY ThreadFields
<1>03. /\ provider[p].pc = "draining" => ~Works(p)
       /\ provider[p].pc = "closed" => ~Works(p) /\ Len(outbox[p].queue) = 0
  BY <1>0 DEF ClosedIsEmpty
<1>1. /\ o.worker = "alive" /\ o.busy = 0 /\ o.queue = <<>>
      /\ UNCHANGED <<provider, anchorFile, deferredFile, events, turns, inits, accepted, excused, lastWriter>>
  BY DEF EndWorker, LoopIsOver, Works
<1>2. PICK t \in Threads :
        /\ outbox' = [outbox EXCEPT ![p] = t]
        /\ t.busy = o.busy /\ t.queue = o.queue /\ t.worker = "ended" /\ t.unfinished = o.unfinished
  <2>1. outbox' = [outbox EXCEPT ![p].worker = "ended"]
    BY DEF EndWorker
  <2> QED
    BY <1>0, <2>1, EndedIs DEF ProviderTyped
<1>3. BoxFits(p, t)
  <2>1. Len(o.queue) = 0
    BY <1>1
  <2> QED
    BY <1>01, <1>02, <1>1, <1>2, <2>1 DEF BoxFits
<1>4. /\ NoRepeats(events') /\ Stored \subseteq Stored' /\ Stored' \subseteq Stored \cup Held(p)
      /\ (In(t.queue) \cup ({t.busy} \ {0})) \cap Stored' = {}
      /\ \A e \in Held(p) : e \in In(t.queue) \cup ({t.busy} \ {0}) \/ e \in Stored' \/ e \in excused'
  <2>1. Stored' = Stored
    BY <1>1 DEF Stored
  <2> QED
    BY <1>01, <1>1, <1>2, <2>1
<1>5. WritesFit' /\ LastLineFits'
  BY <1>0, <1>1, LinesSame
<1>6. /\ Counted' /\ ClosedIsEmpty' /\ Places' /\ AcceptedAreThere'
      /\ outbox' \in [Providers -> Threads] /\ \A q \in Providers : Len(outbox'[q].queue) <= QueueSize
  <2>1. provider' \in [Providers -> Objects] /\ \A q \in Providers : q # p => provider'[q] = provider[q]
    BY <1>0, <1>1 DEF ProviderTyped
  <2>2. /\ provider'[p].pc = "turn" => InTurn(p) /\ provider'[p].id = provider[p].id
        /\ excused \subseteq excused' /\ UNCHANGED <<turns, accepted>>
    BY <1>1 DEF InTurn
  <2>3. /\ provider'[p].pc = "draining" => t.worker # "alive"
        /\ provider'[p].pc = "closed" => t.worker # "alive" /\ Len(t.queue) = 0
    BY <1>03, <1>1, <1>2
  <2> QED
    BY <1>2, <1>3, <1>4, <2>1, <2>2, <2>3, BoxMoves
<1>7. ProviderTyped'
  BY <1>0, <1>1, <1>6 DEF ProviderTyped
<1> QED
  BY <1>5, <1>6, <1>7 DEF ProviderInv

LEMMA MovedIs ==
    ASSUME NEW s \in Objects, NEW pc \in ObjectStates
    PROVE  \E r \in Objects : /\ r = [s EXCEPT !.pc = pc] /\ r.pc = pc
                              /\ r.write = s.write /\ r.anchor = s.anchor
<1>1. PICK r : r = [s EXCEPT !.pc = pc]
  OBVIOUS
<1>2. r \in Objects /\ r.pc = pc /\ r.write = s.write /\ r.anchor = s.anchor
  BY <1>1 DEF Objects
<1> QED
  BY <1>1, <1>2

LEMMA ShutdownKeeps ==
    ASSUME ProviderInv, NEW p \in Providers, Shutdown(p)
    PROVE  ProviderInv'
<1>0. /\ ProviderTyped /\ WritesFit /\ LastLineFits /\ ClosedIsEmpty /\ turns \in Nat
      /\ provider[p] \in Objects /\ outbox[p] \in Threads
  BY ProviderParts
<1> PICK s \in Objects : s = provider[p]
  BY <1>0
<1> PICK o \in Threads : o = outbox[p]
  BY <1>0
<1>01. /\ Held(p) = In(o.queue) \cup ({o.busy} \ {0}) /\ Works(p) = (o.worker = "alive")
       /\ NoRepeats(o.queue) /\ o.busy \notin In(o.queue) /\ Held(p) \subseteq 1..turns
       /\ Held(p) \cap Stored = {} /\ NoRepeats(events) /\ Len(o.queue) <= QueueSize
       /\ o.unfinished <= Len(o.queue) + (IF o.busy = 0 THEN 0 ELSE 1)
       /\ Len(o.queue) + (IF o.busy = 0 THEN 0 ELSE 1) <= o.unfinished + 1
       /\ o.worker # "alive" => o.busy = 0 /\ o.unfinished = Len(o.queue)
  BY BoxFacts
<1>02. Len(o.queue) \in Nat /\ o.unfinished \in Nat /\ o.busy \in Nat /\ o.queue \in Seq(Nat)
  BY ThreadFields
<1>03. /\ s.pc = "draining" => ~Works(p)
       /\ s.pc = "closed" => ~Works(p) /\ Len(o.queue) = 0
  BY <1>0 DEF ClosedIsEmpty
<1>1. /\ s.pc = "idle"
      /\ UNCHANGED <<anchorFile, deferredFile, events, turns, inits, accepted, excused, lastWriter>>
  BY DEF Shutdown
<1>11. PICK pc \in ObjectStates : pc = IF Works(p) THEN "joining" ELSE "draining"
  BY DEF ObjectStates
<1>12. PICK r \in Objects : /\ r = [s EXCEPT !.pc = pc] /\ r.pc = pc /\ r.write = s.write /\ r.anchor = s.anchor
  BY MovedIs
<1>13. Becomes(p, r)
  BY <1>11, <1>12 DEF Shutdown
<1>14. /\ provider' \in [Providers -> Objects] /\ provider'[p] = r
       /\ \A q \in Providers : q # p => provider'[q] = provider[q]
  BY <1>0, <1>13, BecomesSets DEF ProviderTyped
<1>2. PICK t \in Threads :
        /\ outbox' = [outbox EXCEPT ![p] = t]
        /\ t.busy = o.busy /\ t.queue = o.queue /\ t.worker = o.worker /\ t.unfinished = o.unfinished
  <2>1. PICK stop \in BOOLEAN : stop = (outbox[p].stop \/ Works(p))
    OBVIOUS
  <2>2. outbox' = [outbox EXCEPT ![p].stop = stop]
    BY <2>1 DEF Shutdown
  <2> QED
    <3>1. outbox \in [Providers -> Threads]
      BY <1>0 DEF ProviderTyped
    <3>2. PICK t \in Threads :
            /\ [outbox EXCEPT ![p].stop = stop] = [outbox EXCEPT ![p] = t]
            /\ t.busy = outbox[p].busy /\ t.queue = outbox[p].queue /\ t.worker = outbox[p].worker
            /\ t.unfinished = outbox[p].unfinished
      BY <3>1, StoppedIs
    <3>3. outbox' = [outbox EXCEPT ![p] = t]
      BY <2>2, <3>2
    <3> QED
      BY <3>2, <3>3
<1>3. BoxFits(p, t)
  BY <1>01, <1>2 DEF BoxFits
<1>4. WritesFit' /\ LastLineFits'
  BY <1>0, <1>1, <1>12, <1>14, LinesMove
<1>5. /\ Counted' /\ ClosedIsEmpty' /\ Places' /\ AcceptedAreThere'
      /\ outbox' \in [Providers -> Threads] /\ \A q \in Providers : Len(outbox'[q].queue) <= QueueSize
  <2>1. Stored' = Stored
    BY <1>1 DEF Stored
  <2>2. /\ NoRepeats(events') /\ Stored \subseteq Stored' /\ Stored' \subseteq Stored \cup Held(p)
        /\ (In(t.queue) \cup ({t.busy} \ {0})) \cap Stored' = {}
        /\ \A e \in Held(p) : e \in In(t.queue) \cup ({t.busy} \ {0}) \/ e \in Stored' \/ e \in excused'
    BY <1>01, <1>1, <1>2, <2>1
  <2>3. /\ provider'[p].pc = "turn" => InTurn(p) /\ provider'[p].id = provider[p].id
        /\ excused \subseteq excused' /\ UNCHANGED <<turns, accepted>>
    BY <1>1, <1>11, <1>12, <1>14
  <2>4. /\ provider'[p].pc = "draining" => t.worker # "alive"
        /\ provider'[p].pc = "closed" => t.worker # "alive" /\ Len(t.queue) = 0
    BY <1>01, <1>11, <1>12, <1>14, <1>2
  <2> QED
    BY <1>14, <1>2, <1>3, <2>2, <2>3, <2>4, BoxMoves
<1>6. ProviderTyped'
  BY <1>0, <1>1, <1>14, <1>5 DEF ProviderTyped
<1> QED
  BY <1>4, <1>5, <1>6 DEF ProviderInv

LEMMA JoinWorkerKeeps ==
    ASSUME ProviderInv, NEW p \in Providers, JoinWorker(p)
    PROVE  ProviderInv'
<1>0. /\ ProviderTyped /\ WritesFit /\ LastLineFits /\ ClosedIsEmpty /\ turns \in Nat
      /\ provider[p] \in Objects /\ outbox[p] \in Threads
  BY ProviderParts
<1> PICK s \in Objects : s = provider[p]
  BY <1>0
<1> PICK o \in Threads : o = outbox[p]
  BY <1>0
<1>01. /\ Held(p) = In(o.queue) \cup ({o.busy} \ {0}) /\ Works(p) = (o.worker = "alive")
       /\ NoRepeats(o.queue) /\ o.busy \notin In(o.queue) /\ Held(p) \subseteq 1..turns
       /\ Held(p) \cap Stored = {} /\ NoRepeats(events) /\ Len(o.queue) <= QueueSize
       /\ o.unfinished <= Len(o.queue) + (IF o.busy = 0 THEN 0 ELSE 1)
       /\ Len(o.queue) + (IF o.busy = 0 THEN 0 ELSE 1) <= o.unfinished + 1
       /\ o.worker # "alive" => o.busy = 0 /\ o.unfinished = Len(o.queue)
  BY BoxFacts
<1>02. Len(o.queue) \in Nat /\ o.unfinished \in Nat /\ o.busy \in Nat /\ o.queue \in Seq(Nat)
  BY ThreadFields
<1>03. /\ s.pc = "draining" => ~Works(p)
       /\ s.pc = "closed" => ~Works(p) /\ Len(o.queue) = 0
  BY <1>0 DEF ClosedIsEmpty
<1>1. /\ o.unfinished = 0 /\ ~Works(p)
      /\ UNCHANGED <<outbox, anchorFile, deferredFile, events, turns, inits, accepted, excused, lastWriter>>
  BY DEF JoinWorker
<1>11. PICK pc \in ObjectStates : pc = "closed"
  BY DEF ObjectStates
<1>12. PICK r \in Objects : /\ r = [s EXCEPT !.pc = pc] /\ r.pc = pc /\ r.write = s.write /\ r.anchor = s.anchor
  BY MovedIs
<1>13. Becomes(p, r)
  BY <1>11, <1>12 DEF JoinWorker
<1>14. /\ provider' \in [Providers -> Objects] /\ provider'[p] = r
       /\ \A q \in Providers : q # p => provider'[q] = provider[q]
  BY <1>0, <1>13, BecomesSets DEF ProviderTyped
<1>2. WritesFit' /\ LastLineFits'
  BY <1>0, <1>1, <1>12, <1>14, LinesMove
<1>3. Counted' /\ ClosedIsEmpty' /\ Places' /\ AcceptedAreThere'
  <2>1. ~Works(p) /\ Len(outbox[p].queue) = 0
    BY <1>01, <1>1
  <2>2. turns' \in Nat /\ turns <= turns' /\ provider'[p].pc = "closed"
    BY <1>0, <1>1, <1>11, <1>12, <1>14
  <2> QED
    BY <1>1, <1>14, <2>1, <2>2, BoxKept
<1>4. ProviderTyped'
  BY <1>0, <1>1, <1>14 DEF ProviderTyped
<1> QED
  BY <1>2, <1>3, <1>4 DEF ProviderInv

LEMMA DrainQueueKeeps ==
    ASSUME ProviderInv, NEW p \in Providers, DrainQueue(p)
    PROVE  ProviderInv'
<1>0. /\ ProviderTyped /\ WritesFit /\ LastLineFits /\ ClosedIsEmpty /\ turns \in Nat
      /\ provider[p] \in Objects /\ outbox[p] \in Threads
  BY ProviderParts
<1> PICK s \in Objects : s = provider[p]
  BY <1>0
<1> PICK o \in Threads : o = outbox[p]
  BY <1>0
<1>01. /\ Held(p) = In(o.queue) \cup ({o.busy} \ {0}) /\ Works(p) = (o.worker = "alive")
       /\ NoRepeats(o.queue) /\ o.busy \notin In(o.queue) /\ Held(p) \subseteq 1..turns
       /\ Held(p) \cap Stored = {} /\ NoRepeats(events) /\ Len(o.queue) <= QueueSize
       /\ o.unfinished <= Len(o.queue) + (IF o.busy = 0 THEN 0 ELSE 1)
       /\ Len(o.queue) + (IF o.busy = 0 THEN 0 ELSE 1) <= o.unfinished + 1
       /\ o.worker # "alive" => o.busy = 0 /\ o.unfinished = Len(o.queue)
  BY BoxFacts
<1>02. Len(o.queue) \in Nat /\ o.unfinished \in Nat /\ o.busy \in Nat /\ o.queue \in Seq(Nat)
  BY ThreadFields
<1>03. /\ s.pc = "draining" => ~Works(p)
       /\ s.pc = "closed" => ~Works(p) /\ Len(o.queue) = 0
  BY <1>0 DEF ClosedIsEmpty
<1>1. /\ s.pc = "draining" /\ ~Works(p) /\ o.worker # "alive"
      /\ UNCHANGED <<anchorFile, deferredFile, turns, inits, accepted, excused, lastWriter>>
  BY <1>01, <1>03 DEF DrainQueue
<1>2. CASE o.queue = <<>>
  <2>1. PICK pc \in ObjectStates : pc = "closed"
    BY DEF ObjectStates
  <2>2. PICK r \in Objects : /\ r = [s EXCEPT !.pc = pc] /\ r.pc = pc /\ r.write = s.write /\ r.anchor = s.anchor
    BY MovedIs
  <2>3. Becomes(p, r) /\ UNCHANGED <<events, outbox>>
    BY <1>2, <2>1, <2>2 DEF DrainQueue
  <2>4. /\ provider' \in [Providers -> Objects] /\ provider'[p] = r
        /\ \A q \in Providers : q # p => provider'[q] = provider[q]
    BY <1>0, <2>3, BecomesSets DEF ProviderTyped
  <2>5. WritesFit' /\ LastLineFits'
    BY <1>0, <1>1, <2>2, <2>4, LinesMove
  <2>6. Counted' /\ ClosedIsEmpty' /\ Places' /\ AcceptedAreThere'
    <3>1. ~Works(p) /\ Len(outbox[p].queue) = 0
      BY <1>1, <1>2
    <3>2. turns' \in Nat /\ turns <= turns' /\ provider'[p].pc = "closed"
      BY <1>0, <1>1, <2>1, <2>2, <2>4
    <3> QED
      BY <1>1, <2>3, <2>4, <3>1, <3>2, BoxKept
  <2>7. ProviderTyped'
    BY <1>0, <1>1, <2>3, <2>4 DEF ProviderTyped
  <2> QED
    BY <2>5, <2>6, <2>7 DEF ProviderInv
<1>3. CASE o.queue # <<>>
  <2>1. /\ Head(o.queue) \in Nat /\ Len(Tail(o.queue)) = Len(o.queue) - 1 /\ Len(o.queue) > 0
        /\ In(o.queue) = In(Tail(o.queue)) \cup {Head(o.queue)}
        /\ NoRepeats(Tail(o.queue)) /\ Head(o.queue) \notin In(Tail(o.queue))
    BY <1>01, <1>02, <1>3, TailTakes
  <2>2. o.busy = 0 /\ o.unfinished = Len(o.queue)
    BY <1>01, <1>1
  <2>3. /\ outbox' = [outbox EXCEPT ![p] = [o EXCEPT !.queue = Tail(o.queue), !.unfinished = @ - 1]]
        /\ events' = Append(events, Head(o.queue)) /\ UNCHANGED provider
    BY <1>3 DEF DrainQueue
  <2>4. PICK t \in Threads :
          /\ outbox' = [outbox EXCEPT ![p] = t]
          /\ t.busy = o.busy /\ t.queue = Tail(o.queue) /\ t.worker = o.worker
          /\ t.unfinished = o.unfinished - 1
    <3>1. o.unfinished > 0
      BY <2>1, <2>2
    <3> QED
      BY <1>3, <2>3, <3>1, DrainedIs
  <2>5. BoxFits(p, t)
    <3>1. /\ t.unfinished <= Len(t.queue) + 0 /\ Len(t.queue) + 0 <= t.unfinished + 1
          /\ t.unfinished = Len(t.queue) /\ Len(t.queue) <= QueueSize
      BY <1>01, <1>02, <2>1, <2>2, <2>4, ProviderAssumption
    <3> QED
      BY <1>01, <2>1, <2>2, <2>4, <3>1 DEF BoxFits
  <2>6. Head(o.queue) \in Held(p) /\ Head(o.queue) \notin Stored
    BY <1>01, <2>1
  <2>7. Stored' = Stored \cup {Head(o.queue)} /\ NoRepeats(events') /\ events' \in Seq(Nat)
    BY <1>0, <1>01, <2>1, <2>3, <2>6, AppendAdds DEF ProviderTyped, Stored
  <2>8. /\ Counted' /\ ClosedIsEmpty' /\ Places' /\ AcceptedAreThere'
        /\ outbox' \in [Providers -> Threads] /\ \A q \in Providers : Len(outbox'[q].queue) <= QueueSize
    <3>1. /\ NoRepeats(events') /\ Stored \subseteq Stored' /\ Stored' \subseteq Stored \cup Held(p)
          /\ (In(t.queue) \cup ({t.busy} \ {0})) \cap Stored' = {}
          /\ \A e \in Held(p) : e \in In(t.queue) \cup ({t.busy} \ {0}) \/ e \in Stored' \/ e \in excused'
      BY <1>01, <2>1, <2>2, <2>4, <2>6, <2>7
    <3>2. /\ provider' \in [Providers -> Objects]
          /\ \A q \in Providers : q # p => provider'[q] = provider[q]
      BY <1>0, <2>3 DEF ProviderTyped
    <3>3. /\ provider'[p].pc = "turn" => InTurn(p) /\ provider'[p].id = provider[p].id
          /\ excused \subseteq excused' /\ UNCHANGED <<turns, accepted>>
      BY <1>1, <2>3
    <3>4. /\ provider'[p].pc = "draining" => t.worker # "alive"
          /\ provider'[p].pc = "closed" => t.worker # "alive" /\ Len(t.queue) = 0
      BY <1>1, <2>3, <2>4
    <3> QED
      BY <2>4, <2>5, <3>1, <3>2, <3>3, <3>4, BoxMoves
  <2>9. WritesFit' /\ LastLineFits'
    BY <1>0, <1>1, <2>3, LinesSame
  <2>10. ProviderTyped'
    BY <1>0, <1>1, <2>3, <2>7, <2>8 DEF ProviderTyped
  <2> QED
    BY <2>8, <2>9, <2>10 DEF ProviderInv
<1> QED
  BY <1>2, <1>3

LEMMA CrashProviderKeeps ==
    ASSUME ProviderInv, NEW p \in Providers, CrashProvider(p)
    PROVE  ProviderInv'
<1>0. /\ ProviderTyped /\ WritesFit /\ LastLineFits /\ ClosedIsEmpty /\ turns \in Nat
      /\ provider[p] \in Objects /\ outbox[p] \in Threads
  BY ProviderParts
<1> PICK s \in Objects : s = provider[p]
  BY <1>0
<1> PICK o \in Threads : o = outbox[p]
  BY <1>0
<1>01. /\ Held(p) = In(o.queue) \cup ({o.busy} \ {0}) /\ Works(p) = (o.worker = "alive")
       /\ NoRepeats(o.queue) /\ o.busy \notin In(o.queue) /\ Held(p) \subseteq 1..turns
       /\ Held(p) \cap Stored = {} /\ NoRepeats(events) /\ Len(o.queue) <= QueueSize
       /\ o.unfinished <= Len(o.queue) + (IF o.busy = 0 THEN 0 ELSE 1)
       /\ Len(o.queue) + (IF o.busy = 0 THEN 0 ELSE 1) <= o.unfinished + 1
       /\ o.worker # "alive" => o.busy = 0 /\ o.unfinished = Len(o.queue)
  BY BoxFacts
<1>02. Len(o.queue) \in Nat /\ o.unfinished \in Nat /\ o.busy \in Nat /\ o.queue \in Seq(Nat)
  BY ThreadFields
<1>03. /\ s.pc = "draining" => ~Works(p)
       /\ s.pc = "closed" => ~Works(p) /\ Len(o.queue) = 0
  BY <1>0 DEF ClosedIsEmpty
<1>1. /\ Becomes(p, NewObject) /\ outbox' = [outbox EXCEPT ![p] = NoThread]
      /\ excused' = excused \cup In(o.queue) \cup ({o.busy} \ {0})
      /\ UNCHANGED <<anchorFile, deferredFile, events, turns, inits, accepted, lastWriter>>
  BY DEF CrashProvider, In
<1>2. /\ NewObject \in Objects /\ NewObject.pc = "off" /\ NewObject.write = NoWrite
      /\ NewObject.anchor.form = "none"
      /\ NoThread \in Threads /\ Len(NoThread.queue) = 0 /\ In(NoThread.queue) = {} /\ NoRepeats(NoThread.queue)
      /\ NoThread.unfinished = 0 /\ NoThread.busy = 0 /\ NoThread.worker = "none"
  <2>1. NoAnchor.form = "none"
    BY DEF NoAnchor
  <2>2. Len(<<>>) = 0 /\ In(<<>>) = {} /\ NoRepeats(<<>>)
    BY DEF In, NoRepeats
  <2> QED
    BY <2>1, <2>2, NewTyped, NewFields
<1>3. /\ provider' \in [Providers -> Objects] /\ provider'[p] = NewObject
      /\ \A q \in Providers : q # p => provider'[q] = provider[q]
  BY <1>0, <1>1, <1>2, BecomesSets DEF ProviderTyped
<1>4. BoxFits(p, NoThread)
  BY <1>2, ProviderAssumption DEF BoxFits
<1>5. WritesFit' /\ LastLineFits'
  BY <1>0, <1>1, <1>2, <1>3, LinesMove
<1>6. /\ Counted' /\ ClosedIsEmpty' /\ Places' /\ AcceptedAreThere'
      /\ outbox' \in [Providers -> Threads] /\ \A q \in Providers : Len(outbox'[q].queue) <= QueueSize
  <2>1. PICK t \in Threads : t = NoThread
    BY <1>2
  <2>2. Stored' = Stored
    BY <1>1 DEF Stored
  <2>3. /\ NoRepeats(events') /\ Stored \subseteq Stored' /\ Stored' \subseteq Stored \cup Held(p)
        /\ (In(t.queue) \cup ({t.busy} \ {0})) \cap Stored' = {}
        /\ \A e \in Held(p) : e \in In(t.queue) \cup ({t.busy} \ {0}) \/ e \in Stored' \/ e \in excused'
    BY <1>01, <1>1, <1>2, <2>1, <2>2
  <2>4. /\ provider'[p].pc # "turn" /\ provider'[p].pc # "draining" /\ provider'[p].pc # "closed"
        /\ excused \subseteq excused' /\ UNCHANGED <<turns, accepted>>
    BY <1>1, <1>2, <1>3
  <2>5. outbox' = [outbox EXCEPT ![p] = t] /\ BoxFits(p, t)
    BY <1>1, <1>4, <2>1
  <2> QED
    BY <1>3, <2>3, <2>4, <2>5, BoxMoves
<1>7. ProviderTyped'
  BY <1>0, <1>1, <1>3, <1>6 DEF ProviderTyped
<1> QED
  BY <1>5, <1>6, <1>7 DEF ProviderInv

LEMMA ProviderInvStays == ProviderInv /\ [ProviderNext]_providerVars => ProviderInv'
<1>1. ASSUME ProviderInv, UNCHANGED providerVars
      PROVE  ProviderInv'
  <2>1. UNCHANGED <<provider, outbox, anchorFile, deferredFile, events, turns, inits, accepted, excused, lastWriter>>
    BY <1>1 DEF providerVars
  <2>2. ProviderTyped' /\ Counted' /\ ClosedIsEmpty' /\ Places' /\ AcceptedAreThere' /\ WritesFit' /\ LastLineFits'
    <3>0. /\ ProviderTyped /\ WritesFit /\ LastLineFits /\ Counted /\ ClosedIsEmpty /\ Places
          /\ AcceptedAreThere /\ turns \in Nat
      BY <1>1, ProviderParts
    <3>1. /\ \A q \in Providers : /\ Queued(q)' = Queued(q) /\ Held(q)' = Held(q) /\ Works(q)' = Works(q)
                                    /\ InTheHand(q)' = InTheHand(q) /\ InTurn(q)' = InTurn(q)
          /\ Stored' = Stored
      BY <2>1, BoxSame DEF InTurn
    <3>2. ProviderTyped'
      BY <2>1, <3>0 DEF ProviderTyped
    <3>3. WritesFit' /\ LastLineFits'
      BY <2>1, <3>0, LinesSame
    <3>4. Counted' /\ ClosedIsEmpty' /\ AcceptedAreThere'
      BY <2>1, <3>0, <3>1 DEF Counted, ClosedIsEmpty, AcceptedAreThere
    <3>5. Places'
      BY <2>1, <3>0, <3>1 DEF Places, NoRepeats
    <3> QED
      BY <3>2, <3>3, <3>4, <3>5
  <2> QED
    BY <2>2 DEF ProviderInv
<1>2. ASSUME ProviderInv, ProviderNext
      PROVE  ProviderInv'
  <2> PICK p \in Providers :
        \/ Initialize(p) \/ Shutdown(p) \/ CrashProvider(p)
        \/ \E intent \in Intents(provider[p].anchor), text \in Texts : Prefetch(p, intent, text)
        \/ \E busy \in BOOLEAN : SyncTurn(p, busy) \/ \E user \in BOOLEAN : PreCompress(p, user, busy)
        \/ WriterStep(p) \/ WorkerStep(p) \/ ClosingStep(p)
    BY <1>2 DEF ProviderNext
  <2>1. CASE Initialize(p) \/ Shutdown(p) \/ CrashProvider(p)
    BY <1>2, <2>1, InitializeKeeps, ShutdownKeeps, CrashProviderKeeps
  <2>2. CASE \E intent \in Intents(provider[p].anchor), text \in Texts : Prefetch(p, intent, text)
    BY <1>2, <2>2, PrefetchKeeps
  <2>3. CASE \E busy \in BOOLEAN : SyncTurn(p, busy) \/ \E user \in BOOLEAN : PreCompress(p, user, busy)
    BY <1>2, <2>3, SyncTurnKeeps, PreCompressKeeps
  <2>4. CASE WriterStep(p)
    BY <1>2, <2>4, SupersedeKeeps, WriteAnchorKeeps DEF WriterStep
  <2>5. CASE WorkerStep(p)
    BY <1>2, <2>5, TakeEventKeeps, WriteEventKeeps, EndWorkerKeeps DEF WorkerStep
  <2>6. CASE ClosingStep(p)
    BY <1>2, <2>6, JoinWorkerKeeps, DrainQueueKeeps DEF ClosingStep
  <2> QED
    BY <2>1, <2>2, <2>3, <2>4, <2>5, <2>6
<1> QED
  BY <1>1, <1>2

LEMMA ProviderIsInv == ProviderSpec => []ProviderInv
<1>1. ProviderInit => ProviderInv
  BY ProviderInvInit
<1>2. ProviderInv /\ [ProviderNext]_providerVars => ProviderInv'
  BY ProviderInvStays
<1> QED
  BY <1>1, <1>2, PTL DEF ProviderSpec

\* The objects of the providers, their queues and threads and the files have the values the
\* code gives them; a queue never grows past its size.
THEOREM ProviderTypeCorrect == ProviderSpec => []ProviderTypeOK
<1>1. ProviderInv => ProviderTypeOK
  <2> SUFFICES ASSUME ProviderInv PROVE ProviderTypeOK
    OBVIOUS
  <2>1. ProviderTyped
    BY ProviderParts
  <2>2. ASSUME NEW p \in Providers
        PROVE  /\ provider[p].pc \in {"off", "idle", "turn", "joining", "draining", "closed"}
               /\ provider[p].anchor \in Anchors /\ provider[p].switches \in 0..1
               /\ Len(outbox[p].queue) <= QueueSize /\ outbox[p].unfinished \in Nat
               /\ outbox[p].worker \in {"none", "alive", "ended"}
    <3>1. provider[p] \in Objects /\ outbox[p] \in Threads /\ Len(outbox[p].queue) <= QueueSize
      BY <2>1 DEF ProviderTyped
    <3> QED
      BY <3>1 DEF Objects, ObjectStates, Threads
  <2>3. /\ anchorFile.last.status \in {"none", "active", "superseded", "completed", "cancelled"}
        /\ anchorFile.active \in BOOLEAN /\ deferredFile \in Anchors
        /\ turns \in 0..MaxTurns /\ inits \in 0..MaxInits
    BY <2>1 DEF ProviderTyped, AnchorLines
  <2> QED
    BY <2>2, <2>3 DEF ProviderTypeOK
<1> QED
  BY <1>1, ProviderIsInv, PTL

\* What a provider promised to remember it does: an event that its queue took is stored once,
\* also by a shutdown, unless the queue was replaced or the process killed, and the anchor it
\* works under is the one a restart finds.
THEOREM ProviderAlwaysRemembers == ProviderSpec => []ProviderRemembers
<1>1. ProviderInv => ProviderRemembers
  <2> SUFFICES ASSUME ProviderInv PROVE ProviderRemembers
    OBVIOUS
  <2>0. Places /\ AcceptedAreThere /\ LastLineFits /\ ClosedIsEmpty /\ ProviderTyped /\ Counted
    BY ProviderParts
  <2>1. AcceptedEventsAreWritten
    <3>1. \A i, j \in 1..Len(events) : events[i] = events[j] => i = j
      BY <2>0 DEF Places, NoRepeats
    <3>2. ASSUME NEW e \in accepted \ excused
          PROVE  \/ \E i \in 1..Len(events) : events[i] = e
                 \/ \E p \in Providers : /\ provider[p].pc # "closed"
                                         /\ \/ outbox[p].busy = e
                                            \/ \E i \in 1..Len(outbox[p].queue) : outbox[p].queue[i] = e
      <4>1. CASE e \in Stored
        BY <4>1 DEF Stored, In
      <4>2. ASSUME NEW p \in Providers, e \in Held(p)
            PROVE  \E q \in Providers : /\ provider[q].pc # "closed"
                                         /\ \/ outbox[q].busy = e
                                            \/ \E i \in 1..Len(outbox[q].queue) : outbox[q].queue[i] = e
        <5>1. outbox[p].busy = e \/ \E i \in 1..Len(outbox[p].queue) : outbox[p].queue[i] = e
          BY <4>2 DEF Held, Queued, In
        <5>2. ASSUME provider[p].pc = "closed" PROVE FALSE
          <6>1. outbox[p].busy = 0 /\ Len(outbox[p].queue) = 0
            BY <2>0, <5>2 DEF ClosedIsEmpty, Counted
          <6> QED
            BY <4>2, <6>1 DEF Held, Queued, In
        <5> QED
          BY <5>1, <5>2
      <4> QED
        BY <2>0, <4>1, <4>2 DEF AcceptedAreThere
    <3> QED
      BY <3>1, <3>2 DEF AcceptedEventsAreWritten
  <2>2. AnchorsAreRecovered
    BY <2>0 DEF AnchorsAreRecovered, LastLineFits
  <2> QED
    BY <2>1, <2>2 DEF ProviderRemembers
<1> QED
  BY <1>1, ProviderIsInv, PTL

-----------------------------------------------------------------------------
(* The lanes, for any runners, sessions, signals and bounds.                 *)

Permits == [lane: LaneKinds, scope: SUBSET Sessions, until: Nat]
IndexEntries == [permit: BOOLEAN, completions: Nat]
Keys == Sessions \X Nat
WorkItems == (Sessions \cup Signals) \X Nat
Stages == {"free", "index", "reindex", "collect", "project", "complete", "rescan", "mirror", "record"}
Runnings == [pc: Stages, lane: LaneKinds, permit: Nat, stage: {"none", "permit", "completion"}, known: Seq(IndexEntries),
             auto: BOOLEAN, work: SUBSET WorkItems, loaded: SUBSET Keys]
Mirrorings == [key: Keys, talk: BOOLEAN]
MirrorStates == [file: {"missing", "ok", "corrupt"}, seen: SUBSET Keys]

GateTyped ==
    /\ gateTime \in 0..MaxGateTime
    /\ permits \in Seq(Permits) /\ Len(permits) <= MaxPermits
    /\ completions \in Seq(Nat) /\ Len(completions) = Len(permits)
    /\ gateIndex \in Seq(IndexEntries) /\ Len(gateIndex) = Len(permits)

MirrorTyped ==
    /\ session \in [Sessions -> [content: Nat, talk: BOOLEAN]] /\ captured \subseteq Sessions
    /\ mirrored \in Seq(Mirrorings) /\ mirrorState \in MirrorStates
    /\ approval \in {"none", "once", "graduated", "disabled"} /\ consumed \in BOOLEAN

SignalsTyped == signal \in [Signals -> Nat] /\ projections \in Seq(WorkItems)

\* Who works under a permit has one of the log; only the owner's apply needs none.
RunnerFits(h) ==
    /\ h.permit \in 0..Len(permits) /\ (h.pc # "free" /\ h.auto => h.permit # 0)
    /\ ~h.auto => h.pc \in {"rescan", "mirror", "record"}
    /\ Len(h.known) <= Len(permits)
    /\ h.pc = "mirror" => h.work \subseteq Keys

RunnersTyped ==
    /\ runner \in [Runners -> Runnings]
    /\ \A r \in Runners : RunnerFits(runner[r])

LanesTyped == GateTyped /\ MirrorTyped /\ SignalsTyped /\ RunnersTyped

\* A completion that the index misses is about to be written there, or its permit is unsure.
MissedAreUnsure ==
    \A n \in 1..Len(permits) :
      gateIndex[n].completions = 0 /\ completions[n] > 0 => n \in unsure \/ Completing(n)

WritesAreHonoured == (\A w \in governed : w.permit \in 1..Len(permits)) /\ PermitsAreHonoured

\* What is to be projected is not there yet, and nobody else is about to.
SignalsFit ==
    /\ \A r, o \in Runners : r # o /\ runner[r].pc = "project" /\ runner[o].pc = "project"
                               => runner[r].work \subseteq strayed
    /\ \A r \in Runners : runner[r].pc = "project" =>
         \A i \in 1..Len(projections) : projections[i] \in runner[r].work => projections[i] \in strayed
    /\ \A i, j \in 1..Len(projections) : projections[i] = projections[j] /\ projections[i] \notin strayed => i = j

\* What was mirrored is known to the state, and to each who mirrors, or is in the hands of one.
SessionsFit ==
    /\ \A r, o \in Runners : r # o /\ runner[r].pc = "mirror" /\ runner[o].pc = "mirror"
                               => runner[r].work \subseteq strayed
    /\ \A r \in Runners : runner[r].pc = "mirror" =>
         \A i \in 1..Len(mirrored) : mirrored[i].key \in strayed \cup runner[r].loaded
    /\ \A i \in 1..Len(mirrored) :
         \/ mirrored[i].key \in strayed \cup Loaded
         \/ \E r \in Runners : runner[r].pc = "mirror" /\ mirrored[i].key \in runner[r].work
    /\ \A i, j \in 1..Len(mirrored) : mirrored[i].key = mirrored[j].key /\ mirrored[i].key \notin strayed => i = j

LanesInv == LanesTyped /\ MissedAreUnsure /\ WritesAreHonoured /\ SignalsFit /\ SessionsFit

LEMMA FreeTyped ==
    /\ Free \in Runnings /\ Free.pc = "free" /\ Free.lane = "mirror" /\ Free.permit = 0 /\ Free.auto
    /\ Free.known = <<>> /\ Len(Free.known) = 0
<1>1. PICK none : none = <<>>
  OBVIOUS
<1>2. none \in Seq(IndexEntries) /\ Len(none) = 0
  BY <1>1
<1>3. PICK on \in BOOLEAN : on = TRUE
  OBVIOUS
<1>4. PICK f : f = [pc |-> "free", lane |-> "mirror", permit |-> 0, stage |-> "none", known |-> none, auto |-> on,
                    work |-> {}, loaded |-> {}]
  OBVIOUS
<1>5. /\ f \in Runnings /\ f.pc = "free" /\ f.lane = "mirror" /\ f.permit = 0 /\ f.auto = on /\ f.known = none
  BY <1>2, <1>4 DEF Runnings, Stages, LaneKinds
<1>6. Free = f
  BY <1>1, <1>3, <1>4 DEF Free
<1> QED
  BY <1>1, <1>2, <1>3, <1>5, <1>6

\* What a runner becomes: one part of it after the other.
LEMMA GoesOn ==
    ASSUME NEW h \in Runnings, NEW pc \in Stages
    PROVE  \E g \in Runnings :
             /\ g = [h EXCEPT !.pc = pc]
             /\ g.pc = pc /\ g.lane = h.lane /\ g.permit = h.permit /\ g.stage = h.stage
             /\ g.known = h.known /\ g.auto = h.auto /\ g.work = h.work /\ g.loaded = h.loaded
<1>1. PICK g1 : g1 = [h EXCEPT !.pc = pc]
  OBVIOUS
<1>2. /\ g1 \in Runnings
      /\ g1.pc = pc /\ g1.lane = h.lane /\ g1.permit = h.permit /\ g1.stage = h.stage
      /\ g1.known = h.known /\ g1.auto = h.auto /\ g1.work = h.work /\ g1.loaded = h.loaded
  BY <1>1 DEF Runnings, Stages
<1> QED
  BY <1>2, <1>1

LEMMA TurnsToIndex ==
    ASSUME NEW h \in Runnings, NEW n \in Nat
    PROVE  \E g \in Runnings :
             /\ g = [h EXCEPT !.pc = "index", !.stage = "permit", !.permit = n]
             /\ g.pc = "index" /\ g.lane = h.lane /\ g.permit = n /\ g.stage = "permit"
             /\ g.known = h.known /\ g.auto = h.auto /\ g.work = h.work /\ g.loaded = h.loaded
<1>1. PICK g1 : g1 = [h EXCEPT !.pc = "index"]
  OBVIOUS
<1>2. /\ g1 \in Runnings
      /\ g1.pc = "index" /\ g1.lane = h.lane /\ g1.permit = h.permit /\ g1.stage = h.stage
      /\ g1.known = h.known /\ g1.auto = h.auto /\ g1.work = h.work /\ g1.loaded = h.loaded
  BY <1>1 DEF Runnings, Stages
<1>3. PICK g2 : g2 = [g1 EXCEPT !.stage = "permit"]
  OBVIOUS
<1>4. /\ g2 \in Runnings
      /\ g2.pc = "index" /\ g2.lane = h.lane /\ g2.permit = h.permit /\ g2.stage = "permit"
      /\ g2.known = h.known /\ g2.auto = h.auto /\ g2.work = h.work /\ g2.loaded = h.loaded
  BY <1>3, <1>2 DEF Runnings, Stages
<1>5. PICK g3 : g3 = [g2 EXCEPT !.permit = n]
  OBVIOUS
<1>6. /\ g3 \in Runnings
      /\ g3.pc = "index" /\ g3.lane = h.lane /\ g3.permit = n /\ g3.stage = "permit"
      /\ g3.known = h.known /\ g3.auto = h.auto /\ g3.work = h.work /\ g3.loaded = h.loaded
  BY <1>5, <1>4 DEF Runnings, Stages
<1>7. g3 = [h EXCEPT !.pc = "index", !.stage = "permit", !.permit = n]
  BY <1>1, <1>3, <1>5
<1> QED
  BY <1>6, <1>7

LEMMA TurnsToCompletion ==
    ASSUME NEW h \in Runnings
    PROVE  \E g \in Runnings :
             /\ g = [h EXCEPT !.pc = "index", !.stage = "completion"]
             /\ g.pc = "index" /\ g.lane = h.lane /\ g.permit = h.permit /\ g.stage = "completion"
             /\ g.known = h.known /\ g.auto = h.auto /\ g.work = h.work /\ g.loaded = h.loaded
<1>1. PICK g1 : g1 = [h EXCEPT !.pc = "index"]
  OBVIOUS
<1>2. /\ g1 \in Runnings
      /\ g1.pc = "index" /\ g1.lane = h.lane /\ g1.permit = h.permit /\ g1.stage = h.stage
      /\ g1.known = h.known /\ g1.auto = h.auto /\ g1.work = h.work /\ g1.loaded = h.loaded
  BY <1>1 DEF Runnings, Stages
<1>3. PICK g2 : g2 = [g1 EXCEPT !.stage = "completion"]
  OBVIOUS
<1>4. /\ g2 \in Runnings
      /\ g2.pc = "index" /\ g2.lane = h.lane /\ g2.permit = h.permit /\ g2.stage = "completion"
      /\ g2.known = h.known /\ g2.auto = h.auto /\ g2.work = h.work /\ g2.loaded = h.loaded
  BY <1>3, <1>2 DEF Runnings, Stages
<1>5. g2 = [h EXCEPT !.pc = "index", !.stage = "completion"]
  BY <1>1, <1>3
<1> QED
  BY <1>4, <1>5

LEMMA Rereads ==
    ASSUME NEW h \in Runnings, NEW known \in Seq(IndexEntries)
    PROVE  \E g \in Runnings :
             /\ g = [h EXCEPT !.pc = "reindex", !.known = known]
             /\ g.pc = "reindex" /\ g.lane = h.lane /\ g.permit = h.permit /\ g.stage = h.stage
             /\ g.known = known /\ g.auto = h.auto /\ g.work = h.work /\ g.loaded = h.loaded
<1>1. PICK g1 : g1 = [h EXCEPT !.pc = "reindex"]
  OBVIOUS
<1>2. /\ g1 \in Runnings
      /\ g1.pc = "reindex" /\ g1.lane = h.lane /\ g1.permit = h.permit /\ g1.stage = h.stage
      /\ g1.known = h.known /\ g1.auto = h.auto /\ g1.work = h.work /\ g1.loaded = h.loaded
  BY <1>1 DEF Runnings, Stages
<1>3. PICK g2 : g2 = [g1 EXCEPT !.known = known]
  OBVIOUS
<1>4. /\ g2 \in Runnings
      /\ g2.pc = "reindex" /\ g2.lane = h.lane /\ g2.permit = h.permit /\ g2.stage = h.stage
      /\ g2.known = known /\ g2.auto = h.auto /\ g2.work = h.work /\ g2.loaded = h.loaded
  BY <1>3, <1>2 DEF Runnings, Stages
<1>5. g2 = [h EXCEPT !.pc = "reindex", !.known = known]
  BY <1>1, <1>3
<1> QED
  BY <1>4, <1>5

LEMMA TurnsToGoal ==
    ASSUME NEW h \in Runnings, NEW pc \in Stages
    PROVE  \E g \in Runnings :
             /\ g = [h EXCEPT !.pc = pc, !.known = <<>>]
             /\ g.pc = pc /\ g.lane = h.lane /\ g.permit = h.permit /\ g.stage = h.stage
             /\ g.known = <<>> /\ g.auto = h.auto /\ g.work = h.work /\ g.loaded = h.loaded
<1>1. PICK g1 : g1 = [h EXCEPT !.pc = pc]
  OBVIOUS
<1>2. /\ g1 \in Runnings
      /\ g1.pc = pc /\ g1.lane = h.lane /\ g1.permit = h.permit /\ g1.stage = h.stage
      /\ g1.known = h.known /\ g1.auto = h.auto /\ g1.work = h.work /\ g1.loaded = h.loaded
  BY <1>1 DEF Runnings, Stages
<1>3. PICK none \in Seq(IndexEntries) : none = <<>>
  <2>1. PICK none : none = <<>>
    OBVIOUS
  <2>2. none \in Seq(IndexEntries)
    BY <2>1
  <2> QED
    BY <2>1, <2>2
<1>4. PICK g2 : g2 = [g1 EXCEPT !.known = none]
  OBVIOUS
<1>5. /\ g2 \in Runnings
      /\ g2.pc = pc /\ g2.lane = h.lane /\ g2.permit = h.permit /\ g2.stage = h.stage
      /\ g2.known = none /\ g2.auto = h.auto /\ g2.work = h.work /\ g2.loaded = h.loaded
  BY <1>4, <1>2 DEF Runnings, Stages
<1>6. g2 = [h EXCEPT !.pc = pc, !.known = <<>>]
  BY <1>1, <1>3, <1>4
<1> QED
  BY <1>3, <1>5, <1>6

LEMMA TakesLane ==
    ASSUME NEW h \in Runnings, NEW lane \in LaneKinds
    PROVE  \E g \in Runnings :
             /\ g = [h EXCEPT !.lane = lane]
             /\ g.pc = h.pc /\ g.lane = lane /\ g.permit = h.permit /\ g.stage = h.stage
             /\ g.known = h.known /\ g.auto = h.auto /\ g.work = h.work /\ g.loaded = h.loaded
<1>1. PICK g1 : g1 = [h EXCEPT !.lane = lane]
  OBVIOUS
<1>2. /\ g1 \in Runnings
      /\ g1.pc = h.pc /\ g1.lane = lane /\ g1.permit = h.permit /\ g1.stage = h.stage
      /\ g1.known = h.known /\ g1.auto = h.auto /\ g1.work = h.work /\ g1.loaded = h.loaded
  BY <1>1 DEF Runnings, Stages, LaneKinds
<1> QED
  BY <1>2, <1>1

LEMMA Reuses ==
    ASSUME NEW h \in Runnings, NEW n \in Nat
    PROVE  \E g \in Runnings :
             /\ g = [h EXCEPT !.lane = "project", !.permit = n, !.pc = "collect"]
             /\ g.pc = "collect" /\ g.lane = "project" /\ g.permit = n /\ g.stage = h.stage
             /\ g.known = h.known /\ g.auto = h.auto /\ g.work = h.work /\ g.loaded = h.loaded
<1>1. PICK g1 : g1 = [h EXCEPT !.lane = "project"]
  OBVIOUS
<1>2. /\ g1 \in Runnings
      /\ g1.pc = h.pc /\ g1.lane = "project" /\ g1.permit = h.permit /\ g1.stage = h.stage
      /\ g1.known = h.known /\ g1.auto = h.auto /\ g1.work = h.work /\ g1.loaded = h.loaded
  BY <1>1 DEF Runnings, Stages, LaneKinds
<1>3. PICK g2 : g2 = [g1 EXCEPT !.permit = n]
  OBVIOUS
<1>4. /\ g2 \in Runnings
      /\ g2.pc = h.pc /\ g2.lane = "project" /\ g2.permit = n /\ g2.stage = h.stage
      /\ g2.known = h.known /\ g2.auto = h.auto /\ g2.work = h.work /\ g2.loaded = h.loaded
  BY <1>3, <1>2 DEF Runnings, Stages
<1>5. PICK g3 : g3 = [g2 EXCEPT !.pc = "collect"]
  OBVIOUS
<1>6. /\ g3 \in Runnings
      /\ g3.pc = "collect" /\ g3.lane = "project" /\ g3.permit = n /\ g3.stage = h.stage
      /\ g3.known = h.known /\ g3.auto = h.auto /\ g3.work = h.work /\ g3.loaded = h.loaded
  BY <1>5, <1>4 DEF Runnings, Stages
<1>7. g3 = [h EXCEPT !.lane = "project", !.permit = n, !.pc = "collect"]
  BY <1>1, <1>3, <1>5
<1> QED
  BY <1>6, <1>7

LEMMA Collects ==
    ASSUME NEW h \in Runnings, NEW work \in SUBSET WorkItems
    PROVE  \E g \in Runnings :
             /\ g = [h EXCEPT !.pc = "project", !.work = work]
             /\ g.pc = "project" /\ g.lane = h.lane /\ g.permit = h.permit /\ g.stage = h.stage
             /\ g.known = h.known /\ g.auto = h.auto /\ g.work = work /\ g.loaded = h.loaded
<1>1. PICK g1 : g1 = [h EXCEPT !.pc = "project"]
  OBVIOUS
<1>2. /\ g1 \in Runnings
      /\ g1.pc = "project" /\ g1.lane = h.lane /\ g1.permit = h.permit /\ g1.stage = h.stage
      /\ g1.known = h.known /\ g1.auto = h.auto /\ g1.work = h.work /\ g1.loaded = h.loaded
  BY <1>1 DEF Runnings, Stages
<1>3. PICK g2 : g2 = [g1 EXCEPT !.work = work]
  OBVIOUS
<1>4. /\ g2 \in Runnings
      /\ g2.pc = "project" /\ g2.lane = h.lane /\ g2.permit = h.permit /\ g2.stage = h.stage
      /\ g2.known = h.known /\ g2.auto = h.auto /\ g2.work = work /\ g2.loaded = h.loaded
  BY <1>3, <1>2 DEF Runnings, Stages
<1>5. g2 = [h EXCEPT !.pc = "project", !.work = work]
  BY <1>1, <1>3
<1> QED
  BY <1>4, <1>5

LEMMA LeavesWork ==
    ASSUME NEW h \in Runnings, NEW work \in SUBSET WorkItems
    PROVE  \E g \in Runnings :
             /\ g = [h EXCEPT !.work = work]
             /\ g.pc = h.pc /\ g.lane = h.lane /\ g.permit = h.permit /\ g.stage = h.stage
             /\ g.known = h.known /\ g.auto = h.auto /\ g.work = work /\ g.loaded = h.loaded
<1>1. PICK g1 : g1 = [h EXCEPT !.work = work]
  OBVIOUS
<1>2. /\ g1 \in Runnings
      /\ g1.pc = h.pc /\ g1.lane = h.lane /\ g1.permit = h.permit /\ g1.stage = h.stage
      /\ g1.known = h.known /\ g1.auto = h.auto /\ g1.work = work /\ g1.loaded = h.loaded
  BY <1>1 DEF Runnings, Stages
<1> QED
  BY <1>2, <1>1

LEMMA TurnsToOwner ==
    ASSUME NEW h \in Runnings
    PROVE  \E g \in Runnings :
             /\ g = [h EXCEPT !.auto = FALSE, !.pc = "rescan"]
             /\ g.pc = "rescan" /\ g.lane = h.lane /\ g.permit = h.permit /\ g.stage = h.stage
             /\ g.known = h.known /\ g.auto = FALSE /\ g.work = h.work /\ g.loaded = h.loaded
<1>1. PICK b \in BOOLEAN : b = FALSE
  OBVIOUS
<1>2. PICK g1 : g1 = [h EXCEPT !.auto = b]
  OBVIOUS
<1>3. /\ g1 \in Runnings
      /\ g1.pc = h.pc /\ g1.lane = h.lane /\ g1.permit = h.permit /\ g1.stage = h.stage
      /\ g1.known = h.known /\ g1.auto = b /\ g1.work = h.work /\ g1.loaded = h.loaded
  BY <1>2 DEF Runnings, Stages
<1>4. PICK g2 : g2 = [g1 EXCEPT !.pc = "rescan"]
  OBVIOUS
<1>5. /\ g2 \in Runnings
      /\ g2.pc = "rescan" /\ g2.lane = h.lane /\ g2.permit = h.permit /\ g2.stage = h.stage
      /\ g2.known = h.known /\ g2.auto = b /\ g2.work = h.work /\ g2.loaded = h.loaded
  BY <1>4, <1>3 DEF Runnings, Stages
<1>6. g2 = [h EXCEPT !.auto = FALSE, !.pc = "rescan"]
  BY <1>1, <1>2, <1>4
<1> QED
  BY <1>1, <1>5, <1>6

LEMMA Mirrors ==
    ASSUME NEW h \in Runnings, NEW work \in SUBSET WorkItems
    PROVE  \E g \in Runnings :
             /\ g = [h EXCEPT !.pc = "mirror", !.work = work]
             /\ g.pc = "mirror" /\ g.lane = h.lane /\ g.permit = h.permit /\ g.stage = h.stage
             /\ g.known = h.known /\ g.auto = h.auto /\ g.work = work /\ g.loaded = h.loaded
<1>1. PICK g1 : g1 = [h EXCEPT !.pc = "mirror"]
  OBVIOUS
<1>2. /\ g1 \in Runnings
      /\ g1.pc = "mirror" /\ g1.lane = h.lane /\ g1.permit = h.permit /\ g1.stage = h.stage
      /\ g1.known = h.known /\ g1.auto = h.auto /\ g1.work = h.work /\ g1.loaded = h.loaded
  BY <1>1 DEF Runnings, Stages
<1>3. PICK g2 : g2 = [g1 EXCEPT !.work = work]
  OBVIOUS
<1>4. /\ g2 \in Runnings
      /\ g2.pc = "mirror" /\ g2.lane = h.lane /\ g2.permit = h.permit /\ g2.stage = h.stage
      /\ g2.known = h.known /\ g2.auto = h.auto /\ g2.work = work /\ g2.loaded = h.loaded
  BY <1>3, <1>2 DEF Runnings, Stages
<1>5. g2 = [h EXCEPT !.pc = "mirror", !.work = work]
  BY <1>1, <1>3
<1> QED
  BY <1>4, <1>5

LEMMA Loads ==
    ASSUME NEW h \in Runnings, NEW loaded \in SUBSET Keys
    PROVE  \E g \in Runnings :
             /\ g = [h EXCEPT !.loaded = loaded]
             /\ g.pc = h.pc /\ g.lane = h.lane /\ g.permit = h.permit /\ g.stage = h.stage
             /\ g.known = h.known /\ g.auto = h.auto /\ g.work = h.work /\ g.loaded = loaded
<1>1. PICK g1 : g1 = [h EXCEPT !.loaded = loaded]
  OBVIOUS
<1>2. /\ g1 \in Runnings
      /\ g1.pc = h.pc /\ g1.lane = h.lane /\ g1.permit = h.permit /\ g1.stage = h.stage
      /\ g1.known = h.known /\ g1.auto = h.auto /\ g1.work = h.work /\ g1.loaded = loaded
  BY <1>1 DEF Runnings, Stages
<1> QED
  BY <1>2, <1>1

LEMMA EndsWork ==
    ASSUME NEW h \in Runnings
    PROVE  \E g \in Runnings :
             /\ g = [h EXCEPT !.pc = "complete", !.work = {}]
             /\ g.pc = "complete" /\ g.lane = h.lane /\ g.permit = h.permit /\ g.stage = h.stage
             /\ g.known = h.known /\ g.auto = h.auto /\ g.work = {} /\ g.loaded = h.loaded
<1>1. PICK g1 : g1 = [h EXCEPT !.pc = "complete"]
  OBVIOUS
<1>2. /\ g1 \in Runnings
      /\ g1.pc = "complete" /\ g1.lane = h.lane /\ g1.permit = h.permit /\ g1.stage = h.stage
      /\ g1.known = h.known /\ g1.auto = h.auto /\ g1.work = h.work /\ g1.loaded = h.loaded
  BY <1>1 DEF Runnings, Stages
<1>3. PICK empty \in SUBSET WorkItems : empty = {}
  OBVIOUS
<1>4. PICK g2 : g2 = [g1 EXCEPT !.work = empty]
  OBVIOUS
<1>5. /\ g2 \in Runnings
      /\ g2.pc = "complete" /\ g2.lane = h.lane /\ g2.permit = h.permit /\ g2.stage = h.stage
      /\ g2.known = h.known /\ g2.auto = h.auto /\ g2.work = empty /\ g2.loaded = h.loaded
  BY <1>4, <1>2 DEF Runnings, Stages
<1>6. g2 = [h EXCEPT !.pc = "complete", !.work = {}]
  BY <1>1, <1>3, <1>4
<1> QED
  BY <1>3, <1>5, <1>6

LEMMA LanesInvInit == LanesInit => LanesInv
<1> SUFFICES ASSUME LanesInit PROVE LanesInv
  OBVIOUS
<1>1. permits = <<>> /\ completions = <<>> /\ gateIndex = <<>> /\ mirrored = <<>> /\ projections = <<>>
  BY DEF LanesInit
<1>2. Len(permits) = 0 /\ Len(completions) = 0 /\ Len(gateIndex) = 0 /\ Len(mirrored) = 0 /\ Len(projections) = 0
  BY <1>1
<1>3. GateTyped
  BY <1>1, <1>2, LanesAssumption DEF GateTyped, LanesInit
<1>4. MirrorTyped
  <2>1. session \in [Sessions -> [content: Nat, talk: BOOLEAN]]
    BY DEF LanesInit
  <2>2. mirrorState \in MirrorStates
    BY DEF LanesInit, MirrorStates
  <2>3. mirrored \in Seq(Mirrorings)
    BY <1>1
  <2> QED
    BY <2>1, <2>2, <2>3 DEF MirrorTyped, LanesInit
<1>5. SignalsTyped
  BY <1>1 DEF SignalsTyped, LanesInit
<1>6. RunnersTyped
  <2>1. Free \in Runnings /\ Free.pc = "free" /\ Free.permit = 0 /\ Free.auto /\ Len(Free.known) = 0
    BY FreeTyped
  <2>2. runner = [r \in Runners |-> Free]
    BY DEF LanesInit
  <2> QED
    BY <1>2, <2>1, <2>2 DEF RunnersTyped, RunnerFits
<1>7. \A r \in Runners : runner[r].pc = "free"
  BY DEF LanesInit, Free
<1>8. MissedAreUnsure /\ WritesAreHonoured
  BY <1>2 DEF MissedAreUnsure, WritesAreHonoured, PermitsAreHonoured, LanesInit
<1>9. SignalsFit
  BY <1>2, <1>7 DEF SignalsFit
<1>10. SessionsFit
  BY <1>2, <1>7 DEF SessionsFit
<1> QED
  BY <1>3, <1>4, <1>5, <1>6, <1>8, <1>9, <1>10 DEF LanesInv, LanesTyped

-----------------------------------------------------------------------------
(* One runner moves.                                                         *)

LEMMA RunnerMoves ==
    ASSUME RunnersTyped, NEW r \in Runners, NEW h \in Runnings, runner' = [runner EXCEPT ![r] = h]
    PROVE  /\ runner' \in [Runners -> Runnings] /\ runner'[r] = h
           /\ \A o \in Runners : o # r => runner'[o] = runner[o]
           /\ \A o \in Runners : runner[o] \in Runnings /\ runner'[o] \in Runnings
BY DEF RunnersTyped

LEMMA RunnersStayTyped ==
    ASSUME RunnersTyped, NEW r \in Runners, NEW h \in Runnings, runner' = [runner EXCEPT ![r] = h],
           RunnerFits(h)', Len(permits) \in Nat, Len(permits') \in Nat, Len(permits) <= Len(permits')
    PROVE  RunnersTyped'
<1>1. runner' \in [Runners -> Runnings]
  BY RunnerMoves
<1>2. ASSUME NEW o \in Runners PROVE RunnerFits(runner[o])'
  <2>1. CASE o = r
    <3>1. runner'[o] = h
      BY <2>1, RunnerMoves
    <3> QED
      BY <3>1 DEF RunnerFits
  <2>2. CASE o # r
    <3>1. PICK g \in Runnings : g = runner[o]
      BY DEF RunnersTyped
    <3>2. RunnerFits(g)
      BY <3>1 DEF RunnersTyped, RunnerFits
    <3>3. RunnerFits(g)'
      <4>1. g.known \in Seq(IndexEntries)
        BY DEF Runnings
      <4>2. Len(g.known) \in Nat
        BY <4>1
      <4> QED
        BY <3>2, <4>2 DEF RunnerFits
    <3>4. runner'[o] = g
      BY <2>2, <3>1, RunnerMoves
    <3> QED
      BY <3>3, <3>4 DEF RunnerFits
  <2> QED
    BY <2>1, <2>2
<1> QED
  BY <1>1, <1>2 DEF RunnersTyped

\* Who is noting a completion keeps doing so.
LEMMA CompletingStays ==
    ASSUME RunnersTyped, NEW r \in Runners, NEW h \in Runnings, runner' = [runner EXCEPT ![r] = h],
           NEW n \in Nat, Completing(n),
           runner[r].pc \in {"index", "reindex"} =>
             h.pc \in {"index", "reindex"} /\ h.permit = runner[r].permit /\ h.stage = runner[r].stage
    PROVE  Completing(n)'
<1>1. PICK o \in Runners : /\ runner[o].permit = n /\ runner[o].stage = "completion"
                           /\ runner[o].pc \in {"index", "reindex"}
  BY DEF Completing
<1>2. /\ runner'[o].permit = n /\ runner'[o].stage = "completion"
      /\ runner'[o].pc \in {"index", "reindex"}
  BY <1>1, RunnerMoves
<1> QED
  BY <1>2 DEF Completing

LEMMA SignalsKeep ==
    ASSUME RunnersTyped, SignalsFit, NEW r \in Runners, NEW h \in Runnings, runner' = [runner EXCEPT ![r] = h],
           projections' = projections, strayed \subseteq strayed',
           h.pc = "project" => runner[r].pc = "project" /\ h.work = runner[r].work
    PROVE  SignalsFit'
<1>1. \A o \in Runners : runner'[o].pc = "project" => runner[o].pc = "project" /\ runner'[o].work = runner[o].work
  BY RunnerMoves
<1> QED
  BY <1>1 DEF SignalsFit

LEMMA SessionsKeep ==
    ASSUME RunnersTyped, SessionsFit, NEW r \in Runners, NEW h \in Runnings, runner' = [runner EXCEPT ![r] = h],
           mirrored' = mirrored, Loaded' = Loaded, strayed \subseteq strayed',
           h.pc = "mirror" => runner[r].pc = "mirror" /\ h.work = runner[r].work /\ h.loaded = runner[r].loaded,
           runner[r].pc = "mirror" => h.pc = "mirror" \/ runner[r].work \subseteq strayed'
    PROVE  SessionsFit'
<1>1. \A o \in Runners : runner'[o].pc = "mirror" =>
        runner[o].pc = "mirror" /\ runner'[o].work = runner[o].work /\ runner'[o].loaded = runner[o].loaded
  BY RunnerMoves
<1>2. \A o \in Runners : runner[o].pc = "mirror" =>
        runner[o].work \subseteq strayed' \/ (runner'[o].pc = "mirror" /\ runner'[o].work = runner[o].work)
  BY RunnerMoves
<1>3. ASSUME NEW i \in 1..Len(mirrored)
      PROVE  \/ mirrored[i].key \in strayed' \cup Loaded
             \/ \E o \in Runners : runner'[o].pc = "mirror" /\ mirrored[i].key \in runner'[o].work
  BY <1>2 DEF SessionsFit
<1>4. \A i \in 1..Len(mirrored)' : \/ mirrored'[i].key \in strayed' \cup Loaded'
                                   \/ \E o \in Runners : runner'[o].pc = "mirror" /\ mirrored'[i].key \in runner'[o].work
  BY <1>3
<1>5. \A p, o \in Runners : p # o /\ runner'[p].pc = "mirror" /\ runner'[o].pc = "mirror"
                               => runner'[p].work \subseteq strayed'
  BY <1>1 DEF SessionsFit
<1>6. \A o \in Runners : runner'[o].pc = "mirror" =>
         \A i \in 1..Len(mirrored)' : mirrored'[i].key \in strayed' \cup runner'[o].loaded
  BY <1>1 DEF SessionsFit
<1>7. \A i, j \in 1..Len(mirrored)' : mirrored'[i].key = mirrored'[j].key /\ mirrored'[i].key \notin strayed' => i = j
  BY DEF SessionsFit
<1> QED
  BY <1>4, <1>5, <1>6, <1>7 DEF SessionsFit

-----------------------------------------------------------------------------
(* The gate.                                                                 *)

LEMMA GateKeeps ==
    ASSUME MissedAreUnsure, WritesAreHonoured, permits' = permits, completions' = completions,
           gateIndex' = gateIndex, governed' = governed, unsure \subseteq unsure',
           \A n \in 1..Len(permits) : Completing(n) => Completing(n)' \/ n \in unsure'
    PROVE  MissedAreUnsure' /\ WritesAreHonoured'
<1>1. MissedAreUnsure'
  BY DEF MissedAreUnsure
<1>2. WritesAreHonoured'
  BY DEF WritesAreHonoured, PermitsAreHonoured
<1> QED
  BY <1>1, <1>2

LEMMA RebuiltTyped ==
    ASSUME GateTyped
    PROVE  /\ Rebuilt \in Seq(IndexEntries) /\ Len(Rebuilt) = Len(permits)
           /\ \A n \in 1..Len(permits) : Rebuilt[n].completions = completions[n]
<1>1. Len(permits) \in Nat /\ \A n \in 1..Len(permits) : completions[n] \in Nat
  BY DEF GateTyped
<1>2. Rebuilt \in [1..Len(permits) -> IndexEntries]
  BY <1>1 DEF Rebuilt, IndexEntries
<1> QED
  BY <1>1, <1>2 DEF Rebuilt

\* Nobody resolves a permit whose completion was recorded, but for what the index missed.
LEMMA ResolvedIsHonoured ==
    ASSUME LanesTyped, MissedAreUnsure, NEW n \in 1..Len(permits), NEW lane, NEW work, Resolves(n, lane, work)
    PROVE  LET w == Governed(n, lane, work)
           IN /\ w.permit = n /\ w.lane = permits[n].lane /\ w.work = permits[n].scope /\ w.fresh
              /\ n \notin unsure => ~w.late
<1>1. completions[n] \in Nat
  BY DEF LanesTyped, GateTyped
<1>2. gateIndex[n].completions = 0 \/ completions[n] = 0
  BY DEF Resolves, CompletionsOf
<1>3. completions[n] > 0 /\ ~Completing(n) => n \in unsure
  BY <1>1, <1>2 DEF MissedAreUnsure
<1>4. gateTime < permits[n].until /\ permits[n].lane = lane /\ permits[n].scope = work
  BY DEF Resolves
<1> DEFINE fresh == gateTime < permits[n].until
           late == completions[n] > 0 /\ ~Completing(n)
<1>5. fresh /\ (n \notin unsure => ~late)
  BY <1>3, <1>4
<1> HIDE DEF fresh, late
<1>6. Governed(n, lane, work) = [permit |-> n, lane |-> lane, work |-> work, fresh |-> fresh, late |-> late]
  BY DEF Governed, fresh, late
<1> QED
  BY <1>4, <1>5, <1>6

LEMMA ResolveKeeps ==
    ASSUME LanesTyped, MissedAreUnsure, WritesAreHonoured, NEW n \in 1..Len(permits), NEW lane, NEW work,
           permits' = permits, completions' = completions, unsure' = unsure,
           gateIndex' \in {gateIndex, Rebuilt},
           governed' = governed \/ (Resolves(n, lane, work) /\ governed' = governed \cup {Governed(n, lane, work)}),
           \A m \in 1..Len(permits) : Completing(m) => Completing(m)'
    PROVE  MissedAreUnsure' /\ WritesAreHonoured'
<1>1. \A m \in 1..Len(permits) : gateIndex'[m].completions \in {gateIndex[m].completions, completions[m]}
  BY RebuiltTyped DEF LanesTyped
<1>2. \A m \in 1..Len(permits) : completions[m] \in Nat
  BY DEF LanesTyped, GateTyped
<1>3. MissedAreUnsure'
  BY <1>1, <1>2 DEF MissedAreUnsure
<1>4. CASE governed' = governed
  BY <1>3, <1>4 DEF WritesAreHonoured, PermitsAreHonoured
<1>5. CASE Resolves(n, lane, work) /\ governed' = governed \cup {Governed(n, lane, work)}
  <2>1. PICK w : w = Governed(n, lane, work)
    OBVIOUS
  <2>2. /\ w.permit = n /\ w.lane = permits[n].lane /\ w.work = permits[n].scope /\ w.fresh
        /\ n \notin unsure => ~w.late
    BY <1>5, <2>1, ResolvedIsHonoured
  <2>3. governed' = governed \cup {w}
    BY <1>5, <2>1
  <2> QED
    BY <1>3, <2>2, <2>3 DEF WritesAreHonoured, PermitsAreHonoured
<1> QED
  BY <1>4, <1>5

LEMMA GateStaysTyped ==
    ASSUME GateTyped, gateTime' = gateTime, permits' = permits, completions' = completions,
           gateIndex' \in {gateIndex, Rebuilt}
    PROVE  GateTyped'
BY RebuiltTyped DEF GateTyped

-----------------------------------------------------------------------------
(* A permit is started, completed and indexed.                               *)

LEMMA AppendIs ==
    ASSUME NEW S, NEW seq \in Seq(S), NEW e \in S
    PROVE  /\ Append(seq, e) \in Seq(S) /\ Len(Append(seq, e)) = Len(seq) + 1 /\ Len(seq) \in Nat
           /\ Append(seq, e)[Len(seq) + 1] = e /\ \A i \in 1..Len(seq) : Append(seq, e)[i] = seq[i]
           /\ \A i \in 1..Len(Append(seq, e)) : i \in 1..Len(seq) \/ i = Len(seq) + 1
OBVIOUS

LEMMA StartPermitKeeps ==
    ASSUME LanesInv, NEW r \in Runners, NEW state \in Runnings, NEW scope \in SUBSET Sessions, ~Busy(r),
           state.auto, state.known = <<>>, StartPermit(r, state, scope),
           UNCHANGED <<gateTime, governed, unsure, mirrorVars, signalVars, laneFaults, strayed>>
    PROVE  LanesInv'
<1> DEFINE permit == [lane |-> state.lane, scope |-> scope, until |-> gateTime + PermitTime]
<1>1. /\ GateTyped /\ RunnersTyped /\ runner[r].pc = "free"
      /\ Len(permits) \in Nat /\ Len(completions) = Len(permits) /\ Len(gateIndex) = Len(permits)
  BY DEF LanesInv, LanesTyped, GateTyped, Busy
<1>2. permit \in Permits /\ Unlisted \in IndexEntries
  BY <1>1, LanesAssumption DEF Permits, GateTyped, Unlisted, IndexEntries, Runnings
<1>3. PICK h \in Runnings : /\ runner' = [runner EXCEPT ![r] = h]
                            /\ h.pc = "index" /\ h.permit = Len(permits) + 1 /\ h.auto /\ Len(h.known) = 0
  <2>1. PICK n \in Nat : n = Len(permits) + 1
    BY <1>1
  <2>2. PICK g \in Runnings :
          /\ g = [state EXCEPT !.pc = "index", !.stage = "permit", !.permit = n]
          /\ g.pc = "index" /\ g.permit = n /\ g.auto = state.auto /\ g.known = state.known
    BY TurnsToIndex
  <2>3. runner' = [runner EXCEPT ![r] = g]
    BY <2>1, <2>2 DEF StartPermit, RunnerIs
  <2>4. Len(<<>>) = 0
    OBVIOUS
  <2> QED
    BY <2>1, <2>2, <2>3, <2>4
<1>4. /\ permits' = Append(permits, permit) /\ completions' = Append(completions, 0)
      /\ gateIndex' = Append(gateIndex, Unlisted) /\ Len(permits) < MaxPermits
  BY DEF StartPermit
<1> HIDE DEF permit
<1>5. GateTyped'
  <2>1. permits' \in Seq(Permits) /\ Len(permits') = Len(permits) + 1
    BY <1>1, <1>2, <1>4, AppendIs DEF GateTyped
  <2>2. completions' \in Seq(Nat) /\ Len(completions') = Len(permits) + 1
    BY <1>1, <1>4, AppendIs DEF GateTyped
  <2>3. gateIndex' \in Seq(IndexEntries) /\ Len(gateIndex') = Len(permits) + 1
    BY <1>1, <1>2, <1>4, AppendIs DEF GateTyped
  <2> QED
    BY <1>1, <1>4, <2>1, <2>2, <2>3, LanesAssumption DEF GateTyped
<1>6. Len(permits') = Len(permits) + 1 /\ \A n \in 1..Len(permits) : permits'[n] = permits[n]
  BY <1>1, <1>2, <1>4 DEF GateTyped
<1>7. RunnersTyped'
  <2>1. RunnerFits(h)'
    BY <1>1, <1>3, <1>6 DEF RunnerFits
  <2>2. Len(permits) \in Nat /\ Len(permits') \in Nat /\ Len(permits) <= Len(permits')
    BY <1>1, <1>6
  <2>3. runner' = [runner EXCEPT ![r] = h]
    BY <1>3
  <2> QED
    BY <1>1, <2>1, <2>2, <2>3, RunnersStayTyped
<1>8. MissedAreUnsure'
  <2>1. ASSUME NEW n \in 1..Len(permits), Completing(n) PROVE Completing(n)'
    <3>1. n \in Nat /\ runner' = [runner EXCEPT ![r] = h] /\ runner[r].pc \notin {"index", "reindex"}
      BY <1>1, <1>3
    <3> QED
      BY <1>1, <2>1, <3>1, CompletingStays
  <2>2. \A n \in 1..Len(permits) : gateIndex'[n] = gateIndex[n] /\ completions'[n] = completions[n]
    <3>1. \A n \in 1..Len(permits) : gateIndex'[n] = gateIndex[n]
      BY <1>1, <1>2, <1>4, AppendIs DEF GateTyped
    <3>2. \A n \in 1..Len(permits) : completions'[n] = completions[n]
      BY <1>1, <1>4, AppendIs DEF GateTyped
    <3> QED
      BY <3>1, <3>2
  <2>3. completions'[Len(permits) + 1] = 0
    BY <1>1, <1>4, AppendIs DEF GateTyped
  <2>4. ASSUME NEW n \in 1..Len(permits'), gateIndex'[n].completions = 0, completions'[n] > 0
        PROVE  n \in unsure' \/ Completing(n)'
    <3>1. n \in 1..Len(permits)
      BY <1>1, <1>6, <2>3, <2>4
    <3> QED
      BY <2>1, <2>2, <2>4, <3>1 DEF MissedAreUnsure, LanesInv
  <2> QED
    BY <2>4 DEF MissedAreUnsure
<1>9. WritesAreHonoured'
  BY <1>1, <1>6 DEF WritesAreHonoured, PermitsAreHonoured, LanesInv
<1>10. SignalsFit'
  BY <1>1, <1>3, SignalsKeep DEF LanesInv, signalVars
<1>11. SessionsFit'
  BY <1>1, <1>3, SessionsKeep DEF LanesInv, mirrorVars, Loaded, RebuiltSeen
<1>12. MirrorTyped' /\ SignalsTyped'
  BY DEF LanesInv, LanesTyped, MirrorTyped, SignalsTyped, mirrorVars, signalVars
<1> QED
  BY <1>5, <1>7, <1>8, <1>9, <1>10, <1>11, <1>12 DEF LanesInv, LanesTyped

LEMMA LanesParts ==
    ASSUME LanesInv
    PROVE  /\ GateTyped /\ MirrorTyped /\ SignalsTyped /\ RunnersTyped /\ LanesTyped /\ MissedAreUnsure
           /\ WritesAreHonoured /\ SignalsFit /\ SessionsFit /\ Len(permits) \in Nat
           /\ \A r \in Runners : runner[r] \in Runnings
BY DEF LanesInv, LanesTyped, GateTyped, RunnersTyped

\* What a runner is like, by what it does.
LEMMA RunnerFacts ==
    ASSUME LanesInv, NEW r \in Runners, NEW h \in Runnings, h = runner[r]
    PROVE  /\ h.permit \in 0..Len(permits) /\ Len(h.known) \in Nat /\ Len(h.known) <= Len(permits)
           /\ h.pc \notin {"free", "rescan", "mirror", "record"} => h.auto /\ h.permit \in 1..Len(permits)
           /\ h.pc # "free" /\ h.auto => h.permit \in 1..Len(permits)
           /\ ~h.auto => h.pc \in {"rescan", "mirror", "record"}
           /\ h.pc = "mirror" => h.work \subseteq Keys
           /\ h.work \subseteq WorkItems /\ h.loaded \subseteq Keys /\ h.known \in Seq(IndexEntries)
           /\ h.auto \in BOOLEAN
<1>1. RunnerFits(h) /\ Len(permits) \in Nat
  BY LanesParts DEF RunnersTyped, RunnerFits
<1>2. h.known \in Seq(IndexEntries) /\ h.pc \in Stages /\ h.auto \in BOOLEAN
  BY DEF Runnings
<1>3. Len(h.known) \in Nat
  BY <1>2
<1>4. h.work \subseteq WorkItems /\ h.loaded \subseteq Keys
  BY DEF Runnings
<1> QED
  BY <1>1, <1>2, <1>3, <1>4 DEF RunnerFits

LEMMA RunnersStay ==
    ASSUME LanesInv, NEW r \in Runners, NEW h \in Runnings, runner' = [runner EXCEPT ![r] = h],
           permits' = permits, RunnerFits(h)
    PROVE  RunnersTyped'
<1>1. RunnerFits(h)'
  BY DEF RunnerFits
<1>2. /\ RunnersTyped /\ Len(permits) \in Nat /\ Len(permits') \in Nat /\ Len(permits) <= Len(permits')
  BY LanesParts
<1> QED
  BY <1>1, <1>2, RunnersStayTyped

\* A step that leaves the log and the index alone.
LEMMA QuietSteps ==
    ASSUME LanesInv, NEW r \in Runners, NEW h \in Runnings, runner' = [runner EXCEPT ![r] = h],
           UNCHANGED <<gateTime, permits, completions, gateIndex, governed>>, unsure \subseteq unsure', RunnerFits(h),
           \/ runner[r].pc \in {"index", "reindex"} =>
                h.pc \in {"index", "reindex"} /\ h.permit = runner[r].permit /\ h.stage = runner[r].stage
           \/ runner[r].permit \in unsure'
    PROVE  GateTyped' /\ RunnersTyped' /\ MissedAreUnsure' /\ WritesAreHonoured'
<1>1. /\ GateTyped /\ RunnersTyped /\ MissedAreUnsure /\ WritesAreHonoured /\ Len(permits) \in Nat
  BY LanesParts
<1>2. GateTyped'
  BY <1>1 DEF GateTyped
<1>3. RunnersTyped'
  BY RunnersStay
<1>4. ASSUME NEW n \in 1..Len(permits), Completing(n) PROVE Completing(n)' \/ n \in unsure'
  <2>1. n \in Nat
    BY <1>1
  <2>2. CASE runner[r].pc \in {"index", "reindex"} =>
                h.pc \in {"index", "reindex"} /\ h.permit = runner[r].permit /\ h.stage = runner[r].stage
    BY <1>1, <1>4, <2>1, <2>2, CompletingStays
  <2>3. CASE runner[r].permit \in unsure'
    <3>1. PICK o \in Runners : /\ runner[o].permit = n /\ runner[o].stage = "completion"
                               /\ runner[o].pc \in {"index", "reindex"}
      BY <1>4 DEF Completing
    <3>2. CASE o = r
      BY <2>3, <3>1, <3>2
    <3>3. CASE o # r
      <4>1. runner'[o] = runner[o]
        BY <1>1, <3>3, RunnerMoves
      <4> QED
        BY <3>1, <4>1 DEF Completing
    <3> QED
      BY <3>2, <3>3
  <2> QED
    BY <2>2, <2>3
<1>5. MissedAreUnsure' /\ WritesAreHonoured'
  BY <1>1, <1>4, GateKeeps
<1> QED
  BY <1>2, <1>3, <1>5

\* A step of the gate leaves the work of the lanes alone.
LEMMA WorkKept ==
    ASSUME LanesInv, NEW r \in Runners, NEW h \in Runnings, runner' = [runner EXCEPT ![r] = h],
           UNCHANGED <<session, captured, mirrored, mirrorState, approval, consumed, signal, projections>>,
           strayed \subseteq strayed', h.pc \notin {"project", "mirror"},
           runner[r].pc = "mirror" => runner[r].work \subseteq strayed'
    PROVE  MirrorTyped' /\ SignalsTyped' /\ SignalsFit' /\ SessionsFit'
<1>1. /\ MirrorTyped /\ SignalsTyped /\ RunnersTyped /\ SignalsFit /\ SessionsFit
  BY LanesParts
<1>2. MirrorTyped' /\ SignalsTyped'
  BY <1>1 DEF MirrorTyped, SignalsTyped
<1>3. SignalsFit'
  BY <1>1, SignalsKeep
<1>4. Loaded' = Loaded
  BY DEF Loaded, RebuiltSeen
<1>5. SessionsFit'
  BY <1>1, <1>4, SessionsKeep
<1> QED
  BY <1>2, <1>3, <1>5

LEMMA CompletePermitKeeps ==
    ASSUME LanesInv, NEW r \in Runners, CompletePermit(r)
    PROVE  LanesInv'
<1>0. /\ GateTyped /\ RunnersTyped /\ MissedAreUnsure /\ WritesAreHonoured /\ Len(permits) \in Nat
      /\ runner[r] \in Runnings
  BY LanesParts
<1> PICK h \in Runnings : h = runner[r]
  BY <1>0
<1>1. /\ h.pc = "complete" /\ completions' = [completions EXCEPT ![h.permit] = @ + 1]
      /\ UNCHANGED <<gateTime, permits, gateIndex, governed, unsure, session, captured, mirrored, mirrorState,
                     approval, consumed, signal, projections, strayed>>
  BY DEF CompletePermit, mirrorVars, signalVars
<1>2. PICK g \in Runnings :
        /\ g = [h EXCEPT !.pc = "index", !.stage = "completion"]
        /\ g.pc = "index" /\ g.lane = h.lane /\ g.permit = h.permit /\ g.stage = "completion"
        /\ g.known = h.known /\ g.auto = h.auto /\ g.work = h.work /\ g.loaded = h.loaded
  BY TurnsToCompletion
<1>3. runner' = [runner EXCEPT ![r] = g]
  BY <1>2 DEF CompletePermit, RunnerIs
<1>4. h.permit \in 1..Len(permits) /\ h.auto /\ Len(h.known) <= Len(permits)
  BY <1>1, RunnerFacts
<1>5. RunnersTyped'
  <2>1. RunnerFits(g)
    BY <1>2, <1>4 DEF RunnerFits
  <2> QED
    BY <1>1, <1>3, <2>1, RunnersStay
<1>6. completions \in Seq(Nat) /\ Len(completions) = Len(permits)
  BY <1>0 DEF GateTyped
<1>7. /\ completions' \in Seq(Nat) /\ Len(completions') = Len(permits)
      /\ \A n \in 1..Len(permits) : n # h.permit => completions'[n] = completions[n]
  BY <1>1, <1>4, <1>6
<1>8. GateTyped'
  BY <1>0, <1>1, <1>7 DEF GateTyped
<1>9. MissedAreUnsure'
  <2>1. ASSUME NEW n \in 1..Len(permits), gateIndex[n].completions = 0, completions'[n] > 0
        PROVE  n \in unsure \/ Completing(n)'
    <3>1. CASE n = h.permit
      <4>1. runner'[r] = g
        BY <1>0, <1>3, RunnerMoves
      <4> QED
        BY <1>2, <3>1, <4>1 DEF Completing
    <3>2. CASE n # h.permit
      <4>1. n \in unsure \/ Completing(n)
        BY <1>0, <1>7, <2>1, <3>2 DEF MissedAreUnsure
      <4>2. n \in Nat /\ runner[r].pc \notin {"index", "reindex"}
        BY <1>0, <1>1
      <4>3. Completing(n) => Completing(n)'
        BY <1>0, <1>3, <4>2, CompletingStays
      <4> QED
        BY <4>1, <4>3
    <3> QED
      BY <3>1, <3>2
  <2> QED
    BY <1>1, <2>1 DEF MissedAreUnsure
<1>10. WritesAreHonoured'
  BY <1>0, <1>1 DEF WritesAreHonoured, PermitsAreHonoured
<1>11. MirrorTyped' /\ SignalsTyped' /\ SignalsFit' /\ SessionsFit'
  BY <1>1, <1>2, <1>3, WorkKept
<1> QED
  BY <1>5, <1>8, <1>9, <1>10, <1>11 DEF LanesInv, LanesTyped

LEMMA ReadGateIndexKeeps ==
    ASSUME LanesInv, NEW r \in Runners, ReadGateIndex(r)
    PROVE  LanesInv'
<1>0. GateTyped /\ Len(permits) \in Nat /\ runner[r] \in Runnings
  BY LanesParts
<1> PICK h \in Runnings : h = runner[r]
  BY <1>0
<1>1. /\ h.pc = "index"
      /\ UNCHANGED <<gateTime, permits, completions, gateIndex, governed, unsure, session, captured, mirrored,
                     mirrorState, approval, consumed, signal, projections, strayed>>
  BY DEF ReadGateIndex, gateVars, mirrorVars, signalVars
<1>11. gateIndex \in Seq(IndexEntries) /\ Len(gateIndex) = Len(permits)
  BY <1>0 DEF GateTyped
<1>2. PICK g \in Runnings :
        /\ g = [h EXCEPT !.pc = "reindex", !.known = gateIndex]
        /\ g.pc = "reindex" /\ g.lane = h.lane /\ g.permit = h.permit /\ g.stage = h.stage
        /\ g.known = gateIndex /\ g.auto = h.auto /\ g.work = h.work /\ g.loaded = h.loaded
  BY <1>11, Rereads, ZenonT(60)
<1>3. runner' = [runner EXCEPT ![r] = g]
  BY <1>2 DEF ReadGateIndex, RunnerIs
<1>4. h.permit \in 1..Len(permits) /\ h.auto
  BY <1>1, RunnerFacts
<1>5. RunnerFits(g)
  BY <1>11, <1>2, <1>4 DEF RunnerFits
<1>6. GateTyped' /\ RunnersTyped' /\ MissedAreUnsure' /\ WritesAreHonoured'
  BY <1>1, <1>2, <1>3, <1>5, QuietSteps
<1>7. MirrorTyped' /\ SignalsTyped' /\ SignalsFit' /\ SessionsFit'
  BY <1>1, <1>2, <1>3, WorkKept
<1> QED
  BY <1>6, <1>7 DEF LanesInv, LanesTyped

LEMMA KillRunnerKeeps ==
    ASSUME LanesInv, NEW r \in Runners, KillRunner(r)
    PROVE  LanesInv'
<1>0. Len(permits) \in Nat /\ runner[r] \in Runnings
  BY LanesParts
<1>1. /\ runner' = [runner EXCEPT ![r] = Free] /\ strayed' = strayed \cup runner[r].work
      /\ unsure' = unsure \cup (IF runner[r].pc \in {"index", "reindex"} THEN {runner[r].permit} ELSE {})
      /\ UNCHANGED <<gateTime, permits, completions, gateIndex, governed, session, captured, mirrored,
                     mirrorState, approval, consumed, signal, projections>>
  BY DEF KillRunner, RunnerIs, mirrorVars, signalVars
<1>2. RunnerFits(Free)
  BY <1>0, FreeTyped DEF RunnerFits
<1>3. GateTyped' /\ RunnersTyped' /\ MissedAreUnsure' /\ WritesAreHonoured'
  <2>1. unsure \subseteq unsure' /\ (runner[r].pc \in {"index", "reindex"} => runner[r].permit \in unsure')
    BY <1>1
  <2> QED
    BY <1>1, <1>2, <2>1, FreeTyped, QuietSteps
<1>4. MirrorTyped' /\ SignalsTyped' /\ SignalsFit' /\ SessionsFit'
  <2>1. strayed \subseteq strayed' /\ runner[r].work \subseteq strayed'
    BY <1>1
  <2> QED
    BY <1>1, <2>1, FreeTyped, WorkKept
<1> QED
  BY <1>3, <1>4 DEF LanesInv, LanesTyped

LEMMA PaddedTyped ==
    ASSUME NEW known \in Seq(IndexEntries), Len(permits) \in Nat
    PROVE  /\ Padded(known) \in Seq(IndexEntries) /\ Len(Padded(known)) = Len(permits)
<1>1. Unlisted \in IndexEntries
  <2>1. PICK off \in BOOLEAN : off = FALSE
    OBVIOUS
  <2>2. Unlisted = [permit |-> off, completions |-> 0]
    BY <2>1 DEF Unlisted
  <2> QED
    BY <2>2 DEF IndexEntries
<1>2. \A n \in 1..Len(permits) : n <= Len(known) => known[n] \in IndexEntries
  <2>1. Len(known) \in Nat
    OBVIOUS
  <2> QED
    BY <2>1
<1>3. Padded(known) \in [1..Len(permits) -> IndexEntries]
  BY <1>1, <1>2 DEF Padded
<1> QED
  BY <1>3

LEMMA ListedIs ==
    ASSUME NEW entry \in IndexEntries, NEW stage
    PROVE  /\ Listed(entry, stage) \in IndexEntries
           /\ stage = "permit" => Listed(entry, stage).completions = entry.completions
           /\ stage # "permit" => Listed(entry, stage).completions > 0
<1>1. CASE stage = "permit"
  <2>1. PICK on \in BOOLEAN : on = TRUE
    OBVIOUS
  <2>2. PICK e : e = [entry EXCEPT !.permit = on]
    OBVIOUS
  <2>3. Listed(entry, stage) = e
    BY <1>1, <2>1, <2>2 DEF Listed
  <2>4. e \in IndexEntries /\ e.completions = entry.completions
    BY <2>2 DEF IndexEntries
  <2> QED
    BY <1>1, <2>3, <2>4
<1>2. CASE stage # "permit"
  <2>1. PICK n \in Nat : n = entry.completions + 1
    BY DEF IndexEntries
  <2>2. PICK e : e = [entry EXCEPT !.completions = n]
    OBVIOUS
  <2>3. Listed(entry, stage) = e
    BY <1>2, <2>1, <2>2 DEF Listed
  <2>4. e \in IndexEntries /\ e.completions = n /\ n > 0
    BY <2>1, <2>2 DEF IndexEntries
  <2> QED
    BY <1>2, <2>3, <2>4
<1> QED
  BY <1>1, <1>2

LEMMA WriteGateIndexKeeps ==
    ASSUME LanesInv, NEW r \in Runners, WriteGateIndex(r)
    PROVE  LanesInv'
<1>0. /\ GateTyped /\ RunnersTyped /\ MissedAreUnsure /\ WritesAreHonoured /\ Len(permits) \in Nat
      /\ runner[r] \in Runnings
  BY LanesParts
<1> PICK h \in Runnings : h = runner[r]
  BY <1>0
<1> PICK known : known = Padded(h.known)
  OBVIOUS
<1>1. /\ h.pc = "reindex" /\ gateIndex' = [known EXCEPT ![h.permit] = Listed(@, h.stage)]
      /\ unsure' = unsure \cup {n \in 1..Len(permits) : known[n] # gateIndex[n]}
      /\ UNCHANGED <<gateTime, permits, completions, governed, session, captured, mirrored, mirrorState,
                     approval, consumed, signal, projections, strayed>>
  BY DEF WriteGateIndex, mirrorVars, signalVars
<1>2. h.permit \in 1..Len(permits) /\ h.auto /\ h.known \in Seq(IndexEntries)
  BY <1>1, RunnerFacts
<1>3. known \in Seq(IndexEntries) /\ Len(known) = Len(permits)
  BY <1>0, <1>2, PaddedTyped
<1>4. PICK e : e = Listed(known[h.permit], h.stage)
  OBVIOUS
<1>5. /\ e \in IndexEntries
      /\ h.stage = "permit" => e.completions = known[h.permit].completions
      /\ h.stage # "permit" => e.completions > 0
  <2>1. known[h.permit] \in IndexEntries
    BY <1>2, <1>3
  <2> QED
    BY <1>4, <2>1, ListedIs
<1>6. gateIndex' = [known EXCEPT ![h.permit] = e]
  BY <1>1, <1>4
<1>7. /\ gateIndex' \in Seq(IndexEntries) /\ Len(gateIndex') = Len(permits) /\ gateIndex'[h.permit] = e
      /\ \A n \in 1..Len(permits) : n # h.permit => gateIndex'[n] = known[n]
  BY <1>2, <1>3, <1>5, <1>6
<1>8. GateTyped'
  BY <1>0, <1>1, <1>7 DEF GateTyped
<1>9. PICK g \in Runnings : /\ runner' = [runner EXCEPT ![r] = g] /\ RunnerFits(g)
                            /\ g.pc \in {"free", "rescan", "collect"}
  <2>1. CASE h.stage = "permit"
    <3>1. PICK pc \in Stages : pc = Goal(h.lane) /\ pc \in {"rescan", "collect"}
      BY DEF Goal, Stages
    <3>2. PICK g \in Runnings :
            /\ g = [h EXCEPT !.pc = pc, !.known = <<>>]
            /\ g.pc = pc /\ g.lane = h.lane /\ g.permit = h.permit /\ g.stage = h.stage
            /\ g.known = <<>> /\ g.auto = h.auto /\ g.work = h.work /\ g.loaded = h.loaded
      BY TurnsToGoal
    <3>3. runner' = [runner EXCEPT ![r] = g]
      BY <2>1, <3>1, <3>2 DEF WriteGateIndex, RunnerIs
    <3>4. Len(<<>>) = 0
      OBVIOUS
    <3>5. RunnerFits(g)
      BY <1>0, <1>2, <3>1, <3>2, <3>4 DEF RunnerFits
    <3> QED
      BY <3>1, <3>2, <3>3, <3>5
  <2>2. CASE h.stage # "permit"
    <3>1. runner' = [runner EXCEPT ![r] = Free]
      BY <2>2 DEF WriteGateIndex, RunnerIs
    <3>2. RunnerFits(Free)
      BY <1>0, FreeTyped DEF RunnerFits
    <3> QED
      BY <3>1, <3>2, FreeTyped
  <2> QED
    BY <2>1, <2>2
<1>10. RunnersTyped'
  BY <1>1, <1>9, RunnersStay
<1>11. MissedAreUnsure'
  <2>1. ASSUME NEW n \in 1..Len(permits), gateIndex'[n].completions = 0, completions[n] > 0
        PROVE  n \in unsure' \/ Completing(n)'
    <3>1. known[n].completions = 0 /\ (n = h.permit => h.stage = "permit")
      <4>1. CASE n = h.permit
        BY <1>5, <1>7, <2>1, <4>1
      <4>2. CASE n # h.permit
        BY <1>7, <2>1, <4>2
      <4> QED
        BY <4>1, <4>2
    <3>2. CASE known[n] # gateIndex[n]
      BY <1>1, <3>2
    <3>3. CASE known[n] = gateIndex[n]
      <4>1. n \in unsure \/ Completing(n)
        BY <1>0, <2>1, <3>1, <3>3 DEF MissedAreUnsure
      <4>2. ASSUME Completing(n) PROVE Completing(n)'
        <5>1. PICK o \in Runners : /\ runner[o].permit = n /\ runner[o].stage = "completion"
                                   /\ runner[o].pc \in {"index", "reindex"}
          BY <4>2 DEF Completing
        <5>2. o # r
          BY <3>1, <5>1
        <5>3. runner'[o] = runner[o]
          BY <1>0, <1>9, <5>2, RunnerMoves
        <5> QED
          BY <5>1, <5>3 DEF Completing
      <4> QED
        BY <1>1, <4>1, <4>2
    <3> QED
      BY <3>2, <3>3
  <2> QED
    BY <1>1, <2>1 DEF MissedAreUnsure
<1>12. WritesAreHonoured'
  BY <1>0, <1>1 DEF WritesAreHonoured, PermitsAreHonoured
<1>13. MirrorTyped' /\ SignalsTyped' /\ SignalsFit' /\ SessionsFit'
  <2>1. runner[r].pc # "mirror" /\ strayed \subseteq strayed' /\ g.pc \notin {"project", "mirror"}
    BY <1>1, <1>9
  <2> QED
    BY <1>1, <1>9, <2>1, WorkKept
<1> QED
  BY <1>8, <1>10, <1>11, <1>12, <1>13 DEF LanesInv, LanesTyped

-----------------------------------------------------------------------------
(* Signals.                                                                  *)

LEMMA StartProjectionKeeps ==
    ASSUME LanesInv, NEW r \in Runners, StartProjection(r)
    PROVE  LanesInv'
<1>1. PICK state \in Runnings :
        /\ state = [Free EXCEPT !.lane = "project"]
        /\ state.known = Free.known /\ state.auto = Free.auto
  <2>1. PICK lane \in LaneKinds : lane = "project"
    BY DEF LaneKinds
  <2>2. PICK g \in Runnings :
          /\ g = [Free EXCEPT !.lane = lane]
          /\ g.pc = Free.pc /\ g.lane = lane /\ g.permit = Free.permit /\ g.stage = Free.stage
          /\ g.known = Free.known /\ g.auto = Free.auto /\ g.work = Free.work /\ g.loaded = Free.loaded
    BY FreeTyped, TakesLane
  <2> QED
    BY <2>1, <2>2
<1>2. PICK scope \in SUBSET Sessions : scope = {}
  OBVIOUS
<1>3. /\ StartPermit(r, state, scope) /\ ~Busy(r)
      /\ UNCHANGED <<gateTime, governed, unsure, mirrorVars, signalVars, laneFaults, strayed>>
  BY <1>1, <1>2 DEF StartProjection
<1> QED
  BY <1>1, <1>3, FreeTyped, StartPermitKeeps

LEMMA ReuseEnvelopeKeeps ==
    ASSUME LanesInv, NEW r \in Runners, NEW n \in 1..MaxPermits, ReuseEnvelope(r, n)
    PROVE  LanesInv'
<1>0. GateTyped /\ Len(permits) \in Nat /\ runner[r] \in Runnings
  BY LanesParts
<1>1. /\ runner[r].pc = "free" /\ n \in 1..Len(permits)
      /\ UNCHANGED <<gateTime, permits, completions, gateIndex, governed, unsure, session, captured, mirrored,
                     mirrorState, approval, consumed, signal, projections, strayed>>
  BY DEF ReuseEnvelope, Busy, gateVars, mirrorVars, signalVars
<1>2. n \in Nat
  BY <1>0, <1>1
<1>3. PICK g \in Runnings :
        /\ g = [Free EXCEPT !.lane = "project", !.permit = n, !.pc = "collect"]
        /\ g.pc = "collect" /\ g.permit = n /\ g.known = Free.known /\ g.auto = Free.auto
  BY <1>2, FreeTyped, Reuses
<1>4. runner' = [runner EXCEPT ![r] = g]
  BY <1>3 DEF ReuseEnvelope, RunnerIs
<1>5. RunnerFits(g)
  BY <1>0, <1>1, <1>3, FreeTyped DEF RunnerFits
<1>6. GateTyped' /\ RunnersTyped' /\ MissedAreUnsure' /\ WritesAreHonoured'
  BY <1>1, <1>4, <1>5, QuietSteps
<1>7. MirrorTyped' /\ SignalsTyped' /\ SignalsFit' /\ SessionsFit'
  BY <1>1, <1>3, <1>4, WorkKept
<1> QED
  BY <1>6, <1>7 DEF LanesInv, LanesTyped

\* The permit of a resolved write, whatever is written.
LEMMA LookedUp ==
    ASSUME LanesInv, NEW r \in Runners, NEW h \in Runnings, runner' = [runner EXCEPT ![r] = h],
           runner[r].pc \notin {"index", "reindex"}, NEW n \in 1..Len(permits), NEW lane, NEW work,
           UNCHANGED <<gateTime, permits, completions, unsure>>, gateIndex' \in {gateIndex, Rebuilt},
           governed' = governed \/ (Resolves(n, lane, work) /\ governed' = governed \cup {Governed(n, lane, work)}),
           RunnerFits(h)
    PROVE  GateTyped' /\ RunnersTyped' /\ MissedAreUnsure' /\ WritesAreHonoured'
<1>1. /\ LanesTyped /\ GateTyped /\ RunnersTyped /\ MissedAreUnsure /\ WritesAreHonoured
  BY LanesParts
<1>2. GateTyped'
  BY <1>1, GateStaysTyped
<1>3. RunnersTyped'
  BY RunnersStay
<1>4. ASSUME NEW m \in 1..Len(permits), Completing(m) PROVE Completing(m)'
  <2>1. m \in Nat
    BY LanesParts
  <2> QED
    BY <1>1, <1>4, <2>1, CompletingStays
<1>5. MissedAreUnsure' /\ WritesAreHonoured'
  BY <1>1, <1>4, ResolveKeeps
<1> QED
  BY <1>2, <1>3, <1>5

LEMMA StartAutoMirrorKeeps ==
    ASSUME LanesInv, NEW r \in Runners, StartAutoMirror(r)
    PROVE  LanesInv'
<1>1. Selected \in SUBSET Sessions
  BY DEF Selected, FirstOf, PendingSessions
<1>2. PICK scope \in SUBSET Sessions : scope = Selected
  BY <1>1
<1>3. /\ StartPermit(r, Free, scope) /\ ~Busy(r)
      /\ UNCHANGED <<gateTime, governed, unsure, mirrorVars, signalVars, laneFaults, strayed>>
  BY <1>2 DEF StartAutoMirror
<1> QED
  BY <1>3, FreeTyped, StartPermitKeeps

LEMMA StartOwnerMirrorKeeps ==
    ASSUME LanesInv, NEW r \in Runners, StartOwnerMirror(r)
    PROVE  LanesInv'
<1>0. Len(permits) \in Nat
  BY LanesParts
<1>1. PICK g \in Runnings :
        /\ g = [Free EXCEPT !.auto = FALSE, !.pc = "rescan"]
        /\ g.pc = "rescan" /\ g.lane = Free.lane /\ g.permit = Free.permit /\ g.stage = Free.stage
        /\ g.known = Free.known /\ g.auto = FALSE /\ g.work = Free.work /\ g.loaded = Free.loaded
  BY FreeTyped, TurnsToOwner
<1>2. runner' = [runner EXCEPT ![r] = g] /\ runner[r].pc = "free"
  BY <1>1 DEF StartOwnerMirror, RunnerIs, Busy
<1>3. UNCHANGED <<gateTime, permits, completions, gateIndex, governed, unsure, session, captured, mirrored,
                  mirrorState, approval, consumed, signal, projections, strayed>>
  BY DEF StartOwnerMirror, gateVars, mirrorVars, signalVars
<1>4. RunnerFits(g)
  BY <1>0, <1>1, FreeTyped DEF RunnerFits
<1>5. GateTyped' /\ RunnersTyped' /\ MissedAreUnsure' /\ WritesAreHonoured'
  BY <1>2, <1>3, <1>4, QuietSteps
<1>6. MirrorTyped' /\ SignalsTyped' /\ SignalsFit' /\ SessionsFit'
  BY <1>1, <1>2, <1>3, WorkKept
<1> QED
  BY <1>5, <1>6 DEF LanesInv, LanesTyped

LEMMA StraysIs ==
    ASSUME NEW r, NEW pc, NEW work, Strays(r, pc, work)
    PROVE  /\ strayed \subseteq strayed'
           /\ \A o \in Runners : o # r /\ runner[o].pc = pc => work \subseteq strayed' /\ runner[o].work \subseteq strayed'
<1>1. CASE InHands(r, pc) = {}
  <2>1. strayed' = strayed
    BY <1>1 DEF Strays
  <2>2. \A o \in Runners : o # r => runner[o].pc # pc
    BY <1>1 DEF InHands
  <2> QED
    BY <2>1, <2>2
<1>2. CASE InHands(r, pc) # {}
  <2>1. strayed' = strayed \cup work \cup UNION {runner[o].work : o \in InHands(r, pc)}
    BY <1>2 DEF Strays
  <2>2. \A o \in Runners : o # r /\ runner[o].pc = pc => o \in InHands(r, pc)
    BY DEF InHands
  <2> QED
    BY <2>1, <2>2
<1> QED
  BY <1>1, <1>2

LEMMA CollectSignalsKeeps ==
    ASSUME LanesInv, NEW r \in Runners, CollectSignals(r)
    PROVE  LanesInv'
<1>0. /\ RunnersTyped /\ MirrorTyped /\ SignalsTyped /\ SignalsFit /\ SessionsFit /\ Len(permits) \in Nat
      /\ runner[r] \in Runnings
  BY LanesParts
<1> PICK h \in Runnings : h = runner[r]
  BY <1>0
<1> PICK work : work = {<<s, signal[s]>> : s \in Signals} \ Range(projections)
  OBVIOUS
<1>1. /\ h.pc = "collect"
      /\ UNCHANGED <<gateTime, permits, completions, governed, unsure, session, captured, mirrored, mirrorState,
                     approval, consumed, signal, projections>>
  BY DEF CollectSignals, mirrorVars, signalVars
<1>2. h.permit \in 1..Len(permits) /\ h.auto /\ Len(h.known) <= Len(permits)
  BY <1>1, RunnerFacts
<1>3. gateIndex' \in {gateIndex, Rebuilt}
  BY DEF CollectSignals, AfterResolve
<1>4. work \in SUBSET WorkItems /\ \A i \in 1..Len(projections) : projections[i] \notin work
  <2>1. signal \in [Signals -> Nat] /\ projections \in Seq(WorkItems)
    BY <1>0 DEF SignalsTyped
  <2>2. \A i \in 1..Len(projections) : projections[i] \in Range(projections)
    BY <2>1 DEF Range
  <2>3. \A s \in Signals : <<s, signal[s]>> \in WorkItems
    BY <2>1 DEF WorkItems
  <2> QED
    BY <2>2, <2>3
<1>5. CASE Resolves(h.permit, "project", {})
  <2>1. PICK g \in Runnings :
          /\ g = [h EXCEPT !.pc = "project", !.work = work]
          /\ g.pc = "project" /\ g.lane = h.lane /\ g.permit = h.permit /\ g.stage = h.stage
          /\ g.known = h.known /\ g.auto = h.auto /\ g.work = work /\ g.loaded = h.loaded
    BY <1>4, Collects, ZenonT(60)
  <2>2. runner' = [runner EXCEPT ![r] = g] /\ Strays(r, "project", work)
    BY <1>5, <2>1 DEF CollectSignals, RunnerIs
  <2>3. RunnerFits(g)
    BY <1>2, <2>1 DEF RunnerFits
  <2>4. GateTyped' /\ RunnersTyped' /\ MissedAreUnsure' /\ WritesAreHonoured'
    BY <1>1, <1>2, <1>3, <2>2, <2>3, LookedUp
  <2>5. MirrorTyped' /\ SignalsTyped'
    BY <1>0, <1>1 DEF MirrorTyped, SignalsTyped
  <2>6. /\ strayed \subseteq strayed'
        /\ \A o \in Runners : o # r /\ runner[o].pc = "project" =>
             work \subseteq strayed' /\ runner[o].work \subseteq strayed'
    BY <2>2, StraysIs
  <2>7. Loaded' = Loaded
    BY <1>1 DEF Loaded, RebuiltSeen
  <2>8. SessionsFit'
    BY <1>0, <1>1, <2>1, <2>2, <2>6, <2>7, SessionsKeep
  <2>9. runner'[r] = g /\ \A o \in Runners : o # r => runner'[o] = runner[o]
    BY <1>0, <2>2, RunnerMoves
  <2>10. \A p, o \in Runners : p # o /\ runner'[p].pc = "project" /\ runner'[o].pc = "project"
                                 => runner'[p].work \subseteq strayed'
    <3> SUFFICES ASSUME NEW p \in Runners, NEW o \in Runners, p # o, runner'[p].pc = "project", runner'[o].pc = "project"
                 PROVE  runner'[p].work \subseteq strayed'
      OBVIOUS
    <3>1. CASE p = r
      BY <2>1, <2>6, <2>9, <3>1
    <3>2. CASE o = r
      BY <2>1, <2>6, <2>9, <3>2
    <3>3. CASE p # r /\ o # r
      BY <1>0, <2>6, <2>9, <3>3 DEF SignalsFit
    <3> QED
      BY <3>1, <3>2, <3>3
  <2>11. \A o \in Runners : runner'[o].pc = "project" =>
           \A i \in 1..Len(projections) : projections[i] \in runner'[o].work => projections[i] \in strayed'
    BY <1>0, <1>4, <2>1, <2>6, <2>9 DEF SignalsFit
  <2>12. SignalsFit'
    BY <1>0, <1>1, <2>6, <2>10, <2>11 DEF SignalsFit
  <2> QED
    BY <2>4, <2>5, <2>8, <2>12 DEF LanesInv, LanesTyped
<1>6. CASE ~Resolves(h.permit, "project", {})
  <2>1. runner' = [runner EXCEPT ![r] = Free] /\ strayed' = strayed
    BY <1>6 DEF CollectSignals, RunnerIs
  <2>2. RunnerFits(Free)
    BY <1>0, FreeTyped DEF RunnerFits
  <2>3. GateTyped' /\ RunnersTyped' /\ MissedAreUnsure' /\ WritesAreHonoured'
    BY <1>1, <1>2, <1>3, <2>1, <2>2, FreeTyped, LookedUp
  <2>4. MirrorTyped' /\ SignalsTyped' /\ SignalsFit' /\ SessionsFit'
    BY <1>1, <2>1, FreeTyped, WorkKept
  <2> QED
    BY <2>3, <2>4 DEF LanesInv, LanesTyped
<1> QED
  BY <1>5, <1>6

LEMMA ProjectSignalKeeps ==
    ASSUME LanesInv, NEW r \in Runners, ProjectSignal(r)
    PROVE  LanesInv'
<1>0. /\ RunnersTyped /\ MirrorTyped /\ SignalsTyped /\ SignalsFit /\ SessionsFit /\ Len(permits) \in Nat
      /\ runner[r] \in Runnings
  BY LanesParts
<1> PICK h \in Runnings : h = runner[r]
  BY <1>0
<1>1. /\ h.pc = "project"
      /\ UNCHANGED <<gateTime, permits, completions, unsure, session, captured, mirrored, mirrorState,
                     approval, consumed, signal, strayed>>
  BY DEF ProjectSignal, mirrorVars
<1>2. /\ h.permit \in 1..Len(permits) /\ h.auto /\ Len(h.known) <= Len(permits) /\ h.work \subseteq WorkItems
  BY <1>1, RunnerFacts
<1>3. CASE h.work = {}
  <2>1. PICK pc \in Stages : pc = "complete"
    BY DEF Stages
  <2>2. PICK g \in Runnings :
          /\ g = [h EXCEPT !.pc = pc]
          /\ g.pc = pc /\ g.lane = h.lane /\ g.permit = h.permit /\ g.stage = h.stage
          /\ g.known = h.known /\ g.auto = h.auto /\ g.work = h.work /\ g.loaded = h.loaded
    BY GoesOn
  <2>3. runner' = [runner EXCEPT ![r] = g] /\ UNCHANGED <<gateIndex, projections, governed>>
    BY <1>3, <2>1, <2>2 DEF ProjectSignal, Steps, RunnerIs
  <2>4. RunnerFits(g)
    BY <1>2, <2>1, <2>2 DEF RunnerFits
  <2>5. GateTyped' /\ RunnersTyped' /\ MissedAreUnsure' /\ WritesAreHonoured'
    BY <1>1, <2>3, <2>4, QuietSteps
  <2>6. MirrorTyped' /\ SignalsTyped' /\ SignalsFit' /\ SessionsFit'
    BY <1>1, <2>1, <2>2, <2>3, WorkKept
  <2> QED
    BY <2>5, <2>6 DEF LanesInv, LanesTyped
<1>4. CASE h.work # {} /\ ~Resolves(h.permit, "project", {})
  <2>1. runner' = [runner EXCEPT ![r] = Free] /\ UNCHANGED <<projections, governed>>
    BY <1>4 DEF ProjectSignal, RunnerIs
  <2>2. gateIndex' \in {gateIndex, Rebuilt}
    BY <1>4 DEF ProjectSignal, AfterResolve
  <2>3. RunnerFits(Free)
    BY <1>0, FreeTyped DEF RunnerFits
  <2>4. GateTyped' /\ RunnersTyped' /\ MissedAreUnsure' /\ WritesAreHonoured'
    BY <1>1, <1>2, <2>1, <2>2, <2>3, FreeTyped, LookedUp
  <2>5. MirrorTyped' /\ SignalsTyped' /\ SignalsFit' /\ SessionsFit'
    BY <1>1, <2>1, FreeTyped, WorkKept
  <2> QED
    BY <2>4, <2>5 DEF LanesInv, LanesTyped
<1>5. CASE h.work # {} /\ Resolves(h.permit, "project", {})
  <2>1. PICK w \in h.work : /\ projections' = Append(projections, w)
                            /\ governed' = governed \cup {Governed(h.permit, "project", {})}
                            /\ RunnerIs(r, [h EXCEPT !.work = @ \ {w}])
    BY <1>5 DEF ProjectSignal
  <2>2. gateIndex' \in {gateIndex, Rebuilt}
    BY <1>5 DEF ProjectSignal, AfterResolve
  <2>3. PICK work \in SUBSET WorkItems : work = h.work \ {w}
    BY <1>2
  <2>4. PICK g \in Runnings :
          /\ g = [h EXCEPT !.work = work]
          /\ g.pc = h.pc /\ g.lane = h.lane /\ g.permit = h.permit /\ g.stage = h.stage
          /\ g.known = h.known /\ g.auto = h.auto /\ g.work = work /\ g.loaded = h.loaded
    BY LeavesWork
  <2>5. runner' = [runner EXCEPT ![r] = g]
    BY <2>1, <2>3, <2>4 DEF RunnerIs
  <2>6. RunnerFits(g)
    BY <1>1, <1>2, <2>4 DEF RunnerFits
  <2>7. GateTyped' /\ RunnersTyped' /\ MissedAreUnsure' /\ WritesAreHonoured'
    <3>1. Resolves(h.permit, "project", {}) /\ governed' = governed \cup {Governed(h.permit, "project", {})}
      BY <1>5, <2>1
    <3>2. runner[r].pc \notin {"index", "reindex"}
      BY <1>1
    <3> QED
      BY <1>1, <1>2, <2>2, <2>5, <2>6, <3>1, <3>2, LookedUp
  <2>8. projections \in Seq(WorkItems) /\ w \in WorkItems
    BY <1>0, <1>2, <2>1 DEF SignalsTyped
  <2>9. /\ projections' \in Seq(WorkItems) /\ Len(projections') = Len(projections) + 1 /\ Len(projections) \in Nat
        /\ projections'[Len(projections) + 1] = w
        /\ \A i \in 1..Len(projections) : projections'[i] = projections[i]
        /\ \A i \in 1..Len(projections') : i \in 1..Len(projections) \/ i = Len(projections) + 1
    BY <2>1, <2>8, AppendIs
  <2>10. MirrorTyped' /\ SignalsTyped'
    BY <1>0, <1>1, <2>9 DEF MirrorTyped, SignalsTyped
  <2>11. SessionsFit'
    <3>1. Loaded' = Loaded
      BY <1>1 DEF Loaded, RebuiltSeen
    <3> QED
      BY <1>0, <1>1, <2>4, <2>5, <3>1, SessionsKeep
  <2>12. runner'[r] = g /\ \A o \in Runners : o # r => runner'[o] = runner[o]
    BY <1>0, <2>5, RunnerMoves
  <2>13. \A o \in Runners : runner'[o].pc = "project" => runner[o].pc = "project" /\ runner'[o].work \subseteq runner[o].work
    BY <1>1, <2>3, <2>4, <2>12
  <2>14. \A p, o \in Runners : p # o /\ runner'[p].pc = "project" /\ runner'[o].pc = "project"
                                 => runner'[p].work \subseteq strayed'
    BY <1>0, <1>1, <2>13 DEF SignalsFit
  <2>15. ASSUME NEW o \in Runners, runner'[o].pc = "project", NEW i \in 1..Len(projections'),
                projections'[i] \in runner'[o].work
         PROVE  projections'[i] \in strayed'
    <3>1. CASE i \in 1..Len(projections)
      BY <1>0, <1>1, <2>9, <2>13, <2>15, <3>1 DEF SignalsFit
    <3>2. CASE i = Len(projections) + 1
      <4>1. projections'[i] = w /\ o # r
        BY <2>3, <2>4, <2>9, <2>12, <2>15, <3>2, ZenonT(60)
      <4>2. h.work \subseteq strayed
        BY <1>0, <1>1, <2>13, <2>15, <4>1 DEF SignalsFit
      <4> QED
        BY <1>1, <4>1, <4>2
    <3> QED
      BY <2>9, <3>1, <3>2
  <2>16. ASSUME NEW i \in 1..Len(projections'), NEW j \in 1..Len(projections'),
                projections'[i] = projections'[j], projections'[i] \notin strayed'
         PROVE  i = j
    <3>1. \A k \in 1..Len(projections) : projections[k] = w => w \in strayed
      BY <1>0, <1>1, <2>1 DEF SignalsFit
    <3>2. CASE i \in 1..Len(projections) /\ j \in 1..Len(projections)
      BY <1>0, <1>1, <2>9, <2>16, <3>2 DEF SignalsFit
    <3>3. CASE i \notin 1..Len(projections) \/ j \notin 1..Len(projections)
      BY <1>1, <2>9, <2>16, <3>1, <3>3
    <3> QED
      BY <3>2, <3>3
  <2>17. SignalsFit'
    BY <2>14, <2>15, <2>16 DEF SignalsFit
  <2> QED
    BY <2>7, <2>10, <2>11, <2>17 DEF LanesInv, LanesTyped
<1> QED
  BY <1>3, <1>4, <1>5

-----------------------------------------------------------------------------
(* Sessions.                                                                 *)

LEMMA LoadedTyped ==
    ASSUME MirrorTyped
    PROVE  Loaded \in SUBSET Keys
<1>1. mirrorState.seen \in SUBSET Keys
  BY DEF MirrorTyped, MirrorStates
<1>2. RebuiltSeen \in SUBSET Keys
  <2>1. mirrored \in Seq(Mirrorings)
    BY DEF MirrorTyped
  <2>2. ASSUME NEW i \in DOMAIN mirrored PROVE mirrored[i].key \in Keys
    <3>1. mirrored[i] \in Mirrorings
      BY <2>1
    <3> QED
      BY <3>1 DEF Mirrorings
  <2>3. ASSUME NEW k \in RebuiltSeen PROVE k \in Keys
    <3>1. PICK i \in DOMAIN mirrored : k = mirrored[i].key
      BY DEF RebuiltSeen
    <3> QED
      BY <2>2, <3>1
  <2> QED
    BY <2>3
<1> QED
  BY <1>1, <1>2 DEF Loaded

LEMMA SelectedKeys ==
    ASSUME MirrorTyped
    PROVE  /\ {Key(s) : s \in Selected} \in SUBSET WorkItems /\ {Key(s) : s \in Selected} \subseteq Keys
           /\ {Key(s) : s \in Selected} \cap Loaded = {}
<1>1. \A s \in Selected : s \in Sessions /\ Key(s) \notin Loaded
  BY DEF Selected, FirstOf, PendingSessions
<1>2. \A s \in Sessions : session[s].content \in Nat
  BY DEF MirrorTyped
<1>3. \A s \in Selected : Key(s) \in Keys
  BY <1>1, <1>2 DEF Key, Keys
<1>4. Keys \subseteq WorkItems
  BY DEF Keys, WorkItems
<1> QED
  BY <1>1, <1>3, <1>4

LEMMA RescanSessionsKeeps ==
    ASSUME LanesInv, NEW r \in Runners, RescanSessions(r)
    PROVE  LanesInv'
<1>0. /\ RunnersTyped /\ MirrorTyped /\ SignalsTyped /\ SignalsFit /\ SessionsFit /\ Len(permits) \in Nat
      /\ runner[r] \in Runnings
  BY LanesParts
<1> PICK h \in Runnings : h = runner[r]
  BY <1>0
<1> PICK keys : keys = {Key(s) : s \in Selected}
  OBVIOUS
<1> DEFINE scans == Selected = {} \/ MayMirror(h)
<1>1. /\ h.pc = "rescan"
      /\ UNCHANGED <<gateTime, permits, completions, unsure, session, captured, mirrored, approval, consumed,
                     signal, projections>>
  BY DEF RescanSessions, signalVars
<1>2. /\ h.permit \in 0..Len(permits) /\ (h.auto => h.permit \in 1..Len(permits)) /\ Len(h.known) <= Len(permits)
      /\ h.auto \in BOOLEAN
  BY <1>1, RunnerFacts
<1>3. /\ keys \in SUBSET WorkItems /\ keys \subseteq Keys /\ keys \cap Loaded = {} /\ Loaded \in SUBSET Keys
  BY <1>0, LoadedTyped, SelectedKeys
<1>4. mirrorState' \in MirrorStates /\ Loaded' = Loaded
  <2>1. mirrorState \in MirrorStates /\ RebuiltSeen' = RebuiltSeen
    BY <1>0, <1>1 DEF MirrorTyped, RebuiltSeen
  <2>2. CASE mirrorState.file = "corrupt"
    <3>1. mirrorState' = [file |-> "ok", seen |-> Loaded]
      BY <2>2 DEF RescanSessions
    <3>2. mirrorState' \in MirrorStates /\ mirrorState'.file = "ok" /\ mirrorState'.seen = Loaded
      BY <1>3, <3>1 DEF MirrorStates
    <3> QED
      BY <3>2 DEF Loaded
  <2>3. CASE mirrorState.file # "corrupt"
    <3>1. mirrorState' = mirrorState
      BY <2>3 DEF RescanSessions
    <3> QED
      BY <2>1, <3>1 DEF Loaded
  <2> QED
    BY <2>2, <2>3
<1>5. MirrorTyped' /\ SignalsTyped'
  BY <1>0, <1>1, <1>4 DEF MirrorTyped, SignalsTyped
<1>6. ASSUME NEW g \in Runnings, runner' = [runner EXCEPT ![r] = g], RunnerFits(g)
      PROVE  GateTyped' /\ RunnersTyped' /\ MissedAreUnsure' /\ WritesAreHonoured'
  <2>1. runner[r].pc \notin {"index", "reindex"}
    BY <1>1
  <2>2. CASE ~h.auto
    <3>1. gateIndex' = gateIndex /\ governed' = governed
      BY <2>2 DEF RescanSessions
    <3>2. UNCHANGED <<gateTime, permits, completions, gateIndex, governed>> /\ unsure \subseteq unsure'
      BY <1>1, <3>1
    <3> QED
      BY <1>6, <2>1, <3>2, QuietSteps
  <2>3. CASE h.auto
    <3>1. gateIndex' \in {gateIndex, Rebuilt}
      BY DEF RescanSessions, AfterResolve
    <3>2. \/ governed' = governed
          \/ /\ Resolves(h.permit, "mirror", Selected)
             /\ governed' = governed \cup {Governed(h.permit, "mirror", Selected)}
      BY <2>3 DEF RescanSessions, MayMirror
    <3> QED
      BY <1>1, <1>2, <1>6, <2>1, <2>3, <3>1, <3>2, LookedUp
  <2> QED
    BY <1>2, <2>2, <2>3
<1>7. ASSUME NEW g \in Runnings, runner' = [runner EXCEPT ![r] = g], g.pc \notin {"project", "mirror"},
             strayed' = strayed
      PROVE  SignalsFit' /\ SessionsFit'
  <2>1. strayed \subseteq strayed' /\ runner[r].pc # "mirror"
    BY <1>1, <1>7
  <2>2. SignalsFit'
    BY <1>0, <1>1, <1>7, <2>1, SignalsKeep
  <2>3. SessionsFit'
    BY <1>0, <1>1, <1>4, <1>7, <2>1, SessionsKeep
  <2> QED
    BY <2>2, <2>3
<1>8. CASE scans
  <2>1. PICK g \in Runnings :
          /\ g = [h EXCEPT !.pc = "mirror", !.work = keys, !.loaded = Loaded]
          /\ g.pc = "mirror" /\ g.permit = h.permit /\ g.known = h.known /\ g.auto = h.auto
          /\ g.work = keys /\ g.loaded = Loaded
    <3>1. PICK loaded \in SUBSET Keys : loaded = Loaded
      BY <1>3
    <3>2. PICK work \in SUBSET WorkItems : work = keys
      BY <1>3
    <3>3. PICK g1 \in Runnings :
            /\ g1 = [h EXCEPT !.pc = "mirror", !.work = work]
            /\ g1.pc = "mirror" /\ g1.lane = h.lane /\ g1.permit = h.permit /\ g1.stage = h.stage
            /\ g1.known = h.known /\ g1.auto = h.auto /\ g1.work = work /\ g1.loaded = h.loaded
      BY Mirrors, ZenonT(60)
    <3>4. PICK g2 \in Runnings :
            /\ g2 = [g1 EXCEPT !.loaded = loaded]
            /\ g2.pc = g1.pc /\ g2.lane = g1.lane /\ g2.permit = g1.permit /\ g2.stage = g1.stage
            /\ g2.known = g1.known /\ g2.auto = g1.auto /\ g2.work = g1.work /\ g2.loaded = loaded
      BY Loads
    <3>5. g2 = [h EXCEPT !.pc = "mirror", !.work = keys, !.loaded = Loaded]
      BY <3>1, <3>2, <3>3, <3>4
    <3> QED
      BY <3>1, <3>2, <3>3, <3>4, <3>5
  <2>2. runner' = [runner EXCEPT ![r] = g] /\ Strays(r, "mirror", keys)
    BY <1>8, <2>1 DEF RescanSessions, RunnerIs
  <2>3. RunnerFits(g)
    BY <1>2, <1>3, <2>1 DEF RunnerFits
  <2>4. GateTyped' /\ RunnersTyped' /\ MissedAreUnsure' /\ WritesAreHonoured'
    BY <1>6, <2>2, <2>3
  <2>5. /\ strayed \subseteq strayed'
        /\ \A o \in Runners : o # r /\ runner[o].pc = "mirror" =>
             keys \subseteq strayed' /\ runner[o].work \subseteq strayed'
    BY <2>2, StraysIs
  <2>6. SignalsFit'
    BY <1>0, <1>1, <2>1, <2>2, <2>5, SignalsKeep
  <2>7. runner'[r] = g /\ \A o \in Runners : o # r => runner'[o] = runner[o]
    BY <1>0, <2>2, RunnerMoves
  <2>8. \A p, o \in Runners : p # o /\ runner'[p].pc = "mirror" /\ runner'[o].pc = "mirror"
                                => runner'[p].work \subseteq strayed'
    <3> SUFFICES ASSUME NEW p \in Runners, NEW o \in Runners, p # o, runner'[p].pc = "mirror", runner'[o].pc = "mirror"
                 PROVE  runner'[p].work \subseteq strayed'
      OBVIOUS
    <3>1. CASE p = r
      BY <2>1, <2>5, <2>7, <3>1
    <3>2. CASE o = r
      BY <2>1, <2>5, <2>7, <3>2
    <3>3. CASE p # r /\ o # r
      BY <1>0, <2>5, <2>7, <3>3 DEF SessionsFit
    <3> QED
      BY <3>1, <3>2, <3>3
  <2>9. \A i \in 1..Len(mirrored) : mirrored[i].key \in strayed' \cup Loaded
    <3> SUFFICES ASSUME NEW i \in 1..Len(mirrored), mirrored[i].key \notin strayed \cup Loaded
                 PROVE  mirrored[i].key \in strayed'
      BY <2>5
    <3>1. PICK o \in Runners : runner[o].pc = "mirror" /\ mirrored[i].key \in runner[o].work
      BY <1>0 DEF SessionsFit
    <3>2. o # r
      BY <1>1, <3>1
    <3> QED
      BY <2>5, <3>1, <3>2
  <2>10. \A o \in Runners : runner'[o].pc = "mirror" =>
           \A i \in 1..Len(mirrored) : mirrored[i].key \in strayed' \cup runner'[o].loaded
    BY <1>0, <2>1, <2>5, <2>7, <2>9 DEF SessionsFit
  <2>11. \A i, j \in 1..Len(mirrored) : mirrored[i].key = mirrored[j].key /\ mirrored[i].key \notin strayed' => i = j
    BY <1>0, <2>5 DEF SessionsFit
  <2>12. SessionsFit'
    BY <1>1, <1>4, <2>8, <2>9, <2>10, <2>11 DEF SessionsFit
  <2> QED
    BY <1>5, <2>4, <2>6, <2>12 DEF LanesInv, LanesTyped
<1>9. CASE ~scans /\ h.auto
  <2>1. PICK pc \in Stages : pc = "complete"
    BY DEF Stages
  <2>2. PICK g \in Runnings :
          /\ g = [h EXCEPT !.pc = pc]
          /\ g.pc = pc /\ g.lane = h.lane /\ g.permit = h.permit /\ g.stage = h.stage
          /\ g.known = h.known /\ g.auto = h.auto /\ g.work = h.work /\ g.loaded = h.loaded
    BY GoesOn
  <2>3. runner' = [runner EXCEPT ![r] = g] /\ strayed' = strayed
    BY <1>9, <2>1, <2>2 DEF RescanSessions, RunnerIs
  <2>4. RunnerFits(g)
    BY <1>2, <1>9, <2>1, <2>2 DEF RunnerFits
  <2>5. GateTyped' /\ RunnersTyped' /\ MissedAreUnsure' /\ WritesAreHonoured'
    BY <1>6, <2>3, <2>4
  <2>6. SignalsFit' /\ SessionsFit'
    BY <1>7, <2>1, <2>2, <2>3
  <2> QED
    BY <1>5, <2>5, <2>6 DEF LanesInv, LanesTyped
<1>10. CASE ~scans /\ ~h.auto
  <2>1. runner' = [runner EXCEPT ![r] = Free] /\ strayed' = strayed
    BY <1>10 DEF RescanSessions, RunnerIs
  <2>2. RunnerFits(Free)
    BY <1>0, FreeTyped DEF RunnerFits
  <2>3. GateTyped' /\ RunnersTyped' /\ MissedAreUnsure' /\ WritesAreHonoured'
    BY <1>6, <2>1, <2>2, FreeTyped
  <2>4. SignalsFit' /\ SessionsFit'
    BY <1>7, <2>1, FreeTyped
  <2> QED
    BY <1>5, <2>3, <2>4 DEF LanesInv, LanesTyped
<1> QED
  BY <1>8, <1>9, <1>10

LEMMA MirrorSessionKeeps ==
    ASSUME LanesInv, NEW r \in Runners, MirrorSession(r)
    PROVE  LanesInv'
<1>0. /\ RunnersTyped /\ MirrorTyped /\ SignalsTyped /\ SignalsFit /\ SessionsFit /\ Len(permits) \in Nat
      /\ runner[r] \in Runnings
  BY LanesParts
<1> PICK h \in Runnings : h = runner[r]
  BY <1>0
<1>1. /\ h.pc = "mirror"
      /\ UNCHANGED <<gateTime, permits, completions, gateIndex, governed, unsure, session, captured, approval,
                     consumed, signal, projections, strayed>>
  BY DEF MirrorSession, gateVars, signalVars
<1>2. /\ h.permit \in 0..Len(permits) /\ (h.auto => h.permit \in 1..Len(permits)) /\ Len(h.known) <= Len(permits)
      /\ h.work \subseteq Keys /\ h.loaded \subseteq Keys
  BY <1>1, RunnerFacts
<1>3. CASE h.work \subseteq h.loaded
  <2>1. PICK pc \in Stages : pc = "record"
    BY DEF Stages
  <2>2. PICK g \in Runnings :
          /\ g = [h EXCEPT !.pc = pc]
          /\ g.pc = pc /\ g.lane = h.lane /\ g.permit = h.permit /\ g.stage = h.stage
          /\ g.known = h.known /\ g.auto = h.auto /\ g.work = h.work /\ g.loaded = h.loaded
    BY GoesOn
  <2>3. /\ runner' = [runner EXCEPT ![r] = g] /\ mirrored' = mirrored
        /\ mirrorState' = [file |-> "ok", seen |-> h.loaded]
    BY <1>3, <2>1, <2>2 DEF MirrorSession, RunnerIs
  <2>4. RunnerFits(g)
    BY <1>2, <2>1, <2>2 DEF RunnerFits
  <2>5. GateTyped' /\ RunnersTyped' /\ MissedAreUnsure' /\ WritesAreHonoured'
    <3>1. runner[r].pc \notin {"index", "reindex"} /\ unsure \subseteq unsure'
      BY <1>1
    <3> QED
      BY <1>1, <2>3, <2>4, <3>1, QuietSteps
  <2>6. mirrorState' \in MirrorStates /\ Loaded' = h.loaded
    <3>1. mirrorState' \in MirrorStates /\ mirrorState'.file = "ok" /\ mirrorState'.seen = h.loaded
      BY <1>2, <2>3 DEF MirrorStates
    <3> QED
      BY <3>1 DEF Loaded
  <2>7. MirrorTyped' /\ SignalsTyped'
    BY <1>0, <1>1, <2>3, <2>6 DEF MirrorTyped, SignalsTyped
  <2>8. SignalsFit'
    BY <1>0, <1>1, <2>1, <2>2, <2>3, SignalsKeep
  <2>9. runner'[r] = g /\ \A o \in Runners : o # r => runner'[o] = runner[o]
    BY <1>0, <2>3, RunnerMoves
  <2>10. \A o \in Runners : runner'[o].pc = "mirror" => o # r /\ runner'[o] = runner[o]
    BY <2>1, <2>2, <2>9
  <2>11. \A p, o \in Runners : p # o /\ runner'[p].pc = "mirror" /\ runner'[o].pc = "mirror"
                                 => runner'[p].work \subseteq strayed'
    BY <1>0, <1>1, <2>10 DEF SessionsFit
  <2>12. \A o \in Runners : runner'[o].pc = "mirror" =>
           \A i \in 1..Len(mirrored) : mirrored[i].key \in strayed' \cup runner'[o].loaded
    BY <1>0, <1>1, <2>10 DEF SessionsFit
  <2>13. \A i \in 1..Len(mirrored) : mirrored[i].key \in strayed' \cup Loaded'
    BY <1>0, <1>1, <2>6 DEF SessionsFit
  <2>14. \A i, j \in 1..Len(mirrored) : mirrored[i].key = mirrored[j].key /\ mirrored[i].key \notin strayed' => i = j
    BY <1>0, <1>1 DEF SessionsFit
  <2>15. SessionsFit'
    BY <2>3, <2>11, <2>12, <2>13, <2>14 DEF SessionsFit
  <2> QED
    BY <2>5, <2>7, <2>8, <2>15 DEF LanesInv, LanesTyped
<1>4. CASE ~(h.work \subseteq h.loaded)
  <2>1. PICK k \in h.work \ h.loaded : /\ mirrored' = Append(mirrored, [key |-> k, talk |-> session[k[1]].talk])
                                       /\ RunnerIs(r, [h EXCEPT !.loaded = @ \cup {k}])
                                       /\ mirrorState' = mirrorState
    BY <1>4 DEF MirrorSession
  <2>2. k \in Keys /\ k[1] \in Sessions
    BY <1>2, <2>1 DEF Keys
  <2>3. PICK e \in Mirrorings : e = [key |-> k, talk |-> session[k[1]].talk] /\ e.key = k
    <3>1. session[k[1]] \in [content: Nat, talk: BOOLEAN]
      BY <1>0, <2>2 DEF MirrorTyped
    <3>2. PICK b \in BOOLEAN : b = session[k[1]].talk
      BY <3>1
    <3>3. PICK m : m = [key |-> k, talk |-> b]
      OBVIOUS
    <3>4. m \in Mirrorings /\ m.key = k
      BY <2>2, <3>3 DEF Mirrorings
    <3> QED
      BY <3>2, <3>3, <3>4
  <2>4. PICK loaded \in SUBSET Keys : loaded = h.loaded \cup {k}
    BY <1>2, <2>2
  <2>5. PICK g \in Runnings :
          /\ g = [h EXCEPT !.loaded = loaded]
          /\ g.pc = h.pc /\ g.lane = h.lane /\ g.permit = h.permit /\ g.stage = h.stage
          /\ g.known = h.known /\ g.auto = h.auto /\ g.work = h.work /\ g.loaded = loaded
    BY Loads
  <2>6. runner' = [runner EXCEPT ![r] = g]
    BY <2>1, <2>4, <2>5 DEF RunnerIs
  <2>7. RunnerFits(g)
    BY <1>1, <1>2, <2>5 DEF RunnerFits
  <2>8. GateTyped' /\ RunnersTyped' /\ MissedAreUnsure' /\ WritesAreHonoured'
    <3>1. runner[r].pc \notin {"index", "reindex"} /\ unsure \subseteq unsure'
      BY <1>1
    <3> QED
      BY <1>1, <2>6, <2>7, <3>1, QuietSteps
  <2>9. mirrored \in Seq(Mirrorings) /\ mirrored' = Append(mirrored, e)
    BY <1>0, <2>1, <2>3 DEF MirrorTyped
  <2>10. /\ mirrored' \in Seq(Mirrorings) /\ Len(mirrored') = Len(mirrored) + 1 /\ Len(mirrored) \in Nat
         /\ mirrored'[Len(mirrored) + 1] = e
         /\ \A i \in 1..Len(mirrored) : mirrored'[i] = mirrored[i]
         /\ \A i \in 1..Len(mirrored') : i \in 1..Len(mirrored) \/ i = Len(mirrored) + 1
    BY <2>9, AppendIs
  <2>11. MirrorTyped' /\ SignalsTyped'
    BY <1>0, <1>1, <2>1, <2>10 DEF MirrorTyped, SignalsTyped
  <2>12. SignalsFit'
    BY <1>0, <1>1, <2>5, <2>6, SignalsKeep
  <2>13. runner'[r] = g /\ \A o \in Runners : o # r => runner'[o] = runner[o]
    BY <1>0, <2>6, RunnerMoves
  <2>14. \A o \in Runners : runner'[o].pc = runner[o].pc /\ runner'[o].work = runner[o].work
                            /\ runner[o].loaded \subseteq runner'[o].loaded
    BY <2>4, <2>5, <2>13
  <2>15. \A p, o \in Runners : p # o /\ runner'[p].pc = "mirror" /\ runner'[o].pc = "mirror"
                                 => runner'[p].work \subseteq strayed'
    BY <1>0, <1>1, <2>14 DEF SessionsFit
  <2>16. ASSUME NEW o \in Runners, runner'[o].pc = "mirror", NEW i \in 1..Len(mirrored')
         PROVE  mirrored'[i].key \in strayed' \cup runner'[o].loaded
    <3>1. CASE i \in 1..Len(mirrored)
      BY <1>0, <1>1, <2>10, <2>14, <2>16, <3>1 DEF SessionsFit
    <3>2. CASE i = Len(mirrored) + 1 /\ o = r
      BY <2>3, <2>4, <2>5, <2>10, <2>13, <3>2, ZenonT(60)
    <3>3. CASE i = Len(mirrored) + 1 /\ o # r
      <4>1. h.work \subseteq strayed
        BY <1>0, <1>1, <2>14, <2>16, <3>3 DEF SessionsFit
      <4> QED
        BY <1>1, <2>1, <2>3, <2>10, <3>3, <4>1
    <3> QED
      BY <2>10, <3>1, <3>2, <3>3
  <2>17. Loaded \subseteq Loaded'
    <3>1. RebuiltSeen \subseteq RebuiltSeen'
      <4> SUFFICES ASSUME NEW x \in RebuiltSeen PROVE x \in RebuiltSeen'
        OBVIOUS
      <4>1. PICK i \in DOMAIN mirrored : mirrored[i].talk /\ x = mirrored[i].key
        BY DEF RebuiltSeen
      <4>2. i \in 1..Len(mirrored)
        BY <2>9, <4>1
      <4>3. i \in DOMAIN mirrored' /\ mirrored'[i] = mirrored[i]
        BY <2>10, <4>2
      <4> QED
        BY <4>1, <4>3 DEF RebuiltSeen
    <3> QED
      BY <2>1, <3>1 DEF Loaded
  <2>18. ASSUME NEW i \in 1..Len(mirrored')
         PROVE  \/ mirrored'[i].key \in strayed' \cup Loaded'
                \/ \E o \in Runners : runner'[o].pc = "mirror" /\ mirrored'[i].key \in runner'[o].work
    <3>1. CASE i \in 1..Len(mirrored)
      <4>1. \/ mirrored[i].key \in strayed \cup Loaded
            \/ \E o \in Runners : runner[o].pc = "mirror" /\ mirrored[i].key \in runner[o].work
        BY <1>0, <3>1 DEF SessionsFit
      <4> QED
        BY <1>1, <2>10, <2>14, <2>17, <3>1, <4>1
    <3>2. CASE i = Len(mirrored) + 1
      <4>1. runner'[r].pc = "mirror" /\ mirrored'[i].key \in runner'[r].work
        BY <1>1, <2>1, <2>3, <2>5, <2>10, <2>13, <3>2
      <4> QED
        BY <4>1
    <3> QED
      BY <2>10, <3>1, <3>2
  <2>19. ASSUME NEW i \in 1..Len(mirrored'), NEW j \in 1..Len(mirrored'),
                mirrored'[i].key = mirrored'[j].key, mirrored'[i].key \notin strayed'
         PROVE  i = j
    <3>1. \A n \in 1..Len(mirrored) : mirrored[n].key = k => k \in strayed
      BY <1>0, <1>1, <2>1 DEF SessionsFit
    <3>2. CASE i \in 1..Len(mirrored) /\ j \in 1..Len(mirrored)
      BY <1>0, <1>1, <2>10, <2>19, <3>2 DEF SessionsFit
    <3>3. CASE i \notin 1..Len(mirrored) \/ j \notin 1..Len(mirrored)
      BY <1>1, <2>3, <2>10, <2>19, <3>1, <3>3
    <3> QED
      BY <3>2, <3>3
  <2>20. SessionsFit'
    BY <2>15, <2>16, <2>18, <2>19 DEF SessionsFit
  <2> QED
    BY <2>8, <2>11, <2>12, <2>20 DEF LanesInv, LanesTyped
<1> QED
  BY <1>3, <1>4

LEMMA RecordApplyKeeps ==
    ASSUME LanesInv, NEW r \in Runners, RecordApply(r)
    PROVE  LanesInv'
<1>0. /\ RunnersTyped /\ MirrorTyped /\ SignalsTyped /\ SignalsFit /\ SessionsFit /\ Len(permits) \in Nat
      /\ runner[r] \in Runnings
  BY LanesParts
<1> PICK h \in Runnings : h = runner[r]
  BY <1>0
<1>1. /\ h.pc = "record" /\ consumed' = (consumed \/ h.work # {})
      /\ UNCHANGED <<gateTime, permits, completions, gateIndex, governed, unsure, session, captured, mirrored,
                     mirrorState, approval, signal, projections, strayed>>
  BY DEF RecordApply, gateVars, signalVars
<1>2. /\ h.permit \in 0..Len(permits) /\ (h.auto => h.permit \in 1..Len(permits)) /\ Len(h.known) <= Len(permits)
  BY <1>1, RunnerFacts
<1>3. PICK g \in Runnings : /\ runner' = [runner EXCEPT ![r] = g] /\ RunnerFits(g)
                            /\ g.pc \in {"complete", "free"}
  <2>1. CASE h.auto
    <3>1. PICK g \in Runnings :
            /\ g = [h EXCEPT !.pc = "complete", !.work = {}]
            /\ g.pc = "complete" /\ g.lane = h.lane /\ g.permit = h.permit /\ g.stage = h.stage
            /\ g.known = h.known /\ g.auto = h.auto /\ g.work = {} /\ g.loaded = h.loaded
      BY EndsWork
    <3>2. runner' = [runner EXCEPT ![r] = g]
      BY <2>1, <3>1 DEF RecordApply, RunnerIs
    <3>3. RunnerFits(g)
      BY <1>2, <2>1, <3>1 DEF RunnerFits
    <3> QED
      BY <3>1, <3>2, <3>3
  <2>2. CASE ~h.auto
    <3>1. runner' = [runner EXCEPT ![r] = Free]
      BY <2>2 DEF RecordApply, RunnerIs
    <3>2. RunnerFits(Free)
      BY <1>0, FreeTyped DEF RunnerFits
    <3> QED
      BY <3>1, <3>2, FreeTyped
  <2> QED
    BY <2>1, <2>2
<1>4. /\ runner[r].pc \notin {"index", "reindex", "mirror"} /\ g.pc \notin {"project", "mirror"}
      /\ unsure \subseteq unsure' /\ strayed \subseteq strayed'
  BY <1>1, <1>3
<1>5. GateTyped' /\ RunnersTyped' /\ MissedAreUnsure' /\ WritesAreHonoured'
  BY <1>1, <1>3, <1>4, QuietSteps
<1>6. MirrorTyped' /\ SignalsTyped'
  <2>1. consumed' \in BOOLEAN
    BY <1>1
  <2> QED
    BY <1>0, <1>1, <2>1 DEF MirrorTyped, SignalsTyped
<1>7. SignalsFit'
  BY <1>0, <1>1, <1>3, <1>4, SignalsKeep
<1>8. Loaded' = Loaded
  BY <1>1 DEF Loaded, RebuiltSeen
<1>9. SessionsFit'
  BY <1>0, <1>1, <1>3, <1>4, <1>8, SessionsKeep
<1> QED
  BY <1>5, <1>6, <1>7, <1>9 DEF LanesInv, LanesTyped

-----------------------------------------------------------------------------
(* The environment.                                                          *)

LEMMA GateAsIs ==
    ASSUME LanesInv, gateTime' \in 0..MaxGateTime,
           UNCHANGED <<permits, completions, gateIndex, governed, unsure, runner>>
    PROVE  GateTyped' /\ RunnersTyped' /\ MissedAreUnsure' /\ WritesAreHonoured'
<1>1. GateTyped /\ RunnersTyped /\ MissedAreUnsure /\ WritesAreHonoured
  BY LanesParts
<1>2. GateTyped'
  BY <1>1 DEF GateTyped
<1>3. RunnersTyped'
  BY <1>1 DEF RunnersTyped, RunnerFits
<1>4. \A n \in 1..Len(permits) : Completing(n)' = Completing(n)
  BY DEF Completing
<1>5. MissedAreUnsure' /\ WritesAreHonoured'
  BY <1>1, <1>4, GateKeeps
<1> QED
  BY <1>2, <1>3, <1>5

LEMMA WorkAsIs ==
    ASSUME LanesInv, UNCHANGED <<runner, mirrored, projections>>, strayed \subseteq strayed',
           Loaded \subseteq strayed' \cup Loaded'
    PROVE  SignalsFit' /\ SessionsFit'
<1>1. SignalsFit /\ SessionsFit
  BY LanesParts
<1>2. SignalsFit'
  BY <1>1 DEF SignalsFit
<1>3. SessionsFit'
  BY <1>1 DEF SessionsFit
<1> QED
  BY <1>2, <1>3

LEMMA PassGateTimeKeeps ==
    ASSUME LanesInv, PassGateTime
    PROVE  LanesInv'
<1>1. /\ UNCHANGED <<permits, completions, gateIndex, governed, unsure, runner, session, captured, mirrored,
                     mirrorState, approval, consumed, signal, projections, strayed>>
      /\ gateTime < MaxGateTime /\ gateTime' = gateTime + 1
  BY DEF PassGateTime, mirrorVars, signalVars
<1>2. gateTime \in 0..MaxGateTime
  BY LanesParts DEF GateTyped
<1>3. gateTime' \in 0..MaxGateTime
  BY <1>1, <1>2, LanesAssumption
<1>4. GateTyped' /\ RunnersTyped' /\ MissedAreUnsure' /\ WritesAreHonoured'
  BY <1>1, <1>3, GateAsIs
<1>5. Loaded \subseteq strayed' \cup Loaded' /\ strayed \subseteq strayed'
  BY <1>1 DEF Loaded, RebuiltSeen
<1>6. SignalsFit' /\ SessionsFit'
  BY <1>1, <1>5, WorkAsIs
<1>7. MirrorTyped' /\ SignalsTyped'
  BY <1>1, LanesParts DEF MirrorTyped, SignalsTyped
<1> QED
  BY <1>4, <1>6, <1>7 DEF LanesInv, LanesTyped

LEMMA CorruptStateKeeps ==
    ASSUME LanesInv, CorruptState
    PROVE  LanesInv'
<1>1. /\ UNCHANGED <<gateTime, permits, completions, gateIndex, governed, unsure, runner, session, captured, mirrored,
                     approval, consumed, signal, projections>>
      /\ mirrorState.file = "ok" /\ mirrorState' = [file |-> "corrupt", seen |-> {}]
      /\ strayed' = strayed \cup mirrorState.seen
  BY DEF CorruptState, gateVars, signalVars
<1>2. gateTime' \in 0..MaxGateTime
  BY <1>1, LanesParts DEF GateTyped
<1>3. GateTyped' /\ RunnersTyped' /\ MissedAreUnsure' /\ WritesAreHonoured'
  BY <1>1, <1>2, GateAsIs
<1>4. Loaded \subseteq strayed' \cup Loaded' /\ strayed \subseteq strayed'
  BY <1>1 DEF Loaded
<1>5. SignalsFit' /\ SessionsFit'
  BY <1>1, <1>4, WorkAsIs
<1>6. mirrorState' \in MirrorStates
  BY <1>1 DEF MirrorStates
<1>7. MirrorTyped' /\ SignalsTyped'
  BY <1>1, <1>6, LanesParts DEF MirrorTyped, SignalsTyped
<1> QED
  BY <1>3, <1>5, <1>7 DEF LanesInv, LanesTyped

\* What the owner, the host and the provider do.
LEMMA OutsideKeeps ==
    ASSUME LanesInv, UNCHANGED <<gateVars, runner, mirrored, mirrorState, consumed, projections, strayed>>,
           \/ \E word \in {"once", "graduated", "disabled"} : Approve(word)
           \/ \E s \in Sessions : ChangeSession(s) \/ CaptureSession(s)
           \/ \E s \in Signals : ChangeSignal(s)
    PROVE  LanesInv'
<1>1. MirrorTyped /\ SignalsTyped
  BY LanesParts
<1>2. gateTime' \in 0..MaxGateTime
  BY LanesParts DEF GateTyped, gateVars
<1>3. GateTyped' /\ RunnersTyped' /\ MissedAreUnsure' /\ WritesAreHonoured'
  BY <1>2, GateAsIs DEF gateVars
<1>4. Loaded \subseteq strayed' \cup Loaded' /\ strayed \subseteq strayed'
  BY DEF Loaded, RebuiltSeen
<1>5. SignalsFit' /\ SessionsFit'
  BY <1>4, WorkAsIs
<1>6. approval' \in {"none", "once", "graduated", "disabled"}
  BY <1>1 DEF Approve, ChangeSession, CaptureSession, ChangeSignal, mirrorVars, MirrorTyped
<1>7. captured' \subseteq Sessions
  BY <1>1 DEF Approve, ChangeSession, CaptureSession, ChangeSignal, mirrorVars, MirrorTyped
<1>8. session' \in [Sessions -> [content: Nat, talk: BOOLEAN]]
  <2>1. CASE session' = session
    BY <1>1, <2>1 DEF MirrorTyped
  <2>2. CASE \E s \in Sessions : ChangeSession(s)
    <3>1. PICK s \in Sessions : ChangeSession(s)
      BY <2>2
    <3>2. PICK o \in [content: Nat, talk: BOOLEAN] : o = session[s]
      BY <1>1 DEF MirrorTyped
    <3>3. PICK n \in Nat : n = o.content + 1
      OBVIOUS
    <3>4. PICK new \in [content: Nat, talk: BOOLEAN] : new = [o EXCEPT !.content = n]
      OBVIOUS
    <3>5. session' = [session EXCEPT ![s] = new]
      BY <3>1, <3>2, <3>3, <3>4 DEF ChangeSession
    <3> QED
      BY <1>1, <3>5 DEF MirrorTyped
  <2> QED
    BY <2>1, <2>2 DEF Approve, CaptureSession, ChangeSignal, mirrorVars
<1>9. signal' \in [Signals -> Nat]
  <2>1. signal \in [Signals -> Nat]
    BY <1>1 DEF SignalsTyped
  <2> QED
    BY <2>1 DEF Approve, ChangeSession, CaptureSession, ChangeSignal, signalVars
<1>10. MirrorTyped' /\ SignalsTyped'
  BY <1>1, <1>6, <1>7, <1>8, <1>9 DEF MirrorTyped, SignalsTyped
<1> QED
  BY <1>3, <1>5, <1>10 DEF LanesInv, LanesTyped

-----------------------------------------------------------------------------
(* Every step.                                                               *)

LEMMA LanesInvStays ==
    ASSUME LanesInv, [LanesNext]_laneVars
    PROVE  LanesInv'
<1>1. CASE PassGateTime
  BY <1>1, PassGateTimeKeeps
<1>2. CASE CorruptState
  BY <1>2, CorruptStateKeeps
<1>3. CASE \/ \E word \in {"once", "graduated", "disabled"} : Approve(word)
           \/ \E s \in Sessions : ChangeSession(s) \/ CaptureSession(s)
           \/ \E s \in Signals : ChangeSignal(s)
  <2>1. UNCHANGED <<gateVars, runner, mirrored, mirrorState, consumed, projections, strayed>>
    BY <1>3 DEF Approve, ChangeSession, CaptureSession, ChangeSignal, mirrorVars, signalVars
  <2> QED
    BY <1>3, <2>1, OutsideKeeps
<1>4. ASSUME NEW r \in Runners, GateStep(r) PROVE LanesInv'
  BY <1>4, CompletePermitKeeps, ReadGateIndexKeeps, WriteGateIndexKeeps, KillRunnerKeeps DEF GateStep
<1>5. ASSUME NEW r \in Runners, SignalStep(r) PROVE LanesInv'
  BY <1>5, StartProjectionKeeps, CollectSignalsKeeps, ProjectSignalKeeps, ReuseEnvelopeKeeps DEF SignalStep
<1>6. ASSUME NEW r \in Runners, MirrorStep(r) PROVE LanesInv'
  BY <1>6, StartAutoMirrorKeeps, StartOwnerMirrorKeeps, RescanSessionsKeeps, MirrorSessionKeeps, RecordApplyKeeps
  DEF MirrorStep
<1>7. CASE UNCHANGED laneVars
  <2>1. UNCHANGED <<gateTime, permits, completions, gateIndex, governed, unsure, runner, session, captured, mirrored,
                    mirrorState, approval, consumed, signal, projections, strayed>>
    BY <1>7 DEF laneVars, gateVars, mirrorVars, signalVars
  <2>2. gateTime' \in 0..MaxGateTime
    BY <2>1, LanesParts DEF GateTyped
  <2>3. GateTyped' /\ RunnersTyped' /\ MissedAreUnsure' /\ WritesAreHonoured'
    BY <2>1, <2>2, GateAsIs
  <2>4. Loaded \subseteq strayed' \cup Loaded' /\ strayed \subseteq strayed'
    BY <2>1 DEF Loaded, RebuiltSeen
  <2>5. SignalsFit' /\ SessionsFit'
    BY <2>1, <2>4, WorkAsIs
  <2>6. MirrorTyped' /\ SignalsTyped'
    BY <2>1, LanesParts DEF MirrorTyped, SignalsTyped
  <2> QED
    BY <2>3, <2>5, <2>6 DEF LanesInv, LanesTyped
<1> QED
  BY <1>1, <1>2, <1>3, <1>4, <1>5, <1>6, <1>7 DEF LanesNext

LEMMA LanesInvHolds == LanesSpec => []LanesInv
<1>1. LanesInit => LanesInv
  BY LanesInvInit
<1>2. LanesInv /\ [LanesNext]_laneVars => LanesInv'
  BY LanesInvStays
<1> QED
  BY <1>1, <1>2, PTL DEF LanesSpec

\* The log, the index, the mirror, the projections and what the runners have in hand are always
\* of the values that the gate and the lanes of session_mirror.py and memory_projection.py give them.
THEOREM LanesTypeCorrect == LanesSpec => []LanesTypeOK
<1>1. LanesInv => LanesTypeOK
  <2> SUFFICES ASSUME LanesInv PROVE LanesTypeOK
    OBVIOUS
  <2>1. GateTyped /\ MirrorTyped /\ RunnersTyped /\ Len(permits) \in Nat
    BY LanesParts
  <2>2. ASSUME NEW n \in DOMAIN permits PROVE permits[n].lane \in LaneKinds /\ completions[n] \in Nat
    <3>1. n \in 1..Len(permits) /\ permits[n] \in Permits
      BY <2>1 DEF GateTyped
    <3>2. permits[n].lane \in LaneKinds
      BY <3>1 DEF Permits
    <3>3. completions[n] \in Nat
      BY <2>1, <3>1 DEF GateTyped
    <3> QED
      BY <3>2, <3>3
  <2>3. \A r \in Runners : runner[r].permit \in 0..Len(permits)
    BY <2>1 DEF RunnersTyped, RunnerFits
  <2>4. ASSUME NEW i \in DOMAIN mirrored PROVE mirrored[i].key[1] \in Sessions
    <3>1. mirrored[i] \in Mirrorings
      BY <2>1 DEF MirrorTyped
    <3>2. mirrored[i].key \in Keys
      BY <3>1 DEF Mirrorings
    <3> QED
      BY <3>2 DEF Keys
  <2> QED
    BY <2>1, <2>2, <2>3, <2>4 DEF LanesTypeOK, GateTyped, MirrorTyped
<1> QED
  BY <1>1, LanesInvHolds, PTL

\* Whatever a lane writes is what its permit permits, in time and before its completion is recorded,
\* and no session or signal is taken up twice, but for what a kill, a lost line of the index, a damaged
\* state or two processes at one explain (execution_gate.py, structural_write_gate.py).
THEOREM LanesAreAlwaysGoverned == LanesSpec => []LanesAreGoverned
<1>1. LanesInv => LanesAreGoverned
  <2> SUFFICES ASSUME LanesInv PROVE LanesAreGoverned
    OBVIOUS
  <2>1. MirrorTyped /\ SignalsTyped /\ WritesAreHonoured /\ SignalsFit /\ SessionsFit
    BY LanesParts
  <2>2. DOMAIN mirrored = 1..Len(mirrored) /\ DOMAIN projections = 1..Len(projections)
    BY <2>1 DEF MirrorTyped, SignalsTyped
  <2>3. PermitsAreHonoured
    BY <2>1 DEF WritesAreHonoured
  <2>4. \A i, j \in DOMAIN mirrored : mirrored[i].key = mirrored[j].key /\ mirrored[i].key \notin strayed => i = j
    BY <2>1, <2>2 DEF SessionsFit
  <2>5. \A i, j \in DOMAIN projections : projections[i] = projections[j] /\ projections[i] \notin strayed => i = j
    BY <2>1, <2>2 DEF SignalsFit
  <2> QED
    BY <2>3, <2>4, <2>5 DEF LanesAreGoverned, NothingIsTakenTwice
<1> QED
  BY <1>1, LanesInvHolds, PTL

-----------------------------------------------------------------------------
(* The proposals, for any proposals, kinds, hands and bounds.                  *)

HandStages == {"idle", "transition", "note", "decide", "write policy", "append apply", "append ticket", "read queue",
           "empty queue", "write queue", "route", "report", "promote"}
Carrying == {"write policy", "append apply", "append ticket", "read queue", "empty queue", "write queue"}
Jobs == {"none", "approve", "reject", "apply", "execute", "route", "auto"}
Documents == {q \in [Proposals -> Items] : \A p \in Proposals : q[p] = Missing \/ q[p].state # "missing"}
HandStates == [pc: HandStages, job: Jobs,
               of: SUBSET Proposals, todo: SUBSET Proposals, seen: Documents, doc: Documents, version: Nat,
               sample: {"none", "approve", "reject"}, evidence: BOOLEAN, count: Nat]

\* A document made of another one decides nothing anew, except that a cleanup blocks.
Follows(seen, doc) ==
  \A p \in Proposals : /\ seen[p] = Missing => doc[p] = Missing
                       /\ seen[p] # Missing => /\ doc[p] # Missing
                                               /\ doc[p].state \in {seen[p].state, "pressure_blocked"}

FilesTyped ==
  /\ kind \in [Proposals -> Kinds] /\ queue \in Documents
  /\ review \in [Proposals -> {"none", "would_allow", "would_block"}]
  /\ ticket \in [Proposals -> {"none", "awaiting_typed_execution_plan", "evidence_resolved", "bounded_policy_written"}]
  /\ applies \in [Proposals -> Nat] /\ writes \in [Proposals -> Nat]
  /\ policy \in [Surfaces -> [version: Nat, from: SUBSET Proposals]]
  /\ noted \subseteq {"approve", "reject", "apply"} \X Proposals
  /\ routed \in Nat /\ jobs \in 0..MaxJobs /\ proposalCrashes \in 0..MaxProposalCrashes
  /\ lastWord \in [Proposals -> {"none", "owner_declined", "approved_for_proposal"}]
  /\ lost \in BOOLEAN /\ overlapped \in BOOLEAN /\ explicit \subseteq Proposals

\* What a process has in hand fits what it does with it.
HandFits(g) ==
  /\ g.pc \notin {"idle", "route", "promote"} => \E p \in Proposals : g.of = {p}
  /\ g.pc = "transition" => g.job \in {"approve", "reject"}
  /\ g.pc = "note" => g.job \in {"approve", "reject", "apply"}
  /\ g.pc \in Carrying \cup {"decide"} => g.job \in {"apply", "execute"}
  /\ g.pc = "promote" => \A p \in g.todo : BoundaryClean(p)
  /\ g.pc \in Carrying => g.of \subseteq explicit
  /\ g.pc = "write policy" => \A p \in g.of : kind[p] \in Surfaces
  /\ g.pc \in Carrying \ {"append ticket"} => \A p \in g.of : kind[p] \in Surfaces \cup {"cleanup"}
  /\ g.pc = "empty queue" => Follows(g.seen, g.doc)

HandsTyped ==
  /\ hand \in [Hands -> HandStates]
  /\ \A h \in Hands : HandFits(hand[h])

\* What was written and applied is of a kind with a policy, and was asked for by a person.
WritesAreSanctioned ==
  /\ \A p \in Proposals : applies[p] > 0 \/ writes[p] > 0 => p \in explicit /\ kind[p] \in Surfaces \cup {"cleanup"}
  /\ \A p \in automatic : BoundaryClean(p)

\* About to carry out what no record says was carried out.
Before(g, p) == g.pc = "write policy" \/ (g.pc \in {"read queue", "empty queue", "write queue"} /\ kind[p] = "cleanup")

\* No two carry out the same proposal.
Alone == \A g, h \in Hands :
  g # h /\ hand[g].pc \in Carrying /\ hand[h].pc \in Carrying => hand[g].of # hand[h].of

\* Who is about to carry one out read that no record said so, and still none does.
ChecksHold == \A h \in Hands : \A p \in hand[h].of : Before(hand[h], p) => applies[p] = 0

\* Between what is carried out and its record there is a process, or a crash.
WritesAreFew == \A p \in Proposals : writes[p] <= 1 + proposalCrashes
WritesAreRecorded == \A p \in Proposals :
  applies[p] = 0 /\ (\A h \in Hands : hand[h].pc = "append apply" => p \notin hand[h].of) => writes[p] <= proposalCrashes

OneCarriesEach == ~overlapped => Alone /\ ChecksHold /\ WritesAreFew /\ WritesAreRecorded

\* A document with the last decisions.
Remembers(q) ==
  \A p \in Proposals : /\ q[p] # Missing
                       /\ lastWord[p] # "none" => q[p].state \in {lastWord[p], "pressure_blocked"}

\* The queue is as it should be, or in the hands of the only one who has such a document.
QueueIsSomewhere ==
  ~lost =>
    \/ /\ Remembers(queue)
       /\ \A h \in Hands : hand[h].pc = "write queue" => hand[h].doc = NoQueue
    \/ /\ queue = NoQueue
       /\ \E g \in Hands : /\ hand[g].pc = "write queue" /\ Remembers(hand[g].doc)
                           /\ \A h \in Hands \ {g} : hand[h].pc = "write queue" => hand[h].doc = NoQueue

ProposalsInv == FilesTyped /\ HandsTyped /\ WritesAreSanctioned /\ OneCarriesEach /\ QueueIsSomewhere

LEMMA AtEaseTyped ==
    /\ NoQueue \in Documents /\ AtEase \in HandStates
    /\ AtEase.pc = "idle" /\ AtEase.of = {} /\ AtEase.todo = {} /\ AtEase.count = 0 /\ AtEase.job = "none"
<1>1. Missing \in Items
  BY DEF Missing, Items
<1>2. NoQueue \in [Proposals -> Items] /\ \A p \in Proposals : NoQueue[p] = Missing
  BY <1>1 DEF NoQueue
<1>3. NoQueue \in Documents
  BY <1>2 DEF Documents
<1>4. PICK off \in BOOLEAN : off = FALSE
  OBVIOUS
<1>5. PICK q \in Documents : q = NoQueue
  BY <1>3
<1>6. PICK g : g = [pc |-> "idle", job |-> "none", of |-> {}, todo |-> {}, seen |-> q, doc |-> q,
                    version |-> 0, sample |-> "none", evidence |-> off, count |-> 0]
  OBVIOUS
<1>7. g \in HandStates /\ g.pc = "idle" /\ g.of = {} /\ g.todo = {} /\ g.count = 0 /\ g.job = "none"
  BY <1>6 DEF HandStates, HandStages, Jobs
<1>8. AtEase = g
  BY <1>4, <1>5, <1>6 DEF AtEase
<1> QED
  BY <1>3, <1>7, <1>8

LEMMA AtEaseFits == HandFits(AtEase)
<1>1. AtEase.pc = "idle"
  BY AtEaseTyped
<1> QED
  BY <1>1 DEF HandFits, Carrying

LEMMA HandMoves ==
    ASSUME HandsTyped, NEW h \in Hands, NEW g \in HandStates, hand' = [hand EXCEPT ![h] = g]
    PROVE  /\ hand' \in [Hands -> HandStates] /\ hand'[h] = g
           /\ \A o \in Hands : o # h => hand'[o] = hand[o]
           /\ \A o \in Hands : hand[o] \in HandStates /\ hand'[o] \in HandStates
BY DEF HandsTyped

LEMMA FitsStays ==
    ASSUME NEW g \in HandStates, HandFits(g), kind' = kind, explicit \subseteq explicit'
    PROVE  HandFits(g)'
BY DEF HandFits, BoundaryClean

LEMMA HandsStay ==
    ASSUME HandsTyped, NEW h \in Hands, NEW g \in HandStates, hand' = [hand EXCEPT ![h] = g],
           kind' = kind, explicit \subseteq explicit', HandFits(g)'
    PROVE  HandsTyped'
<1>1. ASSUME NEW o \in Hands PROVE HandFits(hand[o])'
  <2>1. CASE o = h
    <3>1. hand'[o] = g
      BY <2>1, HandMoves
    <3> QED
      BY <3>1 DEF HandFits
  <2>2. CASE o # h
    <3>1. PICK s \in HandStates : s = hand[o]
      BY DEF HandsTyped
    <3>2. HandFits(s)
      BY <3>1 DEF HandsTyped, HandFits
    <3>3. HandFits(s)'
      BY <3>2, FitsStays
    <3>4. hand'[o] = s
      BY <2>2, <3>1, HandMoves
    <3> QED
      BY <3>3, <3>4 DEF HandFits
  <2> QED
    BY <2>1, <2>2
<1> QED
  BY <1>1, HandMoves DEF HandsTyped

LEMMA TargetIs ==
    ASSUME NEW h \in Hands, NEW p \in Proposals, hand[h].of = {p}
    PROVE  Target(h) = p
BY DEF Target

LEMMA SanctionedStays ==
    ASSUME WritesAreSanctioned, UNCHANGED <<kind, applies, writes, automatic>>, explicit \subseteq explicit'
    PROVE  WritesAreSanctioned'
BY DEF WritesAreSanctioned, BoundaryClean

\* A process that does not begin to carry anything out.
CarriesOn(old, new) ==
  /\ new.pc \in Carrying => old.pc \in Carrying /\ new.of = old.of
  /\ \A p \in Proposals : Before(new, p) => Before(old, p)

LEMMA AloneStays ==
    ASSUME HandsTyped, Alone, NEW h \in Hands, NEW g \in HandStates, hand' = [hand EXCEPT ![h] = g], CarriesOn(hand[h], g)
    PROVE  Alone'
<1>1. hand'[h] = g /\ \A o \in Hands : o # h => hand'[o] = hand[o]
  BY HandMoves
<1>2. \A o \in Hands : hand'[o].pc \in Carrying => hand[o].pc \in Carrying
  BY <1>1 DEF CarriesOn
<1>3. \A o \in Hands : hand'[o].pc \in Carrying => hand'[o].of = hand[o].of
  BY <1>1 DEF CarriesOn
<1> QED
  BY <1>2, <1>3 DEF Alone

LEMMA ChecksStay ==
    ASSUME HandsTyped, ChecksHold, NEW h \in Hands, NEW g \in HandStates, hand' = [hand EXCEPT ![h] = g],
           CarriesOn(hand[h], g), kind' = kind, applies' = applies
    PROVE  ChecksHold'
<1>1. hand'[h] = g /\ \A o \in Hands : o # h => hand'[o] = hand[o]
  BY HandMoves
<1>2. \A o \in Hands : hand'[o].of \subseteq Proposals
  BY HandMoves DEF HandStates
<1>3. ASSUME NEW o \in Hands, NEW p \in hand'[o].of, Before(hand[o], p)'
      PROVE  applies'[p] = 0
  <2>1. Before(hand'[o], p)
    BY <1>3 DEF Before
  <2>2. CASE o = h
    <3>1. p \in Proposals /\ Before(g, p)
      BY <1>1, <1>2, <2>1, <2>2
    <3>2. g.of = hand[h].of /\ Before(hand[h], p)
      BY <3>1 DEF CarriesOn, Before, Carrying
    <3>3. p \in hand[h].of
      BY <1>1, <2>2, <3>2
    <3> QED
      BY <3>2, <3>3 DEF ChecksHold
  <2>3. CASE o # h
    <3>1. hand'[o] = hand[o]
      BY <1>1, <2>3
    <3> QED
      BY <2>1, <3>1 DEF ChecksHold
  <2> QED
    BY <2>2, <2>3
<1> QED
  BY <1>3 DEF ChecksHold

LEMMA CrashesGrow ==
    ASSUME FilesTyped, proposalCrashes' \in {proposalCrashes, proposalCrashes + 1}
    PROVE  /\ proposalCrashes \in Nat /\ proposalCrashes' \in Nat /\ proposalCrashes <= proposalCrashes'
           /\ \A p \in Proposals : writes[p] \in Nat /\ applies[p] \in Nat
BY ProposalsAssumption DEF FilesTyped

\* Who leaves what it carried out without a record is killed.
Accounted(h) == hand[h].pc = "append apply" => proposalCrashes' = proposalCrashes + 1

\* Nothing is written; the record of what was written is given up only by a crash.
LEMMA WritesStay ==
    ASSUME FilesTyped, HandsTyped, WritesAreFew, WritesAreRecorded, NEW h \in Hands, NEW g \in HandStates,
           hand' = [hand EXCEPT ![h] = g], UNCHANGED <<applies, writes>>,
           proposalCrashes' \in {proposalCrashes, proposalCrashes + 1},
           Accounted(h)
    PROVE  (WritesAreFew /\ WritesAreRecorded)'
<1>1. hand'[h] = g /\ \A o \in Hands : o # h => hand'[o] = hand[o]
  BY HandMoves
<1>2. /\ proposalCrashes \in Nat /\ proposalCrashes' \in Nat /\ proposalCrashes <= proposalCrashes'
      /\ \A p \in Proposals : writes[p] \in Nat
  BY CrashesGrow
<1>3. \A p \in Proposals : writes[p] <= 1 + proposalCrashes
  BY DEF WritesAreFew
<1>4. WritesAreFew'
  BY <1>2, <1>3 DEF WritesAreFew
<1>5. ASSUME NEW p \in Proposals, applies[p] = 0, \A o \in Hands : hand'[o].pc = "append apply" => p \notin hand'[o].of
      PROVE  writes[p] <= proposalCrashes'
  <2>1. CASE hand[h].pc = "append apply"
    <3>1. proposalCrashes' = proposalCrashes + 1
      BY <2>1 DEF Accounted
    <3> QED
      BY <1>2, <1>3, <3>1
  <2>2. CASE hand[h].pc # "append apply"
    <3>1. \A o \in Hands : hand[o].pc = "append apply" => p \notin hand[o].of
      BY <1>1, <1>5, <2>2
    <3>2. writes[p] <= proposalCrashes
      BY <1>5, <3>1 DEF WritesAreRecorded
    <3> QED
      BY <1>2, <3>2
  <2> QED
    BY <2>1, <2>2
<1> QED
  BY <1>4, <1>5 DEF WritesAreRecorded

\* A step that writes nothing, of one who does not begin to carry anything out.
LEMMA OnceStays ==
    ASSUME FilesTyped, HandsTyped, OneCarriesEach, NEW h \in Hands, NEW g \in HandStates, hand' = [hand EXCEPT ![h] = g],
           UNCHANGED <<kind, applies, writes, overlapped>>, CarriesOn(hand[h], g),
           proposalCrashes' \in {proposalCrashes, proposalCrashes + 1},
           Accounted(h)
    PROVE  OneCarriesEach'
<1> SUFFICES ASSUME ~overlapped PROVE (Alone /\ ChecksHold /\ WritesAreFew /\ WritesAreRecorded)'
  BY DEF OneCarriesEach
<1>1. Alone /\ ChecksHold /\ WritesAreFew /\ WritesAreRecorded
  BY DEF OneCarriesEach
<1> QED
  BY <1>1, AloneStays, ChecksStay, WritesStay

LEMMA QueueStays ==
    ASSUME HandsTyped, QueueIsSomewhere, NEW h \in Hands, NEW g \in HandStates, hand' = [hand EXCEPT ![h] = g],
           UNCHANGED <<queue, lastWord>>, ~lost' => ~lost /\ hand[h].pc # "write queue", g.pc # "write queue"
    PROVE  QueueIsSomewhere'
<1> SUFFICES ASSUME ~lost' PROVE QueueIsSomewhere'
  BY DEF QueueIsSomewhere
<1>0. ~lost /\ hand[h].pc # "write queue"
  OBVIOUS
<1>1. hand'[h] = g /\ \A o \in Hands : o # h => hand'[o] = hand[o]
  BY HandMoves
<1>2. CASE /\ Remembers(queue)
           /\ \A o \in Hands : hand[o].pc = "write queue" => hand[o].doc = NoQueue
  <2>1. Remembers(queue)'
    BY <1>2 DEF Remembers
  <2>2. \A o \in Hands : hand'[o].pc = "write queue" => hand'[o].doc = NoQueue
    BY <1>1, <1>2
  <2> QED
    BY <2>1, <2>2 DEF QueueIsSomewhere, NoQueue
<1>3. CASE /\ queue = NoQueue
           /\ \E w \in Hands : /\ hand[w].pc = "write queue" /\ Remembers(hand[w].doc)
                               /\ \A o \in Hands \ {w} : hand[o].pc = "write queue" => hand[o].doc = NoQueue
  <2>1. PICK w \in Hands : /\ hand[w].pc = "write queue" /\ Remembers(hand[w].doc)
                           /\ \A o \in Hands \ {w} : hand[o].pc = "write queue" => hand[o].doc = NoQueue
    BY <1>3
  <2>2. hand'[w] = hand[w]
    BY <1>0, <1>1, <2>1
  <2>3. Remembers(hand[w].doc)'
    BY <2>1, <2>2 DEF Remembers
  <2>4. \A o \in Hands \ {w} : hand'[o].pc = "write queue" => hand'[o].doc = NoQueue
    BY <1>1, <2>1
  <2> QED
    BY <1>3, <2>1, <2>2, <2>3, <2>4 DEF QueueIsSomewhere, NoQueue
<1> QED
  BY <1>0, <1>2, <1>3 DEF QueueIsSomewhere

LEMMA ProposalsInvInit == ProposalsInit => ProposalsInv
<1> SUFFICES ASSUME ProposalsInit PROVE ProposalsInv
  OBVIOUS
<1>1. kind \in [Proposals -> Kinds]
  BY ProposalsAssumption DEF ProposalsInit
<1>2. PICK ready \in ReadyChoices :
        /\ queue = [p \in Proposals |-> [state |-> IF p \in ready THEN "approved_for_proposal" ELSE "candidate",
                                         followup |-> "none"]]
        /\ review = [p \in Proposals |-> IF p \in ready THEN "would_allow" ELSE "none"]
  BY DEF ProposalsInit
<1>3. /\ queue \in [Proposals -> Items] /\ \A p \in Proposals : queue[p].state # "missing"
  BY <1>2 DEF Items
<1>4. queue \in Documents /\ \A p \in Proposals : queue[p] # Missing
  BY <1>3 DEF Documents, Missing
<1>5. policy \in [Surfaces -> [version: Nat, from: SUBSET Proposals]]
  BY DEF ProposalsInit, NoPolicy
<1>6. routed \in Nat
  BY ProposalsAssumption DEF ProposalsInit
<1>61. /\ review \in [Proposals -> {"none", "would_allow", "would_block"}]
       /\ ticket \in [Proposals -> {"none", "awaiting_typed_execution_plan", "evidence_resolved", "bounded_policy_written"}]
       /\ applies \in [Proposals -> Nat] /\ writes \in [Proposals -> Nat]
       /\ lastWord \in [Proposals -> {"none", "owner_declined", "approved_for_proposal"}]
  BY <1>2 DEF ProposalsInit
<1>62. /\ noted = {} /\ explicit = {} /\ jobs = 0 /\ proposalCrashes = 0 /\ lost \in BOOLEAN /\ overlapped \in BOOLEAN
  BY DEF ProposalsInit
<1>7. FilesTyped
  BY <1>1, <1>4, <1>5, <1>6, <1>61, <1>62, ProposalsAssumption DEF FilesTyped
<1>8. hand = [h \in Hands |-> AtEase]
  BY DEF ProposalsInit
<1>9. HandsTyped
  BY <1>8, AtEaseTyped, AtEaseFits DEF HandsTyped
<1>10. \A h \in Hands : hand[h].pc = "idle" /\ hand[h].of = {}
  BY <1>8, AtEaseTyped
<1>11. WritesAreSanctioned
  BY DEF WritesAreSanctioned, ProposalsInit
<1>12. OneCarriesEach
  <2>1. \A h \in Hands : hand[h].pc \notin Carrying
    BY <1>10 DEF Carrying
  <2>2. proposalCrashes = 0 /\ \A p \in Proposals : writes[p] = 0
    BY DEF ProposalsInit
  <2>3. \A p \in Proposals : writes[p] <= proposalCrashes /\ writes[p] <= 1 + proposalCrashes
    BY <2>2
  <2>4. \A h \in Hands : hand[h].of = {}
    BY <1>10
  <2> QED
    BY <2>1, <2>3, <2>4 DEF OneCarriesEach, Alone, ChecksHold, WritesAreFew, WritesAreRecorded
<1>13. QueueIsSomewhere
  BY <1>4, <1>10 DEF QueueIsSomewhere, Remembers, ProposalsInit
<1> QED
  BY <1>7, <1>9, <1>11, <1>12, <1>13 DEF ProposalsInv
\* What is not carrying anything out goes on in any case.
LEMMA Elsewhere ==
    ASSUME NEW old, NEW new, new.pc \notin Carrying
    PROVE  CarriesOn(old, new)
BY DEF CarriesOn, Before, Carrying

\* A step that changes neither the queue nor what was carried out, of a process that
\* holds neither.
LEMMA PlainStep ==
    ASSUME ProposalsInv, FilesTyped', NEW h \in Hands, NEW g \in HandStates, hand' = [hand EXCEPT ![h] = g],
           HandFits(g), CarriesOn(hand[h], g), hand[h].pc \notin {"write queue", "append apply"}, g.pc # "write queue",
           UNCHANGED <<kind, queue, applies, writes, explicit, automatic, lastWord, lost, overlapped, proposalCrashes>>
    PROVE  ProposalsInv'
<1>1. FilesTyped /\ HandsTyped /\ WritesAreSanctioned /\ OneCarriesEach /\ QueueIsSomewhere
  BY DEF ProposalsInv
<1>2. HandsTyped'
  <2>1. HandFits(g)'
    BY FitsStays
  <2> QED
    BY <1>1, <2>1, HandsStay
<1>3. WritesAreSanctioned'
  BY <1>1, SanctionedStays
<1>4. OneCarriesEach'
  <2>1. Accounted(h)
    BY DEF Accounted
  <2>2. proposalCrashes' \in {proposalCrashes, proposalCrashes + 1}
    OBVIOUS
  <2> QED
    BY <1>1, <2>1, <2>2, OnceStays
<1>5. QueueIsSomewhere'
  BY <1>1, QueueStays
<1> QED
  BY <1>2, <1>3, <1>4, <1>5 DEF ProposalsInv

LEMMA DoneIs ==
    ASSUME HandsTyped, NEW h \in Hands, NEW p \in Proposals, hand[h].of = {p}, hand[h].job \in {"apply", "execute"}, Done(h)
    PROVE  \E g \in HandStates : hand' = [hand EXCEPT ![h] = g] /\ HandFits(g) /\ g.pc \in {"idle", "note"}
<1>0. hand[h] \in HandStates
  BY DEF HandsTyped
<1>1. CASE hand[h].job = "execute"
  BY <1>1, AtEaseTyped, AtEaseFits DEF Done, HandIs
<1>2. CASE hand[h].job = "apply"
  <2>0. PICK s \in HandStates : s = hand[h]
    BY <1>0
  <2>1. PICK g : g = [s EXCEPT !.pc = "note"]
    OBVIOUS
  <2>2. g \in HandStates /\ g.pc = "note" /\ g.job = "apply" /\ g.of = {p}
    BY <1>2, <2>0, <2>1 DEF HandStates, HandStages
  <2>3. hand' = [hand EXCEPT ![h] = g]
    BY <1>2, <2>0, <2>1 DEF Done, Continues, HandIs
  <2>4. HandFits(g)
    BY <2>2 DEF HandFits, Carrying
  <2> QED
    BY <2>2, <2>3, <2>4
<1> QED
  BY <1>1, <1>2

\* The target of a process at work.
LEMMA AtWork ==
    ASSUME HandsTyped, NEW h \in Hands, hand[h].pc \notin {"idle", "route", "promote"}
    PROVE  Target(h) \in Proposals /\ hand[h].of = {Target(h)} /\ hand[h] \in HandStates /\ HandFits(hand[h])
<1>1. hand[h] \in HandStates /\ HandFits(hand[h])
  BY DEF HandsTyped
<1>2. PICK p \in Proposals : hand[h].of = {p}
  BY <1>1 DEF HandFits
<1> QED
  BY <1>1, <1>2, TargetIs

LEMMA BeginFiles ==
    ASSUME FilesTyped, UNCHANGED <<kind, queue, review, ticket, applies, writes, policy, noted, samples, routed>>,
           UNCHANGED <<proposalCrashes, lastWord, lost, overlapped, explicit>>, jobs' = jobs + 1, jobs < MaxJobs
    PROVE  FilesTyped'
<1>1. jobs' \in 0..MaxJobs
  BY ProposalsAssumption DEF FilesTyped
<1> QED
  BY <1>1 DEF FilesTyped

LEMMA StartOwnerActionKeeps ==
    ASSUME ProposalsInv, NEW h \in Hands, NEW job \in {"approve", "reject", "apply"}, NEW p \in Proposals,
           StartOwnerAction(h, job, p)
    PROVE  ProposalsInv'
<1>0. FilesTyped /\ HandsTyped
  BY DEF ProposalsInv
<1>1. PICK pc \in HandStages : pc = IF job = "apply" THEN "decide" ELSE "transition"
  BY DEF HandStages
<1>2. PICK sample \in {"none", "approve", "reject"} : sample = IF job # "apply" /\ AutoRoutable(p) THEN job ELSE "none"
  OBVIOUS
<1>3. PICK a \in HandStates : a = AtEase
  BY AtEaseTyped
<1>5. PICK g : g = [a EXCEPT !.pc = pc, !.job = job, !.of = {p}, !.sample = sample]
  OBVIOUS
<1>6. g \in HandStates /\ g.pc = pc /\ g.job = job /\ g.of = {p}
  BY <1>5 DEF HandStates, Jobs
<1>7. hand' = [hand EXCEPT ![h] = g] /\ hand[h].pc = "idle"
  BY <1>1, <1>2, <1>3, <1>5 DEF StartOwnerAction, Begins
<1>8. HandFits(g) /\ g.pc \notin Carrying /\ g.pc # "write queue"
  BY <1>1, <1>6 DEF HandFits, Carrying
<1>9. /\ jobs' = jobs + 1 /\ jobs < MaxJobs
      /\ UNCHANGED <<kind, queue, review, ticket, applies, policy, noted, samples, routed, proposalCrashes, proposalHistory>>
  BY DEF StartOwnerAction, Begins, proposalFiles
<1>10. FilesTyped'
  BY <1>0, <1>9, BeginFiles DEF proposalHistory
<1> QED
  BY <1>6, <1>7, <1>8, <1>9, <1>10, Elsewhere, PlainStep DEF proposalHistory

LEMMA StartExecutionKeeps ==
    ASSUME ProposalsInv, NEW h \in Hands, NEW p \in Proposals, NEW evidence \in BOOLEAN, StartExecution(h, p, evidence)
    PROVE  ProposalsInv'
<1>0. FilesTyped /\ HandsTyped
  BY DEF ProposalsInv
<1>3. PICK a \in HandStates : a = AtEase
  BY AtEaseTyped
<1>5. PICK g : g = [a EXCEPT !.pc = "decide", !.job = "execute", !.of = {p}, !.evidence = evidence]
  OBVIOUS
<1>6. g \in HandStates /\ g.pc = "decide" /\ g.job = "execute" /\ g.of = {p}
  BY <1>5 DEF HandStates, Jobs, HandStages
<1>7. hand' = [hand EXCEPT ![h] = g] /\ hand[h].pc = "idle"
  BY <1>3, <1>5 DEF StartExecution, Begins
<1>8. HandFits(g) /\ g.pc \notin Carrying /\ g.pc # "write queue"
  BY <1>6 DEF HandFits, Carrying
<1>9. /\ jobs' = jobs + 1 /\ jobs < MaxJobs
      /\ UNCHANGED <<kind, queue, review, ticket, applies, policy, noted, samples, routed, proposalCrashes, proposalHistory>>
  BY DEF StartExecution, Begins, proposalFiles
<1>10. FilesTyped'
  BY <1>0, <1>9, BeginFiles DEF proposalHistory
<1> QED
  BY <1>6, <1>7, <1>8, <1>9, <1>10, Elsewhere, PlainStep DEF proposalHistory

\* A process that starts on a set of proposals, routing or promoting them.
LEMMA StartsOnSet ==
    ASSUME ProposalsInv, NEW h \in Hands, NEW pc \in {"route", "promote"}, NEW job \in {"route", "auto"},
           NEW todo \in SUBSET Proposals, pc = "promote" => \A p \in todo : BoundaryClean(p),
           Begins(h, [AtEase EXCEPT !.pc = pc, !.job = job, !.todo = todo]),
           UNCHANGED <<proposalFiles, proposalHistory>>
    PROVE  ProposalsInv'
<1>0. FilesTyped /\ HandsTyped
  BY DEF ProposalsInv
<1>3. PICK a \in HandStates : a = AtEase
  BY AtEaseTyped
<1>5. PICK g : g = [a EXCEPT !.pc = pc, !.job = job, !.todo = todo]
  OBVIOUS
<1>6. g \in HandStates /\ g.pc = pc /\ g.todo = todo
  BY <1>5 DEF HandStates, Jobs, HandStages
<1>7. hand' = [hand EXCEPT ![h] = g] /\ hand[h].pc = "idle"
  BY <1>3, <1>5 DEF Begins
<1>8. HandFits(g) /\ g.pc \notin Carrying /\ g.pc # "write queue"
  BY <1>6 DEF HandFits, Carrying
<1>9. /\ jobs' = jobs + 1 /\ jobs < MaxJobs
      /\ UNCHANGED <<kind, queue, review, ticket, applies, policy, noted, samples, routed, proposalCrashes, proposalHistory>>
  BY DEF Begins, proposalFiles
<1>10. FilesTyped'
  BY <1>0, <1>9, BeginFiles DEF proposalHistory
<1> QED
  BY <1>6, <1>7, <1>8, <1>9, <1>10, Elsewhere, PlainStep DEF proposalHistory

LEMMA StartRouteKeeps ==
    ASSUME ProposalsInv, NEW h \in Hands, NEW todo \in SUBSET Proposals, StartRoute(h, todo)
    PROVE  ProposalsInv'
<1>1. Begins(h, [AtEase EXCEPT !.pc = "route", !.job = "route", !.todo = todo])
  BY DEF StartRoute
<1>2. UNCHANGED <<proposalFiles, proposalHistory>>
  BY DEF StartRoute
<1> QED
  BY <1>1, <1>2, StartsOnSet

LEMMA StartAutoRouteKeeps ==
    ASSUME ProposalsInv, NEW h \in Hands, NEW chosen \in SUBSET Proposals, StartAutoRoute(h, chosen)
    PROVE  ProposalsInv'
<1>1. Begins(h, [AtEase EXCEPT !.pc = "promote", !.job = "auto", !.todo = chosen])
  BY DEF StartAutoRoute
<1>2. UNCHANGED <<proposalFiles, proposalHistory>>
  BY DEF StartAutoRoute
<1>3. \A p \in chosen : BoundaryClean(p)
  BY DEF StartAutoRoute, AutoRoutable
<1> QED
  BY <1>1, <1>2, <1>3, StartsOnSet


\* What follows from a document with the last decisions remembers them too.
LEMMA FollowersRemember ==
    ASSUME NEW seen \in Documents, NEW doc \in Documents, Follows(seen, doc), Remembers(seen),
           lastWord \in [Proposals -> {"none", "owner_declined", "approved_for_proposal"}]
    PROVE  Remembers(doc)
<1>1. ASSUME NEW p \in Proposals PROVE doc[p] # Missing
  BY DEF Follows, Remembers
<1>2. ASSUME NEW p \in Proposals, lastWord[p] # "none" PROVE doc[p].state \in {lastWord[p], "pressure_blocked"}
  <2>1. seen[p] # Missing /\ seen[p].state \in {lastWord[p], "pressure_blocked"}
    BY <1>2 DEF Remembers
  <2>2. doc[p].state \in {seen[p].state, "pressure_blocked"}
    BY <2>1 DEF Follows
  <2> QED
    BY <2>1, <2>2
<1> QED
  BY <1>1, <1>2 DEF Remembers

LEMMA NothingFollowsNothing ==
    ASSUME NEW doc \in Documents, Follows(NoQueue, doc)
    PROVE  doc = NoQueue
<1>1. doc \in [Proposals -> Items]
  BY DEF Documents
<1>2. \A p \in Proposals : doc[p] = Missing
  BY DEF Follows, NoQueue
<1> QED
  BY <1>1, <1>2 DEF NoQueue

\* Someone decides about a proposal in the queue.
LEMMA QueueDecides ==
    ASSUME FilesTyped, HandsTyped, QueueIsSomewhere, NEW h \in Hands, NEW g \in HandStates, hand' = [hand EXCEPT ![h] = g],
           NEW p \in Proposals, NEW word \in {"owner_declined", "approved_for_proposal"}, queue[p] # Missing,
           queue' = [queue EXCEPT ![p].state = word], lastWord' = [lastWord EXCEPT ![p] = word],
           lost' = lost, hand[h].pc # "write queue", g.pc # "write queue"
    PROVE  queue' \in Documents /\ QueueIsSomewhere'
<1>1. queue \in Documents /\ queue \in [Proposals -> Items]
  BY DEF FilesTyped, Documents
<1>2. PICK item \in Items : item = queue[p]
  BY <1>1
<1>3. PICK new : new = [item EXCEPT !.state = word]
  OBVIOUS
<1>4. new \in Items /\ new.state = word
  BY <1>2, <1>3 DEF Items
<1>5. queue' = [queue EXCEPT ![p] = new]
  BY <1>1, <1>2, <1>3
<1>6. queue'[p] = new /\ \A o \in Proposals : o # p => queue'[o] = queue[o]
  BY <1>1, <1>5
<1>7. queue' \in Documents
  BY <1>1, <1>4, <1>5, <1>6 DEF Documents
<1>8. new # Missing
  <2>1. Missing.state = "missing"
    BY DEF Missing
  <2> QED
    BY <1>4, <2>1
<1>9. hand'[h] = g /\ \A o \in Hands : o # h => hand'[o] = hand[o]
  BY HandMoves
<1>10. lastWord'[p] = word /\ \A o \in Proposals : o # p => lastWord'[o] = lastWord[o]
  BY DEF FilesTyped
<1>11. queue # NoQueue
  BY DEF NoQueue
<1>12. ASSUME ~lost
       PROVE  Remembers(queue)' /\ \A o \in Hands : hand'[o].pc = "write queue" => hand'[o].doc = NoQueue
  <2>1. Remembers(queue) /\ \A o \in Hands : hand[o].pc = "write queue" => hand[o].doc = NoQueue
    BY <1>11, <1>12 DEF QueueIsSomewhere
  <2>2. \A o \in Hands : hand'[o].pc = "write queue" => hand'[o].doc = NoQueue
    BY <1>9, <2>1
  <2>3. ASSUME NEW o \in Proposals
        PROVE  queue'[o] # Missing /\ (lastWord'[o] # "none" => queue'[o].state \in {lastWord'[o], "pressure_blocked"})
    <3>1. CASE o = p
      BY <1>4, <1>6, <1>8, <1>10, <3>1
    <3>2. CASE o # p
      <4>1. queue'[o] = queue[o] /\ lastWord'[o] = lastWord[o]
        BY <1>6, <1>10, <3>2
      <4> QED
        BY <2>1, <4>1 DEF Remembers
    <3> QED
      BY <3>1, <3>2
  <2>4. Remembers(queue)'
    BY <2>3 DEF Remembers, Missing
  <2> QED
    BY <2>2, <2>4
<1> QED
  BY <1>7, <1>12 DEF QueueIsSomewhere, NoQueue, Missing

\* A step that decides about a proposal in the queue.
LEMMA DecisionKeeps ==
    ASSUME ProposalsInv, NEW h \in Hands, NEW g \in HandStates, hand' = [hand EXCEPT ![h] = g],
           NEW p \in Proposals, NEW word \in {"owner_declined", "approved_for_proposal"}, queue[p] # Missing,
           queue' = [queue EXCEPT ![p].state = word], lastWord' = [lastWord EXCEPT ![p] = word],
           HandFits(g), g.pc \notin Carrying, hand[h].pc \notin Carrying,
           UNCHANGED <<kind, review, ticket, applies, policy, noted, samples, routed, jobs, proposalCrashes>>,
           UNCHANGED <<writes, explicit, lost, overlapped>>,
           automatic' = automatic \/ (automatic' = automatic \cup {p} /\ BoundaryClean(p))
    PROVE  ProposalsInv'
<1>0. FilesTyped /\ HandsTyped /\ WritesAreSanctioned /\ OneCarriesEach /\ QueueIsSomewhere
  BY DEF ProposalsInv
<1>1. g.pc # "write queue" /\ hand[h].pc \notin {"write queue", "append apply"}
  BY DEF Carrying
<1>2. queue' \in Documents /\ QueueIsSomewhere'
  BY <1>0, <1>1, QueueDecides
<1>3. FilesTyped'
  BY <1>0, <1>2 DEF FilesTyped
<1>4. HandsTyped'
  <2>1. HandFits(g)'
    BY FitsStays
  <2> QED
    BY <1>0, <2>1, HandsStay
<1>5. WritesAreSanctioned'
  <2>1. \A o \in automatic' : BoundaryClean(o)
    BY <1>0 DEF WritesAreSanctioned
  <2>2. \A o \in automatic' : BoundaryClean(o)'
    BY <2>1 DEF BoundaryClean
  <2> QED
    BY <1>0, <2>2 DEF WritesAreSanctioned
<1>6. OneCarriesEach'
  <2>1. Accounted(h)
    BY <1>1 DEF Accounted
  <2>2. proposalCrashes' \in {proposalCrashes, proposalCrashes + 1}
    OBVIOUS
  <2>3. CarriesOn(hand[h], g)
    BY Elsewhere
  <2> QED
    BY <1>0, <2>1, <2>2, <2>3, OnceStays
<1> QED
  BY <1>2, <1>3, <1>4, <1>5, <1>6 DEF ProposalsInv

LEMMA TransitionProposalKeeps ==
    ASSUME ProposalsInv, NEW h \in Hands, TransitionProposal(h)
    PROVE  ProposalsInv'
<1> DEFINE p == Target(h)
<1>0. FilesTyped /\ HandsTyped
  BY DEF ProposalsInv
<1>1. hand[h].pc = "transition"
  BY DEF TransitionProposal
<1>2. p \in Proposals /\ hand[h].of = {p} /\ hand[h] \in HandStates /\ HandFits(hand[h])
  BY <1>0, <1>1, AtWork
<1>3. UNCHANGED <<kind, review, ticket, applies, policy, noted, samples, routed, jobs, proposalCrashes,
                  writes, explicit, automatic, lost, overlapped>>
  BY DEF TransitionProposal
<1>4. CASE queue[p] = Missing
  <2>1. hand' = [hand EXCEPT ![h] = AtEase] /\ UNCHANGED <<queue, lastWord>>
    BY <1>4 DEF TransitionProposal, HandIs
  <2>2. FilesTyped'
    BY <1>0, <1>3, <2>1 DEF FilesTyped
  <2>3. AtEase.pc \notin Carrying /\ AtEase.pc # "write queue"
    BY AtEaseTyped DEF Carrying
  <2> QED
    BY <1>1, <1>3, <2>1, <2>2, <2>3, AtEaseTyped, AtEaseFits, Elsewhere, PlainStep
<1>5. CASE queue[p] # Missing
  <2>1. PICK word \in {"owner_declined", "approved_for_proposal"} : word = Word(hand[h].job)
    BY DEF Word
  <2>2. queue' = [queue EXCEPT ![p].state = word] /\ lastWord' = [lastWord EXCEPT ![p] = word] /\ Continues(h, "note")
    BY <1>5, <2>1 DEF TransitionProposal
  <2>3. PICK s \in HandStates : s = hand[h]
    BY <1>2
  <2>4. PICK g : g = [s EXCEPT !.pc = "note"]
    OBVIOUS
  <2>5. g \in HandStates /\ g.pc = "note" /\ g.job = s.job /\ g.of = {p}
    BY <1>2, <2>3, <2>4 DEF HandStates, HandStages
  <2>6. hand' = [hand EXCEPT ![h] = g]
    BY <2>2, <2>3, <2>4 DEF Continues, HandIs
  <2>7. HandFits(g) /\ g.pc \notin Carrying /\ hand[h].pc \notin Carrying
    BY <1>1, <1>2, <2>3, <2>5 DEF HandFits, Carrying
  <2>8. automatic' = automatic
    BY <1>3
  <2> QED
    BY <1>2, <1>3, <1>5, <2>2, <2>5, <2>6, <2>7, <2>8, DecisionKeeps
<1> QED
  BY <1>4, <1>5

LEMMA NoteOwnerActionKeeps ==
    ASSUME ProposalsInv, NEW h \in Hands, NoteOwnerAction(h)
    PROVE  ProposalsInv'
<1>0. FilesTyped /\ HandsTyped
  BY DEF ProposalsInv
<1>1. hand[h].pc = "note" /\ hand' = [hand EXCEPT ![h] = AtEase] /\ noted' = noted \cup {<<hand[h].job, Target(h)>>}
  BY DEF NoteOwnerAction, HandIs
<1>2. Target(h) \in Proposals /\ hand[h].job \in {"approve", "reject", "apply"}
  BY <1>0, <1>1, AtWork DEF HandFits
<1>3. UNCHANGED <<kind, queue, review, ticket, applies, policy, routed, jobs, proposalCrashes, proposalHistory>>
  BY DEF NoteOwnerAction
<1>4. noted' \subseteq {"approve", "reject", "apply"} \X Proposals
  BY <1>0, <1>1, <1>2 DEF FilesTyped
<1>5. FilesTyped'
  BY <1>0, <1>3, <1>4 DEF FilesTyped, proposalHistory
<1>6. AtEase.pc \notin Carrying /\ AtEase.pc # "write queue"
  BY AtEaseTyped DEF Carrying
<1> QED
  BY <1>1, <1>3, <1>5, <1>6, AtEaseTyped, AtEaseFits, Elsewhere, PlainStep DEF proposalHistory


LEMMA DecideExecutionKeeps ==
    ASSUME ProposalsInv, NEW h \in Hands, DecideExecution(h)
    PROVE  ProposalsInv'
<1> DEFINE p == Target(h)
           first == FirstTask(h, p)
<1>0. FilesTyped /\ HandsTyped /\ WritesAreSanctioned /\ OneCarriesEach /\ QueueIsSomewhere
  BY DEF ProposalsInv
<1>1. hand[h].pc = "decide"
  BY DEF DecideExecution
<1>2. p \in Proposals /\ hand[h].of = {p} /\ hand[h] \in HandStates /\ HandFits(hand[h]) /\ hand[h].job \in {"apply", "execute"}
  BY <1>0, <1>1, AtWork DEF HandFits
<1>3. UNCHANGED <<kind, queue, review, ticket, applies, policy, noted, samples, routed, jobs, proposalCrashes,
                  writes, automatic, lastWord, lost>>
  BY DEF DecideExecution, proposalFiles
<1>4. CASE first = "none"
  <2>1. Done(h) /\ UNCHANGED <<explicit, overlapped>>
    BY <1>4 DEF DecideExecution
  <2>2. PICK g \in HandStates : hand' = [hand EXCEPT ![h] = g] /\ HandFits(g) /\ g.pc \in {"idle", "note"}
    BY <1>0, <1>2, <2>1, DoneIs
  <2>3. FilesTyped'
    BY <1>0, <1>3, <2>1 DEF FilesTyped
  <2>4. g.pc \notin Carrying /\ g.pc # "write queue"
    BY <2>2 DEF Carrying
  <2> QED
    BY <1>1, <1>3, <2>1, <2>2, <2>3, <2>4, Elsewhere, PlainStep
<1>5. CASE first # "none"
  <2>1. PICK todo \in SUBSET Proposals : todo = CleanupTargets(queue, p)
    BY DEF CleanupTargets
  <2>2. PICK version \in Nat : version = IF kind[p] \in Surfaces THEN policy[kind[p]].version + 1 ELSE 0
    <3>1. CASE kind[p] \in Surfaces
      <4>1. policy[kind[p]].version \in Nat
        BY <1>0, <3>1 DEF FilesTyped
      <4> QED
        BY <3>1, <4>1
    <3>2. CASE kind[p] \notin Surfaces
      BY <3>2
    <3> QED
      BY <3>1, <3>2
  <2>3. /\ HandIs(h, [hand[h] EXCEPT !.pc = first, !.todo = todo, !.version = version])
        /\ explicit' = explicit \cup {p}
        /\ overlapped' = (overlapped \/ \E g \in Hands \ {h} : Working(g) /\ Target(g) = p)
    BY <1>5, <2>1, <2>2 DEF DecideExecution
  <2>4. /\ first \in {"write policy", "read queue", "append ticket"}
        /\ first = "write policy" => kind[p] \in Surfaces /\ applies[p] = 0
        /\ first = "read queue" => kind[p] = "cleanup" /\ applies[p] = 0
    <3>1. applies[p] \in Nat
      BY <1>0, <1>2 DEF FilesTyped
    <3>2. AlreadyDone(p) \/ applies[p] = 0
      BY <3>1 DEF AlreadyDone
    <3> QED
      BY <1>5, <3>2 DEF FirstTask, Surfaces
  <2>5. PICK s \in HandStates : s = hand[h]
    BY <1>2
  <2>6. PICK task \in HandStages : task = first
    BY <2>4 DEF HandStages
  <2>7. PICK g : g = [s EXCEPT !.pc = task, !.todo = todo, !.version = version]
    OBVIOUS
  <2>8. g \in HandStates /\ g.pc = task /\ g.job = s.job /\ g.of = s.of
    BY <2>7 DEF HandStates
  <2>9. hand' = [hand EXCEPT ![h] = g]
    BY <2>3, <2>5, <2>6, <2>7 DEF HandIs
  <2>10. g.of = {p} /\ g.job \in {"apply", "execute"}
    BY <1>2, <2>5, <2>8
  <2> HIDE DEF p, first
  <2>11. FilesTyped'
    <3>1. explicit' \subseteq Proposals /\ overlapped' \in BOOLEAN
      BY <1>0, <1>2, <2>3 DEF FilesTyped
    <3> QED
      BY <1>0, <1>3, <3>1 DEF FilesTyped
  <2>12. HandsTyped'
    <3>1. g.pc \in {"write policy", "read queue", "append ticket"}
      BY <2>4, <2>6, <2>8
    <3>2. g.of \subseteq explicit'
      BY <2>3, <2>10
    <3>3. g.pc = "write policy" => \A o \in g.of : kind'[o] \in Surfaces
      BY <1>3, <2>4, <2>6, <2>8, <2>10
    <3>4. g.pc \in Carrying \ {"append ticket"} => \A o \in g.of : kind'[o] \in Surfaces \cup {"cleanup"}
      BY <1>3, <2>4, <2>6, <2>8, <2>10, <3>1
    <3>5. HandFits(g)'
      BY <1>2, <2>10, <3>1, <3>2, <3>3, <3>4 DEF HandFits, Carrying
    <3>6. explicit \subseteq explicit' /\ kind' = kind
      BY <1>3, <2>3
    <3> QED
      BY <1>0, <2>8, <2>9, <3>5, <3>6, HandsStay
  <2>13. WritesAreSanctioned'
    <3>1. explicit \subseteq explicit' /\ UNCHANGED <<kind, applies, writes, automatic>>
      BY <1>3, <2>3
    <3> QED
      BY <1>0, <3>1, SanctionedStays
  <2>14. OneCarriesEach'
    <3> SUFFICES ASSUME ~overlapped' PROVE (Alone /\ ChecksHold /\ WritesAreFew /\ WritesAreRecorded)'
      BY DEF OneCarriesEach
    <3>0. ~overlapped /\ \A o \in Hands \ {h} : ~(Working(o) /\ Target(o) = p)
      BY <2>3
    <3>1. Alone /\ ChecksHold /\ WritesAreFew /\ WritesAreRecorded
      BY <1>0, <3>0 DEF OneCarriesEach
    <3>2. hand'[h] = g /\ \A o \in Hands : o # h => hand'[o] = hand[o]
      BY <1>0, <2>8, <2>9, HandMoves
    <3>3. ASSUME NEW o \in Hands, o # h, hand[o].pc \in Carrying
          PROVE  hand[o].of # {p}
      <4>1. hand[o].pc \notin {"idle", "route", "promote", "note"}
        BY <3>3 DEF Carrying
      <4>2. HandFits(hand[o]) /\ hand[o].of = {Target(o)}
        BY <1>0, <4>1, AtWork
      <4>3. hand[o].job \in {"apply", "execute"}
        BY <3>3, <4>2 DEF HandFits
      <4>4. Working(o)
        BY <4>1, <4>3 DEF Working
      <4>5. Target(o) # p
        BY <3>0, <3>3, <4>4
      <4> QED
        BY <4>2, <4>5
    <3>4. Alone'
      BY <2>10, <3>1, <3>2, <3>3 DEF Alone
    <3>5. ChecksHold'
      <4>1. ASSUME NEW o \in Hands, NEW q \in hand'[o].of, Before(hand[o], q)'
            PROVE  applies'[q] = 0
        <5>1. Before(hand'[o], q) /\ applies'[q] = applies[q]
          BY <1>3, <4>1 DEF Before
        <5>2. CASE o = h
          <6>1. q = p /\ Before(g, p)
            BY <2>10, <3>2, <5>1, <5>2
          <6>2. g.pc \in {"write policy", "read queue"}
            BY <2>4, <2>6, <2>8, <6>1 DEF Before
          <6> QED
            BY <2>4, <2>6, <2>8, <5>1, <6>1, <6>2
        <5>3. CASE o # h
          BY <3>1, <3>2, <5>1, <5>3 DEF ChecksHold
        <5> QED
          BY <5>2, <5>3
      <4> QED
        BY <4>1 DEF ChecksHold
    <3>6. (WritesAreFew /\ WritesAreRecorded)'
      <4>1. UNCHANGED <<applies, writes>> /\ proposalCrashes' \in {proposalCrashes, proposalCrashes + 1}
        BY <1>3
      <4>2. Accounted(h)
        BY <1>1 DEF Accounted
      <4> QED
        BY <1>0, <2>8, <2>9, <3>1, <4>1, <4>2, WritesStay
    <3> QED
      BY <3>1, <3>4, <3>5, <3>6
  <2>15. QueueIsSomewhere'
    <3>1. hand[h].pc # "write queue" /\ g.pc # "write queue"
      BY <1>1, <2>4, <2>6, <2>8
    <3>2. UNCHANGED <<queue, lastWord, lost>>
      BY <1>3
    <3> QED
      BY <1>0, <2>8, <2>9, <3>1, <3>2, QueueStays
  <2> QED
    BY <2>11, <2>12, <2>13, <2>14, <2>15 DEF ProposalsInv
<1> QED
  BY <1>4, <1>5


LEMMA Counts ==
    ASSUME FilesTyped
    PROVE  proposalCrashes \in Nat /\ writes \in [Proposals -> Nat] /\ applies \in [Proposals -> Nat]
BY ProposalsAssumption DEF FilesTyped

LEMMA CountsGrow ==
    ASSUME NEW f \in [Proposals -> Nat], NEW p \in Proposals
    PROVE  [f EXCEPT ![p] = @ + 1] \in [Proposals -> Nat]
OBVIOUS

LEMMA OneMore ==
    ASSUME NEW m \in Nat, NEW n \in Nat, m <= n
    PROVE  m + 1 <= 1 + n
OBVIOUS

LEMMA SingleIsOther ==
    ASSUME NEW p, NEW S, S # {p}, \E r : S = {r}, NEW q \in S
    PROVE  q # p
OBVIOUS

\* A process carries its proposal out, and is about to record it.
LEMMA CarryingOut ==
    ASSUME FilesTyped, HandsTyped, OneCarriesEach, NEW h \in Hands, NEW g \in HandStates, hand' = [hand EXCEPT ![h] = g],
           NEW p \in Proposals, hand[h].of = {p}, Before(hand[h], p), g.pc = "append apply", g.of = {p},
           writes' = [writes EXCEPT ![p] = @ + 1],
           UNCHANGED <<kind, applies, overlapped, proposalCrashes>>
    PROVE  OneCarriesEach'
<1> SUFFICES ASSUME ~overlapped PROVE (Alone /\ ChecksHold /\ WritesAreFew /\ WritesAreRecorded)'
  BY DEF OneCarriesEach
<1>1. Alone /\ ChecksHold /\ WritesAreFew /\ WritesAreRecorded
  BY DEF OneCarriesEach
<1>2. hand'[h] = g /\ \A o \in Hands : o # h => hand'[o] = hand[o]
  BY HandMoves
<1>3. hand[h].pc \in Carrying /\ hand[h].pc # "append apply"
  BY DEF Before, Carrying
<1>4. CarriesOn(hand[h], g)
  BY <1>3 DEF CarriesOn, Before
<1>5. Alone' /\ ChecksHold'
  BY <1>1, <1>4, AloneStays, ChecksStay
<1>6. applies[p] = 0
  BY <1>1 DEF ChecksHold
<1>7. ASSUME NEW o \in Hands, hand[o].pc = "append apply"
      PROVE  p \notin hand[o].of
  <2>1. o # h /\ hand[o].pc \in Carrying
    BY <1>3, <1>7 DEF Carrying
  <2>2. hand[o].of # {p}
    BY <1>1, <1>3, <2>1 DEF Alone
  <2>3. \E q \in Proposals : hand[o].of = {q}
    BY <1>7 DEF HandsTyped, HandFits
  <2> QED
    BY <2>2, <2>3
<1>8. writes[p] <= proposalCrashes
  BY <1>1, <1>6, <1>7 DEF WritesAreRecorded
<1>9. proposalCrashes \in Nat /\ writes \in [Proposals -> Nat]
  BY Counts
<1>10. writes'[p] = writes[p] + 1 /\ \A q \in Proposals : q # p => writes'[q] = writes[q]
  BY <1>9
<1>11. WritesAreFew'
  <2>1. ASSUME NEW q \in Proposals PROVE writes'[q] <= 1 + proposalCrashes
    <3>1. CASE q = p
      <4>1. writes[p] + 1 <= 1 + proposalCrashes
        BY <1>8, <1>9, OneMore
      <4> QED
        BY <1>10, <3>1, <4>1
    <3>2. CASE q # p
      BY <1>1, <1>10, <3>2 DEF WritesAreFew
    <3> QED
      BY <3>1, <3>2
  <2> QED
    BY <2>1 DEF WritesAreFew
<1>12. WritesAreRecorded'
  <2>1. ASSUME NEW q \in Proposals, applies[q] = 0, \A o \in Hands : hand'[o].pc = "append apply" => q \notin hand'[o].of
        PROVE  writes'[q] <= proposalCrashes
    <3>1. q # p
      BY <1>2, <2>1
    <3>2. \A o \in Hands : hand[o].pc = "append apply" => q \notin hand[o].of
      BY <1>2, <1>3, <2>1
    <3>3. writes[q] <= proposalCrashes
      BY <1>1, <2>1, <3>2 DEF WritesAreRecorded
    <3> QED
      BY <1>10, <3>1, <3>3
  <2> QED
    BY <2>1 DEF WritesAreRecorded
<1> QED
  BY <1>5, <1>11, <1>12

\* What a process carries out is sanctioned.
LEMMA CarryingIsSanctioned ==
    ASSUME FilesTyped, WritesAreSanctioned, NEW p \in Proposals, p \in explicit, kind[p] \in Surfaces \cup {"cleanup"},
           \A q \in Proposals : q # p => applies'[q] = applies[q],
           \A q \in Proposals : q # p => writes'[q] = writes[q],
           UNCHANGED <<kind, explicit, automatic>>
    PROVE  WritesAreSanctioned'
<1>1. ASSUME NEW q \in Proposals, applies'[q] > 0 \/ writes'[q] > 0
      PROVE  q \in explicit /\ kind[q] \in Surfaces \cup {"cleanup"}
  <2>1. CASE q = p
    BY <2>1
  <2>2. CASE q # p
    <3>1. applies[q] > 0 \/ writes[q] > 0
      BY <1>1, <2>2
    <3> QED
      BY <3>1 DEF WritesAreSanctioned
  <2> QED
    BY <2>1, <2>2
<1>2. \A q \in automatic : BoundaryClean(q)'
  BY DEF WritesAreSanctioned, BoundaryClean
<1> QED
  BY <1>1, <1>2 DEF WritesAreSanctioned

LEMMA WriteProposalPolicyKeeps ==
    ASSUME ProposalsInv, NEW h \in Hands, WriteProposalPolicy(h)
    PROVE  ProposalsInv'
<1> DEFINE p == Target(h)
<1>0. FilesTyped /\ HandsTyped /\ WritesAreSanctioned /\ OneCarriesEach /\ QueueIsSomewhere
  BY DEF ProposalsInv
<1>1. hand[h].pc = "write policy"
  BY DEF WriteProposalPolicy
<1>2. p \in Proposals /\ hand[h].of = {p} /\ hand[h] \in HandStates /\ HandFits(hand[h])
  BY <1>0, <1>1, AtWork
<1>3. kind[p] \in Surfaces /\ p \in explicit /\ hand[h].job \in {"apply", "execute"}
  BY <1>1, <1>2 DEF HandFits, Carrying
<1>4. /\ policy' = [policy EXCEPT ![kind[p]] = [version |-> hand[h].version, from |-> {p}]]
      /\ writes' = [writes EXCEPT ![p] = @ + 1]
      /\ Continues(h, "append apply")
      /\ UNCHANGED <<kind, queue, review, ticket, applies, noted, samples, routed, jobs, proposalCrashes,
                     explicit, automatic, lastWord, lost, overlapped>>
  BY DEF WriteProposalPolicy
<1> HIDE DEF p
<1>5. PICK s \in HandStates : s = hand[h]
  BY <1>2
<1>6. PICK g : g = [s EXCEPT !.pc = "append apply"]
  OBVIOUS
<1>7. g \in HandStates /\ g.pc = "append apply" /\ g.job = s.job /\ g.of = s.of
  BY <1>6 DEF HandStates, HandStages
<1>8. hand' = [hand EXCEPT ![h] = g] /\ g.of = {p} /\ g.job \in {"apply", "execute"}
  BY <1>2, <1>3, <1>4, <1>5, <1>6, <1>7 DEF Continues, HandIs
<1>9. HandFits(g)
  BY <1>2, <1>3, <1>7, <1>8 DEF HandFits, Carrying
<1>10. FilesTyped'
  <2>1. PICK version \in Nat : version = hand[h].version
    BY <1>5 DEF HandStates
  <2>2. PICK record : record = [version |-> version, from |-> {p}]
    OBVIOUS
  <2>3. record \in [version : Nat, from : SUBSET Proposals]
    BY <1>2, <2>2
  <2>4. policy' = [policy EXCEPT ![kind[p]] = record]
    BY <1>4, <2>1, <2>2
  <2>5. policy' \in [Surfaces -> [version : Nat, from : SUBSET Proposals]]
    BY <1>0, <1>3, <2>3, <2>4 DEF FilesTyped
  <2>6. writes' \in [Proposals -> Nat]
    <3>1. writes \in [Proposals -> Nat]
      BY <1>0, Counts
    <3> QED
      BY <1>2, <1>4, <3>1, CountsGrow, Zenon
  <2> QED
    BY <1>0, <1>4, <2>5, <2>6 DEF FilesTyped
<1>11. HandsTyped'
  <2>1. HandFits(g)'
    BY <1>4, <1>7, <1>9, FitsStays
  <2> QED
    BY <1>0, <1>4, <1>7, <1>8, <2>1, HandsStay
<1>12. WritesAreSanctioned'
  <2>1. \A q \in Proposals : q # p => writes'[q] = writes[q]
    BY <1>0, <1>4 DEF FilesTyped
  <2>2. \A q \in Proposals : q # p => applies'[q] = applies[q]
    BY <1>4
  <2>3. kind[p] \in Surfaces \cup {"cleanup"} /\ UNCHANGED <<kind, explicit, automatic>>
    BY <1>3, <1>4
  <2> QED
    BY <1>0, <1>2, <1>3, <2>1, <2>2, <2>3, CarryingIsSanctioned
<1>13. OneCarriesEach'
  <2>1. Before(hand[h], p)
    BY <1>1 DEF Before
  <2>2. UNCHANGED <<kind, applies, overlapped, proposalCrashes>>
    BY <1>4
  <2> QED
    BY <1>0, <1>2, <1>4, <1>7, <1>8, <2>1, <2>2, CarryingOut
<1>14. QueueIsSomewhere'
  <2>1. hand[h].pc # "write queue" /\ g.pc # "write queue" /\ UNCHANGED <<queue, lastWord, lost>>
    BY <1>1, <1>4, <1>7
  <2> QED
    BY <1>0, <1>7, <1>8, <2>1, QueueStays
<1> QED
  BY <1>10, <1>11, <1>12, <1>13, <1>14 DEF ProposalsInv

LEMMA AppendApplyRecordKeeps ==
    ASSUME ProposalsInv, NEW h \in Hands, AppendApplyRecord(h)
    PROVE  ProposalsInv'
<1> DEFINE p == Target(h)
<1>0. FilesTyped /\ HandsTyped /\ WritesAreSanctioned /\ OneCarriesEach /\ QueueIsSomewhere
  BY DEF ProposalsInv
<1>1. hand[h].pc = "append apply"
  BY DEF AppendApplyRecord
<1>2. p \in Proposals /\ hand[h].of = {p} /\ hand[h] \in HandStates /\ HandFits(hand[h])
  BY <1>0, <1>1, AtWork
<1>3. kind[p] \in Surfaces \cup {"cleanup"} /\ p \in explicit /\ hand[h].job \in {"apply", "execute"}
  BY <1>1, <1>2 DEF HandFits, Carrying
<1>4. /\ applies' = [applies EXCEPT ![p] = @ + 1]
      /\ UNCHANGED <<kind, queue, review, ticket, policy, noted, samples, routed, jobs, proposalCrashes, proposalHistory>>
  BY DEF AppendApplyRecord
<1>5. PICK g \in HandStates :
        /\ hand' = [hand EXCEPT ![h] = g] /\ HandFits(g)
        /\ g.pc \in {"idle", "note", "append ticket", "read queue"}
        /\ g.pc \in Carrying => g.of = {p}
        /\ g.pc = "read queue" => kind[p] # "cleanup"
  <2>1. CASE kind[p] = "cleanup"
    <3>1. Done(h)
      BY <2>1 DEF AppendApplyRecord
    <3>2. PICK g \in HandStates : hand' = [hand EXCEPT ![h] = g] /\ HandFits(g) /\ g.pc \in {"idle", "note"}
      BY <1>0, <1>2, <1>3, <3>1, DoneIs
    <3> QED
      BY <3>2 DEF Carrying
  <2>2. CASE kind[p] # "cleanup"
    <3>1. PICK pc \in {"append ticket", "read queue"} : Continues(h, pc)
      BY <2>2 DEF AppendApplyRecord
    <3>2. PICK s \in HandStates : s = hand[h]
      BY <1>2
    <3>3. PICK g : g = [s EXCEPT !.pc = pc]
      OBVIOUS
    <3>4. g \in HandStates /\ g.pc = pc /\ g.job = s.job /\ g.of = s.of
      BY <3>3 DEF HandStates, HandStages
    <3>5. hand' = [hand EXCEPT ![h] = g] /\ g.of = {p} /\ g.job \in {"apply", "execute"}
      BY <1>2, <1>3, <3>1, <3>2, <3>3, <3>4 DEF Continues, HandIs
    <3> HIDE DEF p
    <3>6. HandFits(g)
      BY <1>2, <1>3, <3>4, <3>5 DEF HandFits, Carrying
    <3> QED
      BY <2>2, <3>4, <3>5, <3>6
  <2> QED
    BY <2>1, <2>2
<1> HIDE DEF p
<1>6. applies \in [Proposals -> Nat] /\ applies' \in [Proposals -> Nat]
      /\ applies'[p] = applies[p] + 1 /\ \A q \in Proposals : q # p => applies'[q] = applies[q]
  BY <1>0, <1>2, <1>4 DEF FilesTyped
<1>7. FilesTyped'
  BY <1>0, <1>4, <1>6 DEF FilesTyped, proposalHistory
<1>8. UNCHANGED <<kind, writes, explicit, automatic, overlapped, proposalCrashes, queue, lastWord, lost>>
  BY <1>4 DEF proposalHistory
<1>9. HandsTyped'
  <2>1. HandFits(g)'
    BY <1>5, <1>8, FitsStays
  <2> QED
    BY <1>0, <1>5, <1>8, <2>1, HandsStay
<1>10. WritesAreSanctioned'
  <2>1. \A q \in Proposals : q # p => writes'[q] = writes[q]
    BY <1>8
  <2>2. UNCHANGED <<kind, explicit, automatic>>
    BY <1>8
  <2> QED
    BY <1>0, <1>2, <1>3, <1>6, <2>1, <2>2, CarryingIsSanctioned
<1>11. OneCarriesEach'
  <2> SUFFICES ASSUME ~overlapped PROVE (Alone /\ ChecksHold /\ WritesAreFew /\ WritesAreRecorded)'
    BY <1>8 DEF OneCarriesEach
  <2>1. Alone /\ ChecksHold /\ WritesAreFew /\ WritesAreRecorded
    BY <1>0 DEF OneCarriesEach
  <2>2. hand'[h] = g /\ \A o \in Hands : o # h => hand'[o] = hand[o]
    BY <1>0, <1>5, HandMoves
  <2>3. hand[h].pc \in Carrying
    BY <1>1 DEF Carrying
  <2>4. ASSUME NEW q \in Proposals, Before(g, q) PROVE g.of = {p} /\ q # p
    <3>1. g.pc \notin {"write policy", "empty queue", "write queue"}
      BY <1>5
    <3>2. g.pc = "read queue" /\ kind[q] = "cleanup"
      BY <2>4, <3>1 DEF Before
    <3> QED
      BY <1>5, <3>2 DEF Carrying
  <2>5. Alone'
    <3>1. \A o \in Hands : hand'[o].pc \in Carrying => hand[o].pc \in Carrying
      BY <2>2, <2>3
    <3>2. \A o \in Hands : hand'[o].pc \in Carrying => hand'[o].of = hand[o].of
      BY <1>2, <1>5, <2>2
    <3> QED
      BY <2>1, <3>1, <3>2 DEF Alone
  <2>6. ASSUME NEW o \in Hands, NEW q \in hand'[o].of, Before(hand[o], q)'
        PROVE  applies'[q] = 0
    <3>1. Before(hand'[o], q)
      BY <1>8, <2>6 DEF Before
    <3>2. q \in Proposals
      BY <1>0, <1>5, HandMoves DEF HandStates
    <3>3. o # h
      BY <2>2, <2>4, <2>6, <3>1, <3>2
    <3>4. Before(hand[o], q) /\ q \in hand[o].of /\ hand[o].pc \in Carrying
      BY <2>2, <3>1, <3>3 DEF Before, Carrying
    <3>5. hand[o].of # {p}
      BY <1>2, <2>1, <2>3, <3>3, <3>4 DEF Alone
    <3>6. \E r \in Proposals : hand[o].of = {r}
      BY <1>0, <3>4 DEF HandsTyped, HandFits, Carrying
    <3>7. q # p
      BY <3>4, <3>5, <3>6, SingleIsOther, Zenon
    <3> QED
      BY <1>6, <2>1, <3>2, <3>4, <3>7 DEF ChecksHold
  <2>7. ChecksHold'
    BY <2>6 DEF ChecksHold
  <2>8. WritesAreFew'
    BY <1>8, <2>1 DEF WritesAreFew
  <2>9. WritesAreRecorded'
    <3>0. applies'[p] # 0
      BY <1>2, <1>6
    <3>1. ASSUME NEW q \in Proposals, applies'[q] = 0, \A o \in Hands : hand'[o].pc = "append apply" => q \notin hand'[o].of
          PROVE  writes[q] <= proposalCrashes
      <4>1. q # p
        BY <3>0, <3>1, Zenon
      <4>2. \A o \in Hands : hand[o].pc = "append apply" => q \notin hand[o].of
        BY <1>2, <2>2, <3>1, <4>1
      <4> QED
        BY <1>6, <2>1, <3>1, <4>1, <4>2 DEF WritesAreRecorded
    <3> QED
      BY <1>8, <3>1 DEF WritesAreRecorded
  <2> QED
    BY <2>5, <2>7, <2>8, <2>9
<1>12. QueueIsSomewhere'
  <2>1. hand[h].pc # "write queue" /\ g.pc # "write queue"
    BY <1>1, <1>5
  <2> QED
    BY <1>0, <1>5, <1>8, <2>1, QueueStays
<1> QED
  BY <1>7, <1>9, <1>10, <1>11, <1>12 DEF ProposalsInv

LEMMA AppendTicketKeeps ==
    ASSUME ProposalsInv, NEW h \in Hands, AppendTicket(h)
    PROVE  ProposalsInv'
<1>0. FilesTyped /\ HandsTyped
  BY DEF ProposalsInv
<1>1. hand[h].pc = "append ticket" /\ Done(h) /\ ticket' = [ticket EXCEPT ![Target(h)] = TicketState(h, Target(h))]
  BY DEF AppendTicket
<1>2. Target(h) \in Proposals /\ hand[h].of = {Target(h)} /\ HandFits(hand[h])
  BY <1>0, <1>1, AtWork
<1>3. hand[h].job \in {"apply", "execute"}
  BY <1>1, <1>2 DEF HandFits, Carrying
<1>4. UNCHANGED <<kind, queue, review, applies, policy, noted, samples, routed, jobs, proposalCrashes, proposalHistory>>
  BY DEF AppendTicket
<1>5. PICK g \in HandStates : hand' = [hand EXCEPT ![h] = g] /\ HandFits(g) /\ g.pc \in {"idle", "note"}
  BY <1>0, <1>1, <1>2, <1>3, DoneIs
<1>6. TicketState(h, Target(h)) \in {"none", "awaiting_typed_execution_plan", "evidence_resolved", "bounded_policy_written"}
  BY DEF TicketState
<1>7. FilesTyped'
  BY <1>0, <1>1, <1>4, <1>6 DEF FilesTyped, proposalHistory
<1>8. g.pc \notin Carrying /\ g.pc # "write queue"
  BY <1>5 DEF Carrying
<1> QED
  BY <1>1, <1>4, <1>5, <1>7, <1>8, Elsewhere, PlainStep DEF proposalHistory


\* What a process makes of the queue it read.
LEMMA MarkedIs ==
    ASSUME FilesTyped, HandsTyped, NEW h \in Hands, Target(h) \in Proposals
    PROVE  Marked(h, queue) \in Documents /\ Follows(queue, Marked(h, queue))
<1> DEFINE m == Marked(h, queue)
<1>1. queue \in Documents /\ queue \in [Proposals -> Items]
  BY DEF FilesTyped, Documents
<1>2. Missing \in Items /\ Missing.state = "missing"
  BY DEF Missing, Items
<1>3. ASSUME NEW t \in Proposals
      PROVE  /\ m[t] \in Items
             /\ queue[t] = Missing => m[t] = Missing
             /\ queue[t] # Missing => m[t].state # "missing" /\ m[t].state \in {queue[t].state, "pressure_blocked"}
  <2>1. PICK item \in Items : item = queue[t]
    BY <1>1
  <2>2. m[t] = IF item = Missing THEN Missing
               ELSE IF t \in hand[h].of THEN [item EXCEPT !.followup = "applied"]
               ELSE IF kind[Target(h)] = "cleanup" /\ t \in hand[h].todo /\ t \in CleanupTargets(queue, Target(h))
               THEN [state |-> "pressure_blocked", followup |-> "closed"] ELSE item
    BY <2>1 DEF Marked
  <2>3. PICK applied : applied = [item EXCEPT !.followup = "applied"]
    OBVIOUS
  <2>4. applied \in Items /\ applied.state = item.state
    BY <2>3 DEF Items
  <2>5. PICK blocked : blocked = [state |-> "pressure_blocked", followup |-> "closed"]
    OBVIOUS
  <2>6. blocked \in Items /\ blocked.state = "pressure_blocked"
    BY <2>5 DEF Items
  <2>7. m[t] \in {Missing, applied, blocked, item} /\ (m[t] = Missing \/ item # Missing) /\ (item = Missing => m[t] = Missing)
        /\ (item # Missing => m[t] \in {applied, blocked, item})
    BY <2>2, <2>3, <2>5
  <2>8. item # Missing => item.state # "missing"
    BY <1>1, <2>1 DEF Documents
  <2> HIDE DEF m
  <2> QED
    BY <1>2, <2>1, <2>4, <2>6, <2>7, <2>8
<1>4. m \in [Proposals -> Items]
  <2>1. m = [t \in Proposals |-> m[t]]
    BY DEF Marked
  <2> HIDE DEF m
  <2> QED
    BY <1>3, <2>1
<1> HIDE DEF m
<1>5. m \in Documents
  <2>1. \A t \in Proposals : m[t] = Missing \/ m[t].state # "missing"
    BY <1>3
  <2> QED
    BY <1>4, <2>1 DEF Documents
<1>6. Follows(queue, m)
  <2>1. \A t \in Proposals : queue[t] # Missing => m[t] # Missing
    BY <1>2, <1>3
  <2> QED
    BY <1>3, <2>1 DEF Follows
<1> QED
  BY <1>5, <1>6 DEF m

LEMMA ReadQueueDocumentKeeps ==
    ASSUME ProposalsInv, NEW h \in Hands, ReadQueueDocument(h)
    PROVE  ProposalsInv'
<1> DEFINE p == Target(h)
<1>0. FilesTyped /\ HandsTyped
  BY DEF ProposalsInv
<1>1. hand[h].pc = "read queue"
  BY DEF ReadQueueDocument
<1>2. p \in Proposals /\ hand[h].of = {p} /\ hand[h] \in HandStates /\ HandFits(hand[h])
  BY <1>0, <1>1, AtWork
<1>3. hand[h].job \in {"apply", "execute"} /\ kind[p] \in Surfaces \cup {"cleanup"} /\ p \in explicit
  BY <1>1, <1>2 DEF HandFits, Carrying
<1>4. UNCHANGED <<kind, queue, review, ticket, applies, policy, noted, samples, routed, jobs, proposalCrashes, proposalHistory>>
  BY DEF ReadQueueDocument, proposalFiles
<1>5. FilesTyped'
  BY <1>0, <1>4 DEF FilesTyped, proposalHistory
<1>6. CASE queue[p] = Missing /\ kind[p] # "cleanup"
  <2>1. Done(h)
    BY <1>6 DEF ReadQueueDocument
  <2>2. PICK g \in HandStates : hand' = [hand EXCEPT ![h] = g] /\ HandFits(g) /\ g.pc \in {"idle", "note"}
    BY <1>0, <1>2, <1>3, <2>1, DoneIs
  <2>3. g.pc \notin Carrying /\ g.pc # "write queue"
    BY <2>2 DEF Carrying
  <2> QED
    BY <1>1, <1>4, <1>5, <2>2, <2>3, Elsewhere, PlainStep DEF proposalHistory
<1>7. CASE ~(queue[p] = Missing /\ kind[p] # "cleanup")
  <2>1. PICK doc \in Documents : doc = Marked(h, queue) /\ Follows(queue, doc)
    BY <1>0, <1>2, MarkedIs
  <2>2. HandIs(h, [hand[h] EXCEPT !.pc = "empty queue", !.seen = queue, !.doc = doc])
    BY <1>7, <2>1 DEF ReadQueueDocument
  <2>3. PICK s \in HandStates : s = hand[h]
    BY <1>2
  <2>4. PICK seen \in Documents : seen = queue
    BY <1>0 DEF FilesTyped
  <2>5. PICK g : g = [s EXCEPT !.pc = "empty queue", !.seen = seen, !.doc = doc]
    OBVIOUS
  <2>6. g \in HandStates /\ g.pc = "empty queue" /\ g.job = s.job /\ g.of = s.of /\ g.seen = seen /\ g.doc = doc
    BY <2>5 DEF HandStates, HandStages
  <2>7. hand' = [hand EXCEPT ![h] = g]
    BY <2>2, <2>3, <2>4, <2>5 DEF HandIs
  <2> HIDE DEF p
  <2>8. HandFits(g)
    <3>1. Follows(g.seen, g.doc)
      BY <2>1, <2>4, <2>6
    <3>2. g.of = {p} /\ g.job \in {"apply", "execute"}
      BY <1>2, <1>3, <2>3, <2>6
    <3> QED
      BY <1>2, <1>3, <2>6, <3>1, <3>2 DEF HandFits, Carrying
  <2>9. CarriesOn(hand[h], g)
    <3>1. \A q \in Proposals : Before(g, q) => Before(hand[h], q)
      BY <1>1, <2>6 DEF Before
    <3>2. hand[h].pc \in Carrying /\ g.of = hand[h].of
      BY <1>1, <2>3, <2>6 DEF Carrying
    <3> QED
      BY <3>1, <3>2 DEF CarriesOn
  <2>10. g.pc # "write queue"
    BY <2>6
  <2> QED
    BY <1>1, <1>4, <1>5, <2>6, <2>7, <2>8, <2>9, <2>10, PlainStep DEF proposalHistory
<1> QED
  BY <1>6, <1>7

LEMMA EmptyQueueDocumentKeeps ==
    ASSUME ProposalsInv, NEW h \in Hands, EmptyQueueDocument(h)
    PROVE  ProposalsInv'
<1>0. FilesTyped /\ HandsTyped /\ WritesAreSanctioned /\ OneCarriesEach /\ QueueIsSomewhere
  BY DEF ProposalsInv
<1>1. hand[h].pc = "empty queue"
  BY DEF EmptyQueueDocument
<1>2. hand[h] \in HandStates /\ HandFits(hand[h])
  BY <1>0, <1>1, AtWork
<1>3. /\ queue' = NoQueue /\ lost' = (lost \/ queue # hand[h].seen) /\ Continues(h, "write queue")
      /\ UNCHANGED <<kind, review, ticket, applies, policy, noted, samples, routed, jobs, proposalCrashes,
                     writes, explicit, automatic, lastWord, overlapped>>
  BY DEF EmptyQueueDocument
<1>4. PICK s \in HandStates : s = hand[h]
  BY <1>2
<1>5. PICK g : g = [s EXCEPT !.pc = "write queue"]
  OBVIOUS
<1>6. g \in HandStates /\ g.pc = "write queue" /\ g.job = s.job /\ g.of = s.of /\ g.doc = s.doc
  BY <1>5 DEF HandStates, HandStages
<1>7. hand' = [hand EXCEPT ![h] = g]
  BY <1>3, <1>4, <1>5 DEF Continues, HandIs
<1>8. FilesTyped'
  <2>1. lost' \in BOOLEAN /\ queue' \in Documents
    BY <1>0, <1>3, AtEaseTyped DEF FilesTyped
  <2> QED
    BY <1>0, <1>3, <2>1 DEF FilesTyped
<1>9. HandsTyped'
  <2>1. HandFits(s) /\ s.pc = "empty queue"
    BY <1>1, <1>2, <1>4
  <2>2. HandFits(g)
    BY <1>6, <2>1 DEF HandFits, Carrying
  <2>3. HandFits(g)'
    BY <1>3, <1>6, <2>2, FitsStays
  <2> QED
    BY <1>0, <1>3, <1>6, <1>7, <2>3, HandsStay
<1>10. WritesAreSanctioned'
  BY <1>0, <1>3, SanctionedStays
<1>11. OneCarriesEach'
  <2>1. \A q \in Proposals : Before(g, q) => Before(hand[h], q)
    BY <1>1, <1>6 DEF Before
  <2>2. hand[h].pc \in Carrying /\ g.of = hand[h].of
    BY <1>1, <1>4, <1>6 DEF Carrying
  <2>3. CarriesOn(hand[h], g)
    BY <2>1, <2>2 DEF CarriesOn
  <2>4. Accounted(h)
    BY <1>1 DEF Accounted
  <2>5. UNCHANGED <<kind, applies, writes, overlapped>> /\ proposalCrashes' \in {proposalCrashes, proposalCrashes + 1}
    BY <1>3
  <2> QED
    BY <1>0, <1>6, <1>7, <2>3, <2>4, <2>5, OnceStays
<1>12. QueueIsSomewhere'
  <2> SUFFICES ASSUME ~lost, queue = hand[h].seen PROVE QueueIsSomewhere'
    BY <1>3 DEF QueueIsSomewhere
  <2>1. hand'[h] = g /\ \A o \in Hands : o # h => hand'[o] = hand[o]
    BY <1>0, <1>6, <1>7, HandMoves
  <2>2. Follows(queue, g.doc) /\ g.doc \in Documents /\ queue \in Documents
    <3>1. Follows(hand[h].seen, hand[h].doc)
      BY <1>1, <1>2 DEF HandFits
    <3> QED
      BY <1>0, <1>4, <1>6, <3>1 DEF HandStates, FilesTyped
  <2>3. CASE Remembers(queue) /\ \A o \in Hands : hand[o].pc = "write queue" => hand[o].doc = NoQueue
    <3>1. Remembers(g.doc)
      BY <1>0, <2>2, <2>3, FollowersRemember DEF FilesTyped
    <3>2. Remembers(g.doc)'
      BY <1>3, <3>1 DEF Remembers, Missing
    <3>3. hand'[h].pc = "write queue" /\ Remembers(hand[h].doc)'
      BY <1>6, <2>1, <3>2 DEF Remembers, Missing
    <3>4. \A o \in Hands \ {h} : hand'[o].pc = "write queue" => hand'[o].doc = NoQueue
      BY <2>1, <2>3
    <3> QED
      BY <1>3, <3>3, <3>4 DEF QueueIsSomewhere, NoQueue, Missing, Remembers
  <2>4. CASE /\ queue = NoQueue
             /\ \E w \in Hands : /\ hand[w].pc = "write queue" /\ Remembers(hand[w].doc)
                                 /\ \A o \in Hands \ {w} : hand[o].pc = "write queue" => hand[o].doc = NoQueue
    <3>1. g.doc = NoQueue
      BY <2>2, <2>4, NothingFollowsNothing
    <3>2. PICK w \in Hands : /\ hand[w].pc = "write queue" /\ Remembers(hand[w].doc)
                             /\ \A o \in Hands \ {w} : hand[o].pc = "write queue" => hand[o].doc = NoQueue
      BY <2>4
    <3>3. hand'[w] = hand[w]
      BY <1>1, <2>1, <3>2
    <3>4. Remembers(hand[w].doc)'
      BY <1>3, <3>2, <3>3 DEF Remembers, Missing
    <3>5. \A o \in Hands \ {w} : hand'[o].pc = "write queue" => hand'[o].doc = NoQueue
      BY <2>1, <3>1, <3>2
    <3> QED
      BY <1>3, <3>2, <3>3, <3>4, <3>5 DEF QueueIsSomewhere, NoQueue, Missing, Remembers
  <2> QED
    BY <1>0, <2>3, <2>4 DEF QueueIsSomewhere
<1> QED
  BY <1>8, <1>9, <1>10, <1>11, <1>12 DEF ProposalsInv


LEMMA WriteQueueDocumentKeeps ==
    ASSUME ProposalsInv, NEW h \in Hands, WriteQueueDocument(h)
    PROVE  ProposalsInv'
<1> DEFINE p == Target(h)
<1>0. FilesTyped /\ HandsTyped /\ WritesAreSanctioned /\ OneCarriesEach /\ QueueIsSomewhere
  BY DEF ProposalsInv
<1>1. hand[h].pc = "write queue"
  BY DEF WriteQueueDocument
<1>2. p \in Proposals /\ hand[h].of = {p} /\ hand[h] \in HandStates /\ HandFits(hand[h])
  BY <1>0, <1>1, AtWork
<1>3. kind[p] \in Surfaces \cup {"cleanup"} /\ p \in explicit /\ hand[h].job \in {"apply", "execute"}
  BY <1>1, <1>2 DEF HandFits, Carrying
<1>4. /\ queue' = hand[h].doc /\ lost' = (lost \/ queue # NoQueue)
      /\ UNCHANGED <<kind, review, ticket, applies, policy, noted, samples, routed, jobs, proposalCrashes,
                     explicit, automatic, lastWord, overlapped>>
  BY DEF WriteQueueDocument
<1>5. PICK g \in HandStates :
        /\ hand' = [hand EXCEPT ![h] = g] /\ HandFits(g) /\ g.pc \in {"idle", "note", "append apply"}
        /\ kind[p] = "cleanup" => /\ g.pc = "append apply" /\ g.of = {p}
                                  /\ writes' = [writes EXCEPT ![p] = @ + 1]
        /\ kind[p] # "cleanup" => g.pc # "append apply" /\ writes' = writes
  <2>1. CASE kind[p] # "cleanup"
    <3>1. Done(h) /\ UNCHANGED writes
      BY <2>1 DEF WriteQueueDocument
    <3>2. PICK g \in HandStates : hand' = [hand EXCEPT ![h] = g] /\ HandFits(g) /\ g.pc \in {"idle", "note"}
      BY <1>0, <1>2, <1>3, <3>1, DoneIs
    <3> QED
      BY <2>1, <3>1, <3>2
  <2>2. CASE kind[p] = "cleanup"
    <3>1. Continues(h, "append apply") /\ writes' = [writes EXCEPT ![p] = @ + 1]
      BY <2>2 DEF WriteQueueDocument
    <3>2. PICK s \in HandStates : s = hand[h]
      BY <1>2
    <3>3. PICK g : g = [s EXCEPT !.pc = "append apply"]
      OBVIOUS
    <3>4. g \in HandStates /\ g.pc = "append apply" /\ g.job = s.job /\ g.of = s.of
      BY <3>3 DEF HandStates, HandStages
    <3>5. hand' = [hand EXCEPT ![h] = g] /\ g.of = {p} /\ g.job \in {"apply", "execute"}
      BY <1>2, <1>3, <3>1, <3>2, <3>3, <3>4 DEF Continues, HandIs
    <3> HIDE DEF p
    <3>6. HandFits(g)
      BY <1>2, <1>3, <3>4, <3>5 DEF HandFits, Carrying
    <3> QED
      BY <2>2, <3>1, <3>4, <3>5, <3>6
  <2> QED
    BY <2>1, <2>2
<1> HIDE DEF p
<1>6. writes \in [Proposals -> Nat] /\ writes' \in [Proposals -> Nat]
      /\ \A q \in Proposals : q # p => writes'[q] = writes[q]
  <2>1. writes \in [Proposals -> Nat]
    BY <1>0, Counts
  <2>2. CASE kind[p] = "cleanup"
    <3>1. writes' = [writes EXCEPT ![p] = @ + 1]
      BY <1>5, <2>2
    <3>2. writes' \in [Proposals -> Nat]
      BY <1>2, <2>1, <3>1, CountsGrow, Zenon
    <3> QED
      BY <2>1, <3>1, <3>2
  <2>3. CASE kind[p] # "cleanup"
    <3>1. writes' = writes
      BY <1>5, <2>3
    <3> QED
      BY <2>1, <3>1
  <2> QED
    BY <2>2, <2>3
<1>7. FilesTyped'
  <2>1. queue' \in Documents /\ lost' \in BOOLEAN
    BY <1>0, <1>2, <1>4 DEF FilesTyped, HandStates
  <2> QED
    BY <1>0, <1>4, <1>6, <2>1 DEF FilesTyped
<1>8. HandsTyped'
  <2>1. HandFits(g)'
    BY <1>4, <1>5, FitsStays
  <2> QED
    BY <1>0, <1>4, <1>5, <2>1, HandsStay
<1>9. WritesAreSanctioned'
  <2>1. \A q \in Proposals : q # p => applies'[q] = applies[q]
    BY <1>4 DEF WriteQueueDocument
  <2>2. UNCHANGED <<kind, explicit, automatic>>
    BY <1>4
  <2> QED
    BY <1>0, <1>2, <1>3, <1>6, <2>1, <2>2, CarryingIsSanctioned
<1>10. OneCarriesEach'
  <2>1. UNCHANGED <<kind, applies, overlapped, proposalCrashes>>
    BY <1>4
  <2>2. CASE kind[p] = "cleanup"
    <3>1. Before(hand[h], p)
      BY <1>1, <2>2 DEF Before
    <3>2. g.pc = "append apply" /\ g.of = {p} /\ writes' = [writes EXCEPT ![p] = @ + 1]
      BY <1>5, <2>2
    <3>3. hand' = [hand EXCEPT ![h] = g]
      BY <1>5
    <3> QED
      BY <1>0, <1>2, <2>1, <3>1, <3>2, <3>3, CarryingOut
  <2>3. CASE kind[p] # "cleanup"
    <3>1. writes' = writes /\ g.pc \notin Carrying
      BY <1>5, <2>3 DEF Carrying
    <3>2. Accounted(h)
      BY <1>1 DEF Accounted
    <3>3. CarriesOn(hand[h], g)
      BY <3>1, Elsewhere
    <3>4. UNCHANGED <<kind, applies, writes, overlapped>> /\ proposalCrashes' \in {proposalCrashes, proposalCrashes + 1}
      BY <2>1, <3>1
    <3> QED
      BY <1>0, <1>5, <3>2, <3>3, <3>4, OnceStays
  <2> QED
    BY <2>2, <2>3
<1>11. QueueIsSomewhere'
  <2> SUFFICES ASSUME ~lost, queue = NoQueue PROVE QueueIsSomewhere'
    BY <1>4 DEF QueueIsSomewhere
  <2>1. hand'[h] = g /\ \A o \in Hands : o # h => hand'[o] = hand[o]
    BY <1>0, <1>5, HandMoves
  <2>2. ~Remembers(queue)
    BY <1>2 DEF Remembers, NoQueue
  <2>3. PICK w \in Hands : /\ hand[w].pc = "write queue" /\ Remembers(hand[w].doc)
                           /\ \A o \in Hands \ {w} : hand[o].pc = "write queue" => hand[o].doc = NoQueue
    BY <1>0, <2>2 DEF QueueIsSomewhere
  <2>4. CASE w = h
    <3>1. Remembers(hand[h].doc)
      BY <2>3, <2>4
    <3>2. Remembers(queue)'
      BY <1>4, <3>1 DEF Remembers, Missing
    <3>3. \A o \in Hands \ {h} : hand'[o].pc = "write queue" => hand'[o].doc = NoQueue
      BY <2>1, <2>3, <2>4
    <3>4. hand'[h].pc # "write queue"
      BY <1>5, <2>1
    <3>5. \A o \in Hands : hand'[o].pc = "write queue" => hand'[o].doc = NoQueue
      BY <3>3, <3>4
    <3> QED
      BY <3>2, <3>5 DEF QueueIsSomewhere, NoQueue, Missing
  <2>5. CASE w # h
    <3>1. queue' = NoQueue
      BY <1>1, <1>4, <2>3, <2>5
    <3>2. hand'[w] = hand[w]
      BY <2>1, <2>5
    <3>3. Remembers(hand[w].doc)'
      BY <1>4, <2>3, <3>2 DEF Remembers, Missing
    <3>4. \A o \in Hands \ {w} : hand'[o].pc = "write queue" => hand'[o].doc = NoQueue
      BY <1>5, <2>1, <2>3
    <3> QED
      BY <2>3, <3>1, <3>2, <3>3, <3>4 DEF QueueIsSomewhere, NoQueue, Missing, Remembers
  <2> QED
    BY <2>4, <2>5
<1> QED
  BY <1>7, <1>8, <1>9, <1>10, <1>11 DEF ProposalsInv

LEMMA PromoteProposalKeeps ==
    ASSUME ProposalsInv, NEW h \in Hands, PromoteProposal(h)
    PROVE  ProposalsInv'
<1>0. FilesTyped /\ HandsTyped
  BY DEF ProposalsInv
<1>1. hand[h].pc = "promote" /\ hand[h] \in HandStates /\ HandFits(hand[h])
  BY <1>0 DEF PromoteProposal, HandsTyped
<1>2. \A p \in hand[h].todo : BoundaryClean(p)
  BY <1>1 DEF HandFits
<1>3. UNCHANGED <<kind, review, ticket, applies, policy, noted, samples, routed, jobs, proposalCrashes,
                  writes, explicit, lost, overlapped>>
  BY DEF PromoteProposal
<1>4. PICK s \in HandStates : s = hand[h]
  BY <1>1
<1>5. CASE hand[h].todo = {}
  <2>1. HandIs(h, [hand[h] EXCEPT !.pc = "route", !.todo = AwaitingReview]) /\ UNCHANGED <<queue, automatic, lastWord>>
    BY <1>5 DEF PromoteProposal
  <2>2. PICK todo \in SUBSET Proposals : todo = AwaitingReview
    BY DEF AwaitingReview
  <2>3. PICK g : g = [s EXCEPT !.pc = "route", !.todo = todo]
    OBVIOUS
  <2>4. g \in HandStates /\ g.pc = "route"
    BY <2>3 DEF HandStates, HandStages
  <2>5. hand' = [hand EXCEPT ![h] = g]
    BY <1>4, <2>1, <2>2, <2>3 DEF HandIs
  <2>6. HandFits(g) /\ g.pc \notin Carrying /\ g.pc # "write queue"
    BY <2>4 DEF HandFits, Carrying
  <2>7. FilesTyped'
    BY <1>0, <1>3, <2>1 DEF FilesTyped
  <2> QED
    BY <1>1, <1>3, <2>1, <2>4, <2>5, <2>6, <2>7, Elsewhere, PlainStep
<1>6. CASE hand[h].todo # {}
  <2>1. PICK p \in hand[h].todo :
          IF queue[p] = Missing
          THEN HandIs(h, AtEase) /\ UNCHANGED <<queue, automatic, lastWord>>
          ELSE /\ queue' = [queue EXCEPT ![p].state = "approved_for_proposal"]
               /\ automatic' = automatic \cup {p}
               /\ lastWord' = [lastWord EXCEPT ![p] = "approved_for_proposal"]
               /\ HandIs(h, [hand[h] EXCEPT !.todo = @ \ {p}, !.count = @ + 1])
    BY <1>6 DEF PromoteProposal
  <2>2. p \in Proposals /\ BoundaryClean(p)
    BY <1>1, <1>2 DEF HandStates
  <2>3. CASE queue[p] = Missing
    <3>1. hand' = [hand EXCEPT ![h] = AtEase] /\ UNCHANGED <<queue, automatic, lastWord>>
      BY <2>1, <2>3 DEF HandIs
    <3>2. FilesTyped'
      BY <1>0, <1>3, <3>1 DEF FilesTyped
    <3>3. AtEase.pc \notin Carrying /\ AtEase.pc # "write queue"
      BY AtEaseTyped DEF Carrying
    <3> QED
      BY <1>1, <1>3, <3>1, <3>2, <3>3, AtEaseTyped, AtEaseFits, Elsewhere, PlainStep
  <2>4. CASE queue[p] # Missing
    <3>0. s.todo \in SUBSET Proposals
      BY DEF HandStates
    <3>1. PICK todo \in SUBSET Proposals : todo = s.todo \ {p} /\ todo \subseteq hand[h].todo
      BY <1>4, <3>0
    <3>2. PICK count \in Nat : count = s.count + 1
      BY DEF HandStates
    <3>3. PICK g : g = [s EXCEPT !.todo = todo, !.count = count]
      OBVIOUS
    <3>4. g \in HandStates /\ g.pc = s.pc /\ g.todo = todo
      BY <3>3 DEF HandStates
    <3>5. hand' = [hand EXCEPT ![h] = g]
      BY <1>4, <2>1, <2>4, <3>1, <3>2, <3>3 DEF HandIs
    <3>6. g.pc = "promote" /\ \A q \in g.todo : BoundaryClean(q)
      BY <1>1, <1>2, <1>4, <3>1, <3>4
    <3>7. HandFits(g) /\ g.pc \notin Carrying /\ hand[h].pc \notin Carrying
      BY <1>1, <3>6 DEF HandFits, Carrying
    <3>8. PICK word \in {"owner_declined", "approved_for_proposal"} : word = "approved_for_proposal"
      OBVIOUS
    <3>9. queue' = [queue EXCEPT ![p].state = word] /\ lastWord' = [lastWord EXCEPT ![p] = word]
      BY <2>1, <2>4, <3>8
    <3>10. automatic' = automatic \cup {p}
      BY <2>1, <2>4
    <3> QED
      BY <1>3, <2>2, <2>4, <3>4, <3>5, <3>7, <3>9, <3>10, DecisionKeeps
  <2> QED
    BY <2>3, <2>4
<1> QED
  BY <1>5, <1>6

LEMMA LookAtReviewKeeps ==
    ASSUME ProposalsInv, NEW h \in Hands, LookAtReview(h)
    PROVE  ProposalsInv'
<1>0. FilesTyped /\ HandsTyped
  BY DEF ProposalsInv
<1>1. hand[h].pc = "route" /\ hand[h] \in HandStates
  BY <1>0 DEF LookAtReview, HandsTyped
<1>2. UNCHANGED <<kind, queue, review, ticket, applies, policy, noted, samples, routed, jobs, proposalCrashes, proposalHistory>>
  BY DEF LookAtReview, proposalFiles
<1>3. PICK s \in HandStates : s = hand[h]
  BY <1>1
<1>4. PICK p \in s.todo :
        HandIs(h, [s EXCEPT !.todo = @ \ {p},
                      !.of = IF Approved(p) /\ review[p] = "none" THEN {p} ELSE {},
                      !.pc = IF Approved(p) /\ review[p] = "none" THEN "report" ELSE "route"])
  BY <1>3 DEF LookAtReview
<1>5. p \in Proposals
  BY DEF HandStates
<1>6. PICK of \in SUBSET Proposals : of = IF Approved(p) /\ review[p] = "none" THEN {p} ELSE {}
  BY <1>5
<1>7. PICK pc \in HandStages : pc = IF Approved(p) /\ review[p] = "none" THEN "report" ELSE "route"
  BY DEF HandStages
<1>8. PICK todo \in SUBSET Proposals : todo = s.todo \ {p}
  BY DEF HandStates
<1>9. PICK g : g = [s EXCEPT !.todo = todo, !.of = of, !.pc = pc]
  OBVIOUS
<1>10. g \in HandStates /\ g.pc = pc /\ g.of = of
  BY <1>9 DEF HandStates
<1>11. hand' = [hand EXCEPT ![h] = g]
  BY <1>4, <1>6, <1>7, <1>8, <1>9 DEF HandIs
<1>12. HandFits(g) /\ g.pc \notin Carrying /\ g.pc # "write queue"
  <2>1. CASE Approved(p) /\ review[p] = "none"
    <3>1. g.pc = "report" /\ g.of = {p}
      BY <1>6, <1>7, <1>10, <2>1
    <3> QED
      BY <1>5, <3>1 DEF HandFits, Carrying
  <2>2. CASE ~(Approved(p) /\ review[p] = "none")
    <3>1. g.pc = "route"
      BY <1>7, <1>10, <2>2
    <3> QED
      BY <3>1 DEF HandFits, Carrying
  <2> QED
    BY <2>1, <2>2
<1>13. FilesTyped'
  BY <1>0, <1>2 DEF FilesTyped, proposalHistory
<1> QED
  BY <1>1, <1>2, <1>10, <1>11, <1>12, <1>13, Elsewhere, PlainStep DEF proposalHistory

LEMMA ReportReviewKeeps ==
    ASSUME ProposalsInv, NEW h \in Hands, NEW verdict \in {"would_allow", "would_block"}, ReportReview(h, verdict)
    PROVE  ProposalsInv'
<1>0. FilesTyped /\ HandsTyped
  BY DEF ProposalsInv
<1>1. /\ hand[h].pc = "report" /\ hand[h] \in HandStates
      /\ review' = [review EXCEPT ![Target(h)] = verdict]
      /\ HandIs(h, [hand[h] EXCEPT !.pc = "route", !.of = {}])
  BY <1>0 DEF ReportReview, HandsTyped
<1>2. UNCHANGED <<kind, queue, ticket, applies, policy, noted, samples, routed, jobs, proposalCrashes, proposalHistory>>
  BY DEF ReportReview
<1>3. PICK s \in HandStates : s = hand[h]
  BY <1>1
<1>4. PICK g : g = [s EXCEPT !.pc = "route", !.of = {}]
  OBVIOUS
<1>5. g \in HandStates /\ g.pc = "route"
  BY <1>4 DEF HandStates, HandStages
<1>6. hand' = [hand EXCEPT ![h] = g]
  BY <1>1, <1>3, <1>4 DEF HandIs
<1>7. HandFits(g) /\ g.pc \notin Carrying /\ g.pc # "write queue"
  BY <1>5 DEF HandFits, Carrying
<1>8. FilesTyped'
  BY <1>0, <1>1, <1>2 DEF FilesTyped, proposalHistory
<1> QED
  BY <1>1, <1>2, <1>5, <1>6, <1>7, <1>8, Elsewhere, PlainStep DEF proposalHistory

LEMMA EndRouteKeeps ==
    ASSUME ProposalsInv, NEW h \in Hands, EndRoute(h)
    PROVE  ProposalsInv'
<1>0. FilesTyped /\ HandsTyped
  BY DEF ProposalsInv
<1>1. hand[h].pc = "route" /\ routed' = routed + hand[h].count /\ hand' = [hand EXCEPT ![h] = AtEase]
  BY DEF EndRoute, HandIs
<1>2. UNCHANGED <<kind, queue, review, ticket, applies, policy, noted, samples, jobs, proposalCrashes, proposalHistory>>
  BY DEF EndRoute
<1>3. PICK count \in Nat : count = hand[h].count
  BY <1>0 DEF HandsTyped, HandStates
<1>4. routed' \in Nat
  BY <1>0, <1>1, <1>3 DEF FilesTyped
<1>5. FilesTyped'
  BY <1>0, <1>2, <1>4 DEF FilesTyped, proposalHistory
<1>6. AtEase.pc \notin Carrying /\ AtEase.pc # "write queue"
  BY AtEaseTyped DEF Carrying
<1> QED
  BY <1>1, <1>2, <1>5, <1>6, AtEaseTyped, AtEaseFits, Elsewhere, PlainStep DEF proposalHistory

LEMMA CrashHandKeeps ==
    ASSUME ProposalsInv, NEW h \in Hands, CrashHand(h)
    PROVE  ProposalsInv'
<1>0. FilesTyped /\ HandsTyped /\ WritesAreSanctioned /\ OneCarriesEach /\ QueueIsSomewhere
  BY DEF ProposalsInv
<1>1. /\ proposalCrashes < MaxProposalCrashes /\ proposalCrashes' = proposalCrashes + 1
      /\ lost' = (lost \/ hand[h].pc = "write queue")
      /\ hand' = [hand EXCEPT ![h] = AtEase]
      /\ UNCHANGED <<kind, queue, review, ticket, applies, policy, noted, samples, routed, jobs,
                     writes, explicit, automatic, lastWord, overlapped>>
  BY DEF CrashHand, HandIs, proposalFiles
<1>2. AtEase \in HandStates /\ AtEase.pc \notin Carrying /\ AtEase.pc # "write queue"
  BY AtEaseTyped DEF Carrying
<1>3. FilesTyped'
  <2>1. proposalCrashes' \in 0..MaxProposalCrashes
    <3>1. proposalCrashes \in 0..MaxProposalCrashes
      BY <1>0 DEF FilesTyped
    <3>2. proposalCrashes < MaxProposalCrashes /\ proposalCrashes' = proposalCrashes + 1
      BY <1>1
    <3> QED
      BY <3>1, <3>2, ProposalsAssumption
  <2>2. lost' \in BOOLEAN
    BY <1>0, <1>1 DEF FilesTyped
  <2> QED
    BY <1>0, <1>1, <2>1, <2>2 DEF FilesTyped
<1>4. HandsTyped'
  <2>1. HandFits(AtEase)'
    BY <1>1, <1>2, AtEaseFits, FitsStays
  <2> QED
    BY <1>0, <1>1, <1>2, <2>1, HandsStay
<1>5. WritesAreSanctioned'
  BY <1>0, <1>1, SanctionedStays
<1>6. OneCarriesEach'
  <2>1. Accounted(h)
    BY <1>1 DEF Accounted
  <2>2. CarriesOn(hand[h], AtEase)
    BY <1>2, Elsewhere
  <2>3. UNCHANGED <<kind, applies, writes, overlapped>> /\ proposalCrashes' \in {proposalCrashes, proposalCrashes + 1}
    BY <1>1
  <2> QED
    BY <1>0, <1>1, <1>2, <2>1, <2>2, <2>3, OnceStays
<1>7. QueueIsSomewhere'
  <2>1. ~lost' => ~lost /\ hand[h].pc # "write queue"
    BY <1>1
  <2> QED
    BY <1>0, <1>1, <1>2, <2>1, QueueStays
<1> QED
  BY <1>3, <1>4, <1>5, <1>6, <1>7 DEF ProposalsInv

LEMMA ProposalsStutter ==
    ASSUME ProposalsInv, UNCHANGED proposalVars
    PROVE  ProposalsInv'
<1>1. UNCHANGED <<kind, queue, review, ticket, applies, policy, noted, samples, routed>> /\ UNCHANGED <<hand, jobs, proposalCrashes>>
      /\ UNCHANGED <<writes, explicit, automatic, lastWord, lost, overlapped>>
  BY DEF proposalVars, proposalFiles, proposalHistory
<1>2. FilesTyped' /\ WritesAreSanctioned'
  BY <1>1 DEF ProposalsInv, FilesTyped, WritesAreSanctioned, BoundaryClean
<1>3. HandsTyped'
  BY <1>1 DEF ProposalsInv, HandsTyped, HandFits, BoundaryClean
<1>4. OneCarriesEach'
  BY <1>1 DEF ProposalsInv, OneCarriesEach, Alone, ChecksHold, WritesAreFew, WritesAreRecorded, Before
<1>5. QueueIsSomewhere'
  BY <1>1 DEF ProposalsInv, QueueIsSomewhere, Remembers, NoQueue, Missing
<1> QED
  BY <1>2, <1>3, <1>4, <1>5 DEF ProposalsInv

LEMMA ProposalsInvStep == ProposalsInv /\ [ProposalsNext]_proposalVars => ProposalsInv'
<1> SUFFICES ASSUME ProposalsInv, [ProposalsNext]_proposalVars PROVE ProposalsInv'
  OBVIOUS
<1>1. CASE UNCHANGED proposalVars
  BY <1>1, ProposalsStutter
<1>2. CASE ProposalsNext
  <2>1. PICK h \in Hands :
          \/ \E p \in Proposals :
               \/ \E job \in {"approve", "reject", "apply"} : StartOwnerAction(h, job, p)
               \/ \E evidence \in BOOLEAN : StartExecution(h, p, evidence)
          \/ \E todo \in SUBSET Proposals : StartRoute(h, todo) \/ StartAutoRoute(h, todo)
          \/ HandStep(h)
          \/ CrashHand(h)
    BY <1>2 DEF ProposalsNext
  <2>2. CASE \E p \in Proposals :
               \/ \E job \in {"approve", "reject", "apply"} : StartOwnerAction(h, job, p)
               \/ \E evidence \in BOOLEAN : StartExecution(h, p, evidence)
    BY <2>2, StartOwnerActionKeeps, StartExecutionKeeps
  <2>3. CASE \E todo \in SUBSET Proposals : StartRoute(h, todo) \/ StartAutoRoute(h, todo)
    BY <2>3, StartRouteKeeps, StartAutoRouteKeeps
  <2>4. CASE HandStep(h)
    BY <2>4, TransitionProposalKeeps, NoteOwnerActionKeeps, DecideExecutionKeeps, WriteProposalPolicyKeeps,
       AppendApplyRecordKeeps, AppendTicketKeeps, ReadQueueDocumentKeeps, EmptyQueueDocumentKeeps,
       WriteQueueDocumentKeeps, PromoteProposalKeeps, LookAtReviewKeeps, EndRouteKeeps, ReportReviewKeeps DEF HandStep
  <2>5. CASE CrashHand(h)
    BY <2>5, CrashHandKeeps
  <2> QED
    BY <2>1, <2>2, <2>3, <2>4, <2>5
<1> QED
  BY <1>1, <1>2

\* The queue document, the reviews, tickets, apply records and policies have the values
\* the code of owner_actions.py gives them, for any proposals and processes.
THEOREM ProposalsTypeCorrect == ProposalsSpec => []ProposalsTypeOK
<1>1. ProposalsInv => ProposalsTypeOK
  <2> SUFFICES ASSUME ProposalsInv PROVE ProposalsTypeOK
    OBVIOUS
  <2>1. FilesTyped
    BY DEF ProposalsInv
  <2>2. queue \in [Proposals -> Items]
    BY <2>1 DEF FilesTyped, Documents
  <2>3. \A s \in Surfaces : policy[s].version \in Nat /\ policy[s].from \subseteq Proposals
    BY <2>1 DEF FilesTyped
  <2> QED
    BY <2>1, <2>2, <2>3 DEF FilesTyped, ProposalsTypeOK
<1> QED
  BY <1>1, ProposalsInvInit, ProposalsInvStep, PTL DEF ProposalsSpec

\* What apply_approved_proposal_execution_decision writes was approved, allowed and applied
\* by a person; it is written once, unless a process was killed before it recorded it or
\* two worked on it at once; and the queue document keeps the last decisions, unless a
\* writer put an older document in its place.
THEOREM ProposalsAreAlwaysGoverned == ProposalsSpec => []ProposalsAreGoverned
<1>1. ProposalsInv => ProposalsAreGoverned
  <2> SUFFICES ASSUME ProposalsInv PROVE ProposalsAreGoverned
    OBVIOUS
  <2>0. FilesTyped /\ WritesAreSanctioned /\ OneCarriesEach /\ QueueIsSomewhere
    BY DEF ProposalsInv
  <2>1. PoliciesAreSanctioned
    <3>1. \A p \in Proposals : kind[p] \in Surfaces \cup {"cleanup"} => ~BoundaryClean(p)
      BY DEF Surfaces, BoundaryClean
    <3> QED
      BY <2>0, <3>1 DEF PoliciesAreSanctioned, WritesAreSanctioned
  <2>2. ProposalsAreAppliedOnce
    BY <2>0 DEF ProposalsAreAppliedOnce, OneCarriesEach, WritesAreFew
  <2>3. QueueKeepsDecisions
    <3> SUFFICES ASSUME ~lost, Quiet PROVE Remembers(queue)
      BY DEF QueueKeepsDecisions, Remembers
    <3>1. ~ \E g \in Hands : hand[g].pc = "write queue"
      BY DEF Quiet
    <3> QED
      BY <2>0, <3>1 DEF QueueIsSomewhere
  <2> QED
    BY <2>1, <2>2, <2>3 DEF ProposalsAreGoverned
<1> QED
  BY <1>1, ProposalsInvInit, ProposalsInvStep, PTL DEF ProposalsSpec

================================================================================
