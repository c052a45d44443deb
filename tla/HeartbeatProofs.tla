----------------------------- MODULE HeartbeatProofs -----------------------------
(* What the heartbeat guarantees, for any processes, events, kinds of events, caps and bounds. *)
EXTENDS Heartbeat, WellFoundedInduction, FiniteSetTheorems, TLAPS

-----------------------------------------------------------------------------
(* The heartbeat: entries and their places.                                *)

LEMMA LeastOfNaturals ==
    ASSUME NEW T \in SUBSET Nat, T # {}
    PROVE  \E m \in T : \A t \in T : m <= t
<1> DEFINE Less == {pair \in Nat \X Nat : pair[1] < pair[2]}
<1>1. IsWellFoundedOn(Less, Nat)
  BY NatLessThanWellFounded DEF OpToRel
<1>2. PICK x \in T : \A y \in T : ~(<<y, x>> \in Less)
  <2> HIDE DEF Less
  <2> QED
    BY <1>1, WFMin
<1>3. ASSUME NEW t \in T PROVE x <= t
  <2>1. ~(<<t, x>> \in Less)
    BY <1>2
  <2>2. t \in Nat /\ x \in Nat
    OBVIOUS
  <2>3. ~(t < x)
    BY <2>1, <2>2
  <2> QED
    BY <2>2, <2>3
<1> QED
  BY <1>3

\* A finite set of numbers has a greatest one: the least size of a set without one would not
\* be the least.
LEMMA FiniteHasGreatest ==
    ASSUME NEW S \in SUBSET Nat, IsFiniteSet(S), S # {}
    PROVE  \E m \in S : \A t \in S : t <= m
<1> DEFINE Topped(T) == \E m \in T : \A t \in T : t <= m
           Bad == {n \in Nat : \E T \in SUBSET S : T # {} /\ Cardinality(T) = n /\ ~Topped(T)}
<1>1. SUFFICES ASSUME ~Topped(S) PROVE FALSE
  OBVIOUS
<1>2. Cardinality(S) \in Bad
  BY <1>1, FS_CardinalityType
<1>3. PICK n \in Bad : \A k \in Bad : n <= k
  <2>1. Bad \subseteq Nat /\ Bad # {}
    BY <1>2
  <2> QED
    BY <2>1, LeastOfNaturals
<1>4. PICK T \in SUBSET S : T # {} /\ Cardinality(T) = n /\ ~Topped(T)
  BY <1>3
<1>5. PICK x \in T : TRUE
  BY <1>4
<1>6. IsFiniteSet(T)
  BY FS_Subset
<1>7. IsFiniteSet(T \ {x}) /\ Cardinality(T \ {x}) = n - 1
  BY <1>4, <1>6, FS_RemoveElement
<1>8. CASE T \ {x} = {}
  <2>1. \A t \in T : t <= x
    BY <1>8
  <2> QED
    BY <1>4, <2>1
<1>9. CASE T \ {x} # {}
  <2>1. Cardinality(T \ {x}) \notin Bad
    <3>1. n \in Nat /\ ~(n <= n - 1)
      BY <1>3
    <3> HIDE DEF Bad
    <3> QED
      BY <1>3, <1>7, <3>1
  <2>2. Cardinality(T \ {x}) \in Nat
    BY <1>7, FS_CardinalityType
  <2>3. Topped(T \ {x})
    BY <1>9, <2>1, <2>2
  <2>4. PICK m \in T \ {x} : \A t \in T \ {x} : t <= m
    BY <2>3
  <2>5. m \in Nat /\ x \in Nat
    OBVIOUS
  <2>6. CASE m <= x
    <3>1. \A t \in T : t <= x
      BY <2>4, <2>5, <2>6
    <3> QED
      BY <1>4, <3>1
  <2>7. CASE x <= m
    <3>1. \A t \in T : t <= m
      BY <2>4, <2>7
    <3> QED
      BY <1>4, <3>1
  <2> QED
    BY <2>5, <2>6, <2>7
<1> QED
  BY <1>8, <1>9

LEMMA BehindIsBehind ==
    ASSUME NEW entries, IsFiniteSet(entries), \A x \in entries : x.at \in Nat
    PROVE  /\ Behind(entries) \in Nat
           /\ \A x \in entries : x.at < Behind(entries)
<1> DEFINE places == {x.at : x \in entries}
<1>1. CASE entries = {}
  BY <1>1 DEF Behind
<1>2. CASE entries # {}
  <2>1. places \in SUBSET Nat /\ places # {}
    BY <1>2
  <2>2. IsFiniteSet(places)
    <3> DEFINE f == [x \in entries |-> x.at]
    <3>1. f \in Surjection(entries, places)
      BY DEF Surjection
    <3> QED
      BY <3>1, FS_Surjection
  <2>3. \E n \in places : \A t \in places : t <= n
    <3> HIDE DEF places
    <3> QED
      BY <2>1, <2>2, FiniteHasGreatest
  <2>4. \E n \in places : \A x \in entries : x.at <= n
    BY <2>3
  <2> DEFINE top == CHOOSE n \in places : \A x \in entries : x.at <= n
  <2>5. top \in places /\ \A x \in entries : x.at <= top
    BY <2>4
  <2>6. Behind(entries) = 1 + top
    BY <1>2 DEF Behind
  <2>7. top \in Nat
    BY <2>1, <2>5
  <2> HIDE DEF top
  <2> QED
    BY <2>5, <2>6, <2>7
<1> QED
  BY <1>1, <1>2

LEMMA LightestIsThere ==
    ASSUME NEW items, items # {}, \A x \in items : x.weight \in Nat /\ x.at \in Nat
    PROVE  Lightest(items) \in items
<1>1. PICK w \in {x.weight : x \in items} : \A v \in {x.weight : x \in items} : w <= v
  <2>1. {x.weight : x \in items} \in SUBSET Nat /\ {x.weight : x \in items} # {}
    OBVIOUS
  <2> QED
    BY <2>1, LeastOfNaturals
<1> DEFINE light == {x \in items : x.weight = w}
<1>2. PICK a \in {x.at : x \in light} : \A b \in {x.at : x \in light} : a <= b
  <2>1. {x.at : x \in light} \in SUBSET Nat /\ {x.at : x \in light} # {}
    BY <1>1
  <2> HIDE DEF light
  <2> QED
    BY <2>1, LeastOfNaturals
<1>3. PICK i \in light : i.at = a
  BY <1>2
<1>4. ASSUME NEW j \in items PROVE i.weight < j.weight \/ (i.weight = j.weight /\ i.at <= j.at)
  <2>1. i.weight = w /\ w <= j.weight /\ w \in Nat /\ j.weight \in Nat
    BY <1>1, <1>3
  <2>2. CASE j.weight = w
    BY <1>2, <1>3, <2>1, <2>2
  <2>3. CASE j.weight # w
    BY <2>1, <2>3
  <2> QED
    BY <2>2, <2>3
<1> QED
  BY <1>3, <1>4 DEF Lightest

-----------------------------------------------------------------------------
(* What the operators of the heartbeat give.                               *)

LEMMA DecisionsFit ==
    ASSUME NEW e
    PROVE  /\ Of(e).weight \in Nat
           /\ Of(e).document \in Drives \cup {""}
           /\ Of(e).candidate \in BOOLEAN
           /\ Of(e).document = "" => ~Of(e).candidate
BY DEF Of, Decision, Drive, Drives

LEMMA HalvedIsNatural ==
    ASSUME NEW w \in Nat, NEW n \in Nat
    PROVE  Halved(w, n) \in Nat
<1> DEFINE powers == <<1, 2, 4, 8, 16, 32, 64, 128, 256, 512>>
<1>1. CASE n > 9
  BY <1>1 DEF Halved
<1>2. CASE ~(n > 9)
  <2>1. n + 1 \in {1, 2, 3, 4, 5, 6, 7, 8, 9, 10}
    BY <1>2
  <2>2. /\ powers[1] = 1 /\ powers[2] = 2 /\ powers[3] = 4 /\ powers[4] = 8 /\ powers[5] = 16
        /\ powers[6] = 32 /\ powers[7] = 64 /\ powers[8] = 128 /\ powers[9] = 256 /\ powers[10] = 512
    OBVIOUS
  <2>3. powers[n + 1] \in {1, 2, 4, 8, 16, 32, 64, 128, 256, 512}
    <3> HIDE DEF powers
    <3> QED
      BY <2>1, <2>2
  <2>4. Halved(w, n) = w \div powers[n + 1]
    BY <1>2 DEF Halved
  <2>5. \A p \in {1, 2, 4, 8, 16, 32, 64, 128, 256, 512} : w \div p \in Nat
    OBVIOUS
  <2> HIDE DEF powers
  <2> QED
    BY <2>3, <2>4, <2>5
<1> QED
  BY <1>1, <1>2

LEMMA DecayedFits ==
    ASSUME time \in Nat, NEW d, NEW item \in WorkingItems
    PROVE  Decayed(item, d) \in WorkingItems /\ Decayed(item, d).event = item.event
<1> DEFINE n == (time - item.since) * (IF d = "attention" THEN 3 ELSE 1)
<1>1. item.since \in 0..time /\ item.weight \in Nat
  BY DEF WorkingItems
<1>2. n \in Nat
  <2>1. PICK k \in Nat : k = time - item.since
    BY <1>1
  <2>2. PICK m \in {1, 3} : m = IF d = "attention" THEN 3 ELSE 1
    OBVIOUS
  <2>3. n = k * m
    BY <2>1, <2>2
  <2>4. k * m \in Nat
    BY <2>2
  <2> QED
    BY <2>3, <2>4
<1>3. PICK w \in Nat : w = Halved(item.weight, n)
  <2> HIDE DEF n
  <2> QED
    BY <1>1, <1>2, HalvedIsNatural
<1>4. PICK x \in (-1)..time : x = IF w < 100 THEN time ELSE -1
  OBVIOUS
<1> HIDE DEF n
<1>5. Decayed(item, d) = IF item.expired >= 0 THEN item
        ELSE [event |-> item.event, weight |-> w, since |-> time, expired |-> x, at |-> item.at]
  BY <1>3, <1>4 DEF Decayed, n
<1>6. item.event \in arrived /\ item.at \in Nat /\ time \in 0..time
  BY DEF WorkingItems
<1>7. [event |-> item.event, weight |-> w, since |-> time, expired |-> x, at |-> item.at] \in WorkingItems
  BY <1>6 DEF WorkingItems
<1> QED
  BY <1>5, <1>7

Kept(items) == items \subseteq WorkingItems /\ IsFiniteSet(items) /\ Cardinality(items) <= WorkingCap

LEMMA AgedKept ==
    ASSUME time \in Nat, WorkingCap \in Nat, NEW d, NEW items, Kept(items)
    PROVE  Kept(Aged(items, d))
<1> DEFINE image == {Decayed(item, d) : item \in items}
<1>1. image \subseteq WorkingItems
  BY DecayedFits DEF Kept
<1>2. IsFiniteSet(image) /\ Cardinality(image) <= Cardinality(items)
  <2> DEFINE f == [item \in items |-> Decayed(item, d)]
  <2>1. f \in Surjection(items, image)
    BY DEF Surjection
  <2>2. IsFiniteSet(items)
    BY DEF Kept
  <2> QED
    BY <2>1, <2>2, FS_Surjection
<1>3. Aged(items, d) \subseteq image
  BY DEF Aged, Pruned
<1>4. IsFiniteSet(Aged(items, d)) /\ Cardinality(Aged(items, d)) <= Cardinality(image)
  BY <1>2, <1>3, FS_Subset
<1>5. IsFiniteSet(items) /\ Cardinality(items) <= WorkingCap
  BY DEF Kept
<1>6. Cardinality(Aged(items, d)) \in Nat /\ Cardinality(image) \in Nat /\ Cardinality(items) \in Nat
  BY <1>2, <1>4, <1>5, FS_CardinalityType
<1>7. Cardinality(Aged(items, d)) <= WorkingCap
  BY <1>2, <1>4, <1>5, <1>6
<1> HIDE DEF image
<1> QED
  BY <1>1, <1>3, <1>4, <1>7 DEF Kept

LEMMA AgedFollow ==
    ASSUME time \in Nat, NEW d, NEW items, items \subseteq WorkingItems, NEW e
    PROVE  /\ AtMostOne(EntriesOf(items, e)) => AtMostOne(EntriesOf(Aged(items, d), e))
           /\ EntriesOf(Aged(items, d), e) # {} => EntriesOf(items, e) # {}
<1>1. ASSUME NEW x \in EntriesOf(Aged(items, d), e)
      PROVE  \E item \in EntriesOf(items, e) : x = Decayed(item, d)
  <2>1. PICK item \in items : x = Decayed(item, d)
    BY DEF Aged, Pruned, EntriesOf
  <2>2. item.event = x.event
    BY <2>1, DecayedFits
  <2> QED
    BY <2>1, <2>2 DEF EntriesOf
<1> QED
  BY <1>1 DEF AtMostOne

LEMMA NewItemFits ==
    ASSUME time \in Nat, NEW e \in arrived, NEW items, items \subseteq WorkingItems, IsFiniteSet(items)
    PROVE  /\ NewItem(items, e) \in WorkingItems /\ NewItem(items, e).event = e
           /\ NewItem(items, e) \notin items
<1>1. \A x \in items : x.at \in Nat
  BY DEF WorkingItems
<1>2. PICK n \in Nat : n = Behind(items) /\ \A x \in items : x.at < n
  BY <1>1, BehindIsBehind
<1>3. PICK w \in Nat : w = Of(e).weight
  BY DecisionsFit
<1>4. NewItem(items, e) = [event |-> e, weight |-> w, since |-> time, expired |-> -1, at |-> n]
  BY <1>2, <1>3 DEF NewItem
<1>5. [event |-> e, weight |-> w, since |-> time, expired |-> -1, at |-> n] \in WorkingItems
  BY DEF WorkingItems
<1>6. \A x \in items : x.at # n
  BY <1>1, <1>2
<1> QED
  BY <1>4, <1>5, <1>6

LEMMA WithItemKept ==
    ASSUME time \in Nat, WorkingCap \in Nat, NEW e \in arrived, NEW items, Kept(items)
    PROVE  Kept(WithItem(items, e))
<1> DEFINE added == items \cup {NewItem(items, e)}
<1>1. /\ items \subseteq WorkingItems /\ IsFiniteSet(items) /\ Cardinality(items) <= WorkingCap
      /\ Cardinality(items) \in Nat
  BY FS_CardinalityType DEF Kept
<1>2. /\ NewItem(items, e) \in WorkingItems /\ NewItem(items, e) \notin items
  BY <1>1, NewItemFits
<1>3. IsFiniteSet(added) /\ Cardinality(added) = Cardinality(items) + 1
  BY <1>1, <1>2, FS_AddElement
<1>4. added \subseteq WorkingItems /\ added # {}
  BY <1>1, <1>2
<1>5. Lightest(added) \in added
  <2>1. \A x \in added : x.weight \in Nat /\ x.at \in Nat
    BY <1>4 DEF WorkingItems
  <2> HIDE DEF added
  <2> QED
    BY <1>4, <2>1, LightestIsThere
<1>6. IsFiniteSet(added \ {Lightest(added)}) /\ Cardinality(added \ {Lightest(added)}) = Cardinality(added) - 1
  <2> HIDE DEF added
  <2> QED
    BY <1>3, <1>5, FS_RemoveElement
<1>7. WithItem(items, e) = IF Cardinality(added) > WorkingCap THEN added \ {Lightest(added)} ELSE added
  BY DEF WithItem
<1>8. Cardinality(added) \in Nat
  BY <1>3, FS_CardinalityType
<1> HIDE DEF added
<1>9. CASE Cardinality(added) > WorkingCap
  <2>1. WithItem(items, e) = added \ {Lightest(added)}
    BY <1>7, <1>9
  <2>2. Cardinality(added) - 1 <= WorkingCap
    BY <1>1, <1>3, <1>8
  <2>3. added \ {Lightest(added)} \subseteq WorkingItems
    BY <1>4
  <2> QED
    BY <1>6, <2>1, <2>2, <2>3 DEF Kept
<1>10. CASE ~(Cardinality(added) > WorkingCap)
  <2>1. WithItem(items, e) = added
    BY <1>7, <1>10
  <2>2. Cardinality(added) <= WorkingCap
    BY <1>8, <1>10
  <2> QED
    BY <1>3, <1>4, <2>1, <2>2 DEF Kept
<1> QED
  BY <1>9, <1>10

LEMMA WithItemFollows ==
    ASSUME NEW items, NEW e, NEW f
    PROVE  /\ f # e => EntriesOf(WithItem(items, e), f) \subseteq EntriesOf(items, f)
           /\ EntriesOf(items, e) = {} => AtMostOne(EntriesOf(WithItem(items, e), e))
<1>1. WithItem(items, e) \subseteq items \cup {NewItem(items, e)}
  BY DEF WithItem
<1>2. NewItem(items, e).event = e
  BY DEF NewItem
<1>3. ASSUME f # e PROVE EntriesOf(WithItem(items, e), f) \subseteq EntriesOf(items, f)
  BY <1>1, <1>2, <1>3 DEF EntriesOf
<1>4. ASSUME EntriesOf(items, e) = {} PROVE EntriesOf(WithItem(items, e), e) \subseteq {NewItem(items, e)}
  BY <1>1, <1>4 DEF EntriesOf
<1> QED
  BY <1>3, <1>4 DEF AtMostOne

-----------------------------------------------------------------------------
(* The inductive invariant of the heartbeat.                               *)

Heartbeats == {h \in Beating : beat[h].pc \in {"attempt", "select", "drive", "item", "candidate", "state"}}
Compactions == {h \in Beating : beat[h].pc \in {"rewrite", "archive"}}

\* What a process has in hand fits where it is.
BeatFits(b) ==
    /\ b.pc = "idle" => b = AtRest
    /\ b.pc \in {"attempt", "select"} => b.todo = {} /\ b.done = {}
    /\ b.todo \cap b.seen = {} /\ b.todo \cap b.done = {}
    /\ b.pc \notin {"item", "rewrite", "archive"} => b.doc = {}
    /\ b.pc \in {"item", "candidate"} => b.todo # {}
    /\ b.pc = "item" => Kept(b.doc)
    /\ b.pc \in {"state", "rewrite", "archive"} => b.todo = {}
    /\ b.pc \in {"rewrite", "archive"} =>
         b.doc \subseteq CandidateLines /\ IsFiniteSet(b.doc) /\ {line.event : line \in b.doc} \subseteq b.done

BeatsFit ==
    /\ \A h \in Beating : BeatFits(beat[h])
    /\ \A h \in Beating : beat[h].pc = "item" => Of(Current(h)).document \in Drives
    /\ \A h \in Beating : beat[h].pc = "candidate" => Of(Current(h)).candidate

\* Two at work know that they are not alone, and what they have in work is upset but for
\* one compaction.
OthersUpset ==
    /\ \A g, h \in Beating : g # h /\ beat[g].pc # "idle" /\ beat[h].pc # "idle" => ~beat[h].alone
    /\ \A h \in Heartbeats : ~beat[h].alone => InWork(h) \subseteq upset
    /\ \A g, h \in Compactions : g # h => InWork(g) \subseteq upset \/ InWork(h) \subseteq upset

\* Of the events that nothing upset, every heartbeat knows those that are processed.
StatesAgree == \A h \in Heartbeats : beat[h].seen \ upset = processed \ upset

Driven == processed \cup UNION {beat[h].done : h \in Heartbeats}
HalfDriven == {Current(h) : h \in {g \in Beating : beat[g].pc = "candidate"}}

\* What a document holds of the events that nothing upset: one item each, of an event that
\* was driven or is half driven.
ItemsFollow(items) ==
    \A e \in Events \ upset :
      /\ AtMostOne(EntriesOf(items, e))
      /\ EntriesOf(items, e) # {} => e \in Driven \cup HalfDriven

DocumentsFollow ==
    /\ \A d \in Drives : ItemsFollow(working[d])
    /\ \A h \in Beating : beat[h].pc = "item" => ItemsFollow(beat[h].doc)

LinesFollow ==
    \A e \in Events \ upset :
      /\ AtMostOne(LinesOf(e))
      /\ LinesOf(e) # {} => e \in Driven
      /\ e \in Driven /\ Of(e).candidate => LinesOf(e) # {}

\* Who is about to rewrite the queue holds what there is in it.
CopiesAgree ==
    \A h \in Beating, e \in Events \ upset :
      beat[h].pc = "rewrite" => EntriesOf(beat[h].doc, e) = EntriesOf(queued, e)

HeartbeatInv ==
    /\ HeartbeatTypeOK /\ BeatsFit /\ OthersUpset /\ StatesAgree
    /\ DocumentsFollow /\ LinesFollow /\ CopiesAgree

-----------------------------------------------------------------------------
(* What a step makes of the state of a process.                            *)

BeatPcs == {"idle", "attempt", "select", "drive", "item", "candidate", "state", "rewrite", "archive"}

\* A state with these fields.
Reads(b, pc, seen, todo, done, doc, alone) ==
    /\ b \in BeatStates
    /\ b.pc = pc /\ b.seen = seen /\ b.todo = todo /\ b.done = done /\ b.doc = doc /\ b.alone = alone

LEMMA BeatUpdates ==
    ASSUME NEW b \in BeatStates, NEW q \in BeatPcs, NEW s \in SUBSET arrived, NEW t \in SUBSET arrived,
           NEW u \in SUBSET arrived, NEW c \in SUBSET (WorkingItems \cup CandidateLines)
    PROVE  /\ Reads([b EXCEPT !.pc = q], q, b.seen, b.todo, b.done, b.doc, b.alone)
           /\ Reads([b EXCEPT !.doc = c], b.pc, b.seen, b.todo, b.done, c, b.alone)
           /\ Reads([b EXCEPT !.pc = q, !.seen = s], q, s, b.todo, b.done, b.doc, b.alone)
           /\ Reads([b EXCEPT !.pc = q, !.doc = c], q, b.seen, b.todo, b.done, c, b.alone)
           /\ Reads([b EXCEPT !.pc = q, !.seen = s, !.todo = t], q, s, t, b.done, b.doc, b.alone)
           /\ Reads([b EXCEPT !.pc = q, !.done = u, !.todo = t], q, b.seen, t, u, b.doc, b.alone)
           /\ Reads([b EXCEPT !.pc = q, !.doc = c, !.done = u], q, b.seen, b.todo, u, c, b.alone)
<1>1. PICK b1 : b1 = [b EXCEPT !.pc = q]
  OBVIOUS
<1>2. Reads(b1, q, b.seen, b.todo, b.done, b.doc, b.alone)
  BY <1>1 DEF Reads, BeatStates, BeatPcs
<1>5. PICK b3 : b3 = [b EXCEPT !.doc = c]
  OBVIOUS
<1>6. Reads(b3, b.pc, b.seen, b.todo, b.done, c, b.alone)
  BY <1>5 DEF Reads, BeatStates, BeatPcs
<1>7. PICK b4 : b4 = [b1 EXCEPT !.seen = s]
  OBVIOUS
<1>8. Reads(b4, q, s, b.todo, b.done, b.doc, b.alone)
  BY <1>2, <1>7 DEF Reads, BeatStates, BeatPcs
<1>9. PICK b5 : b5 = [b1 EXCEPT !.doc = c]
  OBVIOUS
<1>10. Reads(b5, q, b.seen, b.todo, b.done, c, b.alone)
  BY <1>2, <1>9 DEF Reads, BeatStates, BeatPcs
<1>11. PICK b6 : b6 = [b4 EXCEPT !.todo = t]
  OBVIOUS
<1>12. Reads(b6, q, s, t, b.done, b.doc, b.alone)
  BY <1>8, <1>11 DEF Reads, BeatStates, BeatPcs
<1>13. PICK b7 : b7 = [b1 EXCEPT !.done = u]
  OBVIOUS
<1>14. Reads(b7, q, b.seen, b.todo, u, b.doc, b.alone)
  BY <1>2, <1>13 DEF Reads, BeatStates, BeatPcs
<1>15. PICK b8 : b8 = [b7 EXCEPT !.todo = t]
  OBVIOUS
<1>16. Reads(b8, q, b.seen, t, u, b.doc, b.alone)
  BY <1>14, <1>15 DEF Reads, BeatStates, BeatPcs
<1>17. PICK b9 : b9 = [b5 EXCEPT !.done = u]
  OBVIOUS
<1>18. Reads(b9, q, b.seen, b.todo, u, c, b.alone)
  BY <1>10, <1>17 DEF Reads, BeatStates, BeatPcs
<1>19. /\ b4 = [b EXCEPT !.pc = q, !.seen = s] /\ b5 = [b EXCEPT !.pc = q, !.doc = c]
       /\ b6 = [b EXCEPT !.pc = q, !.seen = s, !.todo = t]
  BY <1>1, <1>7, <1>9, <1>11
<1>20. /\ b8 = [b EXCEPT !.pc = q, !.done = u, !.todo = t]
       /\ b9 = [b EXCEPT !.pc = q, !.doc = c, !.done = u]
  BY <1>1, <1>9, <1>13, <1>15, <1>17
<1> QED
  BY <1>1, <1>2, <1>5, <1>6, <1>8, <1>10, <1>12, <1>16, <1>18, <1>19, <1>20

\* One process goes on; the others stay where they are.
Lands(h, pc, seen, todo, done, doc, alone) ==
    /\ beat' \in [Beating -> BeatStates]
    /\ Reads(beat'[h], pc, seen, todo, done, doc, alone)
    /\ \A g \in Beating \ {h} : beat'[g] = beat[g]

\* One begins; the others know that they are not alone.
SetsOut(h, pc, seen, done, doc) ==
    /\ beat' \in [Beating -> BeatStates]
    /\ Reads(beat'[h], pc, seen, {}, done, doc, Others(h) = {})
    /\ \A g \in Beating \ {h} :
         Reads(beat'[g], beat[g].pc, beat[g].seen, beat[g].todo, beat[g].done, beat[g].doc,
               beat[g].alone /\ beat[g].pc = "idle")

LEMMA AloneUpdate ==
    ASSUME NEW b \in BeatStates, NEW a \in BOOLEAN
    PROVE  Reads([b EXCEPT !.alone = a], b.pc, b.seen, b.todo, b.done, b.doc, a)
<1>1. PICK t : t = [b EXCEPT !.alone = a]
  OBVIOUS
<1>2. Reads(t, b.pc, b.seen, b.todo, b.done, b.doc, a)
  BY <1>1 DEF Reads, BeatStates
<1> QED
  BY <1>1, <1>2

LEMMA AtRestReads == Reads(AtRest, "idle", {}, {}, {}, {}, TRUE)
BY DEF AtRest, Reads, BeatStates

LEMMA GoingLands ==
    ASSUME HeartbeatTypeOK, NEW h \in Beating, NEW state, NEW pc, NEW seen, NEW todo, NEW done, NEW doc, NEW alone,
           Reads(state, pc, seen, todo, done, doc, alone), Goes(h, state)
    PROVE  Lands(h, pc, seen, todo, done, doc, alone)
<1>1. beat \in [Beating -> BeatStates] /\ state \in BeatStates
  BY DEF HeartbeatTypeOK, Reads
<1>2. beat' = [beat EXCEPT ![h] = state]
  BY DEF Goes
<1>3. beat' \in [Beating -> BeatStates] /\ beat'[h] = state /\ \A g \in Beating \ {h} : beat'[g] = beat[g]
  BY <1>1, <1>2
<1> QED
  BY <1>3 DEF Lands

LEMMA StartingBegins ==
    ASSUME HeartbeatTypeOK, NEW h \in Beating, NEW state, NEW pc, NEW seen, NEW done, NEW doc,
           Reads(state, pc, seen, {}, done, doc, TRUE), StartsWith(h, state)
    PROVE  SetsOut(h, pc, seen, done, doc)
<1>1. beat \in [Beating -> BeatStates] /\ state \in BeatStates
  BY DEF HeartbeatTypeOK, Reads
<1>2. beat' = [o \in Beating |-> IF o = h THEN [state EXCEPT !.alone = Others(h) = {}]
                                 ELSE [beat[o] EXCEPT !.alone = @ /\ beat[o].pc = "idle"]]
  BY DEF StartsWith
<1>3. Reads(beat'[h], pc, seen, {}, done, doc, Others(h) = {})
  <2>1. PICK a \in BOOLEAN : a = (Others(h) = {})
    OBVIOUS
  <2>2. beat'[h] = [state EXCEPT !.alone = a]
    BY <1>2, <2>1
  <2>3. Reads([state EXCEPT !.alone = a], state.pc, state.seen, state.todo, state.done, state.doc, a)
    BY <1>1, AloneUpdate
  <2> QED
    BY <2>1, <2>2, <2>3 DEF Reads
<1>4. ASSUME NEW g \in Beating \ {h}
      PROVE  Reads(beat'[g], beat[g].pc, beat[g].seen, beat[g].todo, beat[g].done, beat[g].doc,
                   beat[g].alone /\ beat[g].pc = "idle")
  <2>1. PICK a \in BOOLEAN : a = (beat[g].alone /\ beat[g].pc = "idle")
    OBVIOUS
  <2>2. beat'[g] = [beat[g] EXCEPT !.alone = a]
    BY <1>2, <2>1
  <2>3. beat[g] \in BeatStates
    BY <1>1
  <2>4. Reads([beat[g] EXCEPT !.alone = a], beat[g].pc, beat[g].seen, beat[g].todo, beat[g].done, beat[g].doc, a)
    BY <2>3, AloneUpdate
  <2> QED
    BY <2>1, <2>2, <2>4 DEF Reads
<1>5. beat' \in [Beating -> BeatStates]
  <2>1. \A g \in Beating : beat'[g] \in BeatStates
    BY <1>3, <1>4 DEF Reads
  <2> QED
    BY <1>2, <2>1
<1> QED
  BY <1>3, <1>4, <1>5 DEF SetsOut

LEMMA CurrentIsToBeDone ==
    ASSUME HeartbeatTypeOK, NEW h \in Beating, beat[h].todo # {}
    PROVE  Current(h) \in beat[h].todo /\ Current(h) \in arrived /\ Current(h) \in Events
<1>1. beat[h].todo \subseteq arrived /\ arrived \subseteq Events
  BY DEF HeartbeatTypeOK, BeatStates
<1>2. beat[h].todo \in SUBSET Nat
  BY <1>1, HeartbeatAssumption
<1>3. \E e \in beat[h].todo : \A f \in beat[h].todo : e <= f
  BY <1>2, LeastOfNaturals
<1>4. Current(h) \in beat[h].todo
  BY <1>3 DEF Current
<1> QED
  BY <1>1, <1>4

\* What is read of a process.
LEMMA BeatsTyped ==
    ASSUME HeartbeatTypeOK, NEW h \in Beating
    PROVE  /\ beat[h] \in BeatStates /\ beat[h].pc \in BeatPcs
           /\ beat[h].seen \in SUBSET arrived /\ beat[h].todo \in SUBSET arrived /\ beat[h].done \in SUBSET arrived
           /\ beat[h].doc \in SUBSET (WorkingItems \cup CandidateLines) /\ beat[h].alone \in BOOLEAN
BY DEF HeartbeatTypeOK, BeatStates, BeatPcs

LEMMA NextOfReads ==
    ASSUME HeartbeatTypeOK, NEW h \in Beating, beat[h].todo # {}, NEW b, NEW pc, NEW doc,
           Reads(b, pc, beat[h].seen, beat[h].todo, beat[h].done, doc, beat[h].alone)
    PROVE  Reads(NextOf(h, b), "drive", beat[h].seen, beat[h].todo \ {Current(h)},
                 beat[h].done \cup {Current(h)}, doc, beat[h].alone)
<1>1. b \in BeatStates /\ b.done = beat[h].done /\ b.todo = beat[h].todo /\ b.seen = beat[h].seen
      /\ b.doc = doc /\ b.alone = beat[h].alone
  BY DEF Reads
<1>2. PICK t \in SUBSET arrived : t = beat[h].todo \ {Current(h)}
  BY BeatsTyped
<1>3. PICK u \in SUBSET arrived : u = beat[h].done \cup {Current(h)}
  BY BeatsTyped, CurrentIsToBeDone
<1>4. NextOf(h, b) = [b EXCEPT !.pc = "drive", !.done = u, !.todo = t]
  BY <1>1, <1>2, <1>3 DEF NextOf
<1>5. Reads([b EXCEPT !.pc = "drive", !.done = u, !.todo = t], "drive", b.seen, t, u, b.doc, b.alone)
  BY <1>1, BeatUpdates DEF BeatStates, BeatPcs
<1> QED
  BY <1>1, <1>2, <1>3, <1>4, <1>5

-----------------------------------------------------------------------------
(* Where the actions land.                                                 *)

Rests(h) == Lands(h, "idle", {}, {}, {}, {}, TRUE) /\ beat'[h] = AtRest

LEMMA GoingToRest ==
    ASSUME HeartbeatTypeOK, NEW h \in Beating, Goes(h, AtRest)
    PROVE  Rests(h)
<1>1. Lands(h, "idle", {}, {}, {}, {}, TRUE)
  BY AtRestReads, GoingLands
<1>2. beat'[h] = AtRest
  BY DEF Goes, HeartbeatTypeOK
<1> QED
  BY <1>1, <1>2 DEF Rests

LEMMA ReadAttemptBegins ==
    ASSUME HeartbeatTypeOK, NEW h \in Beating, ReadAttempt(h)
    PROVE  SetsOut(h, "attempt", processed, {}, {})
<1>1. PICK s \in SUBSET arrived : s = processed
  BY DEF HeartbeatTypeOK
<1>2. AtRest \in BeatStates
  BY AtRestReads DEF Reads
<1>3. Reads([AtRest EXCEPT !.pc = "attempt", !.seen = s], "attempt", s, AtRest.todo, AtRest.done, AtRest.doc, AtRest.alone)
  BY <1>2, BeatUpdates DEF BeatPcs
<1>4. Reads([AtRest EXCEPT !.pc = "attempt", !.seen = processed], "attempt", processed, {}, {}, {}, TRUE)
  BY <1>1, <1>3 DEF AtRest
<1>5. StartsWith(h, [AtRest EXCEPT !.pc = "attempt", !.seen = processed])
  BY DEF ReadAttempt
<1> QED
  BY <1>4, <1>5, StartingBegins

LEMMA ReadCandidatesBegins ==
    ASSUME HeartbeatTypeOK, NEW h \in Beating, ReadCandidates(h)
    PROVE  SetsOut(h, "rewrite", {}, {line.event : line \in queued}, queued)
<1>1. PICK c \in SUBSET (WorkingItems \cup CandidateLines) : c = queued
  BY DEF HeartbeatTypeOK
<1>2. PICK u \in SUBSET arrived : u = {line.event : line \in queued}
  <2>1. \A line \in queued : line.event \in arrived
    BY DEF HeartbeatTypeOK, CandidateLines
  <2> QED
    BY <2>1
<1>3. AtRest \in BeatStates
  BY AtRestReads DEF Reads
<1>4. Reads([AtRest EXCEPT !.pc = "rewrite", !.doc = c, !.done = u], "rewrite", AtRest.seen, AtRest.todo, u, c, AtRest.alone)
  BY <1>3, BeatUpdates DEF BeatPcs
<1>5. Reads([AtRest EXCEPT !.pc = "rewrite", !.doc = c, !.done = u], "rewrite", {}, {}, u, c, TRUE)
  BY <1>4 DEF AtRest
<1>6. StartsWith(h, [AtRest EXCEPT !.pc = "rewrite", !.doc = c, !.done = u])
  BY <1>1, <1>2 DEF ReadCandidates
<1> QED
  BY <1>1, <1>2, <1>5, <1>6, StartingBegins

\* A process that goes on with another place in the program.
LEMMA PcLands ==
    ASSUME HeartbeatTypeOK, NEW h \in Beating, NEW q \in BeatPcs, Goes(h, [beat[h] EXCEPT !.pc = q])
    PROVE  Lands(h, q, beat[h].seen, beat[h].todo, beat[h].done, beat[h].doc, beat[h].alone)
<1>1. Reads([beat[h] EXCEPT !.pc = q], q, beat[h].seen, beat[h].todo, beat[h].done, beat[h].doc, beat[h].alone)
  BY BeatsTyped, BeatUpdates
<1> QED
  BY <1>1, GoingLands

\* ... and with another copy.
LEMMA DocLands ==
    ASSUME HeartbeatTypeOK, NEW h \in Beating, NEW q \in BeatPcs, NEW c \in SUBSET (WorkingItems \cup CandidateLines),
           Goes(h, [beat[h] EXCEPT !.pc = q, !.doc = c])
    PROVE  Lands(h, q, beat[h].seen, beat[h].todo, beat[h].done, c, beat[h].alone)
<1>1. Reads([beat[h] EXCEPT !.pc = q, !.doc = c], q, beat[h].seen, beat[h].todo, beat[h].done, c, beat[h].alone)
  BY BeatsTyped, BeatUpdates
<1> QED
  BY <1>1, GoingLands

\* ... and with its next event.
LEMMA NextLands ==
    ASSUME HeartbeatTypeOK, NEW h \in Beating, beat[h].todo # {}, NEW b, NEW pc, NEW doc,
           Reads(b, pc, beat[h].seen, beat[h].todo, beat[h].done, doc, beat[h].alone), Goes(h, NextOf(h, b))
    PROVE  Lands(h, "drive", beat[h].seen, beat[h].todo \ {Current(h)}, beat[h].done \cup {Current(h)}, doc, beat[h].alone)
<1>1. Reads(NextOf(h, b), "drive", beat[h].seen, beat[h].todo \ {Current(h)},
            beat[h].done \cup {Current(h)}, doc, beat[h].alone)
  BY NextOfReads
<1> QED
  BY <1>1, GoingLands

LEMMA SelectPendingLands ==
    ASSUME HeartbeatTypeOK, NEW h \in Beating, SelectPending(h)
    PROVE  \E todo \in SUBSET (arrived \ processed) :
             /\ Lands(h, "drive", processed, todo, beat[h].done, beat[h].doc, beat[h].alone)
             /\ upset' = upset \cup (IF beat[h].alone THEN {} ELSE todo)
<1>1. PICK todo \in SUBSET arrived :
        /\ todo \subseteq arrived \ processed
        /\ Goes(h, [beat[h] EXCEPT !.pc = "drive", !.seen = processed, !.todo = todo])
        /\ upset' = upset \cup (IF beat[h].alone THEN {} ELSE todo)
  BY DEF SelectPending, Selects
<1>2. processed \in SUBSET arrived
  BY DEF HeartbeatTypeOK
<1>3. Reads([beat[h] EXCEPT !.pc = "drive", !.seen = processed, !.todo = todo], "drive", processed, todo,
            beat[h].done, beat[h].doc, beat[h].alone)
  BY <1>2, BeatsTyped, BeatUpdates DEF BeatPcs
<1> QED
  BY <1>1, <1>3, GoingLands

LEMMA BeatReadsItself ==
    ASSUME HeartbeatTypeOK, NEW h \in Beating
    PROVE  Reads(beat[h], beat[h].pc, beat[h].seen, beat[h].todo, beat[h].done, beat[h].doc, beat[h].alone)
BY BeatsTyped DEF Reads

LEMMA DriveEventLands ==
    ASSUME HeartbeatTypeOK, NEW h \in Beating, DriveEvent(h)
    PROVE  \/ /\ Of(Current(h)).document = ""
              /\ Lands(h, "drive", beat[h].seen, beat[h].todo \ {Current(h)}, beat[h].done \cup {Current(h)},
                       beat[h].doc, beat[h].alone)
           \/ /\ Of(Current(h)).document \in Drives
              /\ Lands(h, "item", beat[h].seen, beat[h].todo, beat[h].done, working[Of(Current(h)).document], beat[h].alone)
<1>1. beat[h].todo # {} /\ Goes(h, IF Of(Current(h)).document = "" THEN NextOf(h, beat[h])
                       ELSE [beat[h] EXCEPT !.pc = "item", !.doc = working[Of(Current(h)).document]])
  BY DEF DriveEvent
<1>2. CASE Of(Current(h)).document = ""
  <2>1. Goes(h, NextOf(h, beat[h]))
    BY <1>1, <1>2
  <2> QED
    BY <1>1, <1>2, <2>1, BeatReadsItself, NextLands
<1>3. CASE Of(Current(h)).document # ""
  <2>1. PICK d \in Drives : d = Of(Current(h)).document
    BY <1>3, DecisionsFit
  <2>2. working[d] \in SUBSET (WorkingItems \cup CandidateLines)
    BY DEF HeartbeatTypeOK
  <2>3. Goes(h, [beat[h] EXCEPT !.pc = "item", !.doc = working[d]])
    BY <1>1, <1>3, <2>1
  <2> QED
    BY <2>1, <2>2, <2>3, DocLands DEF BeatPcs
<1> QED
  BY <1>2, <1>3

LEMMA WriteItemLands ==
    ASSUME HeartbeatTypeOK, NEW h \in Beating, beat[h].todo # {}, WriteItem(h)
    PROVE  \/ /\ Of(Current(h)).candidate
              /\ Lands(h, "candidate", beat[h].seen, beat[h].todo, beat[h].done, {}, beat[h].alone)
           \/ /\ ~Of(Current(h)).candidate
              /\ Lands(h, "drive", beat[h].seen, beat[h].todo \ {Current(h)}, beat[h].done \cup {Current(h)},
                       {}, beat[h].alone)
<1>1. PICK c \in SUBSET (WorkingItems \cup CandidateLines) : c = {}
  OBVIOUS
<1>2. Goes(h, IF Of(Current(h)).candidate THEN [beat[h] EXCEPT !.pc = "candidate", !.doc = c]
              ELSE NextOf(h, [beat[h] EXCEPT !.doc = c]))
  BY <1>1 DEF WriteItem
<1>3. CASE Of(Current(h)).candidate
  <2>1. Goes(h, [beat[h] EXCEPT !.pc = "candidate", !.doc = c])
    BY <1>2, <1>3
  <2> QED
    BY <1>1, <1>3, <2>1, DocLands DEF BeatPcs
<1>4. CASE ~Of(Current(h)).candidate
  <2>1. Goes(h, NextOf(h, [beat[h] EXCEPT !.doc = c]))
    BY <1>2, <1>4
  <2>2. Reads([beat[h] EXCEPT !.doc = c], beat[h].pc, beat[h].seen, beat[h].todo, beat[h].done, c, beat[h].alone)
    BY BeatsTyped, BeatUpdates
  <2>3. Lands(h, "drive", beat[h].seen, beat[h].todo \ {Current(h)}, beat[h].done \cup {Current(h)}, c, beat[h].alone)
    BY <2>1, <2>2, NextLands
  <2> QED
    BY <1>1, <1>4, <2>3
<1> QED
  BY <1>3, <1>4

LEMMA AppendCandidateLands ==
    ASSUME HeartbeatTypeOK, NEW h \in Beating, beat[h].todo # {}, AppendCandidate(h)
    PROVE  Lands(h, "drive", beat[h].seen, beat[h].todo \ {Current(h)}, beat[h].done \cup {Current(h)},
                 beat[h].doc, beat[h].alone)
<1>1. Goes(h, NextOf(h, beat[h]))
  BY DEF AppendCandidate
<1> QED
  BY <1>1, BeatReadsItself, NextLands

LEMMA RewriteCandidatesLands ==
    ASSUME HeartbeatTypeOK, NEW h \in Beating, RewriteCandidates(h)
    PROVE  Lands(h, "archive", beat[h].seen, beat[h].todo, beat[h].done, {line \in beat[h].doc : ~Stays(line)}, beat[h].alone)
<1>1. PICK c \in SUBSET (WorkingItems \cup CandidateLines) : c = {line \in beat[h].doc : ~Stays(line)}
  BY BeatsTyped
<1>2. Goes(h, [beat[h] EXCEPT !.pc = "archive", !.doc = c])
  BY <1>1 DEF RewriteCandidates
<1> QED
  BY <1>1, <1>2, DocLands DEF BeatPcs

-----------------------------------------------------------------------------
(* Types, and what a process has in hand, stay.                            *)

LEMMA TypesGrow ==
    ASSUME HeartbeatTypeOK, time' \in 0..MaxTime, time <= time', arrived \subseteq arrived'
    PROVE  /\ WorkingItems \subseteq WorkingItems' /\ CandidateLines \subseteq CandidateLines'
           /\ BeatStates \subseteq BeatStates'
<1>1. time \in Nat /\ time' \in Nat
  BY HeartbeatAssumption DEF HeartbeatTypeOK
<1>2. 0..time \subseteq 0..time' /\ (-1)..time \subseteq (-1)..time'
  BY <1>1
<1>3. WorkingItems \subseteq WorkingItems'
  BY <1>2 DEF WorkingItems
<1>4. CandidateLines \subseteq CandidateLines'
  BY <1>2 DEF CandidateLines
<1>5. BeatStates \subseteq BeatStates'
  BY <1>3, <1>4 DEF BeatStates
<1> QED
  BY <1>3, <1>4, <1>5

LEMMA FitGrows ==
    ASSUME HeartbeatTypeOK, time' \in 0..MaxTime, time <= time', arrived \subseteq arrived',
           NEW b, BeatFits(b), NEW d, d = b
    PROVE  BeatFits(d)'
<1>1. WorkingItems \subseteq WorkingItems' /\ CandidateLines \subseteq CandidateLines'
  BY TypesGrow
<1> HIDE DEF WorkingItems, CandidateLines
<1> QED
  BY <1>1 DEF BeatFits, Kept

LEMMA TypesKept ==
    ASSUME UNCHANGED <<time, arrived>>
    PROVE  WorkingItems' = WorkingItems /\ CandidateLines' = CandidateLines /\ BeatStates' = BeatStates
BY DEF WorkingItems, CandidateLines, BeatStates

\* Where the step of a process leaves time, the events and the candidates' triage alone.
LEMMA TypesOfAStep ==
    ASSUME HeartbeatTypeOK, UNCHANGED <<time, arrived, eligible>>,
           processed' \subseteq arrived, upset' \subseteq arrived,
           beats' \in 0..MaxBeats, beatFaults' \in 0..MaxBeatFaults,
           DOMAIN working' = Drives, \A d \in Drives : Kept(working'[d]),
           queued' \subseteq CandidateLines, IsFiniteSet(queued'), archived' \in Seq(SUBSET CandidateLines),
           beat' \in [Beating -> BeatStates]
    PROVE  HeartbeatTypeOK'
<1>1. WorkingItems' = WorkingItems /\ CandidateLines' = CandidateLines /\ BeatStates' = BeatStates
  BY TypesKept
<1>2. time' = time /\ arrived' = arrived /\ eligible' = eligible
  OBVIOUS
<1>3. \A d \in Drives : working'[d] \subseteq WorkingItems /\ IsFiniteSet(working'[d]) /\ Cardinality(working'[d]) <= WorkingCap
  BY DEF Kept
<1> HIDE DEF WorkingItems, CandidateLines, BeatStates, Kept
<1> QED
  BY <1>1, <1>2, <1>3 DEF HeartbeatTypeOK

\* The types that a step of a process may rely on.
LEMMA TypesRead ==
    ASSUME HeartbeatTypeOK
    PROVE  /\ processed \subseteq arrived /\ upset \subseteq arrived /\ arrived \subseteq Events
           /\ beats \in 0..MaxBeats /\ beatFaults \in 0..MaxBeatFaults /\ time \in 0..MaxTime /\ time \in Nat
           /\ DOMAIN working = Drives /\ \A d \in Drives : Kept(working[d])
           /\ queued \subseteq CandidateLines /\ IsFiniteSet(queued) /\ archived \in Seq(SUBSET CandidateLines)
           /\ beat \in [Beating -> BeatStates]
           /\ \A h \in Beating : InWork(h) \subseteq arrived
           /\ WorkingCap \in Nat
<1>1. \A h \in Beating : InWork(h) \subseteq arrived
  BY BeatsTyped DEF InWork
<1> QED
  BY <1>1, HeartbeatAssumption DEF HeartbeatTypeOK, Kept

LEMMA BeginningTypes ==
    ASSUME HeartbeatTypeOK, NEW h \in Beating, NEW state, StartsWith(h, state),
           beat' \in [Beating -> BeatStates], UNCHANGED <<time, arrived, processed, working, queued, archived, eligible, beatFaults>>
    PROVE  HeartbeatTypeOK'
<1>1. upset' \subseteq arrived
  BY TypesRead DEF StartsWith, Others
<1>2. beats' \in 0..MaxBeats
  BY TypesRead, HeartbeatAssumption DEF StartsWith
<1> QED
  BY <1>1, <1>2, TypesRead, TypesOfAStep

LEMMA NewLineFits ==
    ASSUME HeartbeatTypeOK, NEW e \in arrived
    PROVE  LET line == [event |-> e, born |-> time, at |-> Behind(queued)]
           IN line \in CandidateLines /\ line \notin queued /\ line.event = e
<1>1. \A line \in queued : line.at \in Nat
  BY DEF HeartbeatTypeOK, CandidateLines
<1>2. PICK n \in Nat : n = Behind(queued) /\ \A line \in queued : line.at < n
  BY <1>1, TypesRead, BehindIsBehind
<1>3. time \in 0..time
  BY TypesRead
<1>4. [event |-> e, born |-> time, at |-> n] \in CandidateLines
  BY <1>3 DEF CandidateLines
<1>5. \A line \in queued : line.at # n
  BY <1>1, <1>2
<1>6. [event |-> e, born |-> time, at |-> n] \notin queued
  BY <1>5
<1> QED
  BY <1>2, <1>4, <1>6

LEMMA ProcessesKeepTypes ==
    ASSUME HeartbeatTypeOK, BeatsFit, NEW h \in Beating, BeatStep(h) \/ CompactStep(h)
    PROVE  HeartbeatTypeOK'
<1>0. BeatFits(beat[h])
  BY DEF BeatsFit
<1>1. CASE ReadAttempt(h)
  <2>1. beat' \in [Beating -> BeatStates]
    BY <1>1, ReadAttemptBegins DEF SetsOut
  <2> QED
    BY <1>1, <2>1, BeginningTypes DEF ReadAttempt
<1>2. CASE WriteAttempt(h)
  <2>1. beat' \in [Beating -> BeatStates]
    BY <1>2, PcLands DEF WriteAttempt, Lands, BeatPcs
  <2>2. processed' \subseteq arrived
    BY <1>2, BeatsTyped DEF WriteAttempt
  <2> QED
    BY <1>2, <2>1, <2>2, TypesRead, TypesOfAStep DEF WriteAttempt
<1>3. CASE SelectPending(h)
  <2>1. beat' \in [Beating -> BeatStates] /\ upset' \subseteq arrived
    BY <1>3, SelectPendingLands, TypesRead DEF Lands
  <2> QED
    BY <1>3, <2>1, TypesRead, TypesOfAStep DEF SelectPending
<1>4. CASE DriveEvent(h)
  <2>1. beat' \in [Beating -> BeatStates]
    BY <1>4, DriveEventLands DEF Lands
  <2> QED
    BY <1>4, <2>1, TypesRead, TypesOfAStep DEF DriveEvent
<1>5. CASE WriteItem(h)
  <2>1. beat[h].todo # {} /\ Kept(beat[h].doc)
    BY <1>0, <1>5 DEF WriteItem, BeatFits
  <2>2. beat' \in [Beating -> BeatStates]
    BY <1>5, <2>1, WriteItemLands DEF Lands
  <2>3. Kept(WithItem(beat[h].doc, Current(h)))
    BY <2>1, CurrentIsToBeDone, TypesRead, WithItemKept
  <2>4. DOMAIN working' = Drives /\ \A d \in Drives : Kept(working'[d])
    BY <1>5, <2>3, TypesRead DEF WriteItem
  <2> QED
    BY <1>5, <2>2, <2>4, TypesRead, TypesOfAStep DEF WriteItem
<1>6. CASE AppendCandidate(h)
  <2>1. beat[h].todo # {}
    BY <1>0, <1>6 DEF AppendCandidate, BeatFits
  <2>2. beat' \in [Beating -> BeatStates]
    BY <1>6, <2>1, AppendCandidateLands DEF Lands
  <2>3. PICK line \in CandidateLines : queued' = queued \cup {line}
    BY <1>6, <2>1, CurrentIsToBeDone, NewLineFits DEF AppendCandidate
  <2>4. queued' \subseteq CandidateLines /\ IsFiniteSet(queued')
    BY <2>3, TypesRead, FS_AddElement
  <2> QED
    BY <1>6, <2>2, <2>4, TypesRead, TypesOfAStep DEF AppendCandidate
<1>7. CASE AgeDocuments(h)
  <2>1. beat' \in [Beating -> BeatStates]
    BY <1>7, PcLands DEF AgeDocuments, Lands, BeatPcs
  <2>2. DOMAIN working' = Drives /\ \A d \in Drives : Kept(working'[d])
    BY <1>7, TypesRead, AgedKept DEF AgeDocuments
  <2> QED
    BY <1>7, <2>1, <2>2, TypesRead, TypesOfAStep DEF AgeDocuments
<1>8. CASE WriteBeatState(h)
  <2>1. beat' \in [Beating -> BeatStates]
    BY <1>8, GoingToRest DEF WriteBeatState, Lands, Rests
  <2>2. processed' \subseteq arrived
    BY <1>8, BeatsTyped DEF WriteBeatState
  <2> QED
    BY <1>8, <2>1, <2>2, TypesRead, TypesOfAStep DEF WriteBeatState
<1>9. CASE BreakOff(h)
  <2>1. beat' \in [Beating -> BeatStates]
    BY <1>9, GoingToRest DEF BreakOff, Lands, Rests
  <2>2. upset' \subseteq arrived
    BY <1>9, TypesRead DEF BreakOff
  <2>3. beatFaults' \in 0..MaxBeatFaults
    BY <1>9, TypesRead, HeartbeatAssumption DEF BreakOff
  <2> QED
    BY <1>9, <2>1, <2>2, <2>3, TypesRead, TypesOfAStep DEF BreakOff
<1>10. CASE ReadCandidates(h)
  <2>1. beat' \in [Beating -> BeatStates]
    BY <1>10, ReadCandidatesBegins DEF SetsOut
  <2> QED
    BY <1>10, <2>1, BeginningTypes DEF ReadCandidates
<1>11. CASE RewriteCandidates(h)
  <2>1. beat' \in [Beating -> BeatStates]
    BY <1>11, RewriteCandidatesLands DEF Lands
  <2>2. beat[h].doc \subseteq CandidateLines /\ IsFiniteSet(beat[h].doc)
    BY <1>0, <1>11 DEF RewriteCandidates, BeatFits
  <2>3. queued' \subseteq beat[h].doc
    BY <1>11 DEF RewriteCandidates
  <2>4. queued' \subseteq CandidateLines /\ IsFiniteSet(queued')
    BY <2>2, <2>3, FS_Subset
  <2> QED
    BY <1>11, <2>1, <2>4, TypesRead, TypesOfAStep DEF RewriteCandidates
<1>12. ASSUME NEW given \in BOOLEAN, ArchiveCandidates(h, given) PROVE HeartbeatTypeOK'
  <2>1. beat' \in [Beating -> BeatStates]
    BY <1>12, GoingToRest DEF ArchiveCandidates, Lands, Rests
  <2>2. beat[h].doc \subseteq CandidateLines
    BY <1>0, <1>12 DEF ArchiveCandidates, BeatFits
  <2>3. archived' \in Seq(SUBSET CandidateLines)
    BY <1>12, <2>2, TypesRead DEF ArchiveCandidates
  <2>4. upset' \subseteq arrived
    <3>1. \A line \in beat[h].doc : line.event \in arrived
      BY <2>2 DEF CandidateLines
    <3> QED
      BY <1>12, <3>1, TypesRead DEF ArchiveCandidates
  <2> QED
    BY <1>12, <2>1, <2>3, <2>4, TypesRead, TypesOfAStep DEF ArchiveCandidates
<1> QED
  BY <1>1, <1>2, <1>3, <1>4, <1>5, <1>6, <1>7, <1>8, <1>9, <1>10, <1>11, <1>12 DEF BeatStep, CompactStep

LEMMA CurrentStays ==
    ASSUME NEW g \in Beating, beat'[g].todo = beat[g].todo
    PROVE  Current(g)' = Current(g)
BY DEF Current

\* The others fit as before; the one that went on has to.
LEMMA LandingFits ==
    ASSUME HeartbeatTypeOK, BeatsFit, UNCHANGED <<time, arrived>>, NEW h \in Beating,
           NEW pc, NEW seen, NEW todo, NEW done, NEW doc, NEW alone,
           Lands(h, pc, seen, todo, done, doc, alone),
           NEW b, b = beat'[h], BeatFits(b),
           pc = "item" => todo = beat[h].todo /\ Of(Current(h)).document \in Drives,
           pc = "candidate" => todo = beat[h].todo /\ Of(Current(h)).candidate
    PROVE  BeatsFit'
<1>1. time' \in 0..MaxTime /\ time <= time' /\ arrived \subseteq arrived'
  BY DEF HeartbeatTypeOK
<1>2. beat'[h].pc = pc /\ beat'[h].todo = todo /\ \A g \in Beating \ {h} : beat'[g] = beat[g]
  BY DEF Lands, Reads
<1>3. ASSUME NEW g \in Beating PROVE BeatFits(beat[g])'
  <2>1. PICK d : d = beat'[g]
    OBVIOUS
  <2>2. BeatFits(d)
    BY <1>2, <2>1 DEF BeatsFit
  <2>3. BeatFits(d)'
    BY <1>1, <2>2, FitGrows
  <2> QED
    BY <2>1, <2>3 DEF BeatFits, Kept
<1>4. ASSUME NEW g \in Beating, beat'[g].pc = "item" PROVE Of(Current(g))'.document \in Drives
  <2>1. Current(g)' = Current(g)
    BY <1>2, <1>4, CurrentStays
  <2>2. Of(Current(g)).document \in Drives
    BY <1>2, <1>4 DEF BeatsFit
  <2> QED
    BY <2>1, <2>2 DEF Of
<1>5. ASSUME NEW g \in Beating, beat'[g].pc = "candidate" PROVE Of(Current(g))'.candidate
  <2>1. Current(g)' = Current(g)
    BY <1>2, <1>5, CurrentStays
  <2>2. Of(Current(g)).candidate
    BY <1>2, <1>5 DEF BeatsFit
  <2> QED
    BY <2>1, <2>2 DEF Of
<1>6. \A g \in Beating : BeatFits(beat[g])'
  BY <1>3
<1>7. \A g \in Beating : beat'[g].pc = "item" => Of(Current(g))'.document \in Drives
  BY <1>4
<1>8. \A g \in Beating : beat'[g].pc = "candidate" => Of(Current(g))'.candidate
  BY <1>5
<1> HIDE DEF BeatFits, Of, Current
<1> QED
  BY <1>6, <1>7, <1>8 DEF BeatsFit

LEMMA BeginningFits ==
    ASSUME HeartbeatTypeOK, BeatsFit, UNCHANGED <<time, arrived>>, NEW h \in Beating, beat[h].pc = "idle",
           NEW pc \in {"attempt", "rewrite"}, NEW seen, NEW done, NEW doc, SetsOut(h, pc, seen, done, doc),
           NEW b, b = beat'[h], BeatFits(b)
    PROVE  BeatsFit'
<1>1. time' \in 0..MaxTime /\ time <= time' /\ arrived \subseteq arrived'
  BY DEF HeartbeatTypeOK
<1>2. beat'[h].pc = pc
  BY DEF SetsOut, Reads
<1>3. ASSUME NEW g \in Beating \ {h}
      PROVE  /\ beat'[g].pc = beat[g].pc /\ beat'[g].seen = beat[g].seen /\ beat'[g].todo = beat[g].todo
             /\ beat'[g].done = beat[g].done /\ beat'[g].doc = beat[g].doc
             /\ beat'[g].alone = (beat[g].alone /\ beat[g].pc = "idle")
  BY DEF SetsOut, Reads
<1>4. ASSUME NEW g \in Beating PROVE BeatFits(beat[g])'
  <2>1. PICK d : d = beat'[g]
    OBVIOUS
  <2>2. BeatFits(d)
    <3>1. CASE g = h
      BY <2>1, <3>1
    <3>2. CASE g # h
      <4>1. BeatFits(beat[g])
        BY DEF BeatsFit
      <4>2. d.pc = beat[g].pc /\ d.seen = beat[g].seen /\ d.todo = beat[g].todo /\ d.done = beat[g].done /\ d.doc = beat[g].doc
        BY <1>3, <2>1, <3>2
      <4>3. d.pc = "idle" => d = AtRest
        <5>1. SUFFICES ASSUME d.pc = "idle" PROVE d = AtRest
          OBVIOUS
        <5>2. beat[g] = AtRest
          BY <4>1, <4>2, <5>1 DEF BeatFits
        <5>3. d.alone = TRUE
          <6>1. d.alone = (beat[g].alone /\ beat[g].pc = "idle")
            BY <1>3, <2>1, <3>2
          <6>2. AtRest.alone = TRUE /\ AtRest.pc = "idle"
            BY DEF AtRest
          <6> HIDE DEF AtRest
          <6> QED
            BY <5>2, <6>1, <6>2
        <5>4. d \in BeatStates
          BY <2>1, <3>2 DEF SetsOut
        <5> QED
          BY <4>2, <5>1, <5>2, <5>3, <5>4 DEF AtRest, BeatStates
      <4> HIDE DEF AtRest
      <4> QED
        BY <4>1, <4>2, <4>3 DEF BeatFits
    <3> QED
      BY <3>1, <3>2
  <2>3. BeatFits(d)'
    BY <1>1, <2>2, FitGrows
  <2> QED
    BY <2>1, <2>3 DEF BeatFits, Kept
<1>5. ASSUME NEW g \in Beating, beat'[g].pc \in {"item", "candidate"}
      PROVE  Current(g)' = Current(g) /\ beat'[g].pc = beat[g].pc
  <2>1. g # h
    BY <1>2, <1>5
  <2> QED
    BY <1>3, <2>1, CurrentStays
<1>6. \A g \in Beating : BeatFits(beat[g])'
  BY <1>4
<1>7. \A g \in Beating : beat'[g].pc = "item" => Of(Current(g))'.document \in Drives
  <2> SUFFICES ASSUME NEW g \in Beating, beat'[g].pc = "item" PROVE Of(Current(g))'.document \in Drives
    OBVIOUS
  <2>1. Current(g)' = Current(g) /\ beat[g].pc = "item"
    BY <1>5
  <2>2. Of(Current(g)).document \in Drives
    BY <2>1 DEF BeatsFit
  <2> QED
    BY <2>1, <2>2 DEF Of
<1>8. \A g \in Beating : beat'[g].pc = "candidate" => Of(Current(g))'.candidate
  <2> SUFFICES ASSUME NEW g \in Beating, beat'[g].pc = "candidate" PROVE Of(Current(g))'.candidate
    OBVIOUS
  <2>1. Current(g)' = Current(g) /\ beat[g].pc = "candidate"
    BY <1>5
  <2>2. Of(Current(g)).candidate
    BY <2>1 DEF BeatsFit
  <2> QED
    BY <2>1, <2>2 DEF Of
<1> HIDE DEF BeatFits, Of, Current
<1> QED
  BY <1>6, <1>7, <1>8 DEF BeatsFit

LEMMA RestFits ==
    ASSUME HeartbeatTypeOK, BeatsFit, UNCHANGED <<time, arrived>>, NEW h \in Beating, Goes(h, AtRest)
    PROVE  BeatsFit'
<1>1. Rests(h)
  BY GoingToRest
<1>2. BeatFits(AtRest)
  BY DEF BeatFits, AtRest
<1>3. PICK b : b = beat'[h]
  OBVIOUS
<1>4. b = AtRest /\ BeatFits(b)
  BY <1>1, <1>2, <1>3 DEF Rests
<1>5. PICK pc, e, a : pc = "idle" /\ Lands(h, pc, e, e, e, e, a)
  BY <1>1 DEF Rests
<1>6. pc # "item" /\ pc # "candidate"
  BY <1>5
<1> QED
  BY <1>3, <1>4, <1>5, <1>6, LandingFits

LEMMA ProcessesKeepFit ==
    ASSUME HeartbeatTypeOK, BeatsFit, NEW h \in Beating, BeatStep(h) \/ CompactStep(h)
    PROVE  BeatsFit'
<1>0. BeatFits(beat[h])
  BY DEF BeatsFit
<1>b. PICK b : b = beat'[h]
  OBVIOUS
<1>1. CASE ReadAttempt(h)
  <2>1. SetsOut(h, "attempt", processed, {}, {}) /\ beat[h].pc = "idle" /\ UNCHANGED <<time, arrived>>
    BY <1>1, ReadAttemptBegins DEF ReadAttempt, StartsWith
  <2>2. BeatFits(b)
    BY <2>1, <1>b DEF SetsOut, Reads, BeatFits
  <2> QED
    BY <2>1, <2>2, <1>b, BeginningFits
<1>2. CASE WriteAttempt(h)
  <2>1. /\ Lands(h, "select", beat[h].seen, beat[h].todo, beat[h].done, beat[h].doc, beat[h].alone)
        /\ beat[h].pc = "attempt" /\ UNCHANGED <<time, arrived>>
    BY <1>2, PcLands DEF WriteAttempt, BeatPcs
  <2>2. BeatFits(b)
    BY <1>0, <2>1, <1>b DEF Lands, Reads, BeatFits
  <2> QED
    BY <2>1, <2>2, <1>b, LandingFits
<1>3. CASE SelectPending(h)
  <2>1. PICK todo \in SUBSET (arrived \ processed) : Lands(h, "drive", processed, todo, beat[h].done, beat[h].doc, beat[h].alone)
    BY <1>3, SelectPendingLands
  <2>2. beat[h].pc = "select" /\ UNCHANGED <<time, arrived>>
    BY <1>3 DEF SelectPending
  <2>3. BeatFits(b)
    BY <1>0, <2>1, <2>2, <1>b DEF Lands, Reads, BeatFits
  <2> QED
    BY <2>1, <2>2, <2>3, <1>b, LandingFits
<1>4. CASE DriveEvent(h)
  <2>0. beat[h].pc = "drive" /\ beat[h].todo # {} /\ UNCHANGED <<time, arrived>>
    BY <1>4 DEF DriveEvent
  <2>1. CASE /\ Of(Current(h)).document = ""
             /\ Lands(h, "drive", beat[h].seen, beat[h].todo \ {Current(h)}, beat[h].done \cup {Current(h)},
                      beat[h].doc, beat[h].alone)
    <3>1. BeatFits(b)
      BY <1>0, <2>0, <2>1, <1>b DEF Lands, Reads, BeatFits
    <3> QED
      BY <2>0, <2>1, <3>1, <1>b, LandingFits
  <2>2. CASE /\ Of(Current(h)).document \in Drives
             /\ Lands(h, "item", beat[h].seen, beat[h].todo, beat[h].done, working[Of(Current(h)).document], beat[h].alone)
    <3>1. Kept(working[Of(Current(h)).document])
      BY <2>2, TypesRead
    <3>2. BeatFits(b)
      BY <1>0, <2>0, <2>2, <3>1, <1>b DEF Lands, Reads, BeatFits
    <3> QED
      BY <2>0, <2>2, <3>2, <1>b, LandingFits
  <2> QED
    BY <1>4, <2>1, <2>2, DriveEventLands
<1>5. CASE WriteItem(h)
  <2>0. beat[h].pc = "item" /\ beat[h].todo # {} /\ UNCHANGED <<time, arrived>>
    BY <1>0, <1>5 DEF WriteItem, BeatFits
  <2>1. CASE /\ Of(Current(h)).candidate
             /\ Lands(h, "candidate", beat[h].seen, beat[h].todo, beat[h].done, {}, beat[h].alone)
    <3>1. BeatFits(b)
      BY <1>0, <2>0, <2>1, <1>b DEF Lands, Reads, BeatFits
    <3> QED
      BY <2>0, <2>1, <3>1, <1>b, LandingFits
  <2>2. CASE /\ ~Of(Current(h)).candidate
             /\ Lands(h, "drive", beat[h].seen, beat[h].todo \ {Current(h)}, beat[h].done \cup {Current(h)},
                      {}, beat[h].alone)
    <3>1. BeatFits(b)
      BY <1>0, <2>0, <2>2, <1>b DEF Lands, Reads, BeatFits
    <3> QED
      BY <2>0, <2>2, <3>1, <1>b, LandingFits
  <2> QED
    BY <1>5, <2>0, <2>1, <2>2, WriteItemLands
<1>6. CASE AppendCandidate(h)
  <2>0. beat[h].pc = "candidate" /\ beat[h].todo # {} /\ UNCHANGED <<time, arrived>>
    BY <1>0, <1>6 DEF AppendCandidate, BeatFits
  <2>1. Lands(h, "drive", beat[h].seen, beat[h].todo \ {Current(h)}, beat[h].done \cup {Current(h)},
              beat[h].doc, beat[h].alone)
    BY <1>6, <2>0, AppendCandidateLands
  <2>2. BeatFits(b)
    BY <1>0, <2>0, <2>1, <1>b DEF Lands, Reads, BeatFits
  <2> QED
    BY <2>0, <2>1, <2>2, <1>b, LandingFits
<1>7. CASE AgeDocuments(h)
  <2>1. /\ Lands(h, "state", beat[h].seen, beat[h].todo, beat[h].done, beat[h].doc, beat[h].alone)
        /\ beat[h].pc = "drive" /\ beat[h].todo = {} /\ UNCHANGED <<time, arrived>>
    BY <1>7, PcLands DEF AgeDocuments, BeatPcs
  <2>2. BeatFits(b)
    BY <1>0, <2>1, <1>b DEF Lands, Reads, BeatFits
  <2> QED
    BY <2>1, <2>2, <1>b, LandingFits
<1>8. CASE WriteBeatState(h)
  BY <1>8, RestFits DEF WriteBeatState
<1>9. CASE BreakOff(h)
  BY <1>9, RestFits DEF BreakOff
<1>10. CASE ReadCandidates(h)
  <2>1. SetsOut(h, "rewrite", {}, {line.event : line \in queued}, queued) /\ beat[h].pc = "idle" /\ UNCHANGED <<time, arrived>>
    BY <1>10, ReadCandidatesBegins DEF ReadCandidates, StartsWith
  <2>2. BeatFits(b)
    BY <2>1, <1>b, TypesRead DEF SetsOut, Reads, BeatFits
  <2> QED
    BY <2>1, <2>2, <1>b, BeginningFits
<1>11. CASE RewriteCandidates(h)
  <2>1. /\ Lands(h, "archive", beat[h].seen, beat[h].todo, beat[h].done, {line \in beat[h].doc : ~Stays(line)}, beat[h].alone)
        /\ beat[h].pc = "rewrite" /\ UNCHANGED <<time, arrived>>
    BY <1>11, RewriteCandidatesLands DEF RewriteCandidates
  <2>2. PICK rest : rest = {line \in beat[h].doc : ~Stays(line)}
    OBVIOUS
  <2>3. rest \subseteq beat[h].doc
    BY <2>2
  <2>4. /\ beat[h].todo = {} /\ beat[h].doc \subseteq CandidateLines /\ IsFiniteSet(beat[h].doc)
        /\ {line.event : line \in beat[h].doc} \subseteq beat[h].done
    BY <1>0, <2>1 DEF BeatFits
  <2>5. rest \subseteq CandidateLines /\ IsFiniteSet(rest) /\ {line.event : line \in rest} \subseteq beat[h].done
    BY <2>3, <2>4, FS_Subset
  <2>6. /\ b.pc = "archive" /\ b.seen = beat[h].seen /\ b.todo = {} /\ b.done = beat[h].done /\ b.doc = rest
    BY <2>1, <2>2, <2>4, <1>b DEF Lands, Reads
  <2>7. BeatFits(b)
    BY <2>5, <2>6 DEF BeatFits
  <2> QED
    BY <2>1, <2>7, <1>b, LandingFits
<1>12. ASSUME NEW given \in BOOLEAN, ArchiveCandidates(h, given) PROVE BeatsFit'
  BY <1>12, RestFits DEF ArchiveCandidates
<1> QED
  BY <1>1, <1>2, <1>3, <1>4, <1>5, <1>6, <1>7, <1>8, <1>9, <1>10, <1>11, <1>12 DEF BeatStep, CompactStep

-----------------------------------------------------------------------------
(* Who is not alone knows it, and what both have in work is upset.         *)

OthersKeep(h) ==
    \A g \in Beating \ {h} :
      /\ beat'[g].pc = beat[g].pc /\ beat'[g].seen = beat[g].seen /\ beat'[g].todo = beat[g].todo
      /\ beat'[g].done = beat[g].done /\ beat'[g].doc = beat[g].doc

LEMMA LandingKeepsOthers ==
    ASSUME NEW h \in Beating, NEW pc, NEW seen, NEW todo, NEW done, NEW doc, NEW alone,
           Lands(h, pc, seen, todo, done, doc, alone)
    PROVE  OthersKeep(h)
BY DEF Lands, OthersKeep

LEMMA BeginningKeepsOthers ==
    ASSUME NEW h \in Beating, NEW pc, NEW seen, NEW done, NEW doc, SetsOut(h, pc, seen, done, doc)
    PROVE  OthersKeep(h)
BY DEF SetsOut, Reads, OthersKeep

HeartbeatPcs == {"attempt", "select", "drive", "item", "candidate", "state"}
CompactionPcs == {"rewrite", "archive"}

LEMMA LandingKeepsUpset ==
    ASSUME OthersUpset, NEW h \in Beating, beat[h].pc # "idle", upset \subseteq upset',
           NEW pc, NEW seen, NEW todo, NEW done, NEW doc, Lands(h, pc, seen, todo, done, doc, beat[h].alone),
           pc \in HeartbeatPcs => beat[h].pc \in HeartbeatPcs /\ (~beat[h].alone => todo \cup done \subseteq upset'),
           pc \in CompactionPcs => beat[h].pc \in CompactionPcs /\ todo \cup done \subseteq InWork(h)
    PROVE  OthersUpset'
<1>1. /\ beat'[h].pc = pc /\ beat'[h].alone = beat[h].alone /\ InWork(h)' = todo \cup done
      /\ \A g \in Beating \ {h} : beat'[g] = beat[g] /\ InWork(g)' = InWork(g)
  BY DEF Lands, Reads, InWork
<1>2. ASSUME NEW g \in Beating, NEW o \in Beating, g # o, beat'[g].pc # "idle", beat'[o].pc # "idle"
      PROVE  ~beat'[o].alone
  <2>1. beat[g].pc # "idle" /\ beat[o].pc # "idle" /\ beat'[o].alone = beat[o].alone
    BY <1>1, <1>2
  <2> QED
    BY <1>2, <2>1 DEF OthersUpset
<1>3. ASSUME NEW g \in Heartbeats', ~beat'[g].alone PROVE InWork(g)' \subseteq upset'
  <2>1. CASE g = h
    BY <1>1, <1>3, <2>1 DEF Heartbeats, HeartbeatPcs
  <2>2. CASE g # h
    BY <1>1, <1>3, <2>2 DEF Heartbeats, OthersUpset
  <2> QED
    BY <2>1, <2>2
<1>4. ASSUME NEW g \in Compactions', NEW o \in Compactions', g # o
      PROVE  InWork(g)' \subseteq upset' \/ InWork(o)' \subseteq upset'
  <2>1. ASSUME NEW c \in Compactions' PROVE c \in Compactions /\ InWork(c)' \subseteq InWork(c)
    <3>1. CASE c = h
      BY <1>1, <2>1, <3>1 DEF Compactions, CompactionPcs
    <3>2. CASE c # h
      BY <1>1, <2>1, <3>2 DEF Compactions
    <3> QED
      BY <3>1, <3>2
  <2>2. InWork(g) \subseteq upset \/ InWork(o) \subseteq upset
    BY <1>4, <2>1 DEF OthersUpset
  <2> QED
    BY <1>4, <2>1, <2>2
<1> QED
  BY <1>2, <1>3, <1>4 DEF OthersUpset

LEMMA BeginningKeepsUpset ==
    ASSUME OthersUpset, NEW h \in Beating, beat[h].pc = "idle", upset' = upset \cup UNION {InWork(o) : o \in Others(h)},
           NEW pc \in {"attempt", "rewrite"}, NEW seen, NEW done, NEW doc, SetsOut(h, pc, seen, done, doc),
           pc = "attempt" => done = {}
    PROVE  OthersUpset'
<1>1. beat'[h].pc = pc /\ beat'[h].alone = (Others(h) = {}) /\ InWork(h)' = done
  BY DEF SetsOut, Reads, InWork
<1>2. ASSUME NEW g \in Beating \ {h}
      PROVE  /\ beat'[g].pc = beat[g].pc /\ beat'[g].alone = (beat[g].alone /\ beat[g].pc = "idle")
             /\ InWork(g)' = InWork(g)
  BY DEF SetsOut, Reads, InWork
<1>3. ASSUME NEW g \in Beating \ {h}, beat[g].pc # "idle" PROVE InWork(g)' \subseteq upset' /\ Others(h) # {}
  <2>1. g \in Others(h)
    BY <1>3 DEF Others
  <2> QED
    BY <1>2, <2>1
<1>4. ASSUME NEW g \in Beating, NEW o \in Beating, g # o, beat'[g].pc # "idle", beat'[o].pc # "idle"
      PROVE  ~beat'[o].alone
  <2>1. CASE o = h
    BY <1>1, <1>2, <1>3, <1>4, <2>1
  <2>2. CASE o # h
    BY <1>2, <1>4, <2>2
  <2> QED
    BY <2>1, <2>2
<1>5. ASSUME NEW g \in Heartbeats', ~beat'[g].alone PROVE InWork(g)' \subseteq upset'
  <2>1. CASE g = h
    BY <1>1, <1>5, <2>1 DEF Heartbeats
  <2>2. CASE g # h
    BY <1>2, <1>3, <1>5, <2>2 DEF Heartbeats
  <2> QED
    BY <2>1, <2>2
<1>6. ASSUME NEW g \in Compactions', NEW o \in Compactions', g # o
      PROVE  InWork(g)' \subseteq upset' \/ InWork(o)' \subseteq upset'
  <2>1. g # h \/ o # h
    BY <1>6
  <2>2. ASSUME NEW c \in Compactions', c # h PROVE InWork(c)' \subseteq upset'
    BY <1>2, <1>3, <2>2 DEF Compactions
  <2> QED
    BY <2>1, <2>2
<1> QED
  BY <1>4, <1>5, <1>6 DEF OthersUpset

LEMMA RestingKeepsUpset ==
    ASSUME OthersUpset, NEW h \in Beating, upset \subseteq upset', Rests(h)
    PROVE  OthersUpset'
<1>1. /\ beat'[h].pc = "idle"
      /\ \A g \in Beating \ {h} : beat'[g] = beat[g] /\ InWork(g)' = InWork(g)
  BY DEF Rests, Lands, Reads, InWork
<1>2. ASSUME NEW g \in Beating, beat'[g].pc # "idle"
      PROVE  g # h /\ beat'[g] = beat[g] /\ InWork(g)' = InWork(g)
  BY <1>1, <1>2
<1>3. \A g, o \in Beating : g # o /\ beat'[g].pc # "idle" /\ beat'[o].pc # "idle" => ~beat'[o].alone
  BY <1>2 DEF OthersUpset
<1>4. \A g \in Heartbeats' : ~beat'[g].alone => InWork(g)' \subseteq upset'
  BY <1>2 DEF OthersUpset, Heartbeats
<1>5. \A g, o \in Compactions' : g # o => InWork(g)' \subseteq upset' \/ InWork(o)' \subseteq upset'
  <2>1. \A g \in Compactions' : g \in Compactions /\ InWork(g)' = InWork(g)
    BY <1>2 DEF Compactions
  <2> QED
    BY <2>1 DEF OthersUpset
<1> QED
  BY <1>3, <1>4, <1>5 DEF OthersUpset

\* What was upset stays upset.
LEMMA UpsetGrows ==
    ASSUME HeartbeatTypeOK, NEW h \in Beating, BeatStep(h) \/ CompactStep(h)
    PROVE  upset \subseteq upset'
<1>1. CASE ReadAttempt(h) \/ ReadCandidates(h)
  BY <1>1 DEF ReadAttempt, ReadCandidates, StartsWith
<1>2. CASE SelectPending(h)
  BY <1>2, SelectPendingLands
<1>3. CASE BreakOff(h)
  BY <1>3 DEF BreakOff
<1>4. ASSUME NEW given \in BOOLEAN, ArchiveCandidates(h, given) PROVE upset \subseteq upset'
  BY <1>4 DEF ArchiveCandidates
<1>5. CASE WriteAttempt(h) \/ DriveEvent(h) \/ WriteItem(h)
  BY <1>5 DEF WriteAttempt, DriveEvent, WriteItem
<1>6. CASE AppendCandidate(h) \/ AgeDocuments(h) \/ WriteBeatState(h) \/ RewriteCandidates(h)
  BY <1>6 DEF AppendCandidate, AgeDocuments, WriteBeatState, RewriteCandidates
<1> QED
  BY <1>1, <1>2, <1>3, <1>4, <1>5, <1>6 DEF BeatStep, CompactStep

LEMMA ProcessesKeepUpset ==
    ASSUME HeartbeatTypeOK, BeatsFit, OthersUpset, NEW h \in Beating, BeatStep(h) \/ CompactStep(h)
    PROVE  OthersUpset'
<1>0. BeatFits(beat[h]) /\ upset \subseteq upset'
  BY UpsetGrows DEF BeatsFit
<1>w. ~beat[h].alone /\ beat[h].pc \in HeartbeatPcs => InWork(h) \subseteq upset
  BY DEF OthersUpset, Heartbeats, HeartbeatPcs
<1>1. CASE ReadAttempt(h)
  <2>1. SetsOut(h, "attempt", processed, {}, {}) /\ beat[h].pc = "idle" /\ upset' = upset \cup UNION {InWork(o) : o \in Others(h)}
    BY <1>1, ReadAttemptBegins DEF ReadAttempt, StartsWith
  <2> QED
    BY <2>1, BeginningKeepsUpset
<1>2. CASE WriteAttempt(h)
  <2>1. /\ Lands(h, "select", beat[h].seen, beat[h].todo, beat[h].done, beat[h].doc, beat[h].alone)
        /\ beat[h].pc = "attempt"
    BY <1>2, PcLands DEF WriteAttempt, BeatPcs
  <2>2. ~beat[h].alone => beat[h].todo \cup beat[h].done \subseteq upset'
    BY <1>0, <1>w, <2>1 DEF InWork, HeartbeatPcs
  <2>3. PICK pc : pc = "select"
    OBVIOUS
  <2>4. pc \in HeartbeatPcs /\ pc \notin CompactionPcs /\ beat[h].pc \in HeartbeatPcs /\ beat[h].pc # "idle"
    BY <2>1, <2>3 DEF HeartbeatPcs, CompactionPcs
  <2> QED
    BY <1>0, <2>1, <2>2, <2>3, <2>4, LandingKeepsUpset
<1>3. CASE SelectPending(h)
  <2>1. PICK todo \in SUBSET (arrived \ processed) :
          /\ Lands(h, "drive", processed, todo, beat[h].done, beat[h].doc, beat[h].alone)
          /\ upset' = upset \cup (IF beat[h].alone THEN {} ELSE todo)
    BY <1>3, SelectPendingLands
  <2>2. beat[h].pc = "select" /\ beat[h].done = {}
    BY <1>0, <1>3 DEF SelectPending, BeatFits
  <2>3. ~beat[h].alone => todo \cup beat[h].done \subseteq upset'
    BY <2>1, <2>2
  <2>4. PICK pc : pc = "drive"
    OBVIOUS
  <2>5. pc \in HeartbeatPcs /\ pc \notin CompactionPcs /\ beat[h].pc \in HeartbeatPcs /\ beat[h].pc # "idle"
    BY <2>2, <2>4 DEF HeartbeatPcs, CompactionPcs
  <2> QED
    BY <1>0, <2>1, <2>3, <2>4, <2>5, LandingKeepsUpset
<1>4. ASSUME NEW q \in {"drive", "item", "candidate", "state"}, NEW doc, NEW todo, NEW done,
             beat[h].pc \in {"drive", "item", "candidate"}, todo \cup done \subseteq InWork(h),
             Lands(h, q, beat[h].seen, todo, done, doc, beat[h].alone)
      PROVE  OthersUpset'
  <2>1. ~beat[h].alone => todo \cup done \subseteq upset'
    BY <1>0, <1>w, <1>4 DEF HeartbeatPcs
  <2>2. q \in HeartbeatPcs /\ q \notin CompactionPcs /\ beat[h].pc \in HeartbeatPcs /\ beat[h].pc # "idle"
    BY <1>4 DEF HeartbeatPcs, CompactionPcs
  <2> QED
    BY <1>0, <1>4, <2>1, <2>2, LandingKeepsUpset
<1>5. beat[h].todo # {} => (beat[h].todo \ {Current(h)}) \cup (beat[h].done \cup {Current(h)}) \subseteq InWork(h)
  BY CurrentIsToBeDone DEF InWork
<1>6. beat[h].todo \cup beat[h].done \subseteq InWork(h)
  BY DEF InWork
<1>7. CASE DriveEvent(h)
  <2>1. beat[h].pc = "drive" /\ beat[h].todo # {}
    BY <1>7 DEF DriveEvent
  <2>2. \E todo, done, doc : /\ todo \cup done \subseteq InWork(h)
                             /\ \/ Lands(h, "drive", beat[h].seen, todo, done, doc, beat[h].alone)
                                \/ Lands(h, "item", beat[h].seen, todo, done, doc, beat[h].alone)
    BY <1>5, <1>6, <1>7, <2>1, DriveEventLands
  <2> QED
    BY <1>4, <2>1, <2>2
<1>8. CASE WriteItem(h)
  <2>1. beat[h].pc = "item" /\ beat[h].todo # {}
    BY <1>0, <1>8 DEF WriteItem, BeatFits
  <2>2. \E todo, done, doc : /\ todo \cup done \subseteq InWork(h)
                             /\ \/ Lands(h, "drive", beat[h].seen, todo, done, doc, beat[h].alone)
                                \/ Lands(h, "candidate", beat[h].seen, todo, done, doc, beat[h].alone)
    BY <1>5, <1>6, <1>8, <2>1, WriteItemLands
  <2> QED
    BY <1>4, <2>1, <2>2
<1>9. CASE AppendCandidate(h)
  <2>1. beat[h].pc = "candidate" /\ beat[h].todo # {}
    BY <1>0, <1>9 DEF AppendCandidate, BeatFits
  <2>2. PICK todo, done : /\ todo = beat[h].todo \ {Current(h)} /\ done = beat[h].done \cup {Current(h)}
                          /\ Lands(h, "drive", beat[h].seen, todo, done, beat[h].doc, beat[h].alone)
    BY <1>9, <2>1, AppendCandidateLands
  <2>3. todo \cup done \subseteq InWork(h)
    BY <1>5, <2>1, <2>2
  <2> QED
    BY <1>4, <2>1, <2>2, <2>3
<1>10. CASE AgeDocuments(h)
  <2>1. /\ Lands(h, "state", beat[h].seen, beat[h].todo, beat[h].done, beat[h].doc, beat[h].alone)
        /\ beat[h].pc = "drive"
    BY <1>10, PcLands DEF AgeDocuments, BeatPcs
  <2> QED
    BY <1>4, <1>6, <2>1
<1>11. CASE ReadCandidates(h)
  <2>1. /\ SetsOut(h, "rewrite", {}, {line.event : line \in queued}, queued) /\ beat[h].pc = "idle"
        /\ upset' = upset \cup UNION {InWork(o) : o \in Others(h)}
    BY <1>11, ReadCandidatesBegins DEF ReadCandidates, StartsWith
  <2> QED
    BY <2>1, BeginningKeepsUpset
<1>12. CASE RewriteCandidates(h)
  <2>1. PICK pc, doc : /\ pc = "archive"
                       /\ Lands(h, pc, beat[h].seen, beat[h].todo, beat[h].done, doc, beat[h].alone)
    BY <1>12, RewriteCandidatesLands
  <2>2. pc \notin HeartbeatPcs /\ beat[h].pc \in CompactionPcs /\ beat[h].pc # "idle"
    BY <1>12, <2>1 DEF RewriteCandidates, HeartbeatPcs, CompactionPcs
  <2> QED
    BY <1>0, <1>6, <2>1, <2>2, LandingKeepsUpset
<1>13. CASE Goes(h, AtRest)
  BY <1>0, <1>13, GoingToRest, RestingKeepsUpset
<1>14. CASE WriteBeatState(h) \/ BreakOff(h) \/ \E given \in BOOLEAN : ArchiveCandidates(h, given)
  BY <1>13, <1>14 DEF WriteBeatState, BreakOff, ArchiveCandidates
<1> QED
  BY <1>1, <1>2, <1>3, <1>7, <1>8, <1>9, <1>10, <1>11, <1>12, <1>14 DEF BeatStep, CompactStep

-----------------------------------------------------------------------------
(* Every heartbeat knows what was processed.                               *)

LEMMA ProcessesKeepAgreement ==
    ASSUME HeartbeatTypeOK, BeatsFit, OthersUpset, StatesAgree, NEW h \in Beating, BeatStep(h) \/ CompactStep(h)
    PROVE  StatesAgree'
<1>0. BeatFits(beat[h]) /\ upset \subseteq upset'
  BY UpsetGrows DEF BeatsFit
<1>1. ASSUME OthersKeep(h), processed' \ upset = processed \ upset,
             h \in Heartbeats' => beat'[h].seen \ upset = processed \ upset
      PROVE  StatesAgree'
  <2> SUFFICES ASSUME NEW g \in Heartbeats' PROVE beat'[g].seen \ upset' = processed' \ upset'
    BY DEF StatesAgree
  <2>1. beat'[g].seen \ upset = processed \ upset
    <3>1. CASE g = h
      BY <1>1, <3>1
    <3>2. CASE g # h
      BY <1>1, <3>2 DEF OthersKeep, Heartbeats, StatesAgree
    <3> QED
      BY <3>1, <3>2
  <2> QED
    BY <1>0, <1>1, <2>1
<1>2. h \in Heartbeats => beat[h].seen \ upset = processed \ upset
  BY DEF StatesAgree
<1>3. ASSUME NEW pc, NEW todo, NEW done, NEW doc, NEW alone, Lands(h, pc, beat[h].seen, todo, done, doc, alone),
             processed' = processed, h \in Heartbeats \/ pc \notin HeartbeatPcs
      PROVE  StatesAgree'
  <2>1. OthersKeep(h)
    BY <1>3, LandingKeepsOthers
  <2>2. beat'[h].seen = beat[h].seen /\ beat'[h].pc = pc
    BY <1>3 DEF Lands, Reads
  <2>3. h \in Heartbeats' => h \in Heartbeats
    BY <1>3, <2>2 DEF Heartbeats, HeartbeatPcs
  <2> QED
    BY <1>1, <1>2, <1>3, <2>1, <2>2, <2>3
<1>4. ASSUME Rests(h), processed' \ upset = processed \ upset PROVE StatesAgree'
  <2>1. OthersKeep(h) /\ beat'[h].pc = "idle"
    BY <1>4, LandingKeepsOthers DEF Rests, Lands, Reads
  <2> QED
    BY <1>1, <1>4, <2>1 DEF Heartbeats
<1>5. CASE ReadAttempt(h)
  <2>1. SetsOut(h, "attempt", processed, {}, {}) /\ processed' = processed
    BY <1>5, ReadAttemptBegins DEF ReadAttempt
  <2>2. beat'[h].seen = processed /\ OthersKeep(h)
    BY <2>1, BeginningKeepsOthers DEF SetsOut, Reads
  <2> QED
    BY <1>1, <2>1, <2>2
<1>6. CASE WriteAttempt(h)
  <2>1. /\ Lands(h, "select", beat[h].seen, beat[h].todo, beat[h].done, beat[h].doc, beat[h].alone)
        /\ beat[h].pc = "attempt" /\ processed' = beat[h].seen
    BY <1>6, PcLands DEF WriteAttempt, BeatPcs
  <2>2. beat'[h].seen = beat[h].seen /\ OthersKeep(h) /\ h \in Heartbeats
    BY <2>1, LandingKeepsOthers DEF Lands, Reads, Heartbeats
  <2> QED
    BY <1>1, <1>2, <2>1, <2>2
<1>7. CASE SelectPending(h)
  <2>1. PICK todo : Lands(h, "drive", processed, todo, beat[h].done, beat[h].doc, beat[h].alone)
    BY <1>7, SelectPendingLands
  <2>2. beat'[h].seen = processed /\ OthersKeep(h) /\ processed' = processed
    BY <1>7, <2>1, LandingKeepsOthers DEF Lands, Reads, SelectPending
  <2> QED
    BY <1>1, <2>2
<1>8. CASE DriveEvent(h)
  <2>1. h \in Heartbeats /\ processed' = processed
    BY <1>8 DEF DriveEvent, Heartbeats
  <2> QED
    BY <1>3, <1>8, <2>1, DriveEventLands
<1>9. CASE WriteItem(h)
  <2>1. h \in Heartbeats /\ processed' = processed /\ beat[h].todo # {}
    BY <1>0, <1>9 DEF WriteItem, Heartbeats, BeatFits
  <2> QED
    BY <1>3, <1>9, <2>1, WriteItemLands
<1>10. CASE AppendCandidate(h)
  <2>1. h \in Heartbeats /\ processed' = processed /\ beat[h].todo # {}
    BY <1>0, <1>10 DEF AppendCandidate, Heartbeats, BeatFits
  <2> QED
    BY <1>3, <1>10, <2>1, AppendCandidateLands
<1>11. CASE AgeDocuments(h)
  <2>1. h \in Heartbeats /\ processed' = processed
    BY <1>11 DEF AgeDocuments, Heartbeats
  <2> QED
    BY <1>3, <1>11, <2>1, PcLands DEF AgeDocuments, BeatPcs
<1>12. CASE WriteBeatState(h)
  <2>1. h \in Heartbeats /\ processed' = beat[h].seen \cup beat[h].done /\ Rests(h) /\ upset' = upset
    BY <1>12, GoingToRest DEF WriteBeatState, Heartbeats
  <2>2. SUFFICES ASSUME NEW g \in Heartbeats' PROVE beat'[g].seen \ upset' = processed' \ upset'
    BY DEF StatesAgree
  <2>3. g # h /\ g \in Heartbeats /\ beat'[g].seen = beat[g].seen
    BY <2>1, <2>2 DEF Rests, Lands, Reads, Heartbeats
  <2>4. beat[h].done \subseteq upset
    <3>1. ~beat[h].alone
      BY <2>1, <2>3 DEF OthersUpset, Heartbeats
    <3> QED
      BY <2>1, <3>1 DEF OthersUpset, InWork
  <2> QED
    BY <1>2, <2>1, <2>3, <2>4 DEF StatesAgree
<1>13. CASE BreakOff(h) \/ \E given \in BOOLEAN : ArchiveCandidates(h, given)
  <2>1. Rests(h) /\ processed' = processed
    BY <1>13, GoingToRest DEF BreakOff, ArchiveCandidates
  <2> QED
    BY <1>4, <2>1
<1>14. CASE ReadCandidates(h)
  <2>1. SetsOut(h, "rewrite", {}, {line.event : line \in queued}, queued) /\ processed' = processed
    BY <1>14, ReadCandidatesBegins DEF ReadCandidates
  <2>2. beat'[h].pc = "rewrite" /\ OthersKeep(h)
    BY <2>1, BeginningKeepsOthers DEF SetsOut, Reads
  <2> QED
    BY <1>1, <2>1, <2>2 DEF Heartbeats
<1>15. CASE RewriteCandidates(h)
  <2>1. PICK pc, doc : /\ pc = "archive" /\ processed' = processed
                       /\ Lands(h, pc, beat[h].seen, beat[h].todo, beat[h].done, doc, beat[h].alone)
    BY <1>15, RewriteCandidatesLands DEF RewriteCandidates
  <2> QED
    BY <1>3, <2>1 DEF HeartbeatPcs
<1> QED
  BY <1>5, <1>6, <1>7, <1>8, <1>9, <1>10, <1>11, <1>12, <1>13, <1>14, <1>15 DEF BeatStep, CompactStep

-----------------------------------------------------------------------------
(* What was driven.                                                        *)

LEMMA TodoIsFresh ==
    ASSUME HeartbeatTypeOK, BeatsFit, OthersUpset, StatesAgree, NEW h \in Heartbeats, NEW e \in beat[h].todo, e \notin upset
    PROVE  /\ e \notin Driven
           /\ e \in HalfDriven => beat[h].pc = "candidate"
<1>1. BeatFits(beat[h]) /\ h \in Beating
  BY DEF BeatsFit, Heartbeats
<1>2. e \notin processed
  BY <1>1 DEF BeatFits, StatesAgree
<1>3. ASSUME NEW g \in Heartbeats, g # h PROVE e \notin InWork(g)
  <2>1. beat[g].pc # "idle" /\ beat[h].pc # "idle" /\ g \in Beating
    BY DEF Heartbeats
  <2>2. ~beat[g].alone
    BY <1>1, <1>3, <2>1 DEF OthersUpset
  <2> QED
    BY <2>2 DEF OthersUpset
<1>4. e \notin beat[h].done
  BY <1>1 DEF BeatFits
<1>5. e \notin Driven
  BY <1>2, <1>3, <1>4 DEF Driven, InWork
<1>6. ASSUME e \in HalfDriven PROVE beat[h].pc = "candidate"
  <2>1. PICK g \in Beating : beat[g].pc = "candidate" /\ e = Current(g)
    BY <1>6 DEF HalfDriven
  <2>2. beat[g].todo # {}
    BY <2>1 DEF BeatsFit, BeatFits
  <2>3. e \in InWork(g)
    BY <2>1, <2>2, CurrentIsToBeDone DEF InWork
  <2>4. g \in Heartbeats
    BY <2>1 DEF Heartbeats
  <2> QED
    BY <1>3, <2>1, <2>3, <2>4
<1> QED
  BY <1>5, <1>6

\* Outside of what is upset, exactly these were driven in addition.
DrivenGain(more) == \A e \in Events \ upset' : e \in Driven' <=> e \in Driven \cup more

LEMMA HeartbeatGains ==
    ASSUME NEW h \in Heartbeats, OthersKeep(h), h \in Heartbeats', NEW more, beat'[h].done = beat[h].done \cup more,
           processed' \ upset' = processed \ upset'
    PROVE  DrivenGain(more)
<1>1. Heartbeats' = Heartbeats /\ h \in Beating
  BY DEF OthersKeep, Heartbeats
<1>2. \A g \in Heartbeats : g # h => beat'[g].done = beat[g].done
  BY DEF OthersKeep, Heartbeats
<1>3. ASSUME NEW e \in Events \ upset' PROVE e \in Driven' <=> e \in Driven \cup more
  <2>1. e \in processed' <=> e \in processed
    OBVIOUS
  <2>2. e \in UNION {beat'[g].done : g \in Heartbeats} <=> e \in UNION {beat[g].done : g \in Heartbeats} \/ e \in more
    BY <1>2
  <2> QED
    BY <1>1, <2>1, <2>2 DEF Driven
<1> QED
  BY <1>3 DEF DrivenGain

\* One that was not at a heartbeat, or begins it.
LEMMA OthersGainNothing ==
    ASSUME NEW h \in Beating, h \notin Heartbeats, OthersKeep(h), h \in Heartbeats' => beat'[h].done = {},
           processed' \ upset' = processed \ upset'
    PROVE  DrivenGain({})
<1>1. \A g \in Heartbeats : g # h /\ g \in Heartbeats' /\ beat'[g].done = beat[g].done
  BY DEF OthersKeep, Heartbeats
<1>2. \A g \in Heartbeats' : g # h => g \in Heartbeats /\ beat'[g].done = beat[g].done
  BY DEF OthersKeep, Heartbeats
<1>3. ASSUME NEW e \in Events \ upset' PROVE e \in Driven' <=> e \in Driven
  <2>1. e \in processed' <=> e \in processed
    OBVIOUS
  <2>2. e \in UNION {beat[g].done : g \in Heartbeats} => e \in UNION {beat'[g].done : g \in Heartbeats'}
    BY <1>1
  <2>3. e \in UNION {beat'[g].done : g \in Heartbeats'} => e \in UNION {beat[g].done : g \in Heartbeats}
    <3> SUFFICES ASSUME NEW g \in Heartbeats', e \in beat'[g].done PROVE e \in UNION {beat[o].done : o \in Heartbeats}
      OBVIOUS
    <3>1. g # h
      OBVIOUS
    <3> QED
      BY <1>2, <3>1
  <2> QED
    BY <2>1, <2>2, <2>3 DEF Driven
<1> QED
  BY <1>3 DEF DrivenGain

\* One that ends its heartbeat leaves what it did in the state file, or upset.
LEMMA EndingGainsNothing ==
    ASSUME NEW h \in Heartbeats, OthersKeep(h), h \notin Heartbeats',
           processed' \ upset' = (processed \cup beat[h].done) \ upset'
    PROVE  DrivenGain({})
<1>1. \A g \in Heartbeats : g # h => g \in Heartbeats' /\ beat'[g].done = beat[g].done
  BY DEF OthersKeep, Heartbeats
<1>2. \A g \in Heartbeats' : g \in Heartbeats /\ g # h /\ beat'[g].done = beat[g].done
  BY DEF OthersKeep, Heartbeats
<1>3. ASSUME NEW e \in Events \ upset' PROVE e \in Driven' <=> e \in Driven
  <2>1. e \in processed' <=> e \in processed \cup beat[h].done
    OBVIOUS
  <2>2. e \in UNION {beat[g].done : g \in Heartbeats} =>
          e \in beat[h].done \/ e \in UNION {beat'[g].done : g \in Heartbeats'}
    <3> SUFFICES ASSUME NEW g \in Heartbeats, e \in beat[g].done, e \notin beat[h].done
                 PROVE  e \in UNION {beat'[o].done : o \in Heartbeats'}
      OBVIOUS
    <3> QED
      BY <1>1
  <2>3. e \in UNION {beat'[g].done : g \in Heartbeats'} => e \in UNION {beat[g].done : g \in Heartbeats}
    BY <1>2
  <2> QED
    BY <2>1, <2>2, <2>3 DEF Driven
<1> QED
  BY <1>3 DEF DrivenGain


\* What a step of a process says of the others, and of what was driven.
LEMMA StepsKeepOthers ==
    ASSUME HeartbeatTypeOK, BeatsFit, NEW h \in Beating, BeatStep(h) \/ CompactStep(h)
    PROVE  OthersKeep(h)
<1>0. BeatFits(beat[h])
  BY DEF BeatsFit
<1>1. CASE ReadAttempt(h)
  BY <1>1, ReadAttemptBegins, BeginningKeepsOthers
<1>2. CASE WriteAttempt(h)
  BY <1>2, PcLands, LandingKeepsOthers DEF WriteAttempt, BeatPcs
<1>3. CASE SelectPending(h)
  BY <1>3, SelectPendingLands, LandingKeepsOthers
<1>4. CASE DriveEvent(h)
  BY <1>4, DriveEventLands, LandingKeepsOthers
<1>5. CASE WriteItem(h)
  <2>1. beat[h].todo # {}
    BY <1>0, <1>5 DEF WriteItem, BeatFits
  <2> QED
    BY <1>5, <2>1, WriteItemLands, LandingKeepsOthers
<1>6. CASE AppendCandidate(h)
  <2>1. beat[h].todo # {}
    BY <1>0, <1>6 DEF AppendCandidate, BeatFits
  <2> QED
    BY <1>6, <2>1, AppendCandidateLands, LandingKeepsOthers
<1>7. CASE AgeDocuments(h)
  BY <1>7, PcLands, LandingKeepsOthers DEF AgeDocuments, BeatPcs
<1>8. CASE WriteBeatState(h) \/ BreakOff(h) \/ \E given \in BOOLEAN : ArchiveCandidates(h, given)
  <2>1. Rests(h)
    BY <1>8, GoingToRest DEF WriteBeatState, BreakOff, ArchiveCandidates
  <2>2. PICK pc, e, a : pc = "idle" /\ Lands(h, pc, e, e, e, e, a)
    BY <2>1 DEF Rests
  <2> QED
    BY <2>2, LandingKeepsOthers
<1>9. CASE ReadCandidates(h)
  BY <1>9, ReadCandidatesBegins, BeginningKeepsOthers
<1>10. CASE RewriteCandidates(h)
  BY <1>10, RewriteCandidatesLands, LandingKeepsOthers
<1> QED
  BY <1>1, <1>2, <1>3, <1>4, <1>5, <1>6, <1>7, <1>8, <1>9, <1>10 DEF BeatStep, CompactStep

LEMMA LandingGains ==
    ASSUME NEW h \in Heartbeats, NEW pc \in HeartbeatPcs, NEW seen, NEW todo, NEW done, NEW doc, NEW alone, NEW more,
           Lands(h, pc, seen, todo, done, doc, alone), done = beat[h].done \cup more, processed' = processed
    PROVE  DrivenGain(more)
<1>1. OthersKeep(h) /\ h \in Beating
  BY LandingKeepsOthers DEF Heartbeats
<1>2. h \in Heartbeats' /\ beat'[h].done = beat[h].done \cup more
  BY <1>1 DEF Lands, Reads, Heartbeats, HeartbeatPcs
<1> QED
  BY <1>1, <1>2, HeartbeatGains

\* What a step drives was to be done; only AppendCandidate drives what becomes a candidate.
LEMMA StepsDrive ==
    ASSUME HeartbeatTypeOK, BeatsFit, OthersUpset, StatesAgree, NEW h \in Beating, BeatStep(h) \/ CompactStep(h)
    PROVE  \/ DrivenGain({})
           \/ DrivenGain({Current(h)}) /\ (~Of(Current(h)).candidate \/ AppendCandidate(h))
<1>0. BeatFits(beat[h]) /\ OthersKeep(h) /\ upset \subseteq upset'
  BY UpsetGrows, StepsKeepOthers DEF BeatsFit
<1>a. beat[h].done = beat[h].done \cup {}
  OBVIOUS
<1>1. CASE ReadAttempt(h)
  <2>1. SetsOut(h, "attempt", processed, {}, {}) /\ beat[h].pc = "idle" /\ processed' = processed
    BY <1>1, ReadAttemptBegins DEF ReadAttempt, StartsWith
  <2>2. beat'[h].done = {} /\ h \notin Heartbeats
    BY <2>1 DEF SetsOut, Reads, Heartbeats
  <2> QED
    BY <1>0, <2>1, <2>2, OthersGainNothing
<1>2. CASE WriteAttempt(h)
  <2>1. /\ Lands(h, "select", beat[h].seen, beat[h].todo, beat[h].done, beat[h].doc, beat[h].alone)
        /\ beat[h].pc = "attempt" /\ processed' = beat[h].seen
    BY <1>2, PcLands DEF WriteAttempt, BeatPcs
  <2>2. h \in Heartbeats /\ h \in Heartbeats' /\ beat'[h].done = beat[h].done
    BY <2>1 DEF Heartbeats, Lands, Reads
  <2>3. processed' \ upset' = processed \ upset'
    BY <1>0, <2>1, <2>2 DEF StatesAgree
  <2> QED
    BY <1>0, <1>a, <2>2, <2>3, HeartbeatGains
<1>3. CASE SelectPending(h)
  <2>1. PICK todo : Lands(h, "drive", processed, todo, beat[h].done, beat[h].doc, beat[h].alone)
    BY <1>3, SelectPendingLands
  <2>2. h \in Heartbeats /\ processed' = processed /\ "drive" \in HeartbeatPcs
    BY <1>3 DEF SelectPending, Heartbeats, HeartbeatPcs
  <2> QED
    BY <1>a, <2>1, <2>2, LandingGains
<1>4. CASE DriveEvent(h)
  <2>1. h \in Heartbeats /\ processed' = processed /\ "drive" \in HeartbeatPcs /\ "item" \in HeartbeatPcs
    BY <1>4 DEF DriveEvent, Heartbeats, HeartbeatPcs
  <2>2. CASE /\ Of(Current(h)).document = ""
             /\ Lands(h, "drive", beat[h].seen, beat[h].todo \ {Current(h)}, beat[h].done \cup {Current(h)},
                      beat[h].doc, beat[h].alone)
    <3>1. DrivenGain({Current(h)})
      BY <2>1, <2>2, LandingGains
    <3>2. ~Of(Current(h)).candidate
      BY <2>2, DecisionsFit
    <3> QED
      BY <3>1, <3>2
  <2>3. CASE Lands(h, "item", beat[h].seen, beat[h].todo, beat[h].done, working[Of(Current(h)).document], beat[h].alone)
    BY <1>a, <2>1, <2>3, LandingGains
  <2> QED
    BY <1>4, <2>2, <2>3, DriveEventLands
<1>5. CASE WriteItem(h)
  <2>1. h \in Heartbeats /\ processed' = processed /\ "drive" \in HeartbeatPcs /\ "candidate" \in HeartbeatPcs
    BY <1>5 DEF WriteItem, Heartbeats, HeartbeatPcs
  <2>2. beat[h].todo # {}
    BY <1>0, <1>5 DEF WriteItem, BeatFits
  <2>3. CASE Lands(h, "candidate", beat[h].seen, beat[h].todo, beat[h].done, {}, beat[h].alone)
    BY <1>a, <2>1, <2>3, LandingGains
  <2>4. CASE /\ ~Of(Current(h)).candidate
             /\ Lands(h, "drive", beat[h].seen, beat[h].todo \ {Current(h)}, beat[h].done \cup {Current(h)},
                      {}, beat[h].alone)
    BY <2>1, <2>4, LandingGains
  <2> QED
    BY <1>5, <2>2, <2>3, <2>4, WriteItemLands
<1>6. CASE AppendCandidate(h)
  <2>1. h \in Heartbeats /\ processed' = processed /\ "drive" \in HeartbeatPcs
    BY <1>6 DEF AppendCandidate, Heartbeats, HeartbeatPcs
  <2>2. beat[h].todo # {}
    BY <1>0, <1>6 DEF AppendCandidate, BeatFits
  <2> QED
    BY <1>6, <2>1, <2>2, AppendCandidateLands, LandingGains
<1>7. CASE AgeDocuments(h)
  <2>1. /\ Lands(h, "state", beat[h].seen, beat[h].todo, beat[h].done, beat[h].doc, beat[h].alone)
        /\ beat[h].pc = "drive" /\ processed' = processed
    BY <1>7, PcLands DEF AgeDocuments, BeatPcs
  <2>2. h \in Heartbeats /\ "state" \in HeartbeatPcs
    BY <2>1 DEF Heartbeats, HeartbeatPcs
  <2> QED
    BY <1>a, <2>1, <2>2, LandingGains
<1>8. CASE WriteBeatState(h)
  <2>1. h \in Heartbeats /\ processed' = beat[h].seen \cup beat[h].done /\ Rests(h)
    BY <1>8, GoingToRest DEF WriteBeatState, Heartbeats
  <2>2. h \notin Heartbeats'
    BY <2>1 DEF Rests, AtRest, Heartbeats
  <2>3. processed' \ upset' = (processed \cup beat[h].done) \ upset'
    BY <1>0, <2>1 DEF StatesAgree
  <2> QED
    BY <1>0, <2>1, <2>2, <2>3, EndingGainsNothing
<1>9. CASE BreakOff(h)
  <2>1. processed' = processed /\ upset' = upset \cup InWork(h) /\ Rests(h)
    BY <1>9, GoingToRest DEF BreakOff
  <2>2. h \notin Heartbeats'
    BY <2>1 DEF Rests, AtRest, Heartbeats
  <2>3. processed' \ upset' = (processed \cup beat[h].done) \ upset'
    BY <2>1 DEF InWork
  <2> QED
    BY <1>0, <2>1, <2>2, <2>3, EndingGainsNothing, OthersGainNothing
<1>10. CASE ReadCandidates(h)
  <2>1. SetsOut(h, "rewrite", {}, {line.event : line \in queued}, queued) /\ beat[h].pc = "idle" /\ processed' = processed
    BY <1>10, ReadCandidatesBegins DEF ReadCandidates, StartsWith
  <2>2. h \notin Heartbeats' /\ h \notin Heartbeats
    BY <2>1 DEF SetsOut, Reads, Heartbeats
  <2> QED
    BY <1>0, <2>1, <2>2, OthersGainNothing
<1>11. CASE RewriteCandidates(h)
  <2>1. PICK pc, doc : /\ pc = "archive" /\ processed' = processed /\ beat[h].pc = "rewrite"
                       /\ Lands(h, pc, beat[h].seen, beat[h].todo, beat[h].done, doc, beat[h].alone)
    BY <1>11, RewriteCandidatesLands DEF RewriteCandidates
  <2>2. h \notin Heartbeats' /\ h \notin Heartbeats
    BY <2>1 DEF Lands, Reads, Heartbeats
  <2> QED
    BY <1>0, <2>1, <2>2, OthersGainNothing
<1>12. CASE \E given \in BOOLEAN : ArchiveCandidates(h, given)
  <2>1. processed' = processed /\ Rests(h) /\ beat[h].pc = "archive"
    BY <1>12, GoingToRest DEF ArchiveCandidates
  <2>2. h \notin Heartbeats' /\ h \notin Heartbeats
    BY <2>1 DEF Rests, AtRest, Heartbeats
  <2> QED
    BY <1>0, <2>1, <2>2, OthersGainNothing
<1> QED
  BY <1>1, <1>2, <1>3, <1>4, <1>5, <1>6, <1>7, <1>8, <1>9, <1>10, <1>11, <1>12 DEF BeatStep, CompactStep

LEMMA AppendingDrives ==
    ASSUME HeartbeatTypeOK, BeatsFit, NEW h \in Beating, AppendCandidate(h)
    PROVE  DrivenGain({Current(h)})
<1>1. h \in Heartbeats /\ processed' = processed /\ "drive" \in HeartbeatPcs /\ beat[h].pc = "candidate"
  BY DEF AppendCandidate, Heartbeats, HeartbeatPcs
<1>2. beat[h].todo # {}
  BY <1>1 DEF BeatsFit, BeatFits
<1> QED
  BY <1>1, <1>2, AppendCandidateLands, LandingGains

\* What was driven, or is half driven, stays so or is upset.
LEMMA FollowedStays ==
    ASSUME HeartbeatTypeOK, BeatsFit, OthersUpset, StatesAgree, NEW h \in Beating, BeatStep(h) \/ CompactStep(h),
           NEW e \in Events \ upset', e \in Driven \cup HalfDriven
    PROVE  e \in Driven' \cup HalfDriven'
<1>1. CASE e \in Driven
  BY <1>1, StepsDrive DEF DrivenGain
<1>2. CASE e \in HalfDriven
  <2>1. PICK g \in Beating : beat[g].pc = "candidate" /\ e = Current(g)
    BY <1>2 DEF HalfDriven
  <2>2. CASE g # h
    <3>1. beat'[g].pc = "candidate" /\ beat'[g].todo = beat[g].todo
      BY <2>1, <2>2, StepsKeepOthers DEF OthersKeep
    <3>2. Current(g)' = Current(g)
      BY <3>1, CurrentStays
    <3> QED
      BY <2>1, <3>1, <3>2 DEF HalfDriven
  <2>3. CASE g = h
    <3>1. AppendCandidate(h) \/ BreakOff(h)
      BY <2>1, <2>3 DEF BeatStep, CompactStep, ReadAttempt, WriteAttempt, SelectPending, DriveEvent, WriteItem,
                        AgeDocuments, WriteBeatState, ReadCandidates, RewriteCandidates, ArchiveCandidates, StartsWith
    <3>2. ~BreakOff(h)
      <4>1. beat[h].todo # {}
        BY <2>1, <2>3 DEF BeatsFit, BeatFits
      <4>2. e \in InWork(h)
        BY <2>1, <2>3, <4>1, CurrentIsToBeDone DEF InWork
      <4> QED
        BY <4>2 DEF BreakOff
    <3> QED
      BY <2>1, <2>3, <3>1, <3>2, AppendingDrives DEF DrivenGain
  <2> QED
    BY <2>2, <2>3
<1> QED
  BY <1>1, <1>2

-----------------------------------------------------------------------------
(* The lines of the candidates.                                            *)

\* An event that has one line at most still does, and has one if it had one.
SameLines(e) ==
    /\ AtMostOne(LinesOf(e)) => AtMostOne(LinesOf(e)')
    /\ LinesOf(e)' # {} <=> LinesOf(e) # {}

LEMMA LineIsSomewhere ==
    ASSUME NEW e, NEW x
    PROVE  x \in LinesOf(e) <=>
             \/ \E line \in queued : line.event = e /\ x = <<"queued", 0, line>>
             \/ \E i \in DOMAIN archived : \E line \in archived[i] : line.event = e /\ x = <<"archived", i, line>>
             \/ \E g \in Moving : \E line \in beat[g].doc : line.event = e /\ x = <<"moving", g, line>>
<1>1. x \in UNION {{<<"archived", i, line>> : line \in EntriesOf(archived[i], e)} : i \in DOMAIN archived}
        <=> \E i \in DOMAIN archived : \E line \in archived[i] : line.event = e /\ x = <<"archived", i, line>>
  BY DEF EntriesOf
<1>2. x \in UNION {{<<"moving", g, line>> : line \in EntriesOf(beat[g].doc, e)} : g \in Moving}
        <=> \E g \in Moving : \E line \in beat[g].doc : line.event = e /\ x = <<"moving", g, line>>
  BY DEF EntriesOf
<1>3. x \in {<<"queued", 0, line>> : line \in EntriesOf(queued, e)}
        <=> \E line \in queued : line.event = e /\ x = <<"queued", 0, line>>
  BY DEF EntriesOf
<1> QED
  BY <1>1, <1>2, <1>3 DEF LinesOf

\* The same in the next state.
LEMMA LineIsSomewhereNext ==
    ASSUME NEW e, NEW x
    PROVE  x \in LinesOf(e)' <=>
             \/ \E line \in queued' : line.event = e /\ x = <<"queued", 0, line>>
             \/ \E i \in DOMAIN archived' : \E line \in archived'[i] : line.event = e /\ x = <<"archived", i, line>>
             \/ \E g \in Moving' : \E line \in beat'[g].doc : line.event = e /\ x = <<"moving", g, line>>
<1>1. x \in UNION {{<<"archived", i, line>> : line \in EntriesOf(archived'[i], e)} : i \in DOMAIN archived'}
        <=> \E i \in DOMAIN archived' : \E line \in archived'[i] : line.event = e /\ x = <<"archived", i, line>>
  BY DEF EntriesOf
<1>2. x \in UNION {{<<"moving", g, line>> : line \in EntriesOf(beat'[g].doc, e)} : g \in Moving'}
        <=> \E g \in Moving' : \E line \in beat'[g].doc : line.event = e /\ x = <<"moving", g, line>>
  BY DEF EntriesOf
<1>3. x \in {<<"queued", 0, line>> : line \in EntriesOf(queued', e)}
        <=> \E line \in queued' : line.event = e /\ x = <<"queued", 0, line>>
  BY DEF EntriesOf
<1>4. LinesOf(e)' = {<<"queued", 0, line>> : line \in EntriesOf(queued', e)}
        \cup (UNION {{<<"archived", i, line>> : line \in EntriesOf(archived'[i], e)} : i \in DOMAIN archived'})
        \cup (UNION {{<<"moving", g, line>> : line \in EntriesOf(beat'[g].doc, e)} : g \in Moving'})
  BY DEF LinesOf, EntriesOf
<1> QED
  BY <1>1, <1>2, <1>3, <1>4

\* Who touches neither file, and neither takes nor drops a line on the way.
LEMMA LinesRest ==
    ASSUME NEW e, NEW h \in Beating, queued' = queued, archived' = archived, OthersKeep(h),
           beat[h].pc = "archive" => \A line \in beat[h].doc : line.event # e,
           beat'[h].pc # "archive"
    PROVE  SameLines(e)
<1>1. \A g \in Beating \ {h} : (g \in Moving' <=> g \in Moving) /\ beat'[g].doc = beat[g].doc
  BY DEF OthersKeep, Moving
<1>2. h \notin Moving' /\ (h \in Moving => \A line \in beat[h].doc : line.event # e)
  BY DEF Moving
<1>3. Moving \subseteq Beating /\ Moving' \subseteq Beating
  BY DEF Moving
<1>4. \A x : x \in LinesOf(e)' <=> x \in LinesOf(e)
  <2> SUFFICES ASSUME NEW x PROVE x \in LinesOf(e)' <=> x \in LinesOf(e)
    OBVIOUS
  <2>1. (\E g \in Moving' : \E line \in beat'[g].doc : line.event = e /\ x = <<"moving", g, line>>)
          <=> \E g \in Moving : \E line \in beat[g].doc : line.event = e /\ x = <<"moving", g, line>>
    BY <1>1, <1>2, <1>3
  <2> QED
    BY <2>1, LineIsSomewhere, LineIsSomewhereNext
<1>5. LinesOf(e)' = LinesOf(e)
  BY <1>4
<1> QED
  BY <1>5 DEF SameLines

\* The rest of the queue goes into the hands of who compacts it.
LEMMA RewritingKeepsLines ==
    ASSUME HeartbeatTypeOK, CopiesAgree, NEW h \in Beating, RewriteCandidates(h), NEW e \in Events \ upset
    PROVE  SameLines(e)
<1>1. /\ beat[h].pc = "rewrite" /\ queued' = {line \in beat[h].doc : Stays(line)} /\ archived' = archived
  BY DEF RewriteCandidates
<1>2. /\ beat'[h].pc = "archive" /\ beat'[h].doc = {line \in beat[h].doc : ~Stays(line)} /\ OthersKeep(h)
  BY RewriteCandidatesLands, LandingKeepsOthers DEF Lands, Reads
<1>3. \A line : line.event = e => (line \in beat[h].doc <=> line \in queued)
  BY <1>1 DEF CopiesAgree, EntriesOf
<1>4. \A g \in Beating \ {h} : (g \in Moving' <=> g \in Moving) /\ beat'[g].doc = beat[g].doc
  BY <1>2 DEF OthersKeep, Moving
<1>5. h \in Moving' /\ h \notin Moving /\ Moving \subseteq Beating /\ Moving' \subseteq Beating
  BY <1>1, <1>2 DEF Moving
<1>6. ASSUME NEW x \in LinesOf(e)'
      PROVE  \/ x \in LinesOf(e) /\ \A line : ~Stays(line) => x # <<"queued", 0, line>>
             \/ \E line : ~Stays(line) /\ x = <<"moving", h, line>> /\ <<"queued", 0, line>> \in LinesOf(e)
  <2>1. CASE \E line \in queued' : line.event = e /\ x = <<"queued", 0, line>>
    <3>1. PICK line \in queued' : line.event = e /\ x = <<"queued", 0, line>>
      BY <2>1
    <3>2. line \in queued /\ Stays(line)
      BY <1>1, <1>3, <3>1
    <3>3. x \in LinesOf(e)
      BY <3>1, <3>2, LineIsSomewhere
    <3>4. ASSUME NEW other, ~Stays(other) PROVE x # <<"queued", 0, other>>
      BY <3>1, <3>2, <3>4
    <3> QED
      BY <3>3, <3>4
  <2>2. CASE \E i \in DOMAIN archived' : \E line \in archived'[i] : line.event = e /\ x = <<"archived", i, line>>
    <3>0. PICK i \in DOMAIN archived : \E line \in archived[i] : line.event = e /\ x = <<"archived", i, line>>
      BY <1>1, <2>2
    <3>1. PICK line \in archived[i] : line.event = e /\ x = <<"archived", i, line>>
      BY <3>0
    <3>2. x \in LinesOf(e)
      BY <3>1, LineIsSomewhere
    <3>3. x[1] = "archived"
      BY <3>1
    <3> QED
      BY <3>2, <3>3
  <2>3. CASE \E g \in Moving' : \E line \in beat'[g].doc : line.event = e /\ x = <<"moving", g, line>>
    <3>0. PICK g \in Moving' : \E line \in beat'[g].doc : line.event = e /\ x = <<"moving", g, line>>
      BY <2>3
    <3>1. PICK line \in beat'[g].doc : line.event = e /\ x = <<"moving", g, line>>
      BY <3>0
    <3>2. CASE g = h
      <4>1. ~Stays(line) /\ line \in queued
        BY <1>2, <1>3, <3>1, <3>2
      <4>2. <<"queued", 0, line>> \in LinesOf(e)
        BY <3>1, <4>1, LineIsSomewhere
      <4> QED
        BY <3>1, <3>2, <4>1, <4>2
    <3>3. CASE g # h
      <4>1. g \in Moving /\ line \in beat[g].doc
        BY <1>4, <1>5, <3>1, <3>3
      <4>2. x \in LinesOf(e)
        BY <3>1, <4>1, LineIsSomewhere
      <4>3. x[1] = "moving"
        BY <3>1
      <4> QED
        BY <4>2, <4>3
    <3> QED
      BY <3>2, <3>3
  <2> QED
    BY <2>1, <2>2, <2>3, LineIsSomewhereNext
<1>7. ASSUME NEW x \in LinesOf(e) PROVE LinesOf(e)' # {}
  <2>1. CASE \E line \in queued : line.event = e /\ x = <<"queued", 0, line>>
    <3>1. PICK line \in queued : line.event = e
      BY <2>1
    <3>2. line \in beat[h].doc
      BY <1>3, <3>1
    <3>3. CASE Stays(line)
      <4>1. line \in queued'
        BY <1>1, <3>2, <3>3
      <4>2. <<"queued", 0, line>> \in LinesOf(e)'
        BY <3>1, <4>1, LineIsSomewhereNext
      <4> QED
        BY <4>2
    <3>4. CASE ~Stays(line)
      <4>1. line \in beat'[h].doc
        BY <1>2, <3>2, <3>4
      <4>2. <<"moving", h, line>> \in LinesOf(e)'
        BY <1>5, <3>1, <4>1, LineIsSomewhereNext
      <4> QED
        BY <4>2
    <3> QED
      BY <3>3, <3>4
  <2>2. CASE \E i \in DOMAIN archived : \E line \in archived[i] : line.event = e /\ x = <<"archived", i, line>>
    <3>1. x \in LinesOf(e)'
      BY <1>1, <2>2, LineIsSomewhereNext
    <3> QED
      BY <3>1
  <2>3. CASE \E g \in Moving : \E line \in beat[g].doc : line.event = e /\ x = <<"moving", g, line>>
    <3>0. PICK g \in Moving : \E line \in beat[g].doc : line.event = e /\ x = <<"moving", g, line>>
      BY <2>3
    <3>1. PICK line \in beat[g].doc : line.event = e /\ x = <<"moving", g, line>>
      BY <3>0
    <3>2. g \in Moving' /\ line \in beat'[g].doc
      BY <1>4, <1>5, <3>1
    <3>3. x \in LinesOf(e)'
      BY <3>1, <3>2, LineIsSomewhereNext
    <3> QED
      BY <3>3
  <2> QED
    BY <2>1, <2>2, <2>3, LineIsSomewhere
<1>8. ASSUME AtMostOne(LinesOf(e)), NEW x \in LinesOf(e)', NEW y \in LinesOf(e)' PROVE x = y
  <2>1. CASE x \in LinesOf(e) /\ y \in LinesOf(e)
    BY <1>8, <2>1 DEF AtMostOne
  <2>2. ASSUME NEW u \in LinesOf(e)', NEW v \in LinesOf(e)', u \in LinesOf(e), v \notin LinesOf(e) PROVE FALSE
    <3>1. PICK line : ~Stays(line) /\ <<"queued", 0, line>> \in LinesOf(e)
      BY <1>6, <2>2
    <3>2. u = <<"queued", 0, line>>
      BY <1>8, <2>2, <3>1 DEF AtMostOne
    <3>3. PICK other : ~Stays(other) /\ u = <<"moving", h, other>>
      BY <1>6, <2>2, <3>1, <3>2
    <3> QED
      BY <3>2, <3>3
  <2>3. CASE x \notin LinesOf(e) /\ y \notin LinesOf(e)
    <3>1. PICK line : x = <<"moving", h, line>> /\ <<"queued", 0, line>> \in LinesOf(e)
      BY <1>6, <2>3
    <3>2. PICK other : y = <<"moving", h, other>> /\ <<"queued", 0, other>> \in LinesOf(e)
      BY <1>6, <2>3
    <3>3. <<"queued", 0, line>> = <<"queued", 0, other>>
      BY <1>8, <3>1, <3>2 DEF AtMostOne
    <3>4. line = other
      BY <3>3
    <3> QED
      BY <3>1, <3>2, <3>4
  <2> QED
    BY <2>1, <2>2, <2>3
<1>9. AtMostOne(LinesOf(e)) => AtMostOne(LinesOf(e)')
  BY <1>8 DEF AtMostOne
<1>10. LinesOf(e)' # {} => LinesOf(e) # {}
  BY <1>6
<1> QED
  BY <1>7, <1>9, <1>10 DEF SameLines

\* What is in hand goes to the end of the archive.
LEMMA ArchivingKeepsLines ==
    ASSUME HeartbeatTypeOK, NEW h \in Beating, ArchiveCandidates(h, TRUE), NEW e
    PROVE  SameLines(e)
<1>1. /\ beat[h].pc = "archive" /\ archived' = Append(archived, beat[h].doc) /\ queued' = queued
      /\ archived \in Seq(SUBSET CandidateLines) /\ Rests(h)
  BY GoingToRest, TypesRead DEF ArchiveCandidates
<1>2. PICK pc, none, a : pc = "idle" /\ Lands(h, pc, none, none, none, none, a)
  BY <1>1 DEF Rests
<1>3. OthersKeep(h) /\ beat'[h].pc = "idle"
  BY <1>2, LandingKeepsOthers DEF Lands, Reads
<1>4. \A g \in Beating \ {h} : (g \in Moving' <=> g \in Moving) /\ beat'[g].doc = beat[g].doc
  BY <1>3 DEF OthersKeep, Moving
<1>5. h \in Moving /\ h \notin Moving' /\ Moving \subseteq Beating /\ Moving' \subseteq Beating
  BY <1>1, <1>3 DEF Moving
<1>6. PICK n \in Nat : n = Len(archived) + 1
  BY <1>1
<1>7. /\ DOMAIN archived' = DOMAIN archived \cup {n} /\ n \notin DOMAIN archived
      /\ archived'[n] = beat[h].doc /\ \A i \in DOMAIN archived : archived'[i] = archived[i]
  <2>1. DOMAIN archived = 1..Len(archived) /\ Len(archived) \in Nat
    BY <1>1
  <2>2. Len(archived') = n /\ DOMAIN archived' = 1..n
    BY <1>1, <1>6
  <2>3. 1..n = 1..Len(archived) \cup {n} /\ n \notin 1..Len(archived)
    BY <1>6, <2>1
  <2>4. archived'[n] = beat[h].doc /\ \A i \in 1..Len(archived) : archived'[i] = archived[i]
    BY <1>1, <1>6
  <2> QED
    BY <2>1, <2>2, <2>3, <2>4
<1>8. ASSUME NEW x \in LinesOf(e)'
      PROVE  \/ x \in LinesOf(e) /\ \A line : x # <<"moving", h, line>>
             \/ \E line : x = <<"archived", n, line>> /\ <<"moving", h, line>> \in LinesOf(e)
  <2>1. CASE \E line \in queued' : line.event = e /\ x = <<"queued", 0, line>>
    <3>1. x \in LinesOf(e)
      BY <1>1, <2>1, LineIsSomewhere
    <3>2. x[1] = "queued"
      BY <2>1
    <3> QED
      BY <3>1, <3>2
  <2>2. CASE \E i \in DOMAIN archived' : \E line \in archived'[i] : line.event = e /\ x = <<"archived", i, line>>
    <3>0. PICK i \in DOMAIN archived' : \E line \in archived'[i] : line.event = e /\ x = <<"archived", i, line>>
      BY <2>2
    <3>1. PICK line \in archived'[i] : line.event = e /\ x = <<"archived", i, line>>
      BY <3>0
    <3>2. CASE i = n
      <4>1. <<"moving", h, line>> \in LinesOf(e)
        BY <1>5, <1>7, <3>1, <3>2, LineIsSomewhere
      <4> QED
        BY <3>1, <3>2, <4>1
    <3>3. CASE i # n
      <4>1. i \in DOMAIN archived /\ line \in archived[i]
        BY <1>7, <3>1, <3>3
      <4>2. x \in LinesOf(e)
        BY <3>1, <4>1, LineIsSomewhere
      <4>3. x[1] = "archived"
        BY <3>1
      <4> QED
        BY <4>2, <4>3
    <3> QED
      BY <3>2, <3>3
  <2>3. CASE \E g \in Moving' : \E line \in beat'[g].doc : line.event = e /\ x = <<"moving", g, line>>
    <3>0. PICK g \in Moving' : \E line \in beat'[g].doc : line.event = e /\ x = <<"moving", g, line>>
      BY <2>3
    <3>1. PICK line \in beat'[g].doc : line.event = e /\ x = <<"moving", g, line>>
      BY <3>0
    <3>2. g # h /\ g \in Moving /\ line \in beat[g].doc
      BY <1>4, <1>5, <3>1
    <3>3. x \in LinesOf(e)
      BY <3>1, <3>2, LineIsSomewhere
    <3>4. x[2] = g
      BY <3>1
    <3> QED
      BY <3>2, <3>3, <3>4
  <2>4. \/ \E line \in queued' : line.event = e /\ x = <<"queued", 0, line>>
        \/ \E i \in DOMAIN archived' : \E line \in archived'[i] : line.event = e /\ x = <<"archived", i, line>>
        \/ \E g \in Moving' : \E line \in beat'[g].doc : line.event = e /\ x = <<"moving", g, line>>
    BY <1>8, LineIsSomewhereNext
  <2> QED
    BY <2>1, <2>2, <2>3, <2>4
<1>9. ASSUME NEW x \in LinesOf(e) PROVE LinesOf(e)' # {}
  <2>1. CASE \E line \in queued : line.event = e /\ x = <<"queued", 0, line>>
    <3>1. x \in LinesOf(e)'
      BY <1>1, <2>1, LineIsSomewhereNext
    <3> QED
      BY <3>1
  <2>2. CASE \E i \in DOMAIN archived : \E line \in archived[i] : line.event = e /\ x = <<"archived", i, line>>
    <3>1. x \in LinesOf(e)'
      BY <1>7, <2>2, LineIsSomewhereNext
    <3> QED
      BY <3>1
  <2>3. CASE \E g \in Moving : \E line \in beat[g].doc : line.event = e /\ x = <<"moving", g, line>>
    <3>0. PICK g \in Moving : \E line \in beat[g].doc : line.event = e /\ x = <<"moving", g, line>>
      BY <2>3
    <3>1. PICK line \in beat[g].doc : line.event = e /\ x = <<"moving", g, line>>
      BY <3>0
    <3>2. CASE g = h
      <4>1. <<"archived", n, line>> \in LinesOf(e)'
        BY <1>7, <3>1, <3>2, LineIsSomewhereNext
      <4> QED
        BY <4>1
    <3>3. CASE g # h
      <4>1. g \in Moving' /\ line \in beat'[g].doc
        BY <1>4, <1>5, <3>1, <3>3
      <4>2. x \in LinesOf(e)'
        BY <3>1, <4>1, LineIsSomewhereNext
      <4> QED
        BY <4>2
    <3> QED
      BY <3>2, <3>3
  <2> QED
    BY <2>1, <2>2, <2>3, LineIsSomewhere
<1>10. ASSUME AtMostOne(LinesOf(e)), NEW x \in LinesOf(e)', NEW y \in LinesOf(e)' PROVE x = y
  <2>1. CASE (\A line : x # <<"moving", h, line>>) /\ x \in LinesOf(e) /\ (\A line : y # <<"moving", h, line>>) /\ y \in LinesOf(e)
    BY <1>10, <2>1 DEF AtMostOne
  <2>2. ASSUME NEW u \in LinesOf(e), \A line : u # <<"moving", h, line>>, NEW line, <<"moving", h, line>> \in LinesOf(e)
        PROVE FALSE
    BY <1>10, <2>2 DEF AtMostOne
  <2>3. CASE /\ \E line : x = <<"archived", n, line>> /\ <<"moving", h, line>> \in LinesOf(e)
             /\ \E line : y = <<"archived", n, line>> /\ <<"moving", h, line>> \in LinesOf(e)
    <3>1. PICK line : x = <<"archived", n, line>> /\ <<"moving", h, line>> \in LinesOf(e)
      BY <2>3
    <3>2. PICK other : y = <<"archived", n, other>> /\ <<"moving", h, other>> \in LinesOf(e)
      BY <2>3
    <3>3. <<"moving", h, line>> = <<"moving", h, other>>
      BY <1>10, <3>1, <3>2 DEF AtMostOne
    <3>4. line = other
      BY <3>3
    <3> QED
      BY <3>1, <3>2, <3>4
  <2> QED
    BY <1>8, <2>1, <2>2, <2>3
<1>11. AtMostOne(LinesOf(e)) => AtMostOne(LinesOf(e)')
  BY <1>10 DEF AtMostOne
<1>12. LinesOf(e)' # {} => LinesOf(e) # {}
  BY <1>8
<1> QED
  BY <1>9, <1>11, <1>12 DEF SameLines

\* Only one action each leads to an item, to a rewriting and to an archiving.
LEMMA WhereStepsLand ==
    ASSUME HeartbeatTypeOK, BeatsFit, NEW h \in Beating, BeatStep(h) \/ CompactStep(h)
    PROVE  /\ beat'[h].pc = "item" => DriveEvent(h)
           /\ beat'[h].pc = "rewrite" => ReadCandidates(h)
           /\ beat'[h].pc = "archive" => RewriteCandidates(h)
<1>0. BeatFits(beat[h])
  BY DEF BeatsFit
<1>1. CASE ReadAttempt(h)
  BY <1>1, ReadAttemptBegins DEF SetsOut, Reads
<1>2. CASE WriteAttempt(h)
  <2>1. Lands(h, "select", beat[h].seen, beat[h].todo, beat[h].done, beat[h].doc, beat[h].alone)
    BY <1>2, PcLands DEF WriteAttempt, BeatPcs
  <2> QED
    BY <2>1 DEF Lands, Reads
<1>3. CASE SelectPending(h)
  <2>1. PICK todo : Lands(h, "drive", processed, todo, beat[h].done, beat[h].doc, beat[h].alone)
    BY <1>3, SelectPendingLands
  <2> QED
    BY <2>1 DEF Lands, Reads
<1>4. CASE DriveEvent(h)
  <2>1. beat'[h].pc \in {"drive", "item"}
    BY <1>4, DriveEventLands DEF Lands, Reads
  <2> QED
    BY <1>4, <2>1
<1>5. CASE WriteItem(h)
  <2>1. beat[h].todo # {}
    BY <1>0, <1>5 DEF WriteItem, BeatFits
  <2>2. beat'[h].pc \in {"drive", "candidate"}
    BY <1>5, <2>1, WriteItemLands DEF Lands, Reads
  <2> QED
    BY <2>2
<1>6. CASE AppendCandidate(h)
  <2>1. beat[h].todo # {}
    BY <1>0, <1>6 DEF AppendCandidate, BeatFits
  <2>2. beat'[h].pc = "drive"
    BY <1>6, <2>1, AppendCandidateLands DEF Lands, Reads
  <2> QED
    BY <2>2
<1>7. CASE AgeDocuments(h)
  <2>1. Lands(h, "state", beat[h].seen, beat[h].todo, beat[h].done, beat[h].doc, beat[h].alone)
    BY <1>7, PcLands DEF AgeDocuments, BeatPcs
  <2> QED
    BY <2>1 DEF Lands, Reads
<1>8. CASE WriteBeatState(h) \/ BreakOff(h) \/ \E given \in BOOLEAN : ArchiveCandidates(h, given)
  <2>1. Rests(h)
    BY <1>8, GoingToRest DEF WriteBeatState, BreakOff, ArchiveCandidates
  <2> QED
    BY <2>1 DEF Rests, AtRest
<1>9. CASE ReadCandidates(h)
  <2>1. beat'[h].pc = "rewrite"
    BY <1>9, ReadCandidatesBegins DEF SetsOut, Reads
  <2> QED
    BY <1>9, <2>1
<1>10. CASE RewriteCandidates(h)
  <2>1. beat'[h].pc = "archive"
    BY <1>10, RewriteCandidatesLands DEF Lands, Reads
  <2> QED
    BY <1>10, <2>1
<1> QED
  BY <1>1, <1>2, <1>3, <1>4, <1>5, <1>6, <1>7, <1>8, <1>9, <1>10 DEF BeatStep, CompactStep

LEMMA StepsKeepLines ==
    ASSUME HeartbeatTypeOK, BeatsFit, CopiesAgree, NEW h \in Beating, BeatStep(h) \/ CompactStep(h), ~AppendCandidate(h),
           NEW e \in Events \ upset'
    PROVE  SameLines(e)
<1>0. OthersKeep(h) /\ upset \subseteq upset' /\ BeatFits(beat[h])
  BY StepsKeepOthers, UpsetGrows DEF BeatsFit
<1>1. beat'[h].pc = "archive" => RewriteCandidates(h)
  BY WhereStepsLand
<1>2. CASE RewriteCandidates(h)
  BY <1>0, <1>2, RewritingKeepsLines
<1>3. CASE \E given \in BOOLEAN : ArchiveCandidates(h, given)
  <2>1. PICK given \in BOOLEAN : ArchiveCandidates(h, given)
    BY <1>3
  <2>2. CASE given = TRUE
    BY <2>1, <2>2, ArchivingKeepsLines
  <2>3. CASE given = FALSE
    <3>1. /\ archived' = archived /\ queued' = queued /\ upset' = upset \cup {line.event : line \in beat[h].doc}
          /\ beat[h].pc = "archive"
      BY <2>1, <2>3 DEF ArchiveCandidates
    <3>2. beat'[h].pc # "archive"
      BY <1>1, <3>1 DEF RewriteCandidates
    <3>3. \A line \in beat[h].doc : line.event # e
      BY <3>1
    <3> QED
      BY <1>0, <3>1, <3>2, <3>3, LinesRest
  <2> QED
    BY <2>2, <2>3
<1>4. CASE BreakOff(h)
  <2>1. queued' = queued /\ archived' = archived /\ upset' = upset \cup InWork(h) /\ Rests(h)
    BY <1>4, GoingToRest DEF BreakOff
  <2>2. beat'[h].pc # "archive"
    BY <2>1 DEF Rests, AtRest
  <2>3. beat[h].pc = "archive" => \A line \in beat[h].doc : line.event # e
    BY <1>0, <2>1 DEF BeatFits, InWork
  <2> QED
    BY <1>0, <2>1, <2>2, <2>3, LinesRest
<1>5. CASE ReadAttempt(h) \/ WriteAttempt(h) \/ SelectPending(h) \/ DriveEvent(h) \/ WriteItem(h)
           \/ AgeDocuments(h) \/ WriteBeatState(h) \/ ReadCandidates(h)
  <2>1. queued' = queued /\ archived' = archived /\ beat[h].pc # "archive"
    BY <1>5 DEF ReadAttempt, WriteAttempt, SelectPending, DriveEvent, WriteItem, AgeDocuments, WriteBeatState,
                ReadCandidates, StartsWith
  <2>2. ~RewriteCandidates(h)
    BY <1>5 DEF ReadAttempt, WriteAttempt, SelectPending, DriveEvent, WriteItem, AgeDocuments, WriteBeatState,
                ReadCandidates, StartsWith, RewriteCandidates
  <2> QED
    BY <1>0, <1>1, <2>1, <2>2, LinesRest
<1> QED
  BY <1>2, <1>3, <1>4, <1>5 DEF BeatStep, CompactStep


\* A line is appended for one event, and for no other.
LEMMA AppendingAddsALine ==
    ASSUME HeartbeatTypeOK, BeatsFit, NEW h \in Beating, AppendCandidate(h)
    PROVE  \E line : /\ queued' = queued \cup {line} /\ line.event = Current(h)
                     /\ \A e, x : x \in LinesOf(e)' <=>
                                    x \in LinesOf(e) \/ (e = Current(h) /\ x = <<"queued", 0, line>>)
<1>1. beat[h].todo # {} /\ beat[h].pc = "candidate"
  BY DEF AppendCandidate, BeatsFit, BeatFits
<1>2. Current(h) \in arrived
  BY <1>1, CurrentIsToBeDone
<1>3. PICK line : queued' = queued \cup {line} /\ line.event = Current(h)
  BY <1>2, NewLineFits DEF AppendCandidate
<1>4. archived' = archived
  BY DEF AppendCandidate
<1>5. OthersKeep(h) /\ beat'[h].pc = "drive"
  BY <1>1, AppendCandidateLands, LandingKeepsOthers DEF Lands, Reads
<1>6. Moving' = Moving /\ \A g \in Moving : beat'[g].doc = beat[g].doc
  BY <1>1, <1>5 DEF OthersKeep, Moving
<1>7. ASSUME NEW e, NEW x
      PROVE  x \in LinesOf(e)' <=> x \in LinesOf(e) \/ (e = Current(h) /\ x = <<"queued", 0, line>>)
  <2>1. (\E l \in queued' : l.event = e /\ x = <<"queued", 0, l>>)
          <=> (\E l \in queued : l.event = e /\ x = <<"queued", 0, l>>) \/ (e = Current(h) /\ x = <<"queued", 0, line>>)
    BY <1>3
  <2>2. (\E i \in DOMAIN archived' : \E l \in archived'[i] : l.event = e /\ x = <<"archived", i, l>>)
          <=> \E i \in DOMAIN archived : \E l \in archived[i] : l.event = e /\ x = <<"archived", i, l>>
    BY <1>4
  <2>3. (\E g \in Moving' : \E l \in beat'[g].doc : l.event = e /\ x = <<"moving", g, l>>)
          <=> \E g \in Moving : \E l \in beat[g].doc : l.event = e /\ x = <<"moving", g, l>>
    BY <1>6
  <2> QED
    BY <2>1, <2>2, <2>3, LineIsSomewhere, LineIsSomewhereNext
<1> QED
  BY <1>3, <1>7

LEMMA ProcessesKeepLines ==
    ASSUME HeartbeatTypeOK, BeatsFit, OthersUpset, StatesAgree, CopiesAgree, LinesFollow,
           NEW h \in Beating, BeatStep(h) \/ CompactStep(h)
    PROVE  LinesFollow'
<1>0. upset \subseteq upset'
  BY UpsetGrows
<1>1. CASE ~AppendCandidate(h)
  <2> SUFFICES ASSUME NEW e \in Events \ upset'
               PROVE  /\ AtMostOne(LinesOf(e)')
                      /\ LinesOf(e)' # {} => e \in Driven'
                      /\ e \in Driven' /\ Of(e).candidate => LinesOf(e)' # {}
    BY DEF LinesFollow, AtMostOne, Of, Decision, Drive
  <2>1. SameLines(e)
    BY <1>1, StepsKeepLines
  <2>2. /\ AtMostOne(LinesOf(e)) /\ (LinesOf(e) # {} => e \in Driven)
        /\ (e \in Driven /\ Of(e).candidate => LinesOf(e) # {})
    BY <1>0 DEF LinesFollow
  <2>3. e \in Driven => e \in Driven'
    BY StepsDrive DEF DrivenGain
  <2>4. e \in Driven' /\ Of(e).candidate => e \in Driven
    BY <1>1, StepsDrive DEF DrivenGain
  <2> QED
    BY <2>1, <2>2, <2>3, <2>4 DEF SameLines
<1>2. CASE AppendCandidate(h)
  <2> SUFFICES ASSUME NEW e \in Events \ upset'
               PROVE  /\ AtMostOne(LinesOf(e)')
                      /\ LinesOf(e)' # {} => e \in Driven'
                      /\ e \in Driven' /\ Of(e).candidate => LinesOf(e)' # {}
    BY DEF LinesFollow, AtMostOne, Of, Decision, Drive
  <2>1. PICK line : \A f, x : x \in LinesOf(f)' <=>
                       x \in LinesOf(f) \/ (f = Current(h) /\ x = <<"queued", 0, line>>)
    BY <1>2, AppendingAddsALine
  <2>2. DrivenGain({Current(h)})
    BY <1>2, AppendingDrives
  <2>3. /\ AtMostOne(LinesOf(e)) /\ (LinesOf(e) # {} => e \in Driven)
        /\ (e \in Driven /\ Of(e).candidate => LinesOf(e) # {})
    BY <1>0 DEF LinesFollow
  <2>4. CASE e = Current(h)
    <3>1. beat[h].pc = "candidate" /\ beat[h].todo # {}
      BY <1>2 DEF AppendCandidate, BeatsFit, BeatFits
    <3>2. h \in Heartbeats /\ e \in beat[h].todo /\ e \notin upset
      BY <1>0, <2>4, <3>1, CurrentIsToBeDone DEF Heartbeats
    <3>3. e \notin Driven
      BY <3>2, TodoIsFresh
    <3>4. LinesOf(e) = {}
      BY <2>3, <3>3
    <3>5. LinesOf(e)' = {<<"queued", 0, line>>}
      BY <2>1, <2>4, <3>4
    <3>6. e \in Driven'
      BY <2>2, <2>4 DEF DrivenGain
    <3> QED
      BY <3>5, <3>6 DEF AtMostOne
  <2>5. CASE e # Current(h)
    <3>0. \A x : x \in LinesOf(e)' <=> x \in LinesOf(e)
      BY <2>1, <2>5
    <3>1. LinesOf(e)' = LinesOf(e)
      BY <3>0
    <3>2. e \in Driven' <=> e \in Driven
      BY <2>2, <2>5 DEF DrivenGain
    <3> QED
      BY <2>3, <3>1, <3>2
  <2> QED
    BY <2>4, <2>5
<1> QED
  BY <1>1, <1>2

-----------------------------------------------------------------------------
(* The copies of who is about to rewrite the queue.                        *)

LEMMA ProcessesKeepCopies ==
    ASSUME HeartbeatTypeOK, BeatsFit, OthersUpset, CopiesAgree, NEW h \in Beating, BeatStep(h) \/ CompactStep(h)
    PROVE  CopiesAgree'
<1>0. OthersKeep(h) /\ upset \subseteq upset' /\ (beat'[h].pc = "rewrite" => ReadCandidates(h))
  BY StepsKeepOthers, UpsetGrows, WhereStepsLand
<1> SUFFICES ASSUME NEW g \in Beating, NEW e \in Events \ upset', beat'[g].pc = "rewrite"
             PROVE  EntriesOf(beat'[g].doc, e) = EntriesOf(queued', e)
  BY DEF CopiesAgree, EntriesOf
<1>1. CASE g = h
  <2>1. ReadCandidates(h)
    BY <1>0, <1>1
  <2>2. beat'[h].doc = queued /\ queued' = queued
    BY <2>1, ReadCandidatesBegins DEF ReadCandidates, SetsOut, Reads
  <2> QED
    BY <1>1, <2>2
<1>2. CASE g # h
  <2>1. beat[g].pc = "rewrite" /\ beat'[g].doc = beat[g].doc
    BY <1>0, <1>2 DEF OthersKeep
  <2>2. EntriesOf(beat[g].doc, e) = EntriesOf(queued, e)
    BY <1>0, <2>1 DEF CopiesAgree
  <2>3. CASE queued' = queued
    BY <2>1, <2>2, <2>3
  <2>4. CASE AppendCandidate(h)
    <3>1. beat[h].pc = "candidate" /\ beat[h].todo # {}
      BY <2>4 DEF AppendCandidate, BeatsFit, BeatFits
    <3>2. ~beat[h].alone
      BY <1>2, <2>1, <3>1 DEF OthersUpset
    <3>3. InWork(h) \subseteq upset
      BY <3>1, <3>2 DEF OthersUpset, Heartbeats
    <3>4. e # Current(h)
      BY <1>0, <3>1, <3>3, CurrentIsToBeDone DEF InWork
    <3>5. PICK line : queued' = queued \cup {line} /\ line.event = Current(h)
      BY <2>4, AppendingAddsALine
    <3> QED
      BY <2>1, <2>2, <3>4, <3>5 DEF EntriesOf
  <2>5. CASE RewriteCandidates(h)
    <3>1. beat[h].pc = "rewrite" /\ queued' \subseteq beat[h].doc
      BY <2>5 DEF RewriteCandidates
    <3>2. EntriesOf(beat[h].doc, e) = EntriesOf(queued, e)
      BY <1>0, <3>1 DEF CopiesAgree
    <3>3. ASSUME NEW line \in EntriesOf(queued, e) PROVE FALSE
      <4>1. line \in beat[g].doc /\ line \in beat[h].doc /\ line.event = e
        BY <2>2, <3>2 DEF EntriesOf
      <4>2. e \in beat[g].done /\ e \in beat[h].done
        BY <2>1, <3>1, <4>1 DEF BeatsFit, BeatFits
      <4>3. InWork(g) \subseteq upset \/ InWork(h) \subseteq upset
        BY <1>2, <2>1, <3>1 DEF OthersUpset, Compactions
      <4> QED
        BY <1>0, <4>2, <4>3 DEF InWork
    <3>4. EntriesOf(queued, e) = {}
      BY <3>3
    <3>5. EntriesOf(queued', e) = {}
      BY <3>1, <3>2, <3>4 DEF EntriesOf
    <3> QED
      BY <2>1, <2>2, <3>4, <3>5
  <2> QED
    BY <2>3, <2>4, <2>5 DEF BeatStep, CompactStep, ReadAttempt, WriteAttempt, SelectPending, DriveEvent, WriteItem,
         AgeDocuments, WriteBeatState, BreakOff, ReadCandidates, ArchiveCandidates, StartsWith
<1> QED
  BY <1>1, <1>2

-----------------------------------------------------------------------------
(* The documents of working memory.                                        *)

\* What the next state wants of a document.
WillFollow(items) ==
    \A e \in Events \ upset' :
      /\ AtMostOne(EntriesOf(items, e))
      /\ EntriesOf(items, e) # {} => e \in Driven' \cup HalfDriven'

LEMMA WillFollowIsFollowing ==
    ASSUME \A d \in Drives : WillFollow(working'[d]),
           \A g \in Beating : beat'[g].pc = "item" => WillFollow(beat'[g].doc)
    PROVE  DocumentsFollow'
<1>1. \A d \in Drives : ItemsFollow(working[d])'
  BY DEF WillFollow, ItemsFollow, EntriesOf, AtMostOne
<1>2. \A g \in Beating : beat'[g].pc = "item" => ItemsFollow(beat[g].doc)'
  BY DEF WillFollow, ItemsFollow, EntriesOf, AtMostOne
<1> QED
  BY <1>1, <1>2 DEF DocumentsFollow

\* An item drives its event: either it is driven then, or the candidate is still to come.
LEMMA WritingItemsFollows ==
    ASSUME HeartbeatTypeOK, BeatsFit, OthersUpset, StatesAgree, DocumentsFollow, NEW h \in Beating, WriteItem(h)
    PROVE  WillFollow(WithItem(beat[h].doc, Current(h)))
<1>1. beat[h].pc = "item" /\ beat[h].todo # {} /\ ItemsFollow(beat[h].doc) /\ h \in Heartbeats
  BY DEF WriteItem, BeatsFit, BeatFits, DocumentsFollow, Heartbeats
<1>2. upset' = upset /\ BeatStep(h)
  BY DEF WriteItem, BeatStep
<1>3. PICK c : c = Current(h) /\ c \in beat[h].todo
  BY <1>1, CurrentIsToBeDone
<1>4. PICK items : items = WithItem(beat[h].doc, c)
  OBVIOUS
<1>5. c \notin upset => EntriesOf(beat[h].doc, c) = {}
  <2> SUFFICES ASSUME c \notin upset, EntriesOf(beat[h].doc, c) # {} PROVE FALSE
    OBVIOUS
  <2>1. c \in Events
    BY <1>1, <1>3, CurrentIsToBeDone
  <2>2. c \in Driven \cup HalfDriven
    BY <1>1, <2>1 DEF ItemsFollow
  <2> QED
    BY <1>1, <1>3, <2>2, TodoIsFresh
<1>6. c \in Events \ upset' => c \in Driven' \cup HalfDriven'
  <2>1. CASE /\ Of(Current(h)).candidate
             /\ Lands(h, "candidate", beat[h].seen, beat[h].todo, beat[h].done, {}, beat[h].alone)
    <3>1. beat'[h].pc = "candidate" /\ beat'[h].todo = beat[h].todo
      BY <2>1 DEF Lands, Reads
    <3>2. Current(h)' = c
      BY <1>3, <3>1, CurrentStays
    <3> QED
      BY <3>1, <3>2 DEF HalfDriven
  <2>2. CASE /\ ~Of(Current(h)).candidate
             /\ Lands(h, "drive", beat[h].seen, beat[h].todo \ {Current(h)}, beat[h].done \cup {Current(h)},
                      {}, beat[h].alone)
    <3>1. "drive" \in HeartbeatPcs /\ processed' = processed
      BY DEF HeartbeatPcs, WriteItem
    <3>2. DrivenGain({Current(h)})
      BY <1>1, <2>2, <3>1, LandingGains
    <3> QED
      BY <1>3, <3>2 DEF DrivenGain
  <2> QED
    BY <1>1, <2>1, <2>2, WriteItemLands
<1>7. ASSUME NEW e \in Events \ upset'
      PROVE  AtMostOne(EntriesOf(items, e)) /\ (EntriesOf(items, e) # {} => e \in Driven' \cup HalfDriven')
  <2>1. CASE e = c
    BY <1>2, <1>4, <1>5, <1>6, <1>7, <2>1, WithItemFollows
  <2>2. CASE e # c
    <3>1. EntriesOf(items, e) \subseteq EntriesOf(beat[h].doc, e)
      BY <1>4, <2>2, WithItemFollows
    <3>2. AtMostOne(EntriesOf(beat[h].doc, e)) /\ (EntriesOf(beat[h].doc, e) # {} => e \in Driven \cup HalfDriven)
      BY <1>1, <1>2 DEF ItemsFollow
    <3>3. e \in Driven \cup HalfDriven => e \in Driven' \cup HalfDriven'
      BY <1>2, FollowedStays
    <3> QED
      BY <3>1, <3>2, <3>3 DEF AtMostOne
  <2> QED
    BY <2>1, <2>2
<1> QED
  BY <1>3, <1>4, <1>7 DEF WillFollow

LEMMA ProcessesKeepDocuments ==
    ASSUME HeartbeatTypeOK, BeatsFit, OthersUpset, StatesAgree, DocumentsFollow,
           NEW h \in Beating, BeatStep(h) \/ CompactStep(h)
    PROVE  DocumentsFollow'
<1>0. OthersKeep(h) /\ upset \subseteq upset'
  BY StepsKeepOthers, UpsetGrows
<1>1. ASSUME NEW items, ItemsFollow(items) PROVE WillFollow(items)
  <2> SUFFICES ASSUME NEW e \in Events \ upset'
               PROVE  AtMostOne(EntriesOf(items, e)) /\ (EntriesOf(items, e) # {} => e \in Driven' \cup HalfDriven')
    BY DEF WillFollow
  <2>1. AtMostOne(EntriesOf(items, e)) /\ (EntriesOf(items, e) # {} => e \in Driven \cup HalfDriven)
    BY <1>0, <1>1 DEF ItemsFollow
  <2> QED
    BY <2>1, FollowedStays
<1>2. \A d \in Drives : ItemsFollow(working[d])
  BY DEF DocumentsFollow
<1>3. \A d \in Drives : WillFollow(working'[d])
  <2>1. CASE working' = working
    BY <1>1, <1>2, <2>1
  <2>2. CASE WriteItem(h)
    <3>1. working' = [working EXCEPT ![Of(Current(h)).document] = WithItem(beat[h].doc, Current(h))]
      BY <2>2 DEF WriteItem
    <3>2. WillFollow(WithItem(beat[h].doc, Current(h)))
      BY <2>2, WritingItemsFollows
    <3>3. DOMAIN working = Drives
      BY TypesRead
    <3>4. \A d \in Drives : working'[d] = WithItem(beat[h].doc, Current(h)) \/ working'[d] = working[d]
      BY <3>1, <3>3
    <3> QED
      BY <1>1, <1>2, <3>2, <3>4
  <2>3. CASE AgeDocuments(h)
    <3> SUFFICES ASSUME NEW d \in Drives PROVE WillFollow(working'[d])
      OBVIOUS
    <3>1. PICK items : items = working[d] /\ items \subseteq WorkingItems
      BY TypesRead DEF Kept
    <3>2. working'[d] = Aged(items, d)
      BY <2>3, <3>1 DEF AgeDocuments
    <3>3. WillFollow(items)
      BY <1>1, <1>2, <3>1
    <3>4. time \in Nat
      BY TypesRead
    <3>5. WillFollow(Aged(items, d))
      BY <3>1, <3>3, <3>4, AgedFollow DEF WillFollow
    <3> QED
      BY <3>2, <3>5
  <2> QED
    BY <2>1, <2>2, <2>3 DEF BeatStep, CompactStep, ReadAttempt, WriteAttempt, SelectPending, DriveEvent, AppendCandidate,
         WriteBeatState, BreakOff, ReadCandidates, RewriteCandidates, ArchiveCandidates
<1>4. ASSUME NEW g \in Beating, beat'[g].pc = "item" PROVE WillFollow(beat'[g].doc)
  <2>1. CASE g = h
    <3>1. DriveEvent(h)
      BY <1>4, <2>1, WhereStepsLand
    <3>2. \E d \in Drives : beat'[h].doc = working[d]
      BY <1>4, <2>1, <3>1, DriveEventLands DEF Lands, Reads
    <3> QED
      BY <1>1, <1>2, <2>1, <3>2
  <2>2. CASE g # h
    <3>1. beat[g].pc = "item" /\ beat'[g].doc = beat[g].doc
      BY <1>0, <1>4, <2>2 DEF OthersKeep
    <3>2. ItemsFollow(beat[g].doc)
      BY <3>1 DEF DocumentsFollow
    <3> QED
      BY <1>1, <3>1, <3>2
  <2> QED
    BY <2>1, <2>2
<1> QED
  BY <1>3, <1>4, WillFollowIsFollowing

-----------------------------------------------------------------------------
(* The environment, and the theorems.                                      *)

\* Time passes, events arrive and candidates are triaged; or nothing happens.
LEMMA EnvironmentKeeps ==
    ASSUME HeartbeatInv, time' \in 0..MaxTime, time <= time', arrived \subseteq arrived', arrived' \subseteq Events,
           eligible' \subseteq Events,
           UNCHANGED <<processed, working, queued, archived, beat, beats, beatFaults, upset>>
    PROVE  HeartbeatInv'
<1>1. /\ HeartbeatTypeOK /\ BeatsFit /\ OthersUpset /\ StatesAgree /\ DocumentsFollow /\ LinesFollow /\ CopiesAgree
      /\ processed' = processed /\ working' = working /\ queued' = queued /\ archived' = archived
      /\ beat' = beat /\ beats' = beats /\ beatFaults' = beatFaults /\ upset' = upset
  BY DEF HeartbeatInv
<1>2. /\ WorkingItems \subseteq WorkingItems' /\ CandidateLines \subseteq CandidateLines'
      /\ BeatStates \subseteq BeatStates'
  BY <1>1, TypesGrow
<1>3. HeartbeatTypeOK'
  <2>1. archived' \in Seq(SUBSET CandidateLines')
    <3>1. archived \in Seq(SUBSET CandidateLines)
      BY <1>1, TypesRead
    <3>2. SUBSET CandidateLines \subseteq SUBSET CandidateLines'
      BY <1>2
    <3> HIDE DEF CandidateLines
    <3> QED
      BY <1>1, <3>1, <3>2
  <2>2. beat' \in [Beating -> BeatStates']
    <3>1. beat \in [Beating -> BeatStates]
      BY <1>1, TypesRead
    <3> HIDE DEF BeatStates
    <3> QED
      BY <1>1, <1>2, <3>1
  <2> HIDE DEF WorkingItems, CandidateLines, BeatStates
  <2> QED
    BY <1>1, <1>2, <2>1, <2>2 DEF HeartbeatTypeOK
<1>4. BeatsFit'
  <2>1. ASSUME NEW g \in Beating PROVE BeatFits(beat[g])'
    <3>1. PICK d : d = beat[g]
      OBVIOUS
    <3>2. BeatFits(d)'
      BY <1>1, <3>1, FitGrows DEF BeatsFit
    <3> QED
      BY <1>1, <3>1, <3>2 DEF BeatFits, Kept
  <2>2. \A g \in Beating : Current(g)' = Current(g)
    BY <1>1, CurrentStays
  <2>3. \A g \in Beating : BeatFits(beat[g])'
    BY <2>1
  <2>4. \A g \in Beating : beat'[g].pc = "item" => Of(Current(g))'.document \in Drives
    BY <1>1, <2>2 DEF BeatsFit, Of
  <2>5. \A g \in Beating : beat'[g].pc = "candidate" => Of(Current(g))'.candidate
    BY <1>1, <2>2 DEF BeatsFit, Of
  <2> HIDE DEF BeatFits, Of, Current
  <2> QED
    BY <2>3, <2>4, <2>5 DEF BeatsFit
<1>5. OthersUpset'
  BY <1>1 DEF OthersUpset, Heartbeats, Compactions, InWork
<1>6. StatesAgree'
  BY <1>1 DEF StatesAgree, Heartbeats
<1>7. Driven' = Driven /\ HalfDriven' = HalfDriven
  BY <1>1 DEF Driven, HalfDriven, Heartbeats, Current
<1>8. DocumentsFollow'
  BY <1>1, <1>7 DEF DocumentsFollow, ItemsFollow, EntriesOf, AtMostOne
<1>9. LinesFollow'
  <2>1. \A e : LinesOf(e)' = LinesOf(e)
    BY <1>1 DEF LinesOf, EntriesOf, Moving
  <2> HIDE DEF LinesOf
  <2> QED
    BY <1>1, <1>7, <2>1 DEF LinesFollow, AtMostOne, Of
<1>10. CopiesAgree'
  BY <1>1 DEF CopiesAgree, EntriesOf
<1> QED
  BY <1>3, <1>4, <1>5, <1>6, <1>8, <1>9, <1>10 DEF HeartbeatInv

LEMMA HeartbeatBegins ==
    ASSUME HeartbeatInit
    PROVE  HeartbeatInv
<1>1. /\ time = 0 /\ arrived = {} /\ processed = {} /\ queued = {} /\ archived = <<>> /\ eligible = {}
      /\ beats = 0 /\ beatFaults = 0 /\ upset = {} /\ beat = [h \in Beating |-> AtRest]
      /\ working = [d \in Drives |-> {}]
  BY DEF HeartbeatInit
<1>2. /\ AtRest.pc = "idle" /\ AtRest.seen = {} /\ AtRest.todo = {} /\ AtRest.done = {} /\ AtRest.doc = {}
      /\ AtRest \in BeatStates
  BY AtRestReads DEF Reads
<1>3. \A h \in Beating : beat[h] = AtRest
  BY <1>1
<1>4. IsFiniteSet({}) /\ Cardinality({}) = 0
  BY FS_EmptySet
<1>5. HeartbeatTypeOK
  <2>1. archived \in Seq(SUBSET CandidateLines)
    BY <1>1
  <2>2. beat \in [Beating -> BeatStates]
    BY <1>1, <1>2
  <2>3. \A d \in Drives : working[d] = {}
    BY <1>1
  <2>4. time \in 0..MaxTime /\ beats \in 0..MaxBeats /\ beatFaults \in 0..MaxBeatFaults /\ 0 <= WorkingCap
    BY <1>1, HeartbeatAssumption
  <2> HIDE DEF WorkingItems, CandidateLines, BeatStates
  <2> QED
    BY <1>1, <1>4, <2>1, <2>2, <2>3, <2>4 DEF HeartbeatTypeOK
<1>6. Heartbeats = {} /\ Compactions = {} /\ Moving = {} /\ HalfDriven = {} /\ Driven = {}
  BY <1>1, <1>2, <1>3 DEF Heartbeats, Compactions, Moving, HalfDriven, Driven
<1>7. BeatsFit
  <2>1. BeatFits(AtRest)
    BY DEF BeatFits, AtRest
  <2> QED
    BY <1>2, <1>3, <2>1 DEF BeatsFit
<1>8. OthersUpset /\ StatesAgree
  BY <1>2, <1>3, <1>6 DEF OthersUpset, StatesAgree
<1>9. DocumentsFollow
  <2>1. ItemsFollow({})
    BY DEF ItemsFollow, EntriesOf, AtMostOne
  <2>2. \A d \in Drives : working[d] = {}
    BY <1>1
  <2>3. \A h \in Beating : beat[h].pc # "item"
    BY <1>2, <1>3
  <2> QED
    BY <2>1, <2>2, <2>3 DEF DocumentsFollow
<1>10. LinesFollow
  <2>1. DOMAIN archived = {}
    BY <1>1
  <2>2. ASSUME NEW e, NEW x PROVE x \notin LinesOf(e)
    BY <1>1, <1>6, <2>1, LineIsSomewhere
  <2>3. \A e : LinesOf(e) = {}
    BY <2>2
  <2> HIDE DEF LinesOf
  <2> QED
    BY <1>6, <2>3 DEF LinesFollow, AtMostOne
<1>11. CopiesAgree
  BY <1>2, <1>3 DEF CopiesAgree
<1> QED
  BY <1>5, <1>7, <1>8, <1>9, <1>10, <1>11 DEF HeartbeatInv

LEMMA HeartbeatStays ==
    ASSUME HeartbeatInv, [HeartbeatNext]_heartbeatVars
    PROVE  HeartbeatInv'
<1>0. /\ HeartbeatTypeOK /\ BeatsFit /\ OthersUpset /\ StatesAgree /\ DocumentsFollow /\ LinesFollow /\ CopiesAgree
      /\ time \in 0..MaxTime /\ arrived \subseteq Events /\ eligible \subseteq Events /\ MaxTime \in Nat
  BY HeartbeatAssumption DEF HeartbeatInv, HeartbeatTypeOK
<1>1. CASE PassTime
  <2>1. time' \in 0..MaxTime /\ time <= time'
    BY <1>0, <1>1 DEF PassTime
  <2> QED
    BY <1>0, <1>1, <2>1, EnvironmentKeeps DEF PassTime
<1>2. ASSUME NEW e \in Events, ArriveEvent(e) PROVE HeartbeatInv'
  <2>1. time <= time' /\ time' \in 0..MaxTime
    BY <1>0, <1>2 DEF ArriveEvent
  <2> QED
    BY <1>0, <1>2, <2>1, EnvironmentKeeps DEF ArriveEvent
<1>3. ASSUME NEW e \in Events, TriageCandidate(e) PROVE HeartbeatInv'
  <2>1. time <= time' /\ time' \in 0..MaxTime /\ eligible' \subseteq Events
    BY <1>0, <1>3 DEF TriageCandidate
  <2> QED
    BY <1>0, <1>3, <2>1, EnvironmentKeeps DEF TriageCandidate
<1>4. ASSUME NEW h \in Beating, BeatStep(h) \/ CompactStep(h) PROVE HeartbeatInv'
  <2>1. HeartbeatTypeOK' /\ BeatsFit'
    BY <1>0, <1>4, ProcessesKeepTypes, ProcessesKeepFit
  <2>2. OthersUpset' /\ StatesAgree'
    BY <1>0, <1>4, ProcessesKeepUpset, ProcessesKeepAgreement
  <2>3. DocumentsFollow' /\ LinesFollow' /\ CopiesAgree'
    BY <1>0, <1>4, ProcessesKeepDocuments, ProcessesKeepLines, ProcessesKeepCopies
  <2> QED
    BY <2>1, <2>2, <2>3 DEF HeartbeatInv
<1>5. CASE UNCHANGED heartbeatVars
  <2>1. time <= time' /\ time' \in 0..MaxTime
    BY <1>0, <1>5 DEF heartbeatVars
  <2> QED
    BY <1>0, <1>5, <2>1, EnvironmentKeeps DEF heartbeatVars
<1> QED
  BY <1>1, <1>2, <1>3, <1>4, <1>5 DEF HeartbeatNext

\* Whatever the processes, the events and their kinds: what the heartbeat's files hold and
\* what each process has in hand is well formed, and no document outgrows its cap.
THEOREM HeartbeatTypeCorrect == HeartbeatSpec => []HeartbeatTypeOK
<1>1. HeartbeatInv => HeartbeatTypeOK
  BY DEF HeartbeatInv
<1> QED
  BY <1>1, HeartbeatBegins, HeartbeatStays, PTL DEF HeartbeatSpec

\* An event becomes one item and one candidate at most, and a processed one has its candidate
\* (inner_drive.py, runtime.py and crystallized.py), for every number of processes and every
\* interleaving of heartbeats with compactions and kills: what two had in work at the same
\* time, or one that was killed, is what the property leaves out.
THEOREM EventsAreAlwaysDrivenOnce == HeartbeatSpec => []EventsAreDrivenOnce
<1>1. ASSUME HeartbeatInv PROVE EventsAreDrivenOnce
  <2> SUFFICES ASSUME NEW e \in arrived \ upset
               PROVE  /\ \A d \in Drives : AtMostOne(EntriesOf(working[d], e))
                      /\ AtMostOne(LinesOf(e))
                      /\ e \in processed /\ Of(e).candidate => LinesOf(e) # {}
    BY DEF EventsAreDrivenOnce
  <2>1. e \in Events \ upset
    BY <1>1 DEF HeartbeatInv, HeartbeatTypeOK
  <2>2. \A d \in Drives : AtMostOne(EntriesOf(working[d], e))
    BY <1>1, <2>1 DEF HeartbeatInv, DocumentsFollow, ItemsFollow
  <2>3. AtMostOne(LinesOf(e)) /\ (e \in Driven /\ Of(e).candidate => LinesOf(e) # {})
    BY <1>1, <2>1 DEF HeartbeatInv, LinesFollow
  <2>4. e \in processed => e \in Driven
    BY DEF Driven
  <2> QED
    BY <2>2, <2>3, <2>4
<1> QED
  BY <1>1, HeartbeatBegins, HeartbeatStays, PTL DEF HeartbeatSpec

==================================================================================
