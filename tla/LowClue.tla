-------------------------------- MODULE LowClue --------------------------------
(***************************************************************************)
(* The shortlist for a question that says too little ("that thing from     *)
(* last time"), with low_clue_recall enabled (hermes/memory_os/            *)
(* low_clue_recall.py): candidates from five sources, one for each label;  *)
(* those of one topic merged; no more than a few of one source; and a      *)
(* decision how to ask.  A label is the set of its topic terms: titles,    *)
(* redaction and stop words are left out.  Scores are in hundredths.       *)
(* An operator named Faulty... is a definition with a bug put in.          *)
(***************************************************************************)
EXTENDS Integers, Sequences, FiniteSets

LOCAL INSTANCE SequencesExt
LOCAL INSTANCE FiniteSetsExt

CONSTANTS
  Clues,             \* what may be noted: records of a source, a kind and a label
  TermsOf,           \* the topic terms of a label
  Mechanistic,       \* labels that read like the program's own notes
  NonTopic,          \* labels that cannot be a title: uploads, tool output, commands
  TailOf,            \* how many of the latest clues of a source are read
  CorrectionTail,    \* how many of the latest are searched for a correction
  CandidateLimits,   \* what candidate_limit may be set to
  MaxClues           \* bound: clues of a behaviour

ClueSources == <<"deferred_foreground", "working", "event", "memory_sources", "feedback">>

BaseScore == [deferred_foreground |-> 48, working |-> 35, event |-> 25, memory_sources |-> 3, feedback |-> 20]

\* The ratings of an owner's feedback, and events that correct or that the program made itself.
Correcting == {"correction", "clarification_rejected", "missing_candidate", "needs_specific_recall"}
NoCandidate == {"governance", "clarification_rejected"}

ASSUME LowClueAssumption ==
  /\ \A c \in Clues : c.source \in ToSet(ClueSources) /\ c.label \in DOMAIN TermsOf
  /\ CandidateLimits \subseteq Nat \ {0} /\ MaxClues \in Nat
  /\ \A s \in ToSet(ClueSources) : {TailOf[s], CorrectionTail[s]} \subseteq Nat

VARIABLES
  clues,    \* what was noted, oldest first: the sources' files put together
  asked     \* the shortlist for the question at hand, a sequence of none or one

lowClueVars == <<clues, asked>>

-----------------------------------------------------------------------------
(* The candidates.                                                         *)

Latest(source, n) ==
  {i \in DOMAIN clues :
     /\ clues[i].source = source
     /\ Cardinality({j \in DOMAIN clues : j > i /\ clues[j].source = source}) < n}

GathersFrom(source) ==
  {i \in Latest(source, TailOf[source]) :
     /\ clues[i].kind \notin NoCandidate
     /\ source \in {"working", "event", "memory_sources"} => clues[i].label \notin Mechanistic}

Corrected ==
  \E s \in {"event", "feedback"} : \E i \in Latest(s, CorrectionTail[s]) : clues[i].kind \in Correcting

\* The clues of one label are one candidate: of the class that is read first, with the best
\* score and the latest time.
OneCandidate(label, found) ==
  LET classes == {clues[i].source : i \in found}
      class == ClueSources[Min({k \in DOMAIN ClueSources : ClueSources[k] \in classes})]
  IN [label |-> label, class |-> class, classes |-> classes, at |-> Max(found),
      score |-> Max({BaseScore[c] : c \in classes})]

Candidates ==
  LET found == UNION {GathersFrom(s) : s \in ToSet(ClueSources)}
  IN {OneCandidate(label, {i \in found : clues[i].label = label}) : label \in {clues[i].label : i \in found}}

UpTo(n, limit) == IF n > limit THEN limit ELSE n
NoLess(n, limit) == IF n < limit THEN limit ELSE n

RankScore(candidate, query) ==
  LET matches == query \cap TermsOf[candidate.label]
  IN UpTo(candidate.score + UpTo(25 * Cardinality(matches), 50)
              + (IF query # {} /\ query \subseteq TermsOf[candidate.label] THEN 20 ELSE 0), 100)

Better(c, d) == c.score > d.score \/ (c.score = d.score /\ c.at > d.at)

Ranked(S) == [k \in 1..Cardinality(S) |-> CHOOSE c \in S : Cardinality({d \in S : Better(d, c)}) = k - 1]

\* What may be a topic, the best first; a correction lowers every score alike.
Eligible(query, corrected) ==
  LET ranked == Ranked({[c EXCEPT !.score = RankScore(c, query)] : c \in Candidates})
      Lowered(c) == [c EXCEPT !.score = IF corrected THEN NoLess(@ - 5, 0) ELSE @]
      topics == SelectSeq(ranked, LAMBDA c : c.label \notin NonTopic)
  IN [k \in DOMAIN topics |-> Lowered(topics[k])]

-----------------------------------------------------------------------------
(* The topics.  A candidate joins the first topic that it shares enough    *)
(* terms with, and brings its own terms.                                   *)

SameTopic(left, right) ==
  /\ left # {} /\ right # {}
  /\ LET overlap == Cardinality(left \cap right)
     IN overlap >= 2 \/ 100 * overlap >= 45 * Cardinality(left \cup right)

Joined(topics, candidate) ==
  LET terms == TermsOf[candidate.label]
      same == {k \in DOMAIN topics : SameTopic(terms, topics[k].terms)}
  IN IF same = {} THEN Append(topics, [terms |-> terms, members |-> {candidate}])
     ELSE [topics EXCEPT ![Min(same)] = [terms |-> @.terms \cup terms, members |-> @.members \cup {candidate}]]

\* _cluster_to_candidate: the best member stands for the topic, and each other one adds to it.
Topic(topic, number) ==
  LET primary == CHOOSE c \in topic.members : \A d \in topic.members : ~Better(d, c)
  IN [number |-> number, label |-> primary.label, class |-> primary.class, at |-> primary.at,
      classes |-> UNION {c.classes : c \in topic.members},
      score |-> UpTo(primary.score + UpTo(4 * (Cardinality(topic.members) - 1), 12), 100)]

Topics(query, corrected) ==
  LET topics == FoldLeft(Joined, <<>>, Eligible(query, corrected))
  IN Ranked({Topic(topics[k], k) : k \in DOMAIN topics})

-----------------------------------------------------------------------------
(* The choice.                                                             *)

Cut(s, limit) == SubSeq(s, 1, UpTo(Len(s), limit))

MinSelectScore == 12
MinSlotScore == 3

\* The first topics of each class.
Picked(topics, limit, corrected) ==
  LET perSource == IF corrected THEN 1 ELSE 2
      Strong(k) == topics[k].score >= MinSelectScore
      Ahead(k) == {j \in 1..k - 1 : Strong(j) /\ topics[j].class = topics[k].class}
      chosen == {k \in DOMAIN topics : Strong(k) /\ Cardinality(Ahead(k)) < perSource}
  IN Cut([n \in 1..Cardinality(chosen) |->
            topics[CHOOSE k \in chosen : Cardinality({j \in chosen : j < k}) = n - 1]], limit)

ClassesIn(topics) == UNION {topics[k].classes : k \in DOMAIN topics}

\* The topic for the diversity slot: the first one with a class that no picked one has.
ForTheSlot(topics, picked, limit) ==
  IF limit = 1 \/ Cardinality(ClassesIn(picked)) # 1 THEN {}
  ELSE LET other == {k \in DOMAIN topics : topics[k].classes \ ClassesIn(picked) # {} /\ topics[k].score >= MinSlotScore}
       IN IF other = {} THEN {} ELSE {Min(other)}

WithSlot(topics, picked, limit) ==
  LET slot == ForTheSlot(topics, picked, limit)
  IN IF slot = {} THEN picked
     ELSE Append(IF Len(picked) < limit THEN picked ELSE Front(picked), topics[CHOOSE k \in slot : TRUE])

\* What was passed over fills the places that are left: it is noted before the slot is given.
Shortlist(topics, query, limit, corrected) ==
  IF query # {} THEN Cut(topics, limit)
  ELSE LET picked == Picked(topics, limit, corrected)
           passedOver == SelectSeq(topics, LAMBDA t : t \notin ToSet(picked))
       IN Cut(WithSlot(topics, picked, limit) \o (IF Len(picked) < limit THEN passedOver ELSE <<>>), limit)

\* A margin that is just the threshold may come out below it: scores are binary fractions.
AskHow(shortlist, exact) ==
  IF shortlist = <<>> THEN "ask_keyword"
  ELSE LET top == shortlist[1].score
           margin == IF Len(shortlist) = 1 THEN 100 ELSE top - shortlist[2].score
           Clear(least) == margin > least \/ (margin = least /\ exact)
       IN IF top >= 75 /\ Clear(20) THEN "direct_resume"
          ELSE IF Len(shortlist) = 1 \/ (top >= 55 /\ Clear(15)) THEN "confirm_one" ELSE "ask_choice"

-----------------------------------------------------------------------------
LowClueInit == clues = <<>> /\ asked = <<>>

\* A source notes something: a turn, a deferred task, a recall or the owner's feedback.
NoteClue(clue) ==
  /\ Len(clues) < MaxClues
  /\ clues' = Append(clues, clue) /\ asked' = <<>>

\* build_low_clue_guard_lines: the model is told the shortlist and how to ask.
AskVaguely(query, limit, exact) ==
  /\ \E corrected \in {Corrected} : \E topics \in {Topics(query, corrected)} :
       \E shortlist \in {Shortlist(topics, query, limit, corrected)} :
         asked' = <<[query |-> query, limit |-> limit, topics |-> topics, shortlist |-> shortlist,
                     decision |-> AskHow(shortlist, exact)]>>
  /\ UNCHANGED clues
LowClueNext ==
  \/ \E clue \in Clues : NoteClue(clue)
  \/ \E query \in SUBSET UNION {TermsOf[l] : l \in DOMAIN TermsOf}, limit \in CandidateLimits, exact \in BOOLEAN :
       AskVaguely(query, limit, exact)

LowClueTypeOK ==
  /\ clues \in Seq(Clues) /\ Len(clues) <= MaxClues
  /\ Len(asked) <= 1
  /\ \A a \in ToSet(asked) :
       /\ Len(a.shortlist) <= a.limit
       /\ ToSet(a.shortlist) \subseteq ToSet(a.topics)
       /\ a.decision \in {"ask_keyword", "confirm_one", "ask_choice", "direct_resume"}

-----------------------------------------------------------------------------
(* What a shortlist promises.                                              *)

Repeats(list) == {p \in (DOMAIN list) \X (DOMAIN list) : p[1] < p[2] /\ list[p[1]].number = list[p[2]].number}

\* A topic is offered once.  Only the one that took the diversity slot, after topics of a
\* single source, may come again: as too weak, or one too many of that source, it was noted
\* among those passed over.
TopicsAreOfferedOnce(a) ==
  /\ Cardinality(Repeats(a.shortlist)) <= 1
  /\ \A p \in Repeats(a.shortlist) :
       LET slot == a.shortlist[p[1]]
           before == ClassesIn(SubSeq(a.shortlist, 1, p[1] - 1))
       IN /\ a.query = {} /\ Cardinality(before) = 1 /\ slot.classes \ before # {}
          /\ slot.score < MinSelectScore \/ slot.class \in before

\* A vague question is not answered from one source if another has a topic to offer.
SourcesAreMixed(a) ==
  a.query = {} /\ a.limit > 1
    /\ Cardinality(UNION {t.classes : t \in {u \in ToSet(a.topics) : u.score >= MinSlotScore}}) > 1
    => Cardinality(ClassesIn(a.shortlist)) > 1

\* Neither the slot nor the limit of a source takes the lead from the best topic.
BestTopicLeads(a) == a.topics # <<>> => a.shortlist # <<>> /\ a.shortlist[1] = a.topics[1]

\* Without a term of the question to go by, no heap of merged notes makes the model resume
\* a topic unasked.
VagueIsNotResumed(a) == a.query = {} => a.decision # "direct_resume"

ShortlistsAreSound ==
  \A a \in ToSet(asked) :
    TopicsAreOfferedOnce(a) /\ SourcesAreMixed(a) /\ BestTopicLeads(a) /\ VagueIsNotResumed(a)
================================================================================
