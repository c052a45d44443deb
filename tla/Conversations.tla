----------------------------- MODULE Conversations -----------------------------
(***************************************************************************)
(* Messages and their answers (core/conversation.py, telegram_bot.py, the  *)
(* chat and resume commands).  A handler takes a message of a user in one  *)
(* transaction, lets an agent run or the chat workflow work on it in       *)
(* others, and answers in a last one; it can be killed in between.  A      *)
(* message to the bot answers the user's pending question, if there is one.*)
(***************************************************************************)
EXTENDS Naturals, Sequences, FiniteSets

CONSTANTS
  Bot,           \* the process of telegram serve
  Chats,         \* processes of the chat command
  Members,       \* users of the bot
  Local,         \* the user of the chat command
  MaxActions,    \* bound: actions of an agent run
  MaxMessages,   \* bound: messages, commands to the bot and runs of the command line
  MaxCrashes     \* bound: handlers killed

ASSUME ConversationsAssumption ==
  Bot \notin Chats /\ Local \notin Members /\ {MaxActions, MaxMessages, MaxCrashes} \subseteq Nat

Handlers == {Bot} \cup Chats
Users == Members \cup {Local}
Serves(h) == IF h = Bot THEN Members ELSE {Local}
None == 0

VARIABLES
  conversations,  \* conversations: their users
  messages,       \* messages
  runs,           \* runs, with their clarification requests
  hands,          \* what a handler is doing
  used, crashes   \* bounds

conversationVars == <<conversations, messages, runs, hands, used, crashes>>

Idle == [at |-> "idle", user |-> None, conv |-> None, message |-> None, run |-> None, actions |-> 0]

ConversationsInit ==
  /\ conversations = <<>> /\ messages = <<>> /\ runs = <<>>
  /\ hands = [h \in Handlers |-> Idle]
  /\ used = 0 /\ crashes = 0

ConversationsOf(user) == {i \in 1..Len(conversations) : conversations[i] = user}
Greatest(ids) == CHOOSE i \in ids : \A j \in ids : i >= j

\* A run of a conversation; its question is pending while it waits.
NewRun(conv, kind, status) ==
  [conv |-> conv, kind |-> kind, status |-> status, asked |-> status = "waiting_input", answered |-> None]

AddRun(conv, kind, status) == runs' = Append(runs, NewRun(conv, kind, status))

\* The handler answers its user and is done.
Ends(h) == hands' = [hands EXCEPT ![h] = Idle]

(***************************************************************************)
(* TelegramMessageRouter.handle_text                                       *)
(***************************************************************************)
FaultyBelongsTo(run, user) == TRUE   \* any user's question

BelongsTo(run, user) == conversations[run.conv] = user

FaultyPendingRuns(user) ==   \* looks in one conversation only
  {i \in 1..Len(runs) : runs[i].conv \in ConversationsOf(user)
                        /\ \A c \in ConversationsOf(user) : runs[i].conv >= c
                        /\ runs[i].status = "waiting_input" /\ runs[i].asked}

\* The query of _pending_telegram_run_id and _cancel_pending_run.
PendingRuns(user) ==
  {i \in 1..Len(runs) : BelongsTo(runs[i], user) /\ runs[i].status = "waiting_input" /\ runs[i].asked}

\* A message to the bot: the latest pending run takes it.
TakeBotMessage(user) ==
  /\ hands[Bot].at = "idle" /\ used < MaxMessages /\ used' = used + 1
  /\ IF PendingRuns(user) = {} THEN hands' = [hands EXCEPT ![Bot].at = "finding", ![Bot].user = user]
     ELSE hands' = [hands EXCEPT ![Bot].at = "resuming", ![Bot].user = user,
                                 ![Bot].run = Greatest(PendingRuns(user))]
  /\ UNCHANGED <<conversations, messages, runs, crashes>>

Statuses == {"completed", "failed", "waiting_input"}

\* WorkflowRunner.resume with an answer: an intent clarification is then
\* completed, a manual review takes only its choices, a workflow goes on.
Resumed(i, by) ==
  \/ /\ runs[i].kind = "intent"
     /\ runs' = [runs EXCEPT ![i] = [@ EXCEPT !.status = "completed", !.asked = FALSE, !.answered = by]]
  \/ /\ runs[i].kind = "workflow"
     /\ \E status \in Statuses :
          runs' = [runs EXCEPT ![i] = [@ EXCEPT !.status = status, !.asked = status = "waiting_input",
                                                !.answered = by]]

\* The bot resumes for its user; an error, of an answered question or of an
\* answer that is not a choice, is the reply.
ResumePending ==
  LET i == hands[Bot].run
  IN /\ hands[Bot].at = "resuming" /\ Ends(Bot)
     /\ IF runs[i].asked /\ BelongsTo(runs[i], hands[Bot].user)
        THEN Resumed(i, hands[Bot].user) \/ runs' = runs
        ELSE runs' = runs
     /\ UNCHANGED <<conversations, messages, used, crashes>>

\* /run: WorkflowRunner.run in a conversation of its own.
RunCommand(user) ==
  /\ hands[Bot].at = "idle" /\ used < MaxMessages /\ used' = used + 1
  /\ conversations' = Append(conversations, user)
  /\ \E status \in Statuses : AddRun(Len(conversations) + 1, "workflow", status)
  /\ UNCHANGED <<messages, hands, crashes>>

FaultyCancelCommand(user) ==   \* leaves the question
  /\ hands[Bot].at = "idle" /\ PendingRuns(user) # {}
  /\ runs' = [runs EXCEPT ![Greatest(PendingRuns(user))] = [@ EXCEPT !.status = "cancelled"]]
  /\ UNCHANGED <<conversations, messages, hands, used, crashes>>

\* /cancel.
CancelCommand(user) ==
  /\ hands[Bot].at = "idle" /\ PendingRuns(user) # {}
  /\ runs' = [runs EXCEPT ![Greatest(PendingRuns(user))] = [@ EXCEPT !.status = "cancelled", !.asked = FALSE]]
  /\ UNCHANGED <<conversations, messages, hands, used, crashes>>

\* agentend resume --answer: no owner is expected.
ResumeCommand(i) ==
  /\ runs[i].asked /\ Resumed(i, Local)
  /\ UNCHANGED <<conversations, messages, hands, used, crashes>>

\* agentend chat --agent: an agent run in a conversation of its own.
AgentCommand ==
  /\ used < MaxMessages /\ used' = used + 1
  /\ conversations' = Append(conversations, Local)
  /\ UNCHANGED <<messages, runs, hands, crashes>>

(***************************************************************************)
(* ConversationService.handle_message                                      *)
(***************************************************************************)
TakeChatMessage(h) ==
  /\ hands[h].at = "idle" /\ used < MaxMessages /\ used' = used + 1
  /\ hands' = [hands EXCEPT ![h].at = "finding", ![h].user = Local]
  /\ UNCHANGED <<conversations, messages, runs, crashes>>

\* The query for the user's conversation: none, one, or an exception.
FindConversation(h) ==
  LET found == ConversationsOf(hands[h].user)
  IN /\ hands[h].at = "finding"
     /\ hands' = IF Cardinality(found) > 1 THEN [hands EXCEPT ![h].at = "ambiguous"]
                 ELSE [hands EXCEPT ![h].at = "receiving",
                                    ![h].conv = IF found = {} THEN None ELSE Greatest(found)]
     /\ UNCHANGED <<conversations, messages, runs, used, crashes>>

\* MultipleResultsFound leaves the handler: nothing of the message is kept.
RaiseAmbiguous(h) ==
  /\ hands[h].at = "ambiguous" /\ Ends(h)
  /\ UNCHANGED <<conversations, messages, runs, used, crashes>>

Message(conv, of, run) == [conv |-> conv, of |-> of, run |-> run]

\* The first transaction ends: the conversation that was not found is made,
\* the message is there and its intent is known.
ReceiveMessage(h, route) ==
  LET new == hands[h].conv = None
      conv == IF new THEN Len(conversations) + 1 ELSE hands[h].conv
  IN /\ hands[h].at = "receiving"
     /\ conversations' = IF new THEN Append(conversations, hands[h].user) ELSE conversations
     /\ messages' = Append(messages, Message(conv, None, None))
     /\ hands' = [hands EXCEPT ![h].at = route, ![h].conv = conv, ![h].message = Len(messages) + 1]
     /\ UNCHANGED <<runs, used, crashes>>

\* A run is made for the message, and its result will be the answer.
Answering(h) == hands' = [hands EXCEPT ![h].at = "answering", ![h].run = Len(runs) + 1]

\* simple_chat; a failure leaves the handler as an exception.
RunChat(h, status) ==
  /\ hands[h].at = "chat"
  /\ AddRun(hands[h].conv, "workflow", status)
  /\ IF status = "failed" THEN Ends(h) ELSE Answering(h)
  /\ UNCHANGED <<conversations, messages, used, crashes>>

FaultyGateAgentRun(h, status) ==   \* a run that waits says nothing
  /\ hands[h].at = "gate"
  /\ AddRun(hands[h].conv, "intent", status)
  /\ IF status = "waiting_input" THEN Ends(h) ELSE Answering(h)
  /\ UNCHANGED <<conversations, messages, used, crashes>>

\* The intent gate of an agent run.
GateAgentRun(h, status) ==
  /\ hands[h].at = "gate"
  /\ AddRun(hands[h].conv, "intent", status)
  /\ Answering(h)
  /\ UNCHANGED <<conversations, messages, used, crashes>>

\* An action of an agent run: a skill or workflow in the conversation, or a
\* tool with a conversation of its own (_execute_tool).
AgentAction(h, tool, status) ==
  LET conv == IF tool THEN Len(conversations) + 1 ELSE hands[h].conv
      more == status = "failed" /\ hands[h].actions < MaxActions
  IN /\ hands[h].at = "agent"
     /\ conversations' = IF tool THEN Append(conversations, hands[h].user) ELSE conversations
     /\ AddRun(conv, IF tool THEN "tool" ELSE "workflow", status)
     /\ hands' = [hands EXCEPT ![h].at = IF more THEN "agent" ELSE "answering",
                               ![h].run = Len(runs) + 1, ![h].actions = @ + 1]
     /\ UNCHANGED <<messages, used, crashes>>

FaultyAnswerMessage(h) ==   \* answers where the run was
  /\ hands[h].at = "answering" /\ Ends(h)
  /\ messages' = Append(messages, Message(runs[hands[h].run].conv, hands[h].message, hands[h].run))
  /\ UNCHANGED <<conversations, runs, used, crashes>>

\* The last transaction: record_intent_decision and the answer.
AnswerMessage(h) ==
  /\ hands[h].at = "answering" /\ Ends(h)
  /\ messages' = Append(messages, Message(hands[h].conv, hands[h].message, hands[h].run))
  /\ UNCHANGED <<conversations, runs, used, crashes>>

\* The process of a handler is killed.
CrashHandler(h) ==
  /\ hands[h].at # "idle" /\ crashes < MaxCrashes
  /\ crashes' = crashes + 1 /\ Ends(h)
  /\ UNCHANGED <<conversations, messages, runs, used>>

HandleMessage(h) ==
  \/ FindConversation(h)
  \/ RaiseAmbiguous(h)
  \/ \E route \in {"chat", "agent", "gate"} : ReceiveMessage(h, route)
  \/ \E status \in {"completed", "failed"} : RunChat(h, status)
  \/ \E status \in {"waiting_input", "blocked"} : GateAgentRun(h, status)
  \/ \E tool \in BOOLEAN, status \in {"completed", "failed"} : AgentAction(h, tool, status)
  \/ AnswerMessage(h)

ConversationsNext ==
  \/ \E user \in Members : TakeBotMessage(user) \/ RunCommand(user) \/ CancelCommand(user)
  \/ ResumePending
  \/ \E h \in Chats : TakeChatMessage(h)
  \/ \E i \in 1..Len(runs) : ResumeCommand(i)
  \/ AgentCommand
  \/ \E h \in Handlers : HandleMessage(h) \/ CrashHandler(h)

ConversationsSpec == ConversationsInit /\ [][ConversationsNext]_conversationVars

(***************************************************************************)
(* Properties                                                              *)
(***************************************************************************)
\* Rows refer to rows that are there.
ConversationsTypeOK ==
  /\ \A i \in 1..Len(conversations) : conversations[i] \in Users
  /\ \A i \in 1..Len(messages) :
       messages[i].conv \in 1..Len(conversations) /\ messages[i].of \in 0..(i - 1)
       /\ messages[i].run \in 0..Len(runs)
  /\ \A i \in 1..Len(runs) :
       /\ runs[i].conv \in 1..Len(conversations)
       /\ runs[i].status \in Statuses \cup {"blocked", "cancelled"}
       /\ runs[i].asked => runs[i].status = "waiting_input"
  /\ \A h \in Handlers : hands[h].user \in Serves(h) \cup {None}
  /\ used \in 0..MaxMessages /\ crashes \in 0..MaxCrashes

Answers(i) == {j \in 1..Len(messages) : messages[j].of = i}

\* However handlers interleave and whatever conversations they make, an
\* answer is one of its question: in its conversation, the only one, from a
\* run of the same user.
AnswersFollowQuestions ==
  \A i \in 1..Len(messages) : messages[i].of = None =>
    /\ Cardinality(Answers(i)) <= 1
    /\ \A j \in Answers(i) :
         /\ messages[j].conv = messages[i].conv
         /\ conversations[runs[messages[j].run].conv] = conversations[messages[i].conv]

\* A message stays without an answer only when its handler was killed or
\* the chat workflow failed.
SilenceNeedsAFailure ==
  Cardinality({i \in 1..Len(messages) : messages[i].of = None /\ Answers(i) = {}
                 /\ \A h \in Handlers : hands[h].message # i})
    <= crashes + Cardinality({i \in 1..Len(runs) : runs[i].status = "failed"})

\* A question is answered by its user, or by the operator of the machine.
OnlyOwnersAnswer ==
  \A i \in 1..Len(runs) : runs[i].answered \in {None, Local, conversations[runs[i].conv]}

\* A message that a member sends while one of the member's runs waits
\* answers the run, in whatever conversation the run is, and is no new goal.
QuestionsCatchMessages ==
  [][hands'[Bot].at = "finding" /\ hands[Bot].at # "finding" =>
       \A i \in 1..Len(runs) : runs[i].asked => conversations[runs[i].conv] # hands'[Bot].user]_conversationVars

\* A user's conversation is found again and used again.
ConversationsAreReused == \A h \in Handlers : hands[h].at # "ambiguous"

\* The bot and the chats, killed and overtaken at any point: every message gets its own
\* answer, from a run of its user, and silence has a cause.
ConversationsMakeSense == AnswersFollowQuestions /\ SilenceNeedsAFailure /\ OnlyOwnersAnswer
================================================================================
