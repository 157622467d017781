----------------------------- MODULE GroupRounds -----------------------------
(***************************************************************************)
(* What the agents of a chat read and who of them speaks: the rounds of    *)
(* replies to a user message (server/src/runtime/turn.ts and group.ts),    *)
(* the rows a turn stores and the requests it makes of them                *)
(* (agent-runtime/src/loop.ts, replies.ts and context.ts), and the         *)
(* summaries that take the place of older messages (compaction.ts).        *)
(*                                                                         *)
(* Rounds, deletions and requested compactions take the chat's lock, which *)
(* TurnCoordinator models; here it is free or taken.  The list of members  *)
(* changes without it.  A text is its author and whom it mentions, every   *)
(* message has the same size, and the ids of calls are unique.             *)
(***************************************************************************)
EXTENDS Naturals, Sequences, FiniteSets, SequencesExt, Filter

CONSTANTS
  Chair,         \* the agent that owns the chat
  Memberships,   \* the lists of members it may have, in speaking order
  Mentions,      \* the lists of agents that one message may mention
  Uses,          \* the lists of tools that one answer of the model may call
  SendTool,      \* send_message, one of those tools
  ContextSize,   \* maxContext, in messages
  CompactSize,   \* AUTO_COMPACT_RATIO of it
  SummarySize,   \* REQUEST_SHARE of it
  AutoCompactMin,              \* AUTO_COMPACT_MIN_MESSAGES
  MaxModelSteps,               \* the step cap of a turn
  MaxMessages, MaxDisturbances \* bounds

ASSUME GroupMembersAssumption ==
  \A list \in Memberships : /\ list \in Seq(ToSet(list)) /\ IsInjective(list)
                            /\ Chair \notin ToSet(list)
ASSUME GroupMentionsAssumption == \A list \in Mentions : list \in Seq(ToSet(list))
ASSUME GroupUsesAssumption == \A list \in Uses : list \in Seq(ToSet(list))
ASSUME GroupBoundsAssumption ==
  /\ {ContextSize, CompactSize, SummarySize, AutoCompactMin, MaxMessages, MaxDisturbances}
       \subseteq Nat
  /\ MaxModelSteps \in Nat \ {0}

VARIABLES
  messages,     \* the rows of the chat
  lastId,       \* the id of the newest row or call
  memberIds,    \* the chat's members; none for an agent's own chat
  doing,        \* what the holder of the lock does; "nothing" when it is free
  round,        \* the round: its participants and who waits, has answered and said what
  speech,       \* the turn: its agent, what it has read, its calls still to execute
  summing,      \* the rows that a compaction gave to the model while it asks, or NoSum
  aborted,      \* the round was stopped
  unanswered,   \* history: calls whose result a stop, an error or a deletion took away
  disturbances  \* stops, errors, deletions, steering messages, mail, changes of members

groupVars == <<messages, lastId, memberIds, doing, round, speech, summing, aborted,
               unanswered, disturbances>>

User == "user"  \* the author of a message that no agent wrote
ASSUME GroupUserAssumption == \A list \in Memberships : User \notin {Chair} \cup ToSet(list)

NoSum == [on |-> FALSE, rows |-> {}]
NoRound == [chat |-> <<>>, waiting |-> <<>>, answered |-> {}, said |-> {}, from |-> 0]
NoSpeech == [agent |-> User, read |-> <<>>, pending |-> <<>>, step |-> 0, from |-> 0]
Doing == {"nothing", "next", "ask", "model", "tools", "stop", "over", "failed", "ended"}

Participants(list) == <<Chair>> \o list
Speakers == UNION {ToSet(Participants(list)) : list \in Memberships}
IsGroup == memberIds # <<>>
Free == doing = "nothing" /\ ~summing.on

Kinds == {"user", "assistant", "sent", "tool", "summary"}
Tools == {SendTool, "none"} \cup UNION {ToSet(uses) : uses \in Uses}
Call == [id : Nat, tool : Tools]
Row == [id : Nat, kind : Kinds, by : Speakers \cup {User}, says : BOOLEAN,
        names : Mentions \cup {<<>>}, calls : Seq(Call), of : Nat, tool : Tools,
        covers : SUBSET Nat]

GroupTypeOK ==
  /\ messages \in Seq(Row) /\ lastId \in Nat
  /\ memberIds \in Memberships /\ doing \in Doing
  /\ round \in [chat : Memberships \cup {<<>>}, waiting : Seq(Speakers),
                answered : SUBSET Speakers, said : SUBSET Nat, from : Nat]
  /\ speech \in [agent : Speakers \cup {User}, read : Seq(Row), pending : Seq(Call),
                 step : 0 .. MaxModelSteps, from : Nat]
  /\ summing \in [on : BOOLEAN, rows : SUBSET Nat]
  /\ aborted \in BOOLEAN /\ unanswered \in SUBSET Nat /\ disturbances \in 0 .. MaxDisturbances
  /\ \A i \in DOMAIN messages : messages[i].id <= lastId

GroupInit ==
  /\ messages = <<>> /\ lastId = 0 /\ memberIds \in Memberships
  /\ doing = "nothing" /\ round = NoRound /\ speech = NoSpeech /\ summing = NoSum
  /\ aborted = FALSE /\ unanswered = {} /\ disturbances = 0

-----------------------------------------------------------------------------
\* Rows.

Disturb == disturbances < MaxDisturbances /\ disturbances' = disturbances + 1

\* A row, with the id that is n after the newest.
NewMessage(n, kind, by) ==
  [id |-> lastId + n, kind |-> kind, by |-> by, says |-> TRUE, names |-> <<>>,
   calls |-> <<>>, of |-> 0, tool |-> "none", covers |-> {}]
UserMessage(names) == [NewMessage(1, "user", User) EXCEPT !.names = names]
SentMessage(n, names) == [NewMessage(n, "sent", speech.agent) EXCEPT !.names = names]
ResultOf(n, c) == [NewMessage(n, "tool", speech.agent) EXCEPT !.of = c.id, !.tool = c.tool]
CallIds(calls) == {calls[i].id : i \in DOMAIN calls}

StoreAll(new) ==
  /\ Len(messages) < MaxMessages
  /\ messages' = messages \o new /\ lastId' = lastId + Len(new)

\* sinceCompaction(): the newest summary's place, and the rows after it.
LastSummary(rs) == SelectLastInSeq(rs, LAMBDA r : r.kind = "summary")
SinceCompaction(rs) == SubSeq(rs, LastSummary(rs) + 1, Len(rs))

-----------------------------------------------------------------------------
\* replies.ts: which rows are replies.

\* No user message between the two rows.
SameRound(rs, i, j) == \A k \in i .. j \cup j .. i : rs[k].kind # "user"

\* A sent message, or a text of an agent that sent none in the same round.
IsReply(rs, i) ==
  \/ rs[i].kind = "sent"
  \/ /\ rs[i].kind = "assistant" /\ rs[i].says
     /\ \A j \in DOMAIN rs :
          rs[j].kind = "sent" /\ rs[j].by = rs[i].by => ~SameRound(rs, i, j)

-----------------------------------------------------------------------------
\* loop.ts and context.ts: what the model gets.

\* toProviderMessages(): the rows since the last summary.  In a group chat a
\* reply of another agent reads as a user message and its other rows stay out;
\* what the agent sent is in its calls already.
AsRead(agent, rs, i) ==
  LET foreign == IsGroup /\ rs[i].kind # "user" /\ rs[i].by # agent
  IN  IF ~foreign THEN rs[i]
      ELSE [rs[i] EXCEPT !.kind = IF IsReply(rs, i) THEN "user" ELSE "left out", !.calls = <<>>]

History(agent, rs) ==
  LET rest == SinceCompaction(rs)
      read == [i \in DOMAIN rest |-> AsRead(agent, rest, i)]
  IN  Restrict(read, {i \in DOMAIN rest : read[i].kind \in {"user", "assistant", "tool"}})

\* A mutant of TurnStarts: the transcript is cut anywhere.
AnyStart(h) == DOMAIN h

\* trimToBudget(): the newest turns that fit, at least the newest; a turn starts
\* at a user message.
TurnStarts(h) == {i \in DOMAIN h : h[i].kind = "user" \/ \A j \in DOMAIN h : i <= j}
Trimmed(h) ==
  LET fit == {i \in TurnStarts(h) : \/ Cardinality({j \in DOMAIN h : i <= j}) <= ContextSize
                                    \/ \A j \in TurnStarts(h) : j <= i}
  IN  Restrict(h, {j \in DOMAIN h : \E i \in fit : i <= j})

Request == Trimmed(History(speech.agent, speech.read))

-----------------------------------------------------------------------------
\* group.ts and turn.ts: who answers.

\* A text of `texts` first mentions a before any mentions b.
MentionedBefore(texts, a, b) ==
  \E i \in DOMAIN texts : \E k \in DOMAIN texts[i] :
    /\ texts[i][k] = a
    /\ \A j \in DOMAIN texts : \A l \in DOMAIN texts[j] :
         texts[j][l] = b => i < j \/ (i = j /\ k < l)

\* mentionedAgents(): the agents, each once, in first-mention order (one list).
InMentionOrder(texts, agents) ==
  {list \in [1 .. Cardinality(agents) -> agents] :
     \A p, q \in DOMAIN list : p < q => MentionedBefore(texts, list[p], list[q])}

\* The participants of a chat that the texts mention.
Mentioned(list, texts) ==
  ToSet(Participants(list)) \cap UNION {ToSet(texts[i]) : i \in DOMAIN texts}

\* respondersFor(): the participants that the message mentions, or all.
RespondersFor(list, names) ==
  IF Mentioned(list, <<names>>) = {} THEN {Participants(list)}
  ELSE InMentionOrder(<<names>>, Mentioned(list, <<names>>))

\* A mutant of Handoffs: who waits already may be handed the floor as well.
HandoffsToWaiting(texts) ==
  InMentionOrder(texts, Mentioned(round.chat, texts) \ round.answered)

\* handoffs(): the participants mentioned that neither answered nor wait.
Handoffs(texts) ==
  InMentionOrder(texts,
                 Mentioned(round.chat, texts) \ (round.answered \cup ToSet(round.waiting)))

\* A message of the user is stored and a round begins; a chat without members is
\* answered by its owner.  (The queue stores it before the round, others within
\* the first turn.)
StartRound(names) ==
  /\ Free
  /\ StoreAll(<<UserMessage(names)>>)
  /\ \E responders \in RespondersFor(memberIds, names) :
       round' = [NoRound EXCEPT !.chat = memberIds, !.from = lastId + 1,
                                !.waiting = responders]
  /\ doing' = "next"
  /\ UNCHANGED <<memberIds, speech, summing, aborted, unanswered, disturbances>>

NextSpeaker == Head(round.waiting)
Called == [round EXCEPT !.waiting = Tail(@), !.answered = @ \cup {NextSpeaker}]

\* The next agent takes its turn, and with it the mail that waits for it
\* (AgentMail); it then reads the transcript.
BeginSpeech(withMail) ==
  /\ doing = "next" /\ ~aborted
  /\ NextSpeaker \in ToSet(Participants(memberIds))
  /\ IF withMail THEN Disturb /\ StoreAll(<<UserMessage(<<>>)>>)
                 ELSE UNCHANGED <<messages, lastId, disturbances>>
  /\ round' = Called
  /\ speech' = [NoSpeech EXCEPT !.agent = NextSpeaker, !.read = messages', !.step = 1,
                                !.from = lastId]
  /\ doing' = "ask"
  /\ UNCHANGED <<memberIds, summing, aborted, unanswered>>

\* The round is over before the agent's turn: it was stopped, or the agent is a
\* participant no more.
RefuseTurn ==
  /\ doing = "next"
  /\ aborted \/ NextSpeaker \notin ToSet(Participants(memberIds))
  /\ round' = Called /\ doing' = "failed"
  /\ UNCHANGED <<messages, lastId, memberIds, speech, summing, aborted, unanswered,
                 disturbances>>

\* When a message of the user may join the turn: before a later step, while a
\* provider with live input runs, and at the end when a step is left.
MaySteer ==
  \/ doing = "ask" /\ speech.step > 1 /\ ~aborted
  \/ doing = "model"
  \/ doing = "stop" /\ speech.step < MaxModelSteps

\* Only the first speaker of a round is steered.
Steer ==
  /\ MaySteer /\ Cardinality(round.answered) = 1
  /\ Disturb /\ StoreAll(<<UserMessage(<<>>)>>)
  /\ speech' = [speech EXCEPT !.read = Append(@, UserMessage(<<>>)),
                              !.step = IF doing = "stop" THEN @ + 1 ELSE @]
  /\ doing' = IF doing = "stop" THEN "ask" ELSE doing
  /\ UNCHANGED <<memberIds, round, summing, aborted, unanswered>>

AskSpeaker ==
  /\ doing = "ask"
  /\ doing' = IF aborted THEN "failed" ELSE "model"
  /\ UNCHANGED <<messages, lastId, memberIds, round, speech, summing, aborted, unanswered,
                 disturbances>>

\* The model answers: its text and its calls are one row.
ModelAnswers(says, names, uses) ==
  LET calls == [i \in DOMAIN uses |-> [id |-> lastId + 1 + i, tool |-> uses[i]]]
      answer == [NewMessage(1, "assistant", speech.agent)
                   EXCEPT !.says = says, !.names = names, !.calls = calls]
  IN  /\ doing = "model"
      /\ Len(messages) < MaxMessages /\ (says \/ names = <<>>)
      /\ messages' = Append(messages, answer) /\ lastId' = lastId + 1 + Len(uses)
      /\ speech' = [speech EXCEPT !.read = Append(@, answer), !.pending = calls]
      /\ \/ /\ doing' = IF uses = <<>> THEN "stop" ELSE "tools"
            /\ UNCHANGED <<unanswered, disturbances>>
         \/ /\ doing' = "failed" /\ Disturb
            /\ unanswered' = unanswered \cup CallIds(calls)
      /\ UNCHANGED <<memberIds, round, summing, aborted>>

\* A CLI has its calls executed while it runs: what it sends is stored before
\* its answer, whose calls are settled at once.
CliAnswers(names) ==
  LET c == [id |-> lastId + 4, tool |-> SendTool]
      answer == [NewMessage(2, "assistant", speech.agent) EXCEPT !.calls = <<c>>]
  IN  /\ doing = "model"
      /\ Len(messages) < MaxMessages
      /\ messages' = messages \o <<SentMessage(1, names), answer, ResultOf(3, c)>>
      /\ lastId' = lastId + 4
      /\ speech' = [speech EXCEPT !.read = @ \o <<answer, ResultOf(3, c)>>]
      /\ doing' = "stop"
      /\ UNCHANGED <<memberIds, round, summing, aborted, unanswered, disturbances>>

\* A call is executed: send_message stores its message, unless it refuses it,
\* before its result.
ExecuteTool(names, sends) ==
  LET c == Head(speech.pending)
      result == ResultOf(IF sends THEN 2 ELSE 1, c)
  IN  /\ doing = "tools" /\ speech.pending # <<>> /\ ~aborted
      /\ sends => c.tool = SendTool
      /\ sends \/ names = <<>>
      /\ StoreAll(IF sends THEN <<SentMessage(1, names), result>> ELSE <<result>>)
      /\ speech' = [speech EXCEPT !.read = Append(@, result), !.pending = Tail(@)]
      /\ UNCHANGED <<memberIds, doing, round, summing, aborted, unanswered, disturbances>>

\* A stop between two calls leaves the rest without a result.
StopCalls ==
  /\ doing = "tools" /\ speech.pending # <<>> /\ aborted
  /\ unanswered' = unanswered \cup CallIds(speech.pending)
  /\ doing' = "failed"
  /\ UNCHANGED <<messages, lastId, memberIds, round, speech, summing, aborted, disturbances>>

\* The provider or the store throws.
SpeechBreaks ==
  /\ doing \in {"ask", "model", "tools"} /\ Disturb
  /\ unanswered' = unanswered \cup CallIds(speech.pending)
  /\ doing' = "failed"
  /\ UNCHANGED <<messages, lastId, memberIds, round, speech, summing, aborted>>

\* All calls are executed: another step, unless the cap is reached.
NextStep ==
  /\ doing = "tools" /\ speech.pending = <<>>
  /\ IF speech.step < MaxModelSteps
     THEN doing' = "ask" /\ speech' = [speech EXCEPT !.step = @ + 1]
     ELSE doing' = "over" /\ UNCHANGED speech
  /\ UNCHANGED <<messages, lastId, memberIds, round, summing, aborted, unanswered,
                 disturbances>>

\* The model has finished and nothing steers the turn.
FinishTurn ==
  /\ doing = "stop" /\ doing' = "over"
  /\ UNCHANGED <<messages, lastId, memberIds, round, speech, summing, aborted, unanswered,
                 disturbances>>

FromThisTurn(r) == r.id > speech.from /\ r.by = speech.agent

\* A mutant of TurnReplies: the last reply alone.
LastReply ==
  LET all == {i \in DOMAIN messages : IsReply(messages, i) /\ FromThisTurn(messages[i])}
  IN  {i \in all : \A j \in all : j <= i}

\* turnReplies(): the places of the rows of this turn that are its agent's replies.
TurnReplies == {i \in DOMAIN messages : IsReply(messages, i) /\ FromThisTurn(messages[i])}

\* In a group chat the turn's replies may hand the floor to others.
HandedOn ==
  IF round.chat = <<>> THEN {<<>>} ELSE Handoffs([i \in TurnReplies |-> messages[i].names])

\* The turn is over and the next agent speaks; the round ends when nobody waits,
\* or at a stop.
EndSpeech ==
  /\ doing = "over"
  /\ IF aborted THEN doing' = "failed" /\ UNCHANGED round
     ELSE \E next \in HandedOn :
       LET waiting == round.waiting \o next
       IN  /\ round' = [round EXCEPT !.waiting = waiting,
                                     !.said = @ \cup {messages[i].id : i \in TurnReplies}]
           /\ doing' = IF waiting = <<>> THEN "ended" ELSE "next"
  /\ UNCHANGED <<messages, lastId, memberIds, speech, summing, aborted, unanswered,
                 disturbances>>

-----------------------------------------------------------------------------
\* compaction.ts and the requests of messages.ts.

\* needsCompaction(): enough messages since the last summary, and more than fit.
NeedsCompaction ==
  LET rest == SinceCompaction(messages)
  IN  /\ Len(rest) >= AutoCompactMin
      /\ Len(rest) + (IF LastSummary(messages) = 0 THEN 0 ELSE 1) > CompactSize

\* renderRecord(): a sent message is its own row, so its call and result are left out.
Rendered(r) ==
  \/ r.kind \in {"user", "sent"}
  \/ r.kind = "assistant" /\ (r.says \/ \E i \in DOMAIN r.calls : r.calls[i].tool # SendTool)
  \/ r.kind = "tool" /\ r.tool # SendTool

\* compactionRequest(): the newest lines that fit, at least one.
Summarized ==
  LET rest == SinceCompaction(messages)
      lines == {i \in DOMAIN rest : Rendered(rest[i])}
      Later(i) == {j \in lines : i < j}
  IN  {rest[i].id : i \in {k \in lines : \/ Later(k) = {}
                                         \/ Cardinality(Later(k)) < SummarySize}}

\* compactChat() reads the rows and asks the model.
BeginCompaction == summing' = [on |-> TRUE, rows |-> Summarized]

\* streamChatReplies(): the lock is free again, after a compaction when the round
\* ended well and the chat has outgrown the context.
RoundOver ==
  /\ doing \in {"ended", "failed"}
  /\ doing' = "nothing" /\ aborted' = FALSE
  /\ round' = NoRound /\ speech' = NoSpeech
  /\ IF doing = "ended" /\ ~aborted /\ NeedsCompaction
     THEN BeginCompaction ELSE UNCHANGED summing
  /\ UNCHANGED <<messages, lastId, memberIds, unanswered, disturbances>>

\* A mutant of RequestCompaction: the request does not take the chat's lock.
CompactUnlocked ==
  /\ ~summing.on /\ SinceCompaction(messages) # <<>>
  /\ Disturb /\ BeginCompaction
  /\ UNCHANGED <<messages, lastId, memberIds, doing, round, speech, aborted, unanswered>>

\* POST .../compact.
RequestCompaction ==
  /\ Free /\ SinceCompaction(messages) # <<>>
  /\ Disturb /\ BeginCompaction
  /\ UNCHANGED <<messages, lastId, memberIds, doing, round, speech, aborted, unanswered>>

\* The model's summary is stored, or it failed or was stopped.
EndCompaction(ok) ==
  /\ summing.on
  /\ summing' = NoSum /\ aborted' = FALSE
  /\ IF ok /\ ~aborted
     THEN StoreAll(<<[NewMessage(1, "summary", User) EXCEPT !.covers = summing.rows]>>)
     ELSE UNCHANGED <<messages, lastId>>
  /\ UNCHANGED <<memberIds, doing, round, speech, unanswered, disturbances>>

\* A mutant of MessagesToDelete: the results stay.
MessageAlone(i, following) ==
  IF following THEN {messages[j].id : j \in i .. Len(messages)} ELSE {messages[i].id}

\* messagesToDelete(): the message and its results, or it and all that follow.
MessagesToDelete(i, following) ==
  IF following THEN {messages[j].id : j \in i .. Len(messages)}
  ELSE {r.id : r \in {x \in ToSet(messages) : \/ x.id = messages[i].id
                                             \/ x.of \in CallIds(messages[i].calls)}}

\* DELETE .../messages/:messageId.
DeleteMessage(i, following) ==
  LET doomed == MessagesToDelete(i, following)
      lost == {r \in ToSet(messages) : r.id \in doomed /\ r.kind = "tool"}
  IN  /\ Free /\ Disturb
      /\ messages' = Without(messages, doomed)
      /\ unanswered' = unanswered \cup {r.of : r \in lost}
      /\ UNCHANGED <<lastId, memberIds, doing, round, speech, summing, aborted>>

\* POST .../stop, or the client of a request leaves.
StopRound ==
  /\ (doing # "nothing" \/ summing.on) /\ ~aborted
  /\ Disturb /\ aborted' = TRUE
  /\ UNCHANGED <<messages, lastId, memberIds, doing, round, speech, summing, unanswered>>

\* PATCH .../chats/:id: a group chat keeps at least one member.
SetMembers(list) ==
  /\ IsGroup /\ list # <<>> /\ list # memberIds
  /\ Disturb /\ memberIds' = list
  /\ UNCHANGED <<messages, lastId, doing, round, speech, summing, aborted, unanswered>>

GroupNext ==
  \/ \E names \in Mentions :
       \/ StartRound(names) \/ CliAnswers(names)
       \/ \E sends \in BOOLEAN : ExecuteTool(names, sends)
       \/ \E says \in BOOLEAN, uses \in Uses : ModelAnswers(says, names, uses)
  \/ \E withMail \in BOOLEAN : BeginSpeech(withMail)
  \/ RefuseTurn \/ Steer \/ AskSpeaker \/ SpeechBreaks \/ StopCalls
  \/ NextStep \/ FinishTurn \/ EndSpeech
  \/ RoundOver \/ RequestCompaction \/ StopRound
  \/ \E ok \in BOOLEAN : EndCompaction(ok)
  \/ \E i \in DOMAIN messages, following \in BOOLEAN : DeleteMessage(i, following)
  \/ \E list \in Memberships : SetMembers(list)

GroupSpec == GroupInit /\ [][GroupNext]_groupVars

-----------------------------------------------------------------------------
\* Properties.

\* "A turn starts at a user message so tool calls stay with their assistant
\* message" (context.ts), and "no result is left without its call" (messages.ts):
\* whatever was trimmed, summarized, deleted, sent or said by others meanwhile, a
\* request has the call of each of its results before it, with no user message in
\* between, and a result for each call but those that a stop, an error or a
\* deletion has left without one.
RequestsAreWhole ==
  doing = "ask" =>
    LET h == Request
        Belong(i, j) == /\ i < j /\ h[i].kind = "assistant" /\ h[j].kind = "tool"
                        /\ h[j].of \in CallIds(h[i].calls)
                        /\ \A k \in DOMAIN h : k \in i .. j => h[k].kind # "user"
    IN  /\ \A j \in DOMAIN h : h[j].kind = "tool" => \E i \in DOMAIN h : Belong(i, j)
        /\ \A i \in DOMAIN h : \A c \in CallIds(h[i].calls) \ unanswered :
             \E j \in DOMAIN h : Belong(i, j) /\ h[j].of = c

\* From a summary on the model reads nothing of the rows before it: what they say
\* since the summary before is in it, but for the oldest, which may have been too
\* long (compaction.ts: "the oldest lines give way first").  Nothing is stored
\* between the reading and the summary that it would hide unread.
SummariesMissNothingNew ==
  \A s \in DOMAIN messages : messages[s].kind = "summary" =>
    \A r \in ToSet(SinceCompaction(SubSeq(messages, 1, s - 1))) :
      Rendered(r) => r.id \in messages[s].covers \/ \A id \in messages[s].covers : r.id < id

\* What the model is to read reaches it, in a request or in a summary.
ModelsReadWhatTheyShould == RequestsAreWhole /\ SummariesMissNothingNew

\* "Each agent answers at most once per message" (group.ts): nobody who waits has
\* answered or waits twice.
NobodyAnswersTwice ==
  IsInjective(round.waiting) /\ ToSet(round.waiting) \cap round.answered = {}

\* The rows of others in h that belong to this round.
HeardThisRound(h) ==
  {h[i].id : i \in {k \in DOMAIN h : /\ h[k].by \notin {User, speech.agent}
                                     /\ h[k].id > round.from}}

\* Of this round the history an agent is asked with, before trimToBudget() cuts it,
\* holds what the earlier agents replied, no more and no less; so does the request
\* when that history fits the context.  When it does not, the request need not:
\* trimToBudget() takes each reply for a turn of its own, which gives way like any
\* other, whatever turn.ts:117 says of it.
EarlierRepliesAreInTheHistory ==
  LET h == History(speech.agent, speech.read)
  IN  doing = "ask" /\ round.chat # <<>> =>
        /\ HeardThisRound(h) = round.said
        /\ Cardinality(DOMAIN h) <= ContextSize => HeardThisRound(Request) = round.said

\* When a round ends well, all whom the message or one of the replies asked have
\* answered.
AskedHaveAnswered ==
  doing = "ended" /\ round.chat # <<>> =>
    \A i \in DOMAIN messages :
      LET asked == Mentioned(round.chat, <<messages[i].names>>)
      IN  /\ messages[i].id \in round.said \cup {round.from} => asked \subseteq round.answered
          /\ messages[i].id = round.from /\ asked = {} =>
               ToSet(Participants(round.chat)) \subseteq round.answered

\* Whoever is to answer a message does, once, and the answers before its own are in
\* the history that its requests are cut from.
RoundsAreFair == NobodyAnswersTwice /\ EarlierRepliesAreInTheHistory /\ AskedHaveAnswered
=============================================================================
