------------------------------ MODULE ChatQueue ------------------------------
(***************************************************************************)
(* The async message queue of one chat                                     *)
(* (packages/server/src/runtime/chat-queue.ts), with the turns it runs     *)
(* (agent-runtime/src/loop.ts, as far as a turn takes queued messages) and *)
(* the other users of the chat's lock (routes/messages.ts, a2a).           *)
(*                                                                         *)
(* Posted messages wait in `queue`.  One drain answers them, a batch per   *)
(* turn, under the chat's lock; routine and webhook turns, edits and other *)
(* turns take the same lock, which is the queue `line` (ChatLock shows     *)
(* that the lock is first come, first served).  While the drain's turn     *)
(* runs it takes further messages: before a step, at its end, or at any    *)
(* time when its provider has live input.                                  *)
(*                                                                         *)
(* Code between two awaits is one action.  The queue and the turn are in   *)
(* the memory of one process; a restart keeps the transcript only.         *)
(***************************************************************************)
EXTENDS Naturals, Sequences, FiniteSets, SequencesExt

CONSTANTS Profiles,      \* model profiles
          CliProfiles,   \* profiles that run a CLI, which executes its calls itself
          LiveProfiles,  \* profiles whose CLI reads user messages while it runs
          Background,    \* calls of runTurn: routine runs, webhook deliveries
          Edits,         \* requests that edit the transcript or compact it
          Others,        \* turns outside the queue: streamed replies, inbox turns
          Drain,         \* the drain, as a user of the lock
          NoProfile,
          MaxPosts, MaxSteps, MaxCalls, MaxSends, MaxStops, MaxRestarts  \* bounds

ASSUME LiveProfilesAssumption == LiveProfiles \subseteq CliProfiles /\ CliProfiles \subseteq Profiles
ASSUME ActorsAssumption == /\ IsFiniteSet(Background)
                           /\ Drain \notin Background \cup Edits \cup Others
                           /\ Background \cap Edits = {} /\ Background \cap Others = {}
                           /\ Edits \cap Others = {}
ASSUME BoundsAssumption == /\ MaxPosts \in Nat /\ MaxCalls \in Nat /\ MaxSends \in Nat
                           /\ MaxStops \in Nat /\ MaxRestarts \in Nat
                           /\ MaxSteps \in Nat \ {0}

VARIABLES
  mapped,      \* `chats` has a state for the chat
  queue,       \* messages waiting, oldest first
  running,     \* a drain answers queued messages
  background,  \* number of runTurn calls waiting or running
  controller,  \* "none", "live" or "aborted"
  live,        \* the provider's listener is in `steerers`
  listening, view,   \* an open thread, and the last status it got
  line,        \* who holds (first) or waits for the chat's lock
  pc,          \* pc[a]: "out", "inline", "holding" or "leaving"
  phase,       \* where the queue's running turn is
  profile,     \* the profile of the drain's turn
  batch,       \* the drain's messages not yet stored
  taken,       \* messages taken as live input and not yet stored
  step, calls, \* the turn's model step, its tool calls still to execute
  transcript,  \* the stored rows
  posts, stops, restarts,  \* counters; each post has a number
  failed,      \* history: posts whose turn told of an error before a model read them
  late,        \* history: posts that waited when a turn was stopped, or came while it ends
  shown        \* history: posts a model got to read in a turn not stopped by then

stateVars == <<mapped, queue, running, background, listening, view>>
turnVars == <<controller, live, phase, profile, batch, taken, step, calls>>
counters == <<posts, stops, restarts>>
history == <<failed, late, shown>>
vars == <<stateVars, turnVars, line, pc, transcript, counters, history>>

Actors == {Drain} \cup Background \cup Edits \cup Others
QueueTurns == {Drain} \cup Background
Entries == [n : 1 .. MaxPosts, profile : Profiles]
Rows == [kind : {"user", "sent", "call", "result", "reply"}, n : 0 .. MaxPosts]
Phases == {"none", "store", "prepare", "loop", "ask", "model", "after", "tools", "finished"}
Statuses == [running : BOOLEAN, queued : Seq(Entries)]

Busy == running \/ background > 0
Status(q, busy) == [running |-> busy, queued |-> q]

TypeOK == /\ mapped \in BOOLEAN /\ running \in BOOLEAN /\ live \in BOOLEAN
          /\ queue \in Seq(Entries) /\ batch \in Seq(Entries) /\ taken \in Seq(Entries)
          /\ background \in Nat
          /\ controller \in {"none", "live", "aborted"}
          /\ listening \in BOOLEAN /\ view \in Statuses
          /\ line \in Seq(Actors)
          /\ pc \in [Actors -> {"out", "inline", "holding", "leaving", "done"}]
          /\ phase \in Phases
          /\ profile \in Profiles \cup {NoProfile}
          /\ step \in 0 .. MaxSteps /\ calls \in 0 .. MaxCalls
          /\ transcript \in Seq(Rows)
          /\ posts \in 0 .. MaxPosts /\ stops \in 0 .. MaxStops
          /\ restarts \in 0 .. MaxRestarts
          /\ failed \subseteq 1 .. MaxPosts /\ late \subseteq 1 .. MaxPosts
          /\ shown \subseteq 1 .. MaxPosts

Init == /\ mapped = FALSE /\ queue = <<>> /\ running = FALSE /\ background = 0
        /\ listening = FALSE /\ view = Status(<<>>, FALSE)
        /\ controller = "none" /\ live = FALSE /\ phase = "none"
        /\ profile = NoProfile /\ batch = <<>> /\ taken = <<>>
        /\ step = 0 /\ calls = 0
        /\ line = <<>> /\ pc = [a \in Actors |-> "out"]
        /\ transcript = <<>>
        /\ posts = 0 /\ stops = 0 /\ restarts = 0
        /\ failed = {} /\ late = {} /\ shown = {}

-----------------------------------------------------------------------------
\* Helpers.

Numbers(entries) == {entries[i].n : i \in DOMAIN entries}
UserRow(n) == [kind |-> "user", n |-> n]
Row(kind) == [kind |-> kind, n |-> 0]
UserRows(entries) == [i \in DOMAIN entries |-> UserRow(entries[i].n)]
PostsIn(rows) == {rows[i].n : i \in DOMAIN rows} \ {0}

\* The turn tells of an error that concerns these posts, unless it was stopped.
TellOf(ns) == failed' = IF controller = "aborted" THEN failed ELSE failed \cup ns

Holds(a) == line # <<>> /\ Head(line) = a /\ pc[a] = "holding"

\* publish(statusEvent(state)): an open thread gets the new status.
Publish(q, busy) == view' = IF listening THEN Status(q, busy) ELSE view

\* A mutant of Prune: only the queue and the listeners keep the state.
PruneWhileBusy(q, busy, hears) == mapped' = (q # <<>> \/ hears)

\* prune(): the state leaves the map when nothing needs it.
Prune(q, busy, hears) == mapped' = (busy \/ q # <<>> \/ hears)

\* How many messages the turn takes from the front of q: those for its own
\* profile, up to the first for another one.
Takes(q) == CHOOSE n \in 0 .. Len(q) :
              /\ \A i \in 1 .. n : q[i].profile = profile
              /\ n < Len(q) => q[n + 1].profile # profile

\* A mutant of TakenFrom: every message for the turn's profile.
TakenAnywhere(q) == SelectSeq(q, LAMBDA e : e.profile = profile)

TakenFrom(q) == SubSeq(q, 1, Takes(q))
LeftIn(q) == SubSeq(q, Takes(q) + 1, Len(q))

Join(a) == /\ line' = Append(line, a)
           /\ pc' = [pc EXCEPT ![a] = "inline"]

-----------------------------------------------------------------------------
\* Posting and listening.

\* enqueue(): a new message joins the queue, starts the drain when none runs,
\* and is handed to a provider that listens for live input at once.  (A message
\* posted again while it waits changes nothing.)
Enqueue(p) ==
  LET e == [n |-> posts + 1, profile |-> p]
      q == Append(queue, e)
  IN  /\ posts < MaxPosts
      /\ posts' = posts + 1
      /\ late' = IF controller = "aborted" THEN late \cup {e.n} ELSE late
      /\ mapped' = TRUE
      /\ running' = TRUE
      /\ IF running THEN UNCHANGED <<line, pc>> ELSE Join(Drain)
      /\ IF live
           THEN /\ queue' = LeftIn(q)
                /\ taken' = taken \o TakenFrom(q)
                /\ shown' = IF controller = "live" THEN shown \cup Numbers(TakenFrom(q)) ELSE shown
           ELSE queue' = q /\ UNCHANGED <<taken, shown>>
      /\ Publish(queue', TRUE)
      /\ UNCHANGED <<background, listening, controller, live, phase, profile, batch, step,
                     calls, transcript, stops, restarts, failed>>

\* A mutant of RunTurn: the turn is not counted.
RunTurnUncounted(b) == /\ pc[b] = "out"
                       /\ mapped' = TRUE
                       /\ Publish(queue, TRUE)
                       /\ Join(b)
                       /\ UNCHANGED <<queue, running, background, listening, turnVars, transcript,
                                      counters, history>>

\* runTurn() up to its wait for the lock.
RunTurn(b) == /\ pc[b] = "out"
              /\ mapped' = TRUE
              /\ background' = background + 1
              /\ Publish(queue, TRUE)
              /\ Join(b)
              /\ UNCHANGED <<queue, running, listening, turnVars, transcript, counters, history>>

Subscribe == /\ ~listening
             /\ mapped' = TRUE
             /\ listening' = TRUE
             /\ view' = Status(queue, Busy)
             /\ UNCHANGED <<queue, running, background, turnVars, line, pc, transcript,
                            counters, history>>

Unsubscribe == /\ listening
               /\ listening' = FALSE
               /\ view' = Status(<<>>, FALSE)
               /\ Prune(queue, Busy, FALSE)
               /\ UNCHANGED <<queue, running, background, turnVars, line, pc, transcript,
                              counters, history>>

\* stop(): abort the turn that runs, if one does and was not stopped before.
Stop == /\ stops < MaxStops
        /\ mapped /\ controller = "live"
        /\ controller' = "aborted"
        /\ stops' = stops + 1
        /\ late' = late \cup Numbers(queue)
        /\ UNCHANGED <<stateVars, live, phase, profile, batch, taken, step, calls, line, pc,
                       transcript, posts, restarts, failed, shown>>

\* A mutant of EditRequest: only messages still queued refuse the edit.
EditWhileRunning(e) == /\ pc[e] = "out"
                       /\ queue = <<>>
                       /\ Join(e)
                       /\ UNCHANGED <<stateVars, turnVars, transcript, counters, history>>

\* PATCH, DELETE and compact: refused while the queue has work, then after
\* whoever has the lock.
EditRequest(e) == /\ pc[e] = "out"
                  /\ ~Busy /\ queue = <<>>
                  /\ Join(e)
                  /\ UNCHANGED <<stateVars, turnVars, transcript, counters, history>>

\* A streamed or collected reply, or an inbox turn: only the lock.
OtherRequest(o) == /\ pc[o] = "out"
                   /\ Join(o)
                   /\ UNCHANGED <<stateVars, turnVars, transcript, counters, history>>

-----------------------------------------------------------------------------
\* The lock.

Grant(a) == /\ line # <<>> /\ Head(line) = a /\ pc[a] = "inline"
            /\ a \notin QueueTurns
            /\ pc' = [pc EXCEPT ![a] = "holding"]
            /\ UNCHANGED <<stateVars, turnVars, line, transcript, counters, history>>

\* An edit may delete every row; the other holders' rows are not looked at.
LetGo(a) == /\ Holds(a) /\ a \notin QueueTurns
            /\ line' = Tail(line)
            /\ pc' = [pc EXCEPT ![a] = "done"]
            /\ transcript' \in IF a \in Edits THEN {transcript, <<>>} ELSE {transcript}
            /\ UNCHANGED <<stateVars, turnVars, counters, history>>

-----------------------------------------------------------------------------
\* The start of a turn.

\* runBatch() with the lock: everything that waits is taken, whatever its
\* profile; the last message's profile answers.
TakeBatch == /\ line # <<>> /\ Head(line) = Drain /\ pc[Drain] = "inline"
             /\ pc' = [pc EXCEPT ![Drain] = "holding"]
             /\ batch' = queue
             /\ queue' = <<>>
             /\ IF queue = <<>>
                  THEN phase' = "finished" /\ UNCHANGED <<controller, profile, view>>
                  ELSE /\ phase' = "store"
                       /\ controller' = "live"
                       /\ profile' = Last(queue).profile
                       /\ Publish(<<>>, TRUE)
             /\ UNCHANGED <<mapped, running, background, listening, live, taken, step, calls,
                            line, transcript, counters, history>>

\* Each message of the batch becomes a row, one write after the other.
StoreOne == /\ phase = "store" /\ batch # <<>>
            /\ transcript' = Append(transcript, UserRow(Head(batch).n))
            /\ batch' = Tail(batch)
            /\ phase' = IF Len(batch) = 1 THEN "prepare" ELSE "store"
            /\ UNCHANGED <<stateVars, controller, live, profile, taken, step, calls, line, pc,
                           counters, history>>

\* The chat is gone, or a write fails: the rest of the batch is dropped, and
\* an error event tells so unless the turn was stopped.
StoreFails == /\ phase = "store"
              /\ batch' = <<>>
              /\ TellOf(Numbers(batch) \cup (PostsIn(transcript) \ shown))
              /\ phase' = "finished"
              /\ UNCHANGED <<stateVars, controller, live, profile, taken, step, calls, line, pc,
                             transcript, counters, late, shown>>

\* The turn of a routine or a webhook has the lock.
StartBackground(b) == /\ line # <<>> /\ Head(line) = b /\ pc[b] = "inline"
                      /\ pc' = [pc EXCEPT ![b] = "holding"]
                      /\ controller' = "live"
                      /\ phase' = "prepare"
                      /\ UNCHANGED <<stateVars, live, profile, batch, taken, step, calls, line,
                                     transcript, counters, history>>

Steered == Holds(Drain)

\* The profile is resolved and the turn starts; a background turn stores its
\* own user message unless it was stopped by then.
Prepared == /\ phase = "prepare"
            /\ phase' = "loop"
            /\ step' = 1
            /\ transcript' = IF Steered \/ controller = "aborted" THEN transcript
                             ELSE Append(transcript, UserRow(0))
            /\ UNCHANGED <<stateVars, controller, live, profile, batch, taken, calls, line, pc,
                           counters, history>>

\* The turn throws: its profile is gone, or a write fails.  What it had taken
\* and not stored is lost; live input may be stored in part.
TurnBreaks ==
  LET mayTake == Steered /\ \/ phase = "after" /\ step < MaxSteps
                            \/ phase = "loop" /\ step > 1 /\ controller = "live"
  IN  \E lost \in {<<>>} \cup (IF mayTake THEN {TakenFrom(queue)} ELSE {}) :
      \E stored \in 0 .. Len(taken \o lost) :
      /\ phase \notin {"none", "store", "finished"}
      /\ stored = 0 \/ stored < Len(taken \o lost)
      /\ queue' = SubSeq(queue, Len(lost) + 1, Len(queue))
      /\ IF lost # <<>> THEN Publish(queue', TRUE) ELSE UNCHANGED view
      /\ transcript' = transcript \o UserRows(SubSeq(taken \o lost, 1, stored))
      /\ taken' = <<>>
      /\ live' = FALSE
      /\ phase' = "finished"
      /\ TellOf(Numbers(taken \o lost) \cup (PostsIn(transcript) \ shown))
      /\ UNCHANGED <<mapped, running, background, listening, controller, profile, batch, step,
                     calls, line, pc, posts, stops, restarts, late, shown>>

-----------------------------------------------------------------------------
\* The loop of the turn.

\* A mutant of TakeAndStore: no status for what was taken.
TakeUnpublished == /\ queue' = LeftIn(queue)
                   /\ transcript' = transcript \o UserRows(TakenFrom(queue))
                   /\ UNCHANGED view

\* steering.take() and storeSteering(): what the turn may take becomes rows.
TakeAndStore == /\ queue' = LeftIn(queue)
                /\ transcript' = transcript \o UserRows(TakenFrom(queue))
                /\ IF Takes(queue) > 0 THEN Publish(LeftIn(queue), TRUE) ELSE UNCHANGED view

\* The top of a step.
BeginStep ==
  /\ phase = "loop"
  /\ IF controller = "aborted"
       THEN phase' = "finished" /\ UNCHANGED <<queue, transcript, view>>
       ELSE /\ phase' = "ask"
            /\ IF Steered /\ step > 1 THEN TakeAndStore ELSE UNCHANGED <<queue, transcript, view>>
  /\ UNCHANGED <<mapped, running, background, listening, controller, live, profile, batch,
                 taken, step, calls, line, pc, counters, history>>

\* The model gets the transcript; a CLI with live input also gets what waits.
AskModel ==
  LET reads == Steered /\ profile \in LiveProfiles
      first == IF reads THEN TakenFrom(queue) ELSE <<>>
  IN  /\ phase = "ask"
      /\ phase' = "model"
      /\ live' = reads
      /\ taken' = first
      /\ queue' = IF reads THEN LeftIn(queue) ELSE queue
      /\ IF first # <<>> THEN Publish(queue', TRUE) ELSE UNCHANGED view
      /\ shown' = IF controller = "aborted" THEN shown
                  ELSE shown \cup PostsIn(transcript) \cup Numbers(first)
      /\ UNCHANGED <<mapped, running, background, listening, controller, profile, batch, step,
                     calls, line, pc, transcript, counters, failed, late>>

\* An event of the model: what was taken as live input becomes rows first.
ModelEvent == /\ phase = "model" /\ taken # <<>>
              /\ transcript' = transcript \o UserRows(taken)
              /\ taken' = <<>>
              /\ UNCHANGED <<stateVars, controller, live, phase, profile, batch, step, calls,
                             line, pc, counters, history>>

\* The CLI reported its result: its input is closed.
CloseInput == /\ phase = "model" /\ live
              /\ live' = FALSE
              /\ UNCHANGED <<stateVars, controller, phase, profile, batch, taken, step, calls,
                             line, pc, transcript, counters, history>>

\* The bound on the messages sent by send_message.
MaySend == Cardinality({i \in DOMAIN transcript : transcript[i].kind = "sent"}) < MaxSends

\* The turn's profile may be one that runs a CLI: a background turn has any.
MayRunCli == profile \in CliProfiles \/ ~Steered

\* A CLI has its calls executed while it runs: send_message stores its message
\* before the answer that holds the call.
CliSends == /\ phase = "model" /\ MayRunCli /\ MaySend
            /\ transcript' = Append(transcript, Row("sent"))
            /\ UNCHANGED <<stateVars, turnVars, line, pc, counters, history>>

\* The rows of an answer with n calls, the results of the first e among them.
AnswerWith(n, e) == <<Row(IF n > 0 THEN "call" ELSE "reply")>> \o [i \in 1 .. e |-> Row("result")]

\* The model is done: rows for what was taken, then its answer with the results
\* of the e calls its CLI had executed, and k calls to execute; `ok` is false
\* when it reported an error.
ModelDone(k, e, ok) ==
  /\ phase = "model"
  /\ k = 0 \/ (e = 0 /\ profile \notin CliProfiles)
  /\ e = 0 \/ MayRunCli
  /\ transcript' = transcript \o UserRows(taken) \o AnswerWith(k + e, e)
  /\ taken' = <<>>
  /\ live' = FALSE
  /\ calls' = IF ok THEN k ELSE 0
  /\ phase' = IF ~ok THEN "finished" ELSE IF k > 0 THEN "tools" ELSE "after"
  /\ UNCHANGED <<stateVars, controller, profile, batch, step, line, pc, counters, history>>

\* A mutant of Answered: the turn takes messages with no step left for them.
AnsweredAtTheCap ==
  /\ phase = "after"
  /\ IF Steered /\ Takes(queue) > 0
       THEN /\ TakeAndStore
            /\ step' = IF step < MaxSteps THEN step + 1 ELSE step
            /\ phase' = IF step < MaxSteps THEN "loop" ELSE "finished"
       ELSE phase' = "finished" /\ UNCHANGED <<queue, view, transcript, step>>
  /\ UNCHANGED <<mapped, running, background, listening, controller, live, profile, batch,
                 taken, calls, line, pc, counters, history>>

\* No call is left to execute: the turn goes on when the user wrote meanwhile
\* and a step is left, and ends otherwise.
Answered ==
  /\ phase = "after"
  /\ IF Steered /\ step < MaxSteps /\ Takes(queue) > 0
       THEN /\ TakeAndStore
            /\ step' = step + 1
            /\ phase' = "loop"
       ELSE phase' = "finished" /\ UNCHANGED <<queue, view, transcript, step>>
  /\ UNCHANGED <<mapped, running, background, listening, controller, live, profile, batch,
                 taken, calls, line, pc, counters, history>>

\* The rows of one call's execution: send_message stores its message, unless it
\* refuses it, before its own result; other calls have only their result.
CallRows == {<<Row("result")>>}
            \cup (IF MaySend THEN {<<Row("sent"), Row("result")>>} ELSE {})

\* A mutant of ExecuteCall: what waits is taken after every call.
ExecuteCallAndTake ==
  /\ phase = "tools"
  /\ IF controller = "aborted"
       THEN phase' = "finished" /\ calls' = 0 /\ UNCHANGED <<queue, view, transcript, step>>
       ELSE /\ \E rows \in CallRows :
                 transcript' = transcript \o rows
                               \o (IF Steered THEN UserRows(TakenFrom(queue)) ELSE <<>>)
            /\ queue' = IF Steered THEN LeftIn(queue) ELSE queue
            /\ Publish(queue', TRUE)
            /\ calls' = calls - 1
            /\ IF calls > 1 THEN UNCHANGED <<phase, step>>
               ELSE IF step < MaxSteps THEN phase' = "loop" /\ step' = step + 1
               ELSE phase' = "finished" /\ UNCHANGED step
  /\ UNCHANGED <<mapped, running, background, listening, controller, live, profile, batch,
                 taken, line, pc, counters, history>>

\* One tool call: not executed once the turn is stopped.
ExecuteCall ==
  /\ phase = "tools"
  /\ IF controller = "aborted"
       THEN phase' = "finished" /\ calls' = 0 /\ UNCHANGED <<transcript, step>>
       ELSE /\ \E rows \in CallRows : transcript' = transcript \o rows
            /\ calls' = calls - 1
            /\ IF calls > 1 THEN UNCHANGED <<phase, step>>
               ELSE IF step < MaxSteps THEN phase' = "loop" /\ step' = step + 1
               ELSE phase' = "finished" /\ UNCHANGED step
  /\ UNCHANGED <<stateVars, controller, live, profile, batch, taken, line, pc, counters, history>>

\* A mutant of EndTurn: the controller of the ended turn stays.
EndTurnKeepsController(a) ==
  /\ a \in QueueTurns /\ Holds(a) /\ phase = "finished"
  /\ phase' = "none" /\ profile' = NoProfile /\ step' = 0 /\ calls' = 0
  /\ live' = FALSE
  /\ line' = Tail(line)
  /\ pc' = [pc EXCEPT ![a] = "leaving"]
  /\ UNCHANGED <<stateVars, controller, batch, taken, transcript, counters, history>>

\* A mutant of EndTurn: the lock is not released.
EndTurnKeepsLock(a) ==
  /\ a \in QueueTurns /\ Holds(a) /\ phase = "finished"
  /\ phase' = "none" /\ profile' = NoProfile /\ step' = 0 /\ calls' = 0
  /\ controller' = "none" /\ live' = FALSE
  /\ pc' = [pc EXCEPT ![a] = "leaving"]
  /\ UNCHANGED <<stateVars, batch, taken, line, transcript, counters, history>>

\* The finally blocks of runBatch and runTurn, and release().
EndTurn(a) == /\ a \in QueueTurns /\ Holds(a) /\ phase = "finished"
              /\ controller' = "none"
              /\ live' = FALSE
              /\ phase' = "none"
              /\ profile' = NoProfile
              /\ step' = 0 /\ calls' = 0
              /\ line' = Tail(line)
              /\ pc' = [pc EXCEPT ![a] = "leaving"]
              /\ UNCHANGED <<stateVars, batch, taken, transcript, counters, history>>

\* A mutant of DrainLoop: one batch, then the drain ends.
DrainOnce ==
  /\ pc[Drain] = "leaving"
  /\ running' = FALSE
  /\ pc' = [pc EXCEPT ![Drain] = "out"]
  /\ Publish(queue, background > 0)
  /\ Prune(queue, background > 0, listening)
  /\ UNCHANGED <<queue, background, listening, turnVars, line, transcript, counters, history>>

\* A mutant of DrainLoop: no status when the drain ends.
DrainUnpublished ==
  /\ pc[Drain] = "leaving"
  /\ IF queue # <<>>
       THEN Join(Drain) /\ UNCHANGED <<running, mapped>>
       ELSE /\ running' = FALSE
            /\ pc' = [pc EXCEPT ![Drain] = "out"]
            /\ Prune(queue, background > 0, listening)
            /\ UNCHANGED line
  /\ UNCHANGED <<queue, background, listening, view, turnVars, transcript, counters, history>>

\* The drain's loop: another batch, or the end of the drain.
DrainLoop ==
  /\ pc[Drain] = "leaving"
  /\ IF queue # <<>>
       THEN Join(Drain) /\ UNCHANGED <<running, view, mapped>>
       ELSE /\ running' = FALSE
            /\ pc' = [pc EXCEPT ![Drain] = "out"]
            /\ Publish(queue, background > 0)
            /\ Prune(queue, background > 0, listening)
            /\ UNCHANGED line
  /\ UNCHANGED <<queue, background, listening, turnVars, transcript, counters, history>>

\* The end of runTurn.
LeaveBackground(b) == /\ pc[b] = "leaving"
                      /\ pc' = [pc EXCEPT ![b] = "done"]
                      /\ background' = background - 1
                      /\ Publish(queue, running \/ background' > 0)
                      /\ Prune(queue, running \/ background' > 0, listening)
                      /\ UNCHANGED <<queue, running, listening, turnVars, line, transcript,
                                     counters, history>>

\* The process ends and starts again: the transcript is all that is left.
Restart == /\ restarts < MaxRestarts
           /\ restarts' = restarts + 1
           /\ mapped' = FALSE /\ queue' = <<>> /\ running' = FALSE /\ background' = 0
           /\ listening' = FALSE /\ view' = Status(<<>>, FALSE)
           /\ controller' = "none" /\ live' = FALSE /\ phase' = "none"
           /\ profile' = NoProfile /\ batch' = <<>> /\ taken' = <<>>
           /\ step' = 0 /\ calls' = 0
           /\ line' = <<>>
           /\ pc' = [a \in Actors |-> IF a = Drain \/ pc[a] = "out" THEN "out" ELSE "done"]
           /\ UNCHANGED <<transcript, posts, stops, history>>

-----------------------------------------------------------------------------
TurnStep == \/ TakeBatch \/ StoreOne \/ Prepared \/ BeginStep \/ AskModel \/ ModelEvent
            \/ \E k, e \in 0 .. MaxCalls : ModelDone(k, e, TRUE)
            \/ Answered \/ ExecuteCall \/ DrainLoop
            \/ \E b \in Background : StartBackground(b) \/ LeaveBackground(b)
            \/ \E a \in QueueTurns : EndTurn(a)
            \/ \E a \in Edits \cup Others : Grant(a) \/ LetGo(a)

Next == \/ TurnStep
        \/ StoreFails \/ TurnBreaks \/ CloseInput
        \/ CliSends
        \/ \E k, e \in 0 .. MaxCalls : ModelDone(k, e, FALSE)
        \/ \E p \in Profiles : Enqueue(p)
        \/ \E b \in Background : RunTurn(b)
        \/ \E e \in Edits : EditRequest(e)
        \/ \E o \in Others : OtherRequest(o)
        \/ Subscribe \/ Unsubscribe \/ Stop
        \/ Restart

Spec == Init /\ [][Next]_vars

\* The process goes on with whatever it has begun; posts, stops, failures and
\* restarts need not happen.
FairSpec == Spec /\ WF_vars(TurnStep)

-----------------------------------------------------------------------------
\* Safety.

\* Rows and entries in the order of their numbers; 0 is the number of no post.
InOrder(s) == \A i, j \in DOMAIN s : i < j /\ s[i].n > 0 => s[j].n = 0 \/ s[i].n < s[j].n

\* A message that waits has a drain that will come back to it: the drain never
\* ends, and a turn never begins its last take, with the message overlooked
\* (the loop of startDrain and the check in enqueue).
NobodyIsStranded == queue # <<>> => running /\ pc[Drain] # "out"

\* The chat's state is in the map exactly while a turn, a message or an open
\* thread needs it: stop() and enqueue() never miss a running turn because its
\* state was pruned, and no idle chat is kept (stateFor and prune).
StateLivesWhileNeeded == mapped <=> (Busy \/ queue # <<>> \/ listening)

\* An open thread always shows the queue and whether the agent works as they
\* are: no change of the queue or of busy() goes unpublished.
ViewIsCurrent == listening => view = Status(queue, Busy)

\* Messages reach the transcript in the order they were posted, each at most
\* once, through whichever way: batch, step boundary or live input.
PostsKeepOrder == InOrder(transcript \o taken \o batch \o queue)

\* "they never land between an assistant tool call and its result": between a
\* call and any of its results stand only results and what the agent itself sent
\* by send_message, and never a message of the user.
ResultsFollowCalls ==
  \A j \in DOMAIN transcript : transcript[j].kind = "result" =>
    \E i \in 1 .. (j - 1) :
      /\ transcript[i].kind = "call"
      /\ \A m \in (i + 1) .. (j - 1) : transcript[m].kind \in {"result", "sent"}

\* The transcript keeps the order in which things were said: of the messages,
\* and of calls and their results.
TranscriptKeepsOrder == PostsKeepOrder /\ ResultsFollowCalls

\* An edit, once admitted, never waits behind or overlaps a queued or
\* background turn: between its check and its lock no such turn gets in.
EditsMeetNoTurn ==
  \A i, j \in DOMAIN line : i < j /\ line[j] \in Edits => line[i] \notin QueueTurns

\* Stop reaches a turn exactly while one runs, and never a turn that has ended
\* or a holder of the lock that is no turn of the queue.
StopReachesTheTurn ==
  /\ controller # "none" => \E a \in QueueTurns : Holds(a)
  /\ phase \notin {"none", "finished"} => controller # "none"

\* When the drain is done, and nobody stopped a turn and the process did not
\* restart, a model read every stored message, or its turn told of an error.
AnsweredOrTold ==
  ~running /\ stops = 0 /\ restarts = 0 => PostsIn(transcript) \subseteq shown \cup failed

\* No message is forgotten, neither in the queue nor in the transcript.
NoPostIsForgotten == NobodyIsStranded /\ AnsweredOrTold

\* "Abort the chat's running turn. Messages queued after it still get their
\* turn.": messages that waited when a turn was stopped, or came before it
\* ended, are read by the model in a later turn, or that turn tells of an error.
LateMessagesGetTheirTurn == ~running /\ restarts = 0 => late \subseteq shown \cup failed

-----------------------------------------------------------------------------
\* Liveness, without restarts.

\* A message that waits is stored, or its turn tells that it was not.
WaitingPostsAreTaken ==
  \A n \in 1 .. MaxPosts :
     (n \in Numbers(queue)) ~> (n \in PostsIn(transcript) \cup failed)

\* A routine's turn gets the chat and ends, however many messages come.
BackgroundTurnsEnd == \A b \in Background : (pc[b] = "inline") ~> (pc[b] = "done")

\* An open thread does not show a working agent forever.
ThreadsSeeTheEnd == (listening /\ view.running) ~> (~listening \/ ~view.running)

\* Whoever waits for the chat is served: messages, routines' turns and threads.
EverybodyIsServed == WaitingPostsAreTaken /\ BackgroundTurnsEnd /\ ThreadsSeeTheEnd
=============================================================================
