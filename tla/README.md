# Botanical: a TLA+ verification project

Botanical is a server for AI agents with a web client. An agent has one chat; people post messages
to it, routines and webhooks start turns in it, and other agents send it mail. This directory holds
TLA+ modules of the parts where those things meet, the TLC configurations that check them, and
TLAPS proofs about the core. Paths below are relative to `src/packages/` unless they say otherwise.

Contents:

1. [The system](#1-the-system): components, their state, how they interact, what is hard
2. [The modules](#2-the-modules): which module models what, and how it corresponds to the code
3. [The runs](#3-the-runs): what each checks, its bounds, its fairness
4. [The proofs](#4-the-proofs): what is proved, and how
5. [Findings](#5-findings): where the code and its documents disagree
6. [What is not modelled](#6-what-is-not-modelled)
7. [Plan](#7-plan)

To check everything: `tlc -config X.cfg M` for the runs of section 3 and `tlapm M.tla` for the
modules of section 4 (`TurnCoordinatorProofs`, `ChatQueueProofs`, `RoutineRunsProofs`, `AgentTurnsProofs`,
`BrowserProofs`, `ProviderProofs`, `ServicesProofs`, `FilterProofs`).

## 1. The system

### 1.1 Components

`PROJECT.json` lists every component with its sources and what is modelled of it. The ones with
state that several actors share:

| Component | State it keeps | Operations | What makes it correct |
|---|---|---|---|
| Turn coordinator (`server/src/runtime/turns.ts`) | `tails`: the last caller's promise per chat; `active`, `limit`, `waiting`, `idleWaiters` for background turns | `exclusive`, `runInBackground`, `setConcurrency`, `whenIdle` | one turn per chat, first come first served; the counter is exact; nobody waits while nothing runs |
| Chat queue (`server/src/runtime/chat-queue.ts`) | per chat: waiting messages, whether a drain runs, background turns, the abort controller, live-input listeners, subscribers | `enqueue`, the drain, `runTurn`, `stop`, `subscribe`, `assertIdle`, pruning | no message is overlooked, reordered or stored twice; status events are complete; Stop stops the turn that runs |
| Agent loop (`agent-runtime/src/loop.ts`) | step count, tool calls to run, messages taken as live input | steps, tool calls, steering, the step cap, abort | a tool result follows its call; what it takes it answers, or an error is told |
| Message routes (`server/src/routes/messages.ts`) | the transcript | post, edit, delete, regenerate, compact, streamed replies | an edit never meets a turn |
| Scheduler (`server/src/routines/scheduler.ts`) | none but a tick under way | `tick`: reap, read the room, claim, start; `recover` | a due slot fires once; after downtime one run, not all |
| Routine store (`db/src/always-on.ts`, `run-lease.ts`) | rows of routines, runs, deliveries, notifications | `claimDue`, `claimLease`, `renewLease`, `finishOwned`, `reapExpired` | a run ends, ends once and is told of once; a live lease is left alone |
| Background jobs (`server/src/runtime/jobs.ts`) | the jobs of this process, with their renewal timers | `executeRoutineRun`, `executeListenerDelivery`, `finishRoutine` | a job whose lease was lost changes nothing |
| Routine requests (`server/src/routes/routines.ts`) | rows loaded by a handler | PATCH, pause, resume, delete, run now | a paused routine does not replay its gap |
| Agent mail (`server/src/a2a/service.ts`, `db/postgres.ts`, `agent-runtime/src/inbox.ts`) | status of each row; the chain of inbox turns | `send`, `deliverPending`, `markRead`, `runInboxTurn`, `updateStatus`, `claimInbox` | mail that is sent is shown, or its loss is told |
| Listeners (`server/src/routes/listeners.ts`, `listeners/limit.ts`) | deliveries with leases, rate limits per process | accept, execute, renew, reap, PATCH, DELETE | a delivery ends, ends once and is told of as it ended; the limiter's window holds |
| Background settings (`db/src/always-on-settings.ts`) | rows, a cache per process | read, patch | the cache is not older than its time; patches of different settings do not undo each other |
| Thread in the browser (`web/src/hooks/use-chat-thread.ts`, `web/src/lib/chat-queue.ts`) | the transcript and bubbles a tab shows | load, subscribe, resync, apply events and replies | what is shown converges to what is stored |
| CLI sign-in (`providers/src/cli/login.ts`) | one sign-in per CLI: process, state, timer, chain of writes | start, input, cancel, exit, timeout | a sign-in ends for its own reasons; "done" means signed in; no process is left behind |
| CLI installer (`providers/src/cli/install.ts`) | a directory per server, a cache of binaries shared by servers | skip, resolve, take from the cache, download, cache, place | what is installed is whole and is what the manifest says |
| MCP client (`mcp/src/connection.ts`) | one connection shared by calls | connect, call, reset, retry, close | the parts of the connection agree; every call ends; a failed server stays so |
| Chats of agents (`server/src/runtime/agent-chat.ts`, `db/src/store.ts`, `db/sql/guards.sql`) | agents, their own chats, group chats | open, create, change members, append, delete | one own chat per agent; chats name agents that exist |
| Dictation (`web/src/components/chat/use-dictation.ts`) | phase, recordings, their timers | toggle, grant, stop, cancel, block, unmount, upload | the microphone listens only while that is shown, and with a limit |
| Rounds of replies (`server/src/runtime/turn.ts`, `group.ts`, `agent-runtime/src/loop.ts`, `replies.ts`) | who waits, has answered and said what; the rows read by a turn | begin a round, speak, call tools, send a message, be steered, hand off | each agent asked answers once, with the replies before its own in its history |
| Compaction and trimming (`agent-runtime/src/compaction.ts`, `context.ts`) | none of its own; summaries are rows | `autoCompact`, `compactChat`, `trimToBudget` | nothing is hidden unread; results stay with their calls |
| Permissions (`agent-runtime/src/permissions.ts`) | none | pure functions | they agree with their description |

The rest is requests on single rows, I/O, wire formats and rendering; section 6 says why it is left
out.

### 1.2 How they interact

* A post goes to the chat queue, which starts a drain if none runs. The drain takes the chat's lock
  from the turn coordinator for each batch and runs the agent loop, which calls back to take further
  messages ("steering").
* A due routine is claimed by a tick in one transaction of the database and executed as a job: the
  job waits for one of the process's background slots (turn coordinator), takes the lease of its
  run, then the chat's lock through `runTurn` of the chat queue.
* Inbox turns of agent mail take the same lock directly, one inbox turn at a time in a process. Any
  turn of an agent also claims its mail at its start.
* Edits and compaction take the lock after a check that the chat is idle.
* A webhook's delivery takes the same way as a routine's run: a slot, the lease of its row, the
  chat's lock. Its payload stays with the process that accepted it.
* The settings cache gives the scheduler its limits and moves the number of slots
  (`SetConcurrency` of the turn coordinator).
* A tab mirrors the transcript and the queue over three channels: the event stream, reads of the
  transcript, and the answers to its own requests.
* Several server processes may share one database. They share rows and leases; locks, queues and
  slots are each process's own.

### 1.3 What is hard

The code is asynchronous in one process and concurrent across processes, and its tests mostly call
one operation after another. What can go wrong is listed under "hazards" in `PROJECT.json`, each at
the line where it bites and with the properties that would catch it. In groups:

* *Between two awaits.* The chain of promises behind a chat's lock, the drain that ends while a
  message arrives, the state pruned while a subscriber comes, `assertIdle` followed by a wait.
* *Read, then write.* Row updates that do not look at what they overwrite (mail), a PATCH computed
  from a row loaded earlier (routines), slots counted before the claim is awaited (scheduler), a
  settings cache filled by a read that began before a patch.
* *Order.* Messages of different profiles in one queue, live input between a tool call and its
  result, events against refetches in the browser.
* *Failure and time.* A process that stops anywhere in a run, renewals that come late, writes that
  fail halfway through a handler.
* *Limits.* The step cap reached while a message waits, background slots with a limit that moves,
  batches of mail.
* *Late handlers.* The exit of a process or the end of a recording arrives when another has taken
  its place; what it writes must be its own.

## 2. The modules

| Module | Models | Lines |
|---|---|---|
| `ChatLock` | the promise of a chat's lock: one holder, first come first served | abstract |
| `TurnCoordinator` | `server/src/runtime/turns.ts`, all of it; implements `ChatLock` | detailed |
| `ChatQueue` | `chat-queue.ts` with the turns it runs and the other users of the lock | detailed |
| `RoutineRuns` | routines, runs, leases, notifications, processes, requests | detailed |
| `AgentMail` | mail rows, senders, inbox turns, claims, status requests | detailed |
| `ThreadSync` | a browser tab's thread against the server's transcript and queue | detailed |
| `SettingsCache` | the cached read and the patch of the background settings | detailed |
| `CliLogin` | signing in to the command-line models | detailed |
| `CliInstall` | installing a command-line model on servers that share a cache | detailed |
| `McpConnection` | one connection to an MCP server | detailed |
| `AgentChats` | agents, their own chats and group chats in the database | detailed |
| `Deliveries` | a listener: its limiter and the life of its deliveries | detailed |
| `Dictation` | the microphone button of the composer | detailed |
| `GroupRounds` | a chat's rounds of replies, its requests to the model and its summaries | detailed |
| `Filter` | JavaScript's `filter`, by the places of the elements that pass | operators |
| `TurnCoordinatorProofs` | theorems about `TurnCoordinator` and `ChatLock` | proofs |
| `ChatQueueProofs`, `RoutineRunsProofs` | theorems about the module of that name | proofs |
| `AgentTurnsProofs` | theorems about `AgentMail`, `GroupRounds` and the two in one instance | proofs |
| `FilterProofs` | lemmas about `Filter` | proofs |
| `BrowserProofs` | theorems about `ThreadSync` and `Dictation` | proofs |
| `ProviderProofs` | theorems about `CliLogin`, `CliInstall` and `McpConnection` | proofs |
| `ServicesProofs` | theorems about `Deliveries`, `AgentChats` and `SettingsCache`, and about `MCServices` | proofs |
| `MCServices` | the eight modules from `ThreadSync` to `Dictation` in one instance (2.14) | instance |
| other `MC*` | constants of the runs | instances |

In every module code between two awaits is one action, as JavaScript runs it, and a statement on
the database is one action. Definitions whose comment begins "A mutant of" are not part of any
specification: each is a plausible bug in the definition it precedes, kept to show that a property
notices it.

### 2.1 ChatLock and TurnCoordinator

`ChatLock` has the calls made in each chat, in order, and where each turn is: "out", "waiting",
"holding", "released". `Enter` needs everybody before to be released. It states `MutualExclusion`
and `FirstComeFirstServed`.

`TurnCoordinator` has the code's own data. `lock()` reads the chat's tail, `prev[t]`, and makes
itself the tail; `Grant` is the continuation of `previous.then`; `Release` opens the gate and drops
the entry of `tails` when it is still its own (`TailsWithout`); `Settle` resolves the promise that
the next caller waits for. `calls` is a history of who asked. Background turns go through
`RunInBackground`, the counter `active`, the list `waiting`, and `Finish`, which runs `pump()`:
it shifts as many waiters as the limit allows (`Starts`, `Shifted`) in one synchronous loop.
`SetConcurrency` changes the limit and starts nobody, as in the code; `raised` is a history of whether it
raised the limit since a job last ended. `WhenIdle` and the resolution
of its callers are part of the same synchronous steps. Its refinement mapping `LockState` reads the
abstract state off `pc` and `open`.

### 2.2 ChatQueue

One chat. `Enqueue` adds a message, starts the drain if none runs, publishes. `TakeBatch` is the
drain under the lock: it takes everything that waits, and the last message's profile answers; what
a turn takes later is for that profile only (`TakenFrom`). `StoreOne` and `StoreFails` store the
batch row by row; `Prepared`, `BeginStep`, `AskModel`, `ModelEvent`, `CloseInput`,
`ModelDone`, `Answered`, `ExecuteCall` are the agent loop from the outside: what it takes from the
queue and when, what it writes to the transcript, where it looks at the abort signal. A call's rows are
`CallRows`: `send_message` stores its message, a row "sent" of the agent, before its result. A CLI has its
calls executed while it runs, so that what it sends is stored before the answer with the call (`CliSends`),
and the results follow the answer at once (`AnswerWith`). `TurnBreaks`
is any await of the turn that throws; like `StoreFails` it tells of an error unless the turn was stopped
(`TellOf`). `EndTurn`, `DrainLoop`, `LeaveBackground` are the finally
blocks. `RunTurn`, `EditRequest` and `OtherRequest` are the other users of the lock, `Grant` and
`LetGo` what they do with it; the lock is the sequence `line`, which is what `ChatLock` promises.
`Restart` keeps the transcript only.

Abstracted: texts, tool arguments and results; the several speakers of a group chat are one turn (they
are the subject of 2.13); a streamed reply is a holder of the lock whose rows nobody looks at; which
profile a background turn has is not followed, so that it may be a CLI at any time.

### 2.3 RoutineRuns

Rows of routines and runs in a database, and processes with a tick and jobs each. A tick is three
steps (`TickReaps`, `TickReadsRoom`, `ClaimDue`) because settings and room are read before the claim
is awaited. `ClaimDue` is the transaction: which routines are due, which have a run for their slot
already, where their next slot is, which schedules have none and are switched off. A request is two
steps, `BeginRequest` loading the row and `EndRequest` or `EndDelete` writing what was computed from
it. A job goes through `StartJob`, `ClaimLease`, `BeginTurn`, `EndTurn`, `Finish`, `Notify`, with
`Renew` beside it and `WriteFails` for the writes that throw. `Crash` loses a process's jobs, `Boot`
recovers as `serve()` does.

Time is counted in units in which a lease lasts `Window` and is renewed every `RenewEvery`. A slot is
a multiple of `Period` and `NextSlot` the first one strictly later, which is what the cron arithmetic
returns. `Stalling` are the processes whose renewals may come late. Abstracted: one agent and so one
chat; clocks agree; one request that changes a routine is under way at a time.

### 2.4 AgentMail

Each actor, a sender, a turn, a status request or the chain of inbox turns, has a record of where it
is and which rows it works on. `ListPending` and `DeliverRow` are `deliverPending` of the Postgres
store: a list, then an update per row that does not look at what the row has become. `GetRow` and
`MarkRow` are `markRead`. A sender looks for its row in the batch (`LookForRow`), tries again, and at
last reads its row (`GetOwnRow`). An inbox turn lists, claims, takes the lock and shows the mail as
the user message; within any turn `ListWithinTurn` and `StoreClaimed` are `claimInbox`. `TurnFails`
is a turn that throws, which an inbox turn reports in a notification. `BeginPatch`, `CheckPatch` and
`WritePatch` are the service's read, the repository's read and its write.

Assumed: autorun is on and the recipient has a profile. No crash: the code has nothing that
schedules an inbox turn again after one. The store in memory does each of these in one synchronous
step; the interleavings are those of Postgres.

### 2.5 ThreadSync

The server side is what a listener of the chat can see: `Enqueue`, `TakePosts`, `StorePost`, `StoreReply`,
`EndOfTurn`, `RunEdit`, and `Publish`, because the code stores a change and tells of it in two steps. The
tab has the stream (`Subscribe`, `Break`, `Refetch` after a gap), reads of the whole transcript that are
asked, answered and applied in three steps, and the answers to its own posts and edits. `HandleChange` and
`HandleStatus` are the reducer (`mergeMessage`, `replaceMessage`, `removeMessages`, `settlePending`,
`applyQueueStatus`), over `FilterAt` of the module `Filter`, which is what `filter` does. Every change
carries its number, which the code does not have: with it `QuietTabIsCurrent` says exactly when the tab may
be stale, namely when an answer came out of turn (`outOfTurn`) or a change was published while the tab was
not listening and it has applied no read since that has the change (`missed`). That it once applied one that
is as new is not enough: an event that was on its way when the read was answered can bring a deleted row
back, and when the stream then breaks before the deletion arrives, only a further read takes it out. The
failing run of section 5 shows what is left.

### 2.6 SettingsCache

Processes answer from a cache for `CacheTime`. `Get`, `ReadRows` and `GotRows` are a read before, at and
after its await, with the stamp taken before it; `ReadToPatch`, `WriteRow` for each row and `Wrote` are a
patch, which may fail at any row (`WriteFails`). Values out of range and of the wrong type are
in the instance because reading normalizes them. `quietSince` remembers when the last patch ended;
`kept` which settings a lone patch has set.

### 2.7 CliLogin

One record per sign-in ever started, because handlers of old ones go on. `Belongs` is the check that
each event makes (`sessions.get(cli) === session`, and still waiting). `Persist` is the promise chain of
token writes: a write that fails makes every later one fail. `Exit`, `FinishPersisted`, `FinishChecks`
and `FinishStops` are the handler of an exit between its awaits, `Input` and its three steps that of an
input. `stop` writes the state whatever it is by then, so the last writer wins; the properties say
what is true nevertheless.

### 2.8 CliInstall

Each server's install goes through `Resolve`, `FromCache`, `Download`, the three steps of `toCache`,
`Place` and `WriteManifest`; any of them may fail (`InstallFails`, `CacheFails`) or be the server's last
(`ServerStops`). A file of the cache is `[exists, open]`: who is writing it under whichever name it has,
`Dead` for a writer that stopped. Servers write the same temporary file, so a renamed file may still be
written; `Probe` (`--version`) is what keeps such a binary out.

### 2.9 McpConnection

A step runs from one await to the next. `channel` follows each client ever made, because a reset one
may still announce tools; `opening` is `connectPromise`; a call is a record that may retry once. The
fallback from one transport to the other is part of the attempt.

### 2.10 AgentChats

Requests are sequences of statements; a statement with the trigger `chats_same_owner`, the unique index
on an agent's own chat and the foreign key is one step. `disturbed` marks a request that another one has
got in the way of, and `raced` a chat that was written between the last check of a member's deletion and
the deletion; the properties allow a failure, or a member that is gone, in these cases only.

### 2.11 Deliveries

`Arrive` is the handler up to the row it will write, with the sliding window of its process; `Deliver`
writes the row and, for an accepted one, leaves the payload with a job. The job goes through
`LoadDelivery`, `ClaimDelivery`, `TakeTurn`, `TurnOver`, `FinishOwned`, `Tell`, with `RenewLease` beside
it. `ReapDeliveries` is the tick of any process; a delivery that was never claimed is reaped by its age.
Times are ages and times left, so that time needs no bound; `hitAge` is the age of each request that a
limiter allowed. `hits` are the requests that a limiter still keeps, pruned when it is asked, and `allowed`
is the history of all that it has allowed.

### 2.12 Dictation

The references of the hook are variables (`phase`, `recording`, `arming`, `mounted`, `blocked`), and each
recording has the flags of its session. Clicks, permissions, ends, failures, uploads, blocking and the
end of the composer are actions in any order. `crossed` marks that an upload ended while a newer
recording was running. `NobodyIsOverheard` leaves such behaviours out; `RecordingsStopAtTheLimit` states the
limit without an exception, as the documentation does, and fails in one of them (section 5).

### 2.13 GroupRounds

One chat, an agent's own or one with members. `StartRound` stores a user's message and lists who is to
answer (`RespondersFor`); `BeginSpeech` is the next agent's turn up to the transcript it reads, which is
`speech.read` and grows by what the turn itself stores and by steering, as `transcript` does in the code.
Who is mentioned comes in the order of the first mention: `InMentionOrder` is the set of the lists with that
order, of which there is one, so that the order is stated and not computed. `TurnReplies` are places in the
transcript, and `History` and `Trimmed` keep rows at their places, because only the order of rows counts in
a request. `AskSpeaker` makes `Request` of it: the rows since the last summary, as this agent reads them
(`AsRead`), trimmed at a user message (`Trimmed`). `ModelAnswers` and `CliAnswers` are the two kinds of
provider, `ExecuteTool` a call with what `send_message` stores, or refuses to, `EndSpeech` the hand-off, `RefuseTurn`,
`StopCalls` and `SpeechBreaks` the ends before the end. `RoundOver` gives the lock back or begins an
automatic compaction; `RequestCompaction`, `DeleteMessage` and `SetMembers` are the requests, the last of
which takes no lock.

Sizes are numbers of messages: all messages are equally long, a summary as long as a message, and the system
prompt is free. A mention is a name in a list; a chat's members are distinct and do not have its owner among
them, and the user is none of them. A summary's text is `covers`, the rows that the model was given for it.
`unanswered` is a history of calls that a stop, an error or a deletion left without a result. The queue's
batches, retries of a model and the mail's own rows are the other modules'.

`ModelsReadWhatTheyShould` has two parts. `RequestsAreWhole`: every result in a request has its call before
it with no user message in between, and every call not in `unanswered` has its result, whatever was trimmed,
deleted, summarized, sent or said by others. `SummariesMissNothingNew`: what a summary takes the place of is
in it, or older than all that is. `RoundsAreFair`: nobody waits twice or answers twice; the history that an agent's
requests are cut from has of the round what was replied before it, no more and no less
(`EarlierRepliesAreInTheHistory`), and so has the request when all of that history fits the context; and a
round that ends well has had an answer of all whom the message or a reply asked. The replies of the round
need not be in a request that was cut, whatever the code's comment says (section 5).

`MCAgentTurns` puts `GroupRounds` beside `AgentMail` as `MCServices` does with its modules.

### 2.14 MCServices

The eight modules 2.5 to 2.12 share no variable, and neither do the components in the code. A product of
their state spaces would show nothing about any of them, so a behaviour of `MCServices` is one of a
single component, `part`, chosen at the start, with the other components' variables as they begin: the
states add up. What `ChatQueue`, `RoutineRuns` and `TurnCoordinator` promise them (a turn ends, a slot
may be waited for) is repeated in each as a choice.

## 3. The runs

| Run | Configuration | States | Result |
|---|---|---|---|
| `turn_coordinator` | `MCTurnCoordinator.cfg` | 0.1 million | holds |
| `chat_queue_order` | `MCChatQueueOrder.cfg` | 3.1 million | holds |
| `chat_queue_turns` | `MCChatQueue.cfg` | 0.40 million | holds |
| `chat_queue_stop` | `MCChatQueueStop.cfg` | | violated, see section 5 |
| `routines` | `MCRoutines.cfg` | 0.5 million | holds |
| `routine_told` | `MCRoutineRunsTold.cfg` | | violated, see section 5 |
| `routine_chat` | `MCRoutineRunsChat.cfg` | | violated, see section 5 |
| `agent_mail` | `MCAgentTurns.cfg` | 2.5 million | holds |
| `agent_mail_backlog` | `MCAgentMailBacklog.cfg` | | violated, see section 5 |
| `services` | `MCServices.cfg` | 0.7 million | holds |
| `thread_gap` | `MCThreadSync.cfg` | | violated, see section 5 |
| `dictation_limit` | `MCDictation.cfg` | | violated, see section 5 |

Several of the properties are conjunctions of named parts, stated together because they are about one
hazard; the parts have comments of their own, and most have a mutant of their own.

**turn_coordinator.** Three turns, each interactive or background, two chats, a limit that moves
between one and two, one caller of `whenIdle`. Three turns are the least with one that queues behind
a turn that queues, and with one that starts while another waits; two chats let a turn of one chat
run while another's entry is dropped. `SlotsAddUp` says that the counter is exact and nobody waits
for nothing. `SlotDiscipline` says that what a step does is right: ending a job leaves no slot
free while somebody waits (`FinishFillsSlots`), a start stays under the limit in force
(`StartsUnderLimit`), waiters start in order among themselves (`WaitersStartInOrder`), `whenIdle` is honest
(`IdleMeansIdle`). A turn that is just asked for takes a free slot without a look at the waiters, and so may
overtake them; `NewcomersOvertakeAfterARaise` says that this takes a limit that was raised since a job
last ended, as the run does.
`ImplementsChatLock` is the refinement; `NobodyWaitsForEver` has its liveness (`ServesLikeTheChatLock`,
the fairness of the abstract lock read through the mapping) with that of waiters and of `whenIdle`. No
symmetry, because the run checks liveness.

**chat_queue_order.** Three messages in two profiles, one of them a CLI with live input, two steps of
two tool calls, a stop and a restart, with an open thread. Three messages are the least for a message
of another profile between two of the same; two calls for a message between a call and the next
result; two steps for the cap. `NoPostIsForgotten` joins `NobodyIsStranded` (what waits has a drain)
and `AnsweredOrTold`; `TranscriptKeepsOrder` joins `PostsKeepOrder` (nothing overtakes or is doubled) and
`ResultsFollowCalls` (between a call and its results stand only results and what the agent itself sent).
One message sent by `send_message` (`MaxSends`) is enough for a row between a call and its result, of the
first or the second call. `AnsweredOrTold` looks at behaviours without stop and restart: with a
stop the promise is another, which the run below checks.

**chat_queue_turns.** Two messages with a routine's turn, an edit and a streamed reply competing for
the lock. It checks pruning, edits, and the liveness of posts, background turns and threads
(`EverybodyIsServed`).

**routines.** Two parts, of which a behaviour is one (`MCRoutines`); time goes to five, with a slot every
two units.

Leases: two processes, a crash, a failing write, a process whose renewals may come late, one request, and
a lease of two units that is renewed every unit. The part starts one unit before the end of time, when a
slot has been missed, and one run is recorded. One is enough: runs meet only in slots and the chat, which
are other questions. A lease of two units is the shortest that a timely renewal keeps alive. `RunsEnd` is
the liveness of leases.

Slots: one process whose tick's three steps interleave with two requests over all of the time, and two runs.
A job that neither waits for room nor is in its turn goes on before anything else does (`Passing`): its
other steps change nothing that a slot depends on, and the first part interleaves them.
`MissedSlotsAreNotReplayed` is `GapIsSkipped` (one catch-up run after downtime) and
`PausedGapIsNotReplayed`. Two requests make pause and resume, or a reschedule during a tick; a routine with
its slot moved back meets the unique index. Of the fairness this part has only that jobs go on, which is
enough for `RunsEnd` where nothing crashes.

**agent_mail.** Two parts, of which a behaviour is one (`MCAgentTurns`).

The mail: two senders to one agent, a turn of the agent, a status request, one failing turn;
batches of delivery of one row, inbox batches of two. A sender then needs two batches to reach its
row, and its row may be delivered by the other sender, the turn or the inbox turn. Deadlock is
checked: `Terminated` is the only step when all is done, so every behaviour that goes on ends quiet,
and `NoMailIsForgotten` says what is true then. Liveness needs no property of its own: every actor's
work is bounded.

The rounds: an agent's own chat, or one with one or two members; messages that mention nobody, or two of
the agents; answers with no call, or with a call of a tool and one of `send_message`; six messages stored
before the model stops; two steps; and one of a stop, an error, a deletion, a requested compaction, a
steering message, mail, a change of members. Three agents are the least for one that waits while another
is handed the floor; two calls for a stop in between. Requests hold three messages, chats are compacted
from three on when they are longer than that, and a summary is made of two, so that trimming cuts within
a round, summaries leave lines out and a chat with a summary goes on.

**services.** The eight components of `MCServices`, one at a time.

| Part | Instance | Properties |
|---|---|---|
| thread | one post and one edit of any kind, of this tab or a deletion by another; three changes, one fault | `ThreadIsTrue` |
| settings | two processes, a read and three patches (one with a value of the wrong type, one out of range), two keys, one of them stored with the wrong type, failing writes, a restart | `SettingsSettle` |
| login | two CLIs, two sign-ins, one input, one print, one failing check | `SignInsKeepToThemselves`, `DoneMeansSignedIn`, `DialogsEnd` |
| install | two servers with one cache, one of which may be pinned, two versions, three installs | `InstallsAreTrue` |
| mcp | two calls with a fallback transport, ten clients | `QuietConnectionAgrees`, `CallsAreAnswered` |
| chats | three agents, any three of nine requests | `ChatsStayTogether` |
| deliveries | two processes, one with late renewals, two webhooks, a limiter of one hit in a unit, a lease of two units, one fault | `WindowHolds`, `DeliveriesAreTrue`, `DeliveriesEndForGood` |
| dictation | two recordings, both ways to transcribe | `NobodyIsOverheard`, `DialogsEnd` |

Two sign-ins are the least for a handler of an old one; two servers for a shared temporary file, three
installs for a third that meets what two have left; three requests for a deletion with a race on each
side of its check; two webhooks for one that the limiter refuses; two recordings for the end of one
during the other. Ten clients are more than two calls with one retry each and two transports can make.
`TypesOK` are the eight type invariants.

`CHECK_DEADLOCK FALSE` is set where the bounds on posts, requests and time stop the model although
the system would go on.

### Fairness

`TurnCoordinator`: the event loop runs every reaction whose promise is resolved, and a turn that has the
chat ends. `ChatQueue`: the process goes on with whatever it has begun. `RoutineRuns`: a process that runs
goes on with ticks and jobs, one that crashed is started again (Compose restarts it), time passes.
`Deliveries`: ticks come, time passes, a job that has the lease goes on; one that waits for its slot may
wait for ever, and reaping must do without it. `CliLogin`: timers fire, and nothing else has to: processes
may hang. `McpConnection`: what is awaited returns, because the SDK's requests have a timeout. `Dictation`:
timers fire, a recorder that was told to end does, an upload has an answer. `MCServices` assumes these of
the part that moves. In all of them nobody has to post, stop, patch, fail or crash. That a turn ends is an
assumption about model services and tools: steps are bounded, calls carry abort signals and tools have
timeouts, but a profile need not set a timeout for its model, and a turn that does not end keeps its chat.

## 4. The proofs

`TurnCoordinatorProofs` begins with the abstract lock by itself (`AnyLock`, an instance of `ChatLock` with
variables of its own), for every set of turns and chats:

* `AnyLockIsFair`: `AnyLock!Spec => []AnyLock!FirstComeFirstServed`
* `AnyLockExcludes`: `AnyLock!Spec => []AnyLock!MutualExclusion`

`FirstComeFirstServed` is not inductive: a turn listed twice could be served at its first place. The
invariant `LockInv` adds that whoever is listed has asked (`LockListsAskers`) and is listed once
(`LockListsOnce`). Mutual exclusion follows: of two holders in one chat one came first.

Of `TurnCoordinator` it proves, for every set of turns, chats, settings and callers:

| Theorem | Property |
|---|---|
| `TypesHold` | `TypeOK` |
| `SlotsHold` | `SlotsAddUp`, from `SlotsAreCounted` (`ActiveCountsJobs`) and `WaitersAreNotStranded` (`NobodyWaitsForNothing`) |
| `SlotDisciplineHolds` | `SlotDiscipline`, the action property |
| `LockExcludes` | `MutualExclusion` |
| `TailsAreClean` | `TailsMatchCallers` |
| `ChainIsAChatLock` | `ImplementsChatLock`: the promise chain implements the abstract lock |

The invariant is `IInv == TypeOK /\ SlotInv /\ ChainInv`.

* `SlotInv` relates the counter to the jobs and the list of waiters to their program counters: who
  waits is in "queued", who is a job is not. It needs nothing of the chain. Its hard step is `Finish`,
  where several waiters start at once: the lemma `ShiftedCount` says how many, `FinishEffect` what
  becomes of counter, jobs and waiters. `SlotStep` states the parts of `SlotDiscipline` but the one on newcomers for one
  step, and each action keeps it for the reason it keeps `SlotInv`: a waiter holds no slot.
  The part on newcomers rests on `NoFreeSlots`: unless the limit was raised since a job last ended, no slot is
  free while somebody waits.
* `ChainInv` says what the chain of promises looks like: a turn is listed once and its `prev` is the
  one listed before it, or nobody if that one had released and dropped its entry; the open gates of a
  chat are a prefix of its calls; what is settled is open, and settled up to there; the tail is the
  last call unless released. Then a caller whose predecessor is settled has only released callers
  before it (`PreviousSettledMeansServed`), which is `ChatLock`'s guard of `Enter`. One lemma per
  action: `LockKeepsChain`, `GrantKeepsChain`, `ReleaseKeepsChain`, `SettleKeepsChain`; the actions
  of the slots leave the chain alone (`ChainUntouched`).
* `StepRefines` maps each step to a step of `ChatLock` or a stutter.

`ChatQueueProofs` proves, for every set of profiles, background turns, edits and other turns and every
bound on posts, steps, calls, stops and restarts:

| Theorem | Property |
|---|---|
| `QueueTypesHold` | `TypeOK`; the counter of background turns is the number of calls of `runTurn` under way |
| `PostsAreKept` | `NoPostIsForgotten` |
| `TranscriptIsOrdered` | `TranscriptKeepsOrder` |
| `StateLives` | `StateLivesWhileNeeded` |
| `ViewsAreCurrent` | `ViewIsCurrent` |
| `EditsAreAlone` | `EditsMeetNoTurn` |
| `StopIsAimed` | `StopReachesTheTurn` |

They share the invariant `Control`: who is in the lock's line waits or holds and is there once
(`LineOK`), `running` says that the drain is under way (`DrainOK`), and a turn runs only while its
actor holds the lock, with a batch, live input or an aborted controller only where the code can have
one (`TurnOK`). `LineStep`, `DrainStep` and `TurnStepOK` prove it action by action. On it rest:

* `QueueState`, the three properties of queue, map and threads together: a step of the turn leaves the
  queue alone or takes for a drain that runs, and then tells the threads (`StepTakes`).
* `EditsMeetNoTurn`: when nothing is counted, no turn of the queue is in the line (`IdleLine`), and who
  joins later stands behind the edit (`JoinMeetsNoTurn`).
* `Ordered`: stored, in hand and waiting messages precede each other as sets of numbers (`Lined`). The
  lemmas `LinedWhen...` say what posting, taking, storing and dropping do to it; `OrderOfConcat` turns
  it into the order of the concatenated sequences.
* `CallsOK`: while calls are executed, since the last call there are only results and rows that the agent
  sent, so that the next result stands after it with nothing else between.
* `Reading`: without stops and restarts a stored message that no model read and no error told of is
  one of the drain's turn before it asks its model. It is what makes `AnsweredOrTold` inductive.

`RoutineRunsProofs` proves, for every number of routines, processes, runs, requests, crashes and
faults, every period, cap and delay:

| Theorem | Property |
|---|---|
| `TypesHold` | `TypeOK` |
| `EndedForGood` | `EndedRunsStayEnded` |
| `ToldOnce` | `ToldOnceAndTruly` |
| `SlotsFireOnce` | `SlotFiresOnce` |
| `MissedSlotsStayMissed` | `MissedSlotsAreNotReplayed` |
| `LiveRunsAreSafe` | `LiveRunsAreNotReaped`, if `RenewEvery < Window` |

Two lemmas carry the first three about runs. `EveryStep` says what one step of the whole system can
do to one run (`RunSteps`): nothing, record it or pick it up, reap it, end it, tell of it, delete it.
The action property follows from it and the types, because only a run that has not ended is picked
up, reaped or ended.

* `ToldOnceAndTruly` is not inductive: a job that has written an outcome could tell of a run that was
  told of before. `ToldLater` adds that a run whose job is about to tell has no notification yet, and
  the outcome the job is going to tell.
* `SlotFiresOnce` is inductive as it stands. Every step but a claim adds no run of a slot
  (`SlotsKept`); what a claim adds is of a routine whose slot had no run, one for each such routine
  (`ClaimRecords`).
* `MissedSlotsAreNotReplayed` needs to know where a routine's next slot lies (`SlotsInv`): after what it
  was enabled at and after every run it has had, give or take `Delay`, the time that a request may take
  between computing a slot and writing it (`RequestInTime`). A claim takes the first slot that is due and
  jumps past now (`NextSlot`).
* `LiveRunsAreNotReaped` needs to know how long a lease still lasts: `LeaseInv` says that a run held
  by a process that does not stall is running, has that process as its owner, and has at least
  `Window` less the time since its renewal left. With `RenewEvery < Window` that is never 0 when a
  reap looks, and a renewal always finds the run its own. The code has 30 seconds and two minutes.

`TypeOK` of `TurnCoordinator` and of `RoutineRuns` is proved (`TypesHold`) and no longer checked by a run.

`AgentTurnsProofs` proves of `AgentMail`, for every set of mail, agents, turns and requests and every size of a batch:

| Theorem | Property |
|---|---|
| `MailTypes` | `TypeOK` |
| `ReadIsShown` | `ReadMailIsShown` |
| `SentIsDelivered` | `SentMailIsDelivered`, while `BatchesReach` |
| `MailIsNotForgotten` | `NoMailIsForgotten`, while `BatchesReach` and `InboxesFit` |
| `FewMailIsNotForgotten` | the last two for every behaviour, if there is no more mail for an agent than the batches of one send and one batch of an inbox turn hold |

The two conditions are about behaviours: a sender's attempts reach as many rows as its agent has pending at
any time, and a batch of an inbox turn takes all that is delivered at any time. The code needs such
conditions: without the second `NoMailIsForgotten` is false, as `agent_mail_backlog` shows, and without the
first a sender may give up before it reaches its row. `MailInv` says what an actor has in hand at each of
its stages. `ReadIsKept`: mail that is read is in a transcript, or was told of, or its turn still has it.
`SendersReach` counts the older mail in a sender's way against the batches that it has left (`WithinReach`);
the lemmas about `Oldest` say that a full batch has that many rows. `DeliveredIsComing`: mail that nobody
has read has its sender still at work, an inbox turn waiting, or one on its way that has not listed yet or
has it in its list.

Of `GroupRounds` it proves, for every set of agents, memberships, mentions and lists of tools, every size of
a context and a summary, every step cap and every number of messages and disturbances:

| Theorem | Property |
|---|---|
| `GroupTypesHold` | `GroupTypeOK` |
| `ModelsRead` | `ModelsReadWhatTheyShould`: `RequestsAreWhole`, `SummariesMissNothingNew` |
| `RoundsStayFair` | `RoundsAreFair`: `NobodyAnswersTwice`, `EarlierRepliesAreInTheHistory`, `AskedHaveAnswered` |

Both properties look at a request, at the summaries or at the end of a round; the inductive invariant
`GroupInv` says what the rows, the turn and the round are like on the way:

* `StagesAgree` says what is set at which stage: calls wait only while tools run, a summary is asked for only
  while nobody has the floor, who has the floor was called.
* `TranscriptsAreWhole` says of the stored rows and of those that the agent has read (`Whole`): ids rise, a
  call has one place, a result comes after its call with only results and sent messages of the same agent
  between (`Follows`), and each call has its result unless it still waits or was broken off (`Unsettled`).
  Both are needed, because a request is made of what was read, and the next agent reads what is stored.
  Every action that stores appends rows without calls (`PlainAppend`), a result (`ResultAppend`) or an answer
  (`AnswerAppend`); a deletion takes a call's results along (`WholeDeleteMessage`). A request then is
  whole for three reasons: no summary stands between a call and its result, so that what comes after one is
  whole; `AsRead` takes the calls of another agent away with the results; and trimming starts at a user
  message, which is not between a call and its result either.
* `SummariesOK` says of the stored summaries, and of the one being written while the lock is kept, that a line
  before it is in it or older than all that is. `SummarizedCovers` shows it of the newest lines that fit.
* `RoundInv` is about the round. `RoundRows`: its user message is stored, and after it there are no summary
  and only rows of the user and of agents that had the floor. `RepliesKnown`: what was said in the round are
  the replies of the agents that are through. `ReadIs`: an agent has read the rows up to the beginning of its
  turn, and since then only it and the user have added some. `Asked`: whom a message of
  the round asks has the floor, had it, or waits. With them `RepliesRead` shows what an agent is asked with:
  whether a row is a reply depends on the other rows of its round (`IsReply`), and those of another agent are
  the same in the request, in the rows read and in the rows stored.

There is a lemma per action for the types (`Type...`), for the transcripts (`Whole...`) and, of the actions
within an agent's turn, that they only go on (`...Goes`): nobody is called or heard, nothing is summarized,
and the rows that the agent and the user add are the newest. Such a step keeps each part of `RoundInv`
(`RoundRowsGoOn`, `RepliesGoOn`, `ReadGoesOn`, `AskedGoesOn`, `SummariesGoOn`). What begins a round, calls an
agent, refuses it and ends its turn has a lemma each (`RoundStarts`, `SpeechBegins`, `RoundRefuses`,
`SpeechEnds`).

`TurnsTypesHold` (`TurnsTypeOK`) is about the instance `MCAgentTurns`: a step of it is one of the mail or one
of the rounds and leaves the other alone (`TurnsStep`), so that a behaviour of the instance is one of each.

`ProviderProofs` is about `CliLogin`, `CliInstall` and `McpConnection`. For every set of CLIs and inputs and
every number of sign-ins, prints and faults:

| Theorem | Property |
|---|---|
| `LoginTypesHold` | `LoginTypeOK` |
| `SignInsHold` | `SignInsKeepToThemselves`, from `ProcessesAreEnded` and `OwnReasons` |
| `DoneIsSignedIn` | `DoneMeansSignedIn` |

None of them is inductive, because handlers carry what they have read over an await. `LoginInv` says what
each of them holds: a running process belongs to the current sign-in, and a sign-in that waits has a
process that runs or has ended by itself (`ProcessOK`); a chain that did not break at its first write has
left credentials (`CredentialsOK`); the handler of an exit goes on only for the sign-in of its own
process, and says that it saw credentials only when there are some (`FinishingOK`); an input past its
write found it stored (`InputOK`). Credentials never go.

For every number of servers, versions and installs it proves `InstallTypesHold`, and
`InstallsHold` (`InstallsAreTrue`) from `WholeBinaries` and `AnsweredIsInstalled`. `InstallInv` adds that
what is staged is whole from the probe or the download on (`StagedIsWhole`), that what an install stages
is the pinned version if there is a pin (`PinIsWanted`), and that binary and manifest agree unless the
server stopped between them (`FilesAgree`).

For every number of calls and clients it proves `QuietConnections` (`QuietConnectionAgrees`) and
`ServersStayFailed`, the action property `FailedServersStay` of `CallsAreAnswered`. `McpInv` relates the
state of the connection, the attempt under way, the current client and the channels of all clients between
any two steps: an attempt's client is the current one until somebody closes it, and who closed it has yet to
say so (`AttemptOK`); a call that resets waits for a client that it closed (`ResetsOK`); without an attempt
a connection that is ready has a client, unless a reset or a shutdown is about to change that (`ReadyOK`);
tools of a connection that is not ready were announced by a forgotten client (`ToolsOK`).

`ServicesProofs` is about `Deliveries`, `AgentChats` and `SettingsCache`. For every number of processes and
webhooks and every length of a lease with `RenewEvery < Window` it proves `DeliveriesHold`
(`DeliveriesAreTrue`), from `ToldOfOnce` and `LeasesHold`, and `EndedForGood`, the action property of
`DeliveriesEndForGood`. `DeliveriesInv` holds for each delivery apart: its request has no row before it is
answered (`RequestOK`), what was told is what the row says and a job that is about to tell is the first
(`NoticeOK`), what is left of a lease and what has passed since its renewal make up a window (`LeaseOK`),
and a process that is not late renews in time (`SinceOK`). The lemmas are about one delivery in one step, so
that an action on one delivery and a tick on all of them use the same ones. `DeliveryTypesHold` is the type
invariant. `LimitersHold` (`WindowHolds`) is about the limiter: of the requests it allowed it keeps those of
the window at least, so that the length of its list bounds them (`LimiterOK`).

For every set of agents and requests it proves `ChatsHold` (`ChatsStayTogether`), from `AgentsHaveOneChat`,
`ChatsNameWhoExists` and `FailuresHaveReasons`, and `ChatTypesHold`. `ChatsInv` says of each request, by its
stage, what it has read that still holds unless another disturbed it (`StillTrue`) and what it relies on
even then (`ChatOfRequest`, `LastCheck`); every step of a request that could break it disturbs it.

For every set of settings, processes and calls and every time of the cache it proves `SettingsTypesHold` and
`SettingsHold` (`SettingsSettle`), from `ChangesDoApply`. `SettingsInv` adds that a cache, or a read about to
fill it, that is younger than the last step of a patch has what the rows hold (`CacheOK`, `CacheReadOK`), and that
a patch that met no other has written what it sets for every key that is not left (`AloneOK`).

At last it proves of `MCServices` that a behaviour of the instance is one of each of its components
(`PartsAreThemselves`). So each theorem about one of them holds of it in the instance, and from their types
follows `ServicesTypesHold` (`TypesOK`).

`BrowserProofs` is about `Dictation` and `ThreadSync`. It proves `NobodyIsOverheardEver`
(`NobodyIsOverheard`) for every number of recordings, from `MicrophoneIsShown` and `LimitsAreHeard`, all
three for behaviours in which no older upload ends during a recording.
`DictationInv` says that the composer shows the current recording (`ShownOK`) and, for each recording by its
stage, which of its flags may be set (`StageOK`): one that goes on is the current one, and every path that
forgets it must have released it.

Of the thread it proves, for every set of messages and edits and every number of changes and faults:

| Theorem | Property |
|---|---|
| `ThreadTypesHold` | `ThreadTypeOK` |
| `ThreadIsTrueAlways` | `ThreadIsTrue`: `QuietTabIsCurrent`, `NothingIsListedTwice`, `BubblesSettle` |

All three parts speak of quiet states or of the tab alone, and `ThreadInv` says what makes them true on the
way. `Pending` are the changes that the tab will still hear of: those on the wire and the one that is
stored and not published.

* `MirrorInv`. A list that was the transcript as of change n differs from the stored one only by what is
  pending (`RowOK`): a row that is gone has a deletion pending that is newer than n, one with another text
  an update. So do the rows in an answered read (`ReadOK`), in a message on the wire or in a reply
  (`HearsOK`), and what the tab shows (`Faithful`), unless changes went past it (`Passed`). Every change is
  pending or went past; what is on the wire is in order (`LinesOK`); rows that are still stored stand in
  their order (`InOrder`). When all is quiet nothing is pending, so the shown rows are the stored rows, and
  two lists of rows in the order of their ids with the same rows are equal (`SameTranscript`).
* `PostsInv`. A bubble is a post that was sent and did not arrive, or has a row to come: its message waits,
  is in the turn's batch, or is in a pending change (`Coming`). Statuses on the wire name posts only whose
  row comes after them (`StatusesOK`), so that a status brings no bubble back that nothing settles.

Each has a lemma per action: `...Types`, `...Mirror`, `...Posts`. A stored change is one of three kinds
(`StoredAs`), whichever request makes it, and `StoredMirror` is about these. `FilterProofs` has the lemmas
on `FilterAt` (`AtIs`, `AtKeeps`), which say that filtering keeps the elements that pass, each once and in
order; deletions in `ThreadSync` (`WithoutIs`) and in `GroupRounds` (`FilterIs`) rest on them.

The proofs assume the modules' named assumptions only: finitely many turns, `NoTurn` is no turn, settings
are integers, background turns are finitely many and no drain, edit or other turn, routines are finitely
many and at least one, mail is finitely many, memberships, mentions and tool calls come in lists, the members
of a chat are distinct and none of them its owner or the user, the keys of the settings are written in the
order of a list, at least two chats may be created, `Claude` is a CLI, `Dead` is no server, a renewal comes
before its lease ends, the step cap is at least one, and the bounds are natural numbers. A setting of zero or
less is allowed, because `Limit` is at least one whatever the setting is. `RoutineRuns` states
`RenewEvery < Window` in the theorem that needs it.

Every invariant that a passing run checks is proved. Only model-checked is all liveness: `RunsEnd`,
`NobodyWaitsForEver`, `EverybodyIsServed`, `DialogsEnd`, and the parts of `CallsAreAnswered` and
`DeliveriesEndForGood` that say that something ends. Liveness under fairness needs ENABLED, which the prover
does not handle. No module here has a RECURSIVE operator, and no proof is by induction over data: the provers
cannot instantiate an induction scheme over an operator. What looked like induction was stated without it: the
limiter with sets of requests and their ages, the filters with the ranks of the places that are kept
(`Filter`), the order of mentions with the property that its one list has, and a transcript by what each row
is and not by a fold.

## 5. Findings

* **A message posted after Stop may get no turn** (`chat_queue_stop`, `LateMessagesGetTheirTurn`).
  The comment on stop promises that messages queued after it still get their turn. The turn that is
  being stopped may itself take one, at its next step or as live input of a CLI that is being killed,
  store it, and end as aborted: the message is in the transcript and no model read it.
* **A finished run may be told of by nobody** (`routine_told`, `FinishedRunsAreTold`). The outcome,
  the routine's `lastRunAt` and the notification are three statements; a process that stops between
  them leaves an ended run that no reap looks at.
* **Two turns in one chat, from two processes** (`routine_chat`, `OneTurnPerChat`). The lock of a chat
  is in one process; two routines of one agent claimed by two processes run in its chat at once.
* **An inbox turn may end with mail still waiting** (`agent_mail_backlog`, `NoMailIsForgotten`). When
  another turn claims the whole batch that an inbox turn has listed, the inbox turn ends, although
  more mail waits behind the batch, and nothing schedules another. It takes more than 50 waiting
  messages.
* **A message sent while a tab reconnects may be missed** (`thread_gap`, `NothingSentIsMissed`). After a
  gap the tab reads the transcript and then opens the stream; a message stored and published in between
  comes neither way. The next end of a turn makes up for it, and a chat that stays idle has none.
* **A recording may go on past its time limit** (`dictation_limit`, `RecordingsStopAtTheLimit`). Blocking the
  composer makes the microphone button idle while a recording is uploaded. If the user then records again and
  the old upload ends meanwhile, its handler makes the button idle once more; the time limit of the new
  recording finds the phase idle and stops nothing. `DEPLOY.md` says that the browser stops recording at the
  limit.

`PROJECT.json` quotes the document of each. One more disagreement has no run of its own. The comment on a
round (`turn.ts:116`) says that each agent reads the replies before its own. They are in the history it is
asked with, which `EarlierRepliesAreInTheHistory` says, but the request is what `trimToBudget` leaves of it,
and each reply of another agent begins a turn there (`loop.ts:418`, `context.ts:18`): when the replies of a
round exceed the context, the earlier ones are dropped, and before them the message that they answer.

Seen and not counted as findings, because nothing
promises otherwise: a queued run that waits for a slot longer than a lease lasts is marked failed
while its process is alive; overlapping deliveries show a piece of mail twice; a status request may
move mail that was read back to delivered, because it checks a row that it read earlier; a background
turn that is just asked for takes a slot before the turns that wait when the limit was raised and no job has
ended since (`turns.ts:70`); an agent that becomes a member of a group chat between the last check of its deletion and the deletion
stays named by it (`raced`); a client that posts again with the id of a post that was taken meanwhile
sends the message twice; a process that stops after mail was delivered or claimed leaves nothing that
schedules its inbox turn; a message that is steered into the first speaker's turn and mentions another
member is answered by the first speaker only, because the round looks at the mentions of the message it
began with; a stop or an error between two calls leaves a call without a result in every later request;
the request for a summary may use 70 % of the context and automatic compaction starts above 75 %, so that
the oldest lines are left out of a summary, which the code says in the request.

## 6. What is not modelled

* Requests that touch one row in one statement (memories, roles, profiles, usage, notifications'
  reading): nothing interleaves.
* I/O of the operating system and services: tools, file uploads, workspaces, push, speech services,
  GitHub, model providers. What a turn sees of them are results and errors, which the models choose
  freely.
* Parsing and formatting: SSE, provider streams, cron fields, mentions' text; the HTTP client, the
  normalization of its answers and the validation of configuration, which are most of the untouched
  lines of `core` and of `server/src/config.ts`.
* Permissions: a pure function on an agent's tools and roles. Of a request to a model the memories, the
  images and the system prompt; of a mention, how it is found in a text.
* The store in memory (`server/src/db/memory.ts`): each of its operations is one synchronous step, so
  its behaviours are among those of the models of the Postgres store.
* Rendering: the pages and components of `web` and `ui`, apart from the thread and the dictation hook.
* Deployment scripts, accounts and sessions.
* Details of modelled parts. The scheduler's room (`available()`) also subtracts the turns that wait for a
  slot; `RoutineRuns` does not, and so allows more claims. A stdio client of an MCP server that is being
  closed may still answer a refresh of its tools that was under way; `ToolsChanged` needs an open channel. A
  delivery whose failure cannot be written is tried once more; `Deliveries` ends the job at once, as it ends
  when the second write throws too.

## 7. Plan

Built so far, in this order: the turn coordinator with its abstract lock, the chat queue with the turns it
runs, routines with their leases, agent mail, the components of `MCServices`, and the rounds of replies; then
proofs about all of them. What is left:

1. *Accounts*: invitations, sign-ups and the deletion of administrators that race.
2. *Permissions*, against a reference definition over small inputs.
