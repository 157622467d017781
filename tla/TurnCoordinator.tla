-------------------------- MODULE TurnCoordinator ---------------------------
(***************************************************************************)
(* The turn coordinator of one server process                              *)
(* (packages/server/src/runtime/turns.ts).  Every turn in a chat takes the *)
(* chat's lock, a chain of promises with one link per call; a background   *)
(* turn (routine run, webhook delivery) first takes one of a bounded       *)
(* number of slots, whose limit is a live setting.                         *)
(*                                                                         *)
(* The process runs one event loop: the code between two awaits is one     *)
(* action, and the resolution of a promise is an action of its own.        *)
(***************************************************************************)
EXTENDS Integers, Sequences, FiniteSets

CONSTANTS Chats,         \* chat ids
          Turns,         \* calls of exclusive, stream and runInBackground
          Settings,      \* values the concurrency setting may take
          IdleCallers,   \* callers of whenIdle
          NoTurn         \* the chat has no entry in `tails`

ASSUME NoTurnAssumption == NoTurn \notin Turns
ASSUME SettingsAssumption == Settings \subseteq Int /\ Settings # {}
ASSUME TurnsFinite == IsFiniteSet(Turns)

VARIABLES
  tails,         \* tails[c]: the turn whose promise is the chat's tail
  prev,          \* prev[t]: `previous` of t's call of lock
  open,          \* turns whose gate is resolved: release() was called
  settled,       \* turns whose `settled` promise is resolved
  pc,            \* where each turn is
  concurrency,   \* the setting, read by limit() on each use
  active,        \* the counter of running background turns
  jobs,          \* background turns whose fn runs: what `active` counts
  waiting,       \* background turns waiting for a slot, oldest first
  idleWaiters,   \* callers of whenIdle still waiting
  raised,        \* history: the limit grew since a job last ended while turns wait
  calls          \* history: calls[c] is every call of lock(c), in order

lockVars == <<tails, prev, open, settled, calls>>
slotVars == <<concurrency, active, jobs, waiting, idleWaiters, raised>>
vars == <<lockVars, slotVars, pc>>

PCs == {"new", "queued", "started", "locking", "running", "released", "done"}

TypeOK == /\ tails \in [Chats -> Turns \cup {NoTurn}]
          /\ prev \in [Turns -> Turns \cup {NoTurn}]
          /\ open \subseteq Turns
          /\ settled \subseteq Turns
          /\ pc \in [Turns -> PCs]
          /\ concurrency \in Settings
          /\ active \in Nat
          /\ jobs \subseteq Turns
          /\ waiting \in Seq(Turns)
          /\ idleWaiters \subseteq IdleCallers
          /\ raised \in BOOLEAN
          /\ calls \in [Chats -> Seq(Turns)]

Init == /\ tails = [c \in Chats |-> NoTurn]
        /\ prev = [t \in Turns |-> NoTurn]
        /\ open = {}
        /\ settled = {}
        /\ pc = [t \in Turns |-> "new"]
        /\ concurrency \in Settings
        /\ active = 0
        /\ jobs = {}
        /\ waiting = <<>>
        /\ idleWaiters = {}
        /\ raised = FALSE
        /\ calls = [c \in Chats |-> <<>>]

-----------------------------------------------------------------------------
\* The slots.

\* A mutant of Limit: the lower bound of one forgotten.
LimitFromZero == concurrency - 1

\* limit(): at least one turn may always run.
Limit == IF concurrency > 1 THEN concurrency ELSE 1

\* available(): the slots a new background turn could take at once.
Available == LET n == Limit - active - Len(waiting) IN IF n > 0 THEN n ELSE 0

\* Mutants of Idle: jobs that still run overlooked; the test made before the
\* counter is decremented.
IdleIgnoresJobs(running, left) == left = <<>>
IdleTooEarly(running, left) == running + 1 = 0 /\ left = <<>>

\* The condition under which pump() resolves whenIdle, and whenIdle at once.
Idle(running, left) == running = 0 /\ left = <<>>

\* Mutants of Starts: an `if` for the loop; `<=` for `<`; no loop.
StartsOne(running) == IF running < Limit /\ waiting # <<>> THEN 1 ELSE 0
StartsOneMore(running) ==
  LET room == IF running <= Limit THEN Limit - running + 1 ELSE 0
  IN  IF Len(waiting) < room THEN Len(waiting) ELSE room
StartsNone(running) == 0

\* How many waiters the loop of pump() starts when `running` turns hold slots.
Starts(running) ==
  LET room == IF running < Limit THEN Limit - running ELSE 0
  IN  IF Len(waiting) < room THEN Len(waiting) ELSE room

\* A mutant of Shifted: pop() for shift().
Popped(k) == {waiting[i] : i \in (Len(waiting) - k + 1) .. Len(waiting)}

\* The k waiters the loop of pump() takes from the front.
Shifted(k) == {waiting[i] : i \in 1 .. k}

\* A mutant of RunInBackground: the counter not incremented.
RunUncounted(t) == /\ pc[t] = "new"
                   /\ jobs' = jobs \cup {t}
                   /\ pc' = [pc EXCEPT ![t] = "started"]
                   /\ UNCHANGED <<lockVars, concurrency, active, waiting, idleWaiters, raised>>

\* A new background turn looks at the counter only: where the limit was raised
\* since others were turned away, it takes a slot past them.
RunInBackground(t) ==
  /\ pc[t] = "new"
  /\ IF active < Limit
       THEN /\ active' = active + 1
            /\ jobs' = jobs \cup {t}
            /\ pc' = [pc EXCEPT ![t] = "started"]
            /\ UNCHANGED waiting
       ELSE /\ waiting' = Append(waiting, t)
            /\ pc' = [pc EXCEPT ![t] = "queued"]
            /\ UNCHANGED <<active, jobs>>
  /\ UNCHANGED <<lockVars, concurrency, idleWaiters, raised>>

\* fn settled, whether it took the chat or returned before: the finally block
\* gives the slot back, and pump() starts the oldest waiters and, when nothing
\* is left, resolves whenIdle.
Finish(t) ==
  LET k == Starts(active - 1)
      rest == SubSeq(waiting, k + 1, Len(waiting))
  IN  /\ t \in jobs
      /\ pc[t] \in {"started", "released"}
      /\ active' = active - 1 + k
      /\ jobs' = (jobs \ {t}) \cup Shifted(k)
      /\ waiting' = rest
      /\ idleWaiters' = IF Idle(active - 1 + k, rest) THEN {} ELSE idleWaiters
      /\ raised' = FALSE
      /\ pc' = [u \in Turns |-> IF u = t THEN "done"
                                ELSE IF u \in Shifted(k) THEN "started" ELSE pc[u]]
      /\ UNCHANGED <<lockVars, concurrency>>

WhenIdle(w) == /\ ~Idle(active, waiting)
               /\ idleWaiters' = idleWaiters \cup {w}
               /\ UNCHANGED <<lockVars, concurrency, active, jobs, waiting, raised, pc>>

\* The instance settings change while turns run; nothing calls pump() then.
SetConcurrency(n) == /\ concurrency' = n
                     /\ raised' = (waiting # <<>> /\ (raised \/ Limit' > Limit))
                     /\ UNCHANGED <<lockVars, active, jobs, waiting, idleWaiters, pc>>

-----------------------------------------------------------------------------
\* The lock.

\* A mutant of PreviousSettled: the promise of a caller ahead never resolves.
PreviousNeverSettles(t) == prev[t] = NoTurn

PreviousSettled(t) == prev[t] = NoTurn \/ prev[t] \in settled

\* lock(c), called by an interactive turn or by a started background turn: the
\* call links itself behind the chat's tail and becomes the tail.
Lock(t, c) == /\ pc[t] \in {"new", "started"}
              /\ prev' = [prev EXCEPT ![t] = tails[c]]
              /\ tails' = [tails EXCEPT ![c] = t]
              /\ calls' = [calls EXCEPT ![c] = Append(@, t)]
              /\ pc' = [pc EXCEPT ![t] = "locking"]
              /\ UNCHANGED <<open, settled, slotVars>>

\* previous.then(...) runs: the turn has the chat.
Grant(t) == /\ pc[t] = "locking"
            /\ PreviousSettled(t)
            /\ pc' = [pc EXCEPT ![t] = "running"]
            /\ UNCHANGED <<lockVars, slotVars>>

\* Mutants of TailsWithout: the entry dropped even when somebody queued behind
\* it; the entry never dropped.
TailsCleared(t) ==
  [c \in Chats |-> IF \E i \in DOMAIN calls[c] : calls[c][i] = t THEN NoTurn ELSE tails[c]]
TailsKept(t) == tails

\* `if (tails.get(chatId) === settled) tails.delete(chatId)`, for t's promise.
TailsWithout(t) == [c \in Chats |-> IF tails[c] = t THEN NoTurn ELSE tails[c]]

\* The turn returned or threw: release() in the finally block opens the gate
\* and drops the chat's entry unless somebody queued behind it.
Release(t) == /\ pc[t] = "running"
              /\ open' = open \cup {t}
              /\ tails' = TailsWithout(t)
              /\ pc' = [pc EXCEPT ![t] = "released"]
              /\ UNCHANGED <<prev, settled, calls, slotVars>>

\* tail = previous.then(() => gate) and the promise after it resolve.
Settle(t) == /\ t \in open \ settled
             /\ PreviousSettled(t)
             /\ settled' = settled \cup {t}
             /\ UNCHANGED <<tails, prev, open, calls, slotVars, pc>>

-----------------------------------------------------------------------------
Next == \/ \E t \in Turns : \/ RunInBackground(t)
                            \/ \E c \in Chats : Lock(t, c)
                            \/ Grant(t)
                            \/ Release(t)
                            \/ Settle(t)
                            \/ Finish(t)
        \/ \E w \in IdleCallers : WhenIdle(w)
        \/ \E n \in Settings : SetConcurrency(n)

Spec == Init /\ [][Next]_vars

\* The event loop runs every reaction whose promise is resolved, and a turn
\* that has the chat ends (its steps are bounded, its model is assumed to answer).
\* Nobody has to call anything.
FairSpec == Spec /\ \A t \in Turns : /\ WF_vars(Grant(t))
                                     /\ WF_vars(Release(t))
                                     /\ WF_vars(Settle(t))
                                     /\ WF_vars(Finish(t))

-----------------------------------------------------------------------------
\* Mutual exclusion of the promise chain: two turns never run in one chat at
\* the same time, however calls, releases and promise resolutions interleave.
MutualExclusion ==
  \A c \in Chats : \A i, j \in DOMAIN calls[c] :
    pc[calls[c][i]] = "running" /\ pc[calls[c][j]] = "running" => i = j

\* The chat's entry in `tails` is there exactly as long as its last caller
\* has not released: a call that finds no entry may run at once, and an idle
\* chat leaves nothing behind in the map.
TailsMatchCallers ==
  \A c \in Chats :
    IF tails[c] = NoTurn
      THEN \A i \in DOMAIN calls[c] : calls[c][i] \in open
      ELSE /\ calls[c] # <<>>
           /\ tails[c] = calls[c][Len(calls[c])]
           /\ tails[c] \notin open

\* The counter counts: `active` is the number of background turns that were
\* started and whose slot was not given back.
ActiveCountsJobs == active = Cardinality(jobs)

\* A background turn that waits for a slot, and a caller of whenIdle, can rely
\* on a running job whose end will call pump(), even though a change of the
\* setting does not: nobody waits while nothing runs.
NobodyWaitsForNothing == waiting # <<>> \/ idleWaiters # {} => jobs # {}

\* The slots add up: the counter is exact, and who waits has a job to wait for.
SlotsAddUp == ActiveCountsJobs /\ NobodyWaitsForNothing

\* The end of a job leaves no slot free while a turn waits for one, also when
\* the limit was raised or lowered since the waiters were turned away.
FinishFillsSlots ==
  [][jobs \ jobs' # {} /\ waiting' # <<>> => active' >= Limit]_vars

\* Starting a background turn never takes the process over the limit in force.
StartsUnderLimit == [][jobs' \ jobs # {} => active' <= Limit']_vars

\* The waiters start among themselves oldest first: none starts while one that
\* came before it is still waiting.
WaitersStartInOrder ==
  [][\A i, j \in DOMAIN waiting :
       i < j /\ waiting[j] \in jobs' => waiting[i] \in jobs']_vars

\* A background turn just asked for may overtake the turns that wait, since it
\* takes a free slot without a look at them; but there is a free slot to take
\* only when the limit was raised after the last job ended, and never otherwise.
NewcomersOvertakeAfterARaise ==
  [][(\E t \in Turns : pc[t] = "new" /\ t \in jobs') /\ waiting # <<>> => raised]_vars

\* whenIdle resolves only when no background turn runs or waits.
IdleMeansIdle == [][idleWaiters \ idleWaiters' # {} => active' = 0 /\ waiting' = <<>>]_vars

\* How slots are given: the end of a job fills as many as the limit admits, the
\* waiters are taken in their order, a newcomer passes them only where the limit
\* was raised, and nobody is told that all is idle before it is.
SlotDiscipline ==
  /\ FinishFillsSlots
  /\ StartsUnderLimit
  /\ WaitersStartInOrder
  /\ NewcomersOvertakeAfterARaise
  /\ IdleMeansIdle

\* A background turn that waits for a slot gets one.
WaiterStarts == \A t \in Turns : pc[t] = "queued" ~> t \in jobs

\* whenIdle resolves once background work ends: its callers are not forgotten.
IdleCallersReturn == \A w \in IdleCallers : w \in idleWaiters ~> w \notin idleWaiters

-----------------------------------------------------------------------------
\* The promise chain implements the abstract lock.
LockState ==
  [t \in Turns |-> IF t \in open THEN "released"
                   ELSE CASE pc[t] = "running" -> "holding"
                          [] pc[t] = "locking" -> "waiting"
                          [] OTHER -> "out"]

Abstract == INSTANCE ChatLock WITH calls <- calls, state <- LockState

\* Every behaviour of the promise chain is one of the lock that lets turns into
\* a chat one at a time and in the order in which they asked.
ImplementsChatLock == Abstract!Spec

\* With the fairness of the event loop it also serves every caller, as the
\* abstract lock does.
ServesLikeTheChatLock == Abstract!Fairness

\* Nobody waits for ever: neither for the chat, nor for a slot, nor for idleness.
NobodyWaitsForEver == WaiterStarts /\ IdleCallersReturn /\ ServesLikeTheChatLock
=============================================================================
