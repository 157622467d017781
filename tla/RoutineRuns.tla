----------------------------- MODULE RoutineRuns -----------------------------
(***************************************************************************)
(* Routines and their runs, in server processes that share one database:   *)
(* the scheduler's tick (server/src/routines/scheduler.ts), the store's    *)
(* claims and leases (db/src/always-on.ts), the execution of a run         *)
(* (server/src/runtime/jobs.ts) and the requests that change a routine     *)
(* (server/src/routes/routines.ts).                                        *)
(*                                                                         *)
(* A routine is due when `next` is reached.  A tick records a run for the  *)
(* slot and moves `next` on, in one transaction; the process then executes *)
(* the run as a background job, under a lease that it renews, and writes a *)
(* notification.  Any process's tick marks runs failed whose lease ran     *)
(* out, or that nobody picked up.  Processes crash, and lose their jobs.   *)
(*                                                                         *)
(* Time is counted in units in which a lease lasts Window and is renewed   *)
(* every RenewEvery.  A run keeps `left`, the time until it may be reaped: *)
(* the rest of its lease, or of the window after its creation before it    *)
(* has one.  All routines belong to one agent, so their turns run in one   *)
(* chat (ensureAgentChat).                                                 *)
(***************************************************************************)
EXTENDS Integers, Sequences, FiniteSets

CONSTANTS Routines, Procs,
          Period,      \* a slot is a multiple of Period
          Window, RenewEvery,  \* RUN_LEASE_MS and RUN_LEASE_RENEW_MS
          Cap,         \* background turns at a time in a process
          Delay,       \* the longest a request to change a routine takes
          Stalling,    \* processes that may miss their renewals
          Nobody,
          Horizon, MaxRuns, MaxRequests, MaxCrashes, MaxFaults  \* bounds

ASSUME PeriodAssumption == Period \in Nat \ {0}
ASSUME WindowAssumption == Window \in Nat \ {0} /\ RenewEvery \in Nat \ {0}
ASSUME NobodyAssumption == Nobody \notin Procs
ASSUME RoutinesAssumption == Routines # {} /\ IsFiniteSet(Routines) /\ Cap \in Nat
ASSUME BoundsAssumption == {Horizon, MaxRuns, MaxRequests, MaxCrashes, MaxFaults} \subseteq Nat
ASSUME DelayAssumption == Delay \in Nat

VARIABLES
  now,       \* the time, up to Horizon
  routine,   \* the rows of routines
  run,       \* the rows of routine_runs
  notes,     \* the notifications written for each run, as the ends they tell of
  tick,      \* where each process's tick is, and the room it read
  job,       \* the job that executes each run: its process and where it is
  timer,     \* time since the job last renewed its lease
  alive,     \* processes that run
  request,   \* the request to change a routine that is handled
  since,     \* history: when a request that found it paused last enabled each routine
  requests, crashes, faults

vars == <<now, routine, run, notes, tick, job, timer, alive, request, since,
          requests, crashes, faults>>
store == <<routine, run, notes>>
bounds == <<requests, crashes, faults>>

Runs == 1 .. MaxRuns
Live == {"queued", "running"}
Ended == {"succeeded", "failed"}
Kinds == {"none", "pause", "resume", "enable", "reschedule", "delete"}

\* Where a job is: "waiting" for a slot of its process, "read" once it has
\* read its run, "held" with the lease and waiting for the chat, in its
\* "turn", "ok" or "bad" with the turn's outcome, "succeeded" or "failed" once
\* the row has that outcome, "none" before and after.
Stages == {"none", "waiting", "read", "held", "turn", "ok", "bad"} \cup Ended
Started == Stages \ {"none", "waiting"}
Holding == {"held", "turn", "ok", "bad"}

NoRun == [status |-> "none", of |-> CHOOSE r \in Routines : TRUE, slot |-> 0,
          at |-> 0, since |-> 0, owner |-> Nobody, leased |-> FALSE, left |-> 0]
NoJob == [by |-> Nobody, stage |-> "none"]

\* The rows, and the other records.
RoutineRows == [exists : BOOLEAN, enabled : BOOLEAN, next : Nat]
RunRows == [status : {"none", "deleted"} \cup Live \cup Ended, of : Routines,
            slot : Nat, at : Nat, since : Nat, owner : Procs \cup {Nobody},
            leased : BOOLEAN, left : 0 .. Window]
Jobs == [by : Procs \cup {Nobody}, stage : Stages]
Ticks == [stage : {"idle", "reaped", "claiming"}, room : Nat]
Requests == [kind : Kinds, of : Routines, at : Nat, enabled : BOOLEAN]

TypeOK ==
  /\ now \in 0 .. Horizon
  /\ routine \in [Routines -> RoutineRows]
  /\ run \in [Runs -> RunRows]
  /\ notes \in [Runs -> Seq(Ended)]
  /\ tick \in [Procs -> Ticks]
  /\ job \in [Runs -> Jobs]
  /\ timer \in [Runs -> 0 .. RenewEvery]
  /\ alive \subseteq Procs
  /\ request \in Requests
  /\ since \in [Routines -> Nat]
  /\ requests \in 0 .. MaxRequests /\ crashes \in 0 .. MaxCrashes /\ faults \in 0 .. MaxFaults

NoRequest == [kind |-> "none", of |-> CHOOSE r \in Routines : TRUE, at |-> 0, enabled |-> FALSE]

\* nextFutureSlot(): the first slot strictly after t.
NextSlot(t) == (t \div Period + 1) * Period

Init == /\ now = 0
        /\ routine = [r \in Routines |-> [exists |-> TRUE, enabled |-> TRUE, next |-> NextSlot(0)]]
        /\ run = [i \in Runs |-> NoRun]
        /\ notes = [i \in Runs |-> <<>>]
        /\ tick = [p \in Procs |-> [stage |-> "idle", room |-> 0]]
        /\ job = [i \in Runs |-> NoJob]
        /\ timer = [i \in Runs |-> 0]
        /\ alive = Procs
        /\ request = NoRequest
        /\ since = [r \in Routines |-> 0]
        /\ requests = 0 /\ crashes = 0 /\ faults = 0

-----------------------------------------------------------------------------
\* Helpers.

Used == {i \in Runs : run[i].status # "none"}
JobsOf(p, stages) == {i \in Runs : job[i].by = p /\ job[i].stage \in stages}
Room(p) == Cap - Cardinality(JobsOf(p, Started))
Moves(i, stage) == job' = [job EXCEPT ![i].stage = stage]
Leaves(i) == job' = [job EXCEPT ![i] = NoJob]

\* A mutant of Reapable: only runs that were picked up.
ReapableLeased(i) == run[i].status \in Live /\ run[i].leased /\ run[i].left = 0

\* The rows a reap marks failed.
Reapable(i) == run[i].status \in Live /\ run[i].left = 0

\* A mutant of OwnedBy: nobody asks whose the run is.
OwnedByAnyone(i, p) == TRUE

\* The row's lease is held by p and the run has not ended.
OwnedBy(i, p) == run[i].owner = p /\ run[i].status \in Live

FreshRun(r, slot) == [status |-> "queued", of |-> r, slot |-> slot, at |-> now,
                      since |-> since[r], owner |-> Nobody, leased |-> FALSE, left |-> Window]

-----------------------------------------------------------------------------
\* The scheduler.

\* reap(): one transaction per process marks the rows and writes the notes.
Reap == /\ run' = [i \in Runs |->
                     IF Reapable(i)
                       THEN [run[i] EXCEPT !.status = "failed", !.owner = Nobody, !.leased = FALSE]
                       ELSE run[i]]
        /\ notes' = [i \in Runs |-> IF Reapable(i) THEN Append(notes[i], "failed") ELSE notes[i]]

TickReaps(p) == /\ p \in alive /\ tick[p].stage = "idle"
                /\ Reap
                /\ tick' = [tick EXCEPT ![p].stage = "reaped"]
                /\ UNCHANGED <<now, routine, job, timer, alive, request, since, bounds>>

\* The settings are read, then the room; no room, or the scheduler switched
\* off, ends the tick.
TickReadsRoom(p) == /\ p \in alive /\ tick[p].stage = "reaped"
                    /\ \/ Room(p) > 0
                          /\ tick' = [tick EXCEPT ![p] = [stage |-> "claiming", room |-> Room(p)]]
                       \/ tick' = [tick EXCEPT ![p].stage = "idle"]
                    /\ UNCHANGED <<now, store, job, timer, alive, request, since, bounds>>

Due(r) == routine[r].exists /\ routine[r].enabled /\ routine[r].next <= now

\* A mutant of Recorded: no unique index.
RecordedNever(r, slot) == FALSE

\* The unique index on the routine and the slot.
Recorded(r, slot) == \E i \in Runs : run[i].status # "none" /\ run[i].of = r /\ run[i].slot = slot

\* A mutant of SlotAfter: the slot after the one that fires.
SlotAfterOwn(r) == NextSlot(routine[r].next)

\* Where a claim moves a routine.
SlotAfter(r) == NextSlot(now)

\* claimDue(): the due routines, oldest slot first, at most as many as there
\* was room; each gets a run unless its slot has one, and its next slot.  One
\* whose schedule has no further slot is switched off.
Chosen(room) == {S \in SUBSET {r \in Routines : Due(r)} :
                   /\ Cardinality(S) <= room
                   /\ \A r \in Routines \ S : Due(r) =>
                        /\ Cardinality(S) = room
                        /\ \A s \in S : routine[s].next <= routine[r].next}

\* Each new run gets the next unused id, f, and waits in process p.
Unrecorded(S) == {r \in S : ~Recorded(r, routine[r].next)}
NextIds(new) == {f \in [new -> Runs \ Used] :
                   /\ \A r, s \in new : r # s => f[r] # f[s]
                   /\ \A i \in Runs \ Used : (\E r \in new : f[r] > i) => \E r \in new : f[r] = i}
RoutineOf(new, f, i) == CHOOSE r \in new : f[r] = i
RecordRuns(p, new, f) ==
  /\ run' = [i \in Runs |-> IF \E r \in new : f[r] = i
                            THEN FreshRun(RoutineOf(new, f, i), routine[RoutineOf(new, f, i)].next)
                            ELSE run[i]]
  /\ job' = [i \in Runs |-> IF \E r \in new : f[r] = i
                            THEN [by |-> p, stage |-> "waiting"] ELSE job[i]]

MoveOn(S, broken) ==
  routine' = [r \in Routines |->
                IF r \in broken THEN [routine[r] EXCEPT !.enabled = FALSE]
                ELSE IF r \in S THEN [routine[r] EXCEPT !.next = SlotAfter(r)]
                ELSE routine[r]]

ClaimDue(p) ==
  /\ p \in alive /\ tick[p].stage = "claiming"
  /\ \E S \in Chosen(tick[p].room) : \E broken \in SUBSET S :
       /\ faults + Cardinality(broken) <= MaxFaults
       /\ faults' = faults + Cardinality(broken)
       /\ \E f \in NextIds(Unrecorded(S \ broken)) : RecordRuns(p, Unrecorded(S \ broken), f)
       /\ MoveOn(S, broken)
  /\ tick' = [tick EXCEPT ![p] = [stage |-> "idle", room |-> 0]]
  /\ UNCHANGED <<now, notes, timer, alive, request, since, requests, crashes>>

-----------------------------------------------------------------------------
\* Requests.

\* POST run: a manual run, which has no slot.  (The last id is left to the
\* scheduler, so that MaxRuns does not stop a tick.)
RunNow(p, r) == /\ p \in alive /\ routine[r].exists
                /\ requests < MaxRequests
                /\ requests' = requests + 1
                /\ MaxRuns \notin Used
                /\ \E i \in Runs \ (Used \cup {MaxRuns}) :
                     /\ \A k \in Runs \ Used : i <= k
                     /\ run' = [run EXCEPT ![i] = FreshRun(r, 0)]
                     /\ job' = [job EXCEPT ![i] = [by |-> p, stage |-> "waiting"]]
                /\ UNCHANGED <<now, routine, notes, tick, timer, alive, request, since,
                               crashes, faults>>

\* The handler loads the routine, and takes the time of the request.
BeginRequest(r, kind) == /\ request.kind = "none"
                         /\ routine[r].exists
                         /\ requests < MaxRequests
                         /\ requests' = requests + 1
                         /\ request' = [kind |-> kind, of |-> r, at |-> now,
                                        enabled |-> routine[r].enabled]
                         /\ UNCHANGED <<now, store, tick, job, timer, alive, since, crashes, faults>>

\* A mutant of Changed: the slot stays what it was.
ChangedKeepsSlot(row, q) ==
  CASE q.kind = "pause" -> [row EXCEPT !.enabled = FALSE]
    [] q.kind \in {"resume", "enable"} -> [row EXCEPT !.enabled = TRUE]
    [] q.kind = "reschedule" -> row

\* What the handler writes: pause; resume, which always computes the next
\* slot; PATCH enabled, which does when the routine it loaded was paused; and
\* PATCH of the schedule, which does and leaves enabled alone.
Changed(row, q) ==
  LET future == NextSlot(q.at)
  IN  CASE q.kind = "pause" -> [row EXCEPT !.enabled = FALSE]
        [] q.kind = "resume" -> [row EXCEPT !.enabled = TRUE, !.next = future]
        [] q.kind = "enable" -> [row EXCEPT !.enabled = TRUE,
                                            !.next = IF q.enabled THEN row.next ELSE future]
        [] q.kind = "reschedule" -> [row EXCEPT !.next = future]

EndRequest ==
  /\ request.kind \notin {"none", "delete"}
  /\ LET r == request.of
         row == Changed(routine[r], request)
     IN  /\ routine' = [routine EXCEPT ![r] = row]
         /\ since' = IF row.enabled /\ ~request.enabled THEN [since EXCEPT ![r] = now] ELSE since
  /\ request' = NoRequest
  /\ UNCHANGED <<now, run, notes, tick, job, timer, alive, bounds>>

\* DELETE: the runs go with the routine, whatever executes them.
EndDelete ==
  /\ request.kind = "delete"
  /\ routine' = [routine EXCEPT ![request.of] = [exists |-> FALSE, enabled |-> FALSE, next |-> 0]]
  /\ run' = [i \in Runs |-> IF i \in Used /\ run[i].of = request.of
                            THEN [NoRun EXCEPT !.status = "deleted", !.of = request.of] ELSE run[i]]
  /\ request' = NoRequest
  /\ UNCHANGED <<now, notes, tick, job, timer, alive, since, bounds>>

-----------------------------------------------------------------------------
\* The execution of a run (executeRoutineRun).

\* A slot is free: the job reads the run, and goes on if it has not ended.
StartJob(i) == /\ job[i].stage = "waiting"
               /\ Room(job[i].by) > 0
               /\ IF run[i].status \in Live THEN Moves(i, "read") ELSE Leaves(i)
               /\ UNCHANGED <<now, store, tick, timer, alive, request, since, bounds>>

\* A mutant of Claimable: whether the run has ended is not asked.
ClaimableEnded(i, p) == /\ run[i].status # "deleted"
                        /\ ~run[i].leased \/ run[i].left = 0 \/ run[i].owner = p

\* claimLease(): the lease is free, out or already this process's.
Claimable(i, p) == /\ run[i].status \in Live
                   /\ ~run[i].leased \/ run[i].left = 0 \/ run[i].owner = p

Leased(i, p) == [run EXCEPT ![i].status = "running", ![i].owner = p, ![i].leased = TRUE,
                            ![i].left = Window]

ClaimLease(i) == /\ job[i].stage = "read"
                 /\ IF Claimable(i, job[i].by)
                      THEN /\ run' = Leased(i, job[i].by)
                           /\ Moves(i, "held")
                           /\ timer' = [timer EXCEPT ![i] = 0]
                      ELSE Leaves(i) /\ UNCHANGED <<run, timer>>
                 /\ UNCHANGED <<now, routine, notes, tick, alive, request, since, bounds>>

\* A mutant of Renewed: nothing is extended.
RenewedNever(i) == run

\* The interval of holdLease: the lease is extended if it is still this
\* process's.  Its result is not looked at.
Renewed(i) == IF OwnedBy(i, job[i].by) THEN [run EXCEPT ![i].left = Window] ELSE run

Renew(i) == /\ job[i].stage \in Holding \cup Ended
            /\ timer[i] > 0
            /\ run' = Renewed(i)
            /\ timer' = [timer EXCEPT ![i] = 0]
            /\ UNCHANGED <<now, routine, notes, tick, job, alive, request, since, bounds>>

\* The process's lock of the chat (TurnCoordinator).
ChatFree(p) == JobsOf(p, {"turn"}) = {}

BeginTurn(i) == /\ job[i].stage = "held"
                /\ ChatFree(job[i].by)
                /\ Moves(i, "turn")
                /\ UNCHANGED <<now, store, tick, timer, alive, request, since, bounds>>

\* The turn ends, with or without an error, or could not start.
EndTurn(i) == /\ \/ job[i].stage = "turn" /\ \E stage \in {"ok", "bad"} : Moves(i, stage)
                 \/ job[i].stage = "held" /\ Moves(i, "bad")
              /\ UNCHANGED <<now, store, tick, timer, alive, request, since, bounds>>

\* finishOwned(): only while the lease is this process's.
Finish(i) ==
  LET outcome == IF job[i].stage = "ok" THEN "succeeded" ELSE "failed"
  IN  /\ job[i].stage \in {"ok", "bad"}
      /\ IF OwnedBy(i, job[i].by)
           THEN /\ run' = [run EXCEPT ![i].status = outcome, ![i].owner = Nobody,
                                      ![i].leased = FALSE]
                /\ Moves(i, outcome)
           ELSE Leaves(i) /\ UNCHANGED run
      /\ UNCHANGED <<now, routine, notes, tick, timer, alive, request, since, bounds>>

\* lastRunAt and the notification; none for a run deleted meanwhile, which a
\* notification cannot refer to.
Notify(i) == /\ job[i].stage \in Ended
             /\ notes' = IF run[i].status = "deleted" THEN notes
                         ELSE [notes EXCEPT ![i] = Append(@, job[i].stage)]
             /\ Leaves(i)
             /\ UNCHANGED <<now, routine, run, tick, timer, alive, request, since, bounds>>

\* A write of the store fails: before the row has the outcome the run stays
\* leased; after, the second finishRoutine finds that the run has ended.
WriteFails(i) == /\ faults < MaxFaults
                 /\ faults' = faults + 1
                 /\ job[i].stage \in {"read", "ok", "bad"} \cup Ended
                 /\ Leaves(i)
                 /\ UNCHANGED <<now, store, tick, timer, alive, request, since, requests, crashes>>

-----------------------------------------------------------------------------
\* Processes and time.

Crash(p) == /\ p \in alive /\ crashes < MaxCrashes
            /\ crashes' = crashes + 1
            /\ alive' = alive \ {p}
            /\ job' = [i \in Runs |-> IF job[i].by = p THEN NoJob ELSE job[i]]
            /\ tick' = [tick EXCEPT ![p] = [stage |-> "idle", room |-> 0]]
            /\ UNCHANGED <<now, store, timer, request, since, requests, faults>>

\* serve(): recover() reaps before the interval starts.
Boot(p) == /\ p \notin alive
           /\ alive' = alive \cup {p}
           /\ Reap
           /\ UNCHANGED <<now, routine, tick, job, timer, request, since, bounds>>

\* Renewals are on time unless the process stalls; a request ends in time.
OnTime == /\ \A i \in Runs : job[i].stage \in Holding => job[i].by \in Stalling \/ timer[i] < RenewEvery
          /\ request.kind # "none" => now - request.at < Delay

TimePasses ==
  /\ OnTime
  /\ now < Horizon \/ \E i \in Runs : run[i].status \in Live /\ run[i].left > 0
  /\ now' = IF now < Horizon THEN now + 1 ELSE now
  /\ run' = [i \in Runs |-> IF run[i].left > 0 /\ run[i].status \in Live
                            THEN [run[i] EXCEPT !.left = @ - 1] ELSE run[i]]
  /\ timer' = [i \in Runs |-> IF job[i].stage \in Holding \cup Ended /\ timer[i] < RenewEvery
                              THEN timer[i] + 1 ELSE timer[i]]
  /\ UNCHANGED <<routine, notes, tick, job, alive, request, since, bounds>>

JobStep(i) == StartJob(i) \/ ClaimLease(i) \/ BeginTurn(i) \/ EndTurn(i) \/ Finish(i) \/ Notify(i)
TickStep(p) == TickReaps(p) \/ TickReadsRoom(p) \/ ClaimDue(p)

Next == \/ \E i \in Runs : JobStep(i) \/ Renew(i) \/ WriteFails(i)
        \/ \E p \in Procs : TickStep(p) \/ Crash(p) \/ Boot(p)
        \/ \E p \in Procs, r \in Routines : RunNow(p, r)
        \/ \E r \in Routines, kind \in Kinds \ {"none"} : BeginRequest(r, kind)
        \/ EndRequest \/ EndDelete
        \/ TimePasses

Spec == Init /\ [][Next]_vars

\* A process that runs goes on with its ticks and jobs, one that crashed is
\* started again, and time passes.
FairSpec == /\ Spec
            /\ WF_vars(TimePasses)
            /\ \A p \in Procs : WF_vars(TickStep(p)) /\ WF_vars(Boot(p))
            /\ \A i \in Runs : WF_vars(JobStep(i)) /\ WF_vars(Renew(i))
            /\ WF_vars(EndRequest \/ EndDelete)

-----------------------------------------------------------------------------
\* Safety.

Scheduled == {i \in Runs : run[i].status \notin {"none", "deleted"} /\ run[i].slot > 0}

\* "the same slot cannot fire twice across processes or restarts": also when a
\* request that was under way moves the routine back to a slot already taken.
SlotFiresOnce ==
  \A i, k \in Scheduled : i # k /\ run[i].of = run[k].of => run[i].slot # run[k].slot

\* "one catch-up run is kept and the schedule jumps to the next future slot": once a
\* run is recorded no slot is run that had passed by then, unless it passed while a
\* request that had computed it was under way.  Runs have ids in the order in which
\* they are recorded.
GapIsSkipped ==
  \A i, k \in Scheduled :
     i < k /\ run[i].of = run[k].of => run[i].at - Delay < run[k].slot

\* "a paused routine does not replay the gap": a run's slot is not from before
\* the request that last enabled the routine.
PausedGapIsNotReplayed == \A i \in Scheduled : run[i].slot > run[i].since - Delay

\* What passed, in downtime or in a pause, is not run afterwards.
MissedSlotsAreNotReplayed == GapIsSkipped /\ PausedGapIsNotReplayed

\* A run is told of at most once, by the process that executed it or by the one
\* that reaped it, and what is told is what the row says.
ToldOnceAndTruly ==
  \A i \in Runs : notes[i] # <<>> =>
     \/ run[i].status = "deleted" /\ Len(notes[i]) = 1
     \/ notes[i] = <<run[i].status>>

\* A run that has ended never runs again or changes its outcome, whatever late
\* claims, renewals and results of other processes arrive.
EndedRunsStayEnded ==
  [][\A i \in Runs : run[i].status \in Ended => run'[i].status \in {run[i].status, "deleted"}]_vars

\* "A live lease is left alone, so a second process does not fail a turn that is
\* still running": while its process renews on time.
LiveRunsAreNotReaped ==
  \A i \in Runs : job[i].stage \in Holding /\ job[i].by \notin Stalling =>
                     run[i].status \in {"running", "deleted"}

\* "A row is written when a routine, listener, or A2A autorun turn finishes or
\* fails": an ended run that no job is about to tell of has its notification.
FinishedRunsAreTold ==
  \A i \in Runs : run[i].status \in Ended /\ job[i].stage \notin Ended => notes[i] # <<>>

\* "Two turns never run in one chat at the same time."
OneTurnPerChat == \A i, k \in Runs : job[i].stage = "turn" /\ job[k].stage = "turn" => i = k

-----------------------------------------------------------------------------
\* Liveness.

\* Every run ends: finished by its process, or reaped by another or by the next
\* start.
RunsEnd == \A i \in Runs : (run[i].status \in Live) ~> (run[i].status \notin Live)
=============================================================================
