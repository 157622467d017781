-------------------------- MODULE RoutineRunsProofs --------------------------
(***************************************************************************)
(* Runs end once and are told of once, a slot fires once, and a run whose  *)
(* process renews its lease in time is not reaped, for every number of     *)
(* routines, processes and runs and every lease.                           *)
(***************************************************************************)
EXTENDS RoutineRuns, FiniteSetTheorems, TLAPS

-----------------------------------------------------------------------------
\* Types.

LEMMA RoutineChosen == (CHOOSE r \in Routines : TRUE) \in Routines
BY RoutinesAssumption

LEMMA NextSlotIsNat == ASSUME NEW t \in Nat PROVE NextSlot(t) \in Nat
<1>1. Period \in Nat /\ Period > 0
  BY PeriodAssumption
<1>2. t \div Period \in Nat
  BY <1>1, SMT
<1> DEFINE q == t \div Period
<1>3. q \in Nat BY <1>2
<1> HIDE DEF q
<1>4. (q + 1) * Period \in Nat
  BY <1>1, <1>3, SMT
<1> QED BY <1>4 DEF NextSlot, q

LEMMA RoomIsInt == ASSUME NEW p PROVE Room(p) \in Int
<1>1. IsFiniteSet(Runs)
  BY BoundsAssumption, FS_Interval DEF Runs
<1>2. IsFiniteSet(JobsOf(p, Started))
  BY <1>1, FS_Subset DEF JobsOf
<1>3. Cardinality(JobsOf(p, Started)) \in Nat
  BY <1>2, FS_CardinalityType
<1> QED BY <1>3, RoutinesAssumption DEF Room

LEMMA NoRunIsRow == NoRun \in RunRows
BY RoutineChosen, WindowAssumption DEF NoRun, RunRows

LEMMA TypeInit == Init => TypeOK
<1> SUFFICES ASSUME Init PROVE TypeOK OBVIOUS
<1>1. NextSlot(0) \in Nat BY NextSlotIsNat
<1>2. NoRun \in RunRows
  BY NoRunIsRow
<1>3. NoRequest \in Requests
  BY RoutineChosen DEF NoRequest, Requests, Kinds
<1>4. NoJob \in Jobs
  BY DEF NoJob, Jobs, Stages
<1>5. \A p \in Procs : [stage |-> "idle", room |-> 0] \in Ticks
  BY DEF Ticks
<1>6. \A r \in Routines : [exists |-> TRUE, enabled |-> TRUE, next |-> NextSlot(0)] \in RoutineRows
  BY <1>1 DEF RoutineRows
<1>7. 0 \in 0 .. Horizon /\ 0 \in 0 .. MaxRequests /\ 0 \in 0 .. MaxCrashes /\ 0 \in 0 .. MaxFaults
  BY BoundsAssumption
<1>8. run \in [Runs -> RunRows] /\ job \in [Runs -> Jobs] /\ notes \in [Runs -> Seq(Ended)]
  BY <1>2, <1>4 DEF Init
<1>9. tick \in [Procs -> Ticks] /\ routine \in [Routines -> RoutineRows]
  BY <1>5, <1>6 DEF Init
<1>10. timer \in [Runs -> 0 .. RenewEvery] /\ since \in [Routines -> Nat]
  BY WindowAssumption DEF Init
<1> QED BY <1>3, <1>7, <1>8, <1>9, <1>10 DEF Init, TypeOK

LEMMA FreshRunIsRow ==
  ASSUME TypeOK, NEW r \in Routines, NEW slot \in Nat
  PROVE  FreshRun(r, slot) \in RunRows
BY WindowAssumption DEF TypeOK, FreshRun, RunRows, Live

LEMMA FreshJobIsJob ==
  ASSUME NEW p \in Procs PROVE [by |-> p, stage |-> "waiting"] \in Jobs
BY DEF Jobs, Stages

LEMMA ReapTypes ==
  ASSUME TypeOK, Reap
  PROVE  run' \in [Runs -> RunRows] /\ notes' \in [Runs -> Seq(Ended)]
<1>1. \A i \in Runs : run[i] \in RunRows /\ notes[i] \in Seq(Ended)
  BY DEF TypeOK
<1>2. ASSUME NEW i \in Runs
      PROVE  [run[i] EXCEPT !.status = "failed", !.owner = Nobody, !.leased = FALSE] \in RunRows
  BY <1>1 DEF RunRows, Ended
<1>3. \A i \in Runs : Append(notes[i], "failed") \in Seq(Ended)
  BY <1>1 DEF Ended
<1> QED BY <1>1, <1>2, <1>3 DEF Reap

LEMMA TicksKeepTypes ==
  ASSUME TypeOK, NEW p \in Procs, TickReaps(p) \/ TickReadsRoom(p) PROVE TypeOK'
<1>1. CASE TickReaps(p)
  <2>1. tick' \in [Procs -> Ticks]
    BY <1>1 DEF TickReaps, TypeOK, Ticks
  <2> QED BY <1>1, <2>1, ReapTypes DEF TickReaps, TypeOK, bounds
<1>2. CASE TickReadsRoom(p)
  <2>1. Room(p) > 0 => Room(p) \in Nat
    BY RoomIsInt
  <2>2. tick' \in [Procs -> Ticks]
    <3>1. CASE Room(p) > 0 /\ tick' = [tick EXCEPT ![p] = [stage |-> "claiming", room |-> Room(p)]]
      <4>1. [stage |-> "claiming", room |-> Room(p)] \in Ticks
        BY <2>1, <3>1 DEF Ticks
      <4> QED BY <3>1, <4>1 DEF TypeOK
    <3>2. CASE tick' = [tick EXCEPT ![p].stage = "idle"]
      BY <3>2 DEF TypeOK, Ticks
    <3> QED BY <1>2, <3>1, <3>2 DEF TickReadsRoom
  <2> QED BY <1>2, <2>2 DEF TickReadsRoom, TypeOK, store, bounds
<1> QED BY <1>1, <1>2

LEMMA RecordRunsTypes ==
  ASSUME TypeOK, NEW p \in Procs, NEW new \in SUBSET Routines, NEW f \in NextIds(new),
         RecordRuns(p, new, f)
  PROVE  run' \in [Runs -> RunRows] /\ job' \in [Runs -> Jobs]
<1>1. \A i \in Runs : run[i] \in RunRows /\ job[i] \in Jobs
  BY DEF TypeOK
<1>2. ASSUME NEW i \in Runs, \E r \in new : f[r] = i
      PROVE  FreshRun(RoutineOf(new, f, i), routine[RoutineOf(new, f, i)].next) \in RunRows
  <2>1. RoutineOf(new, f, i) \in Routines
    BY <1>2 DEF RoutineOf
  <2> QED BY <2>1, FreshRunIsRow DEF TypeOK, RoutineRows
<1> QED BY <1>1, <1>2, FreshJobIsJob DEF RecordRuns

LEMMA ClaimDueKeepsTypes ==
  ASSUME TypeOK, NEW p \in Procs, ClaimDue(p) PROVE TypeOK'
<1>1. PICK S \in Chosen(tick[p].room) : \E broken \in SUBSET S :
        /\ faults + Cardinality(broken) <= MaxFaults
        /\ faults' = faults + Cardinality(broken)
        /\ \E f \in NextIds(Unrecorded(S \ broken)) : RecordRuns(p, Unrecorded(S \ broken), f)
        /\ MoveOn(S, broken)
  BY DEF ClaimDue
<1>2. PICK broken \in SUBSET S :
        /\ faults + Cardinality(broken) <= MaxFaults
        /\ faults' = faults + Cardinality(broken)
        /\ \E f \in NextIds(Unrecorded(S \ broken)) : RecordRuns(p, Unrecorded(S \ broken), f)
        /\ MoveOn(S, broken)
  BY <1>1
<1>3. S \subseteq Routines /\ Unrecorded(S \ broken) \subseteq Routines
  BY DEF Chosen, Unrecorded
<1>4. faults' \in 0 .. MaxFaults
  <2>1. IsFiniteSet(broken)
    BY <1>3, RoutinesAssumption, FS_Subset
  <2>2. Cardinality(broken) \in Nat
    BY <2>1, FS_CardinalityType
  <2> QED BY <1>2, <2>2, BoundsAssumption DEF TypeOK
<1>5. run' \in [Runs -> RunRows] /\ job' \in [Runs -> Jobs]
  BY <1>2, <1>3, RecordRunsTypes
<1>6. routine' \in [Routines -> RoutineRows]
  <2>1. \A r \in Routines : SlotAfter(r) \in Nat
    BY NextSlotIsNat DEF SlotAfter, TypeOK
  <2>2. \A r \in Routines : [routine[r] EXCEPT !.enabled = FALSE] \in RoutineRows
    BY DEF TypeOK, RoutineRows
  <2>3. \A r \in Routines : [routine[r] EXCEPT !.next = SlotAfter(r)] \in RoutineRows
    BY <2>1 DEF TypeOK, RoutineRows
  <2> QED BY <1>2, <2>2, <2>3 DEF MoveOn, TypeOK
<1>7. /\ tick' = [tick EXCEPT ![p] = [stage |-> "idle", room |-> 0]]
      /\ UNCHANGED <<now, notes, timer, alive, request, since, requests, crashes>>
  BY DEF ClaimDue
<1>8. tick' \in [Procs -> Ticks]
  BY <1>7 DEF TypeOK, Ticks
<1> QED BY <1>4, <1>5, <1>6, <1>7, <1>8 DEF TypeOK

LEMMA MovesTypes ==
  ASSUME TypeOK, NEW i \in Runs, NEW stage \in Stages, Moves(i, stage) \/ Leaves(i)
  PROVE  job' \in [Runs -> Jobs]
<1>1. [job[i] EXCEPT !.stage = stage] \in Jobs
  BY DEF TypeOK, Jobs
<1>2. NoJob \in Jobs
  BY DEF NoJob, Jobs, Stages
<1> QED BY <1>1, <1>2 DEF TypeOK, Moves, Leaves

\* What a job's steps write to the row of its run.
LEMMA RowTypes ==
  ASSUME TypeOK, NEW i \in Runs
  PROVE  /\ job[i].by \in Procs \cup {Nobody}
         /\ Leased(i, job[i].by) \in [Runs -> RunRows]
         /\ Renewed(i) \in [Runs -> RunRows]
         /\ \A status \in Ended :
              [run EXCEPT ![i].status = status, ![i].owner = Nobody, ![i].leased = FALSE]
                \in [Runs -> RunRows]
<1>1. run \in [Runs -> RunRows] /\ run[i] \in RunRows
  BY DEF TypeOK
<1>2. job[i].by \in Procs \cup {Nobody}
  BY DEF TypeOK, Jobs
<1>3. Window \in 0 .. Window
  BY WindowAssumption
<1>4. Leased(i, job[i].by) \in [Runs -> RunRows]
  BY <1>1, <1>2, <1>3 DEF Leased, RunRows, Live
<1>5. Renewed(i) \in [Runs -> RunRows]
  BY <1>1, <1>3 DEF Renewed, RunRows
<1>6. ASSUME NEW status \in Ended
      PROVE  [run EXCEPT ![i].status = status, ![i].owner = Nobody, ![i].leased = FALSE]
               \in [Runs -> RunRows]
  BY <1>1, <1>6 DEF RunRows
<1> QED BY <1>2, <1>4, <1>5, <1>6

LEMMA JobsKeepTypes ==
  ASSUME TypeOK, NEW i \in Runs, JobStep(i) \/ Renew(i) \/ WriteFails(i) PROVE TypeOK'
<1>1. 0 \in 0 .. RenewEvery
  BY WindowAssumption
<1>2. CASE StartJob(i)
  <2>1. job' \in [Runs -> Jobs]
    BY <1>2, MovesTypes DEF StartJob, Stages
  <2> QED BY <1>2, <2>1 DEF StartJob, TypeOK, store, bounds
<1>3. CASE ClaimLease(i)
  <2>1. job' \in [Runs -> Jobs]
    BY <1>3, MovesTypes DEF ClaimLease, Stages
  <2>2. run' \in [Runs -> RunRows] /\ timer' \in [Runs -> 0 .. RenewEvery]
    BY <1>1, <1>3, RowTypes DEF ClaimLease, TypeOK
  <2> QED BY <1>3, <2>1, <2>2 DEF ClaimLease, TypeOK, bounds
<1>4. CASE BeginTurn(i)
  <2>1. job' \in [Runs -> Jobs]
    BY <1>4, MovesTypes DEF BeginTurn, Stages
  <2> QED BY <1>4, <2>1 DEF BeginTurn, TypeOK, store, bounds
<1>5. CASE EndTurn(i)
  <2>1. job' \in [Runs -> Jobs]
    BY <1>5, MovesTypes DEF EndTurn, Stages
  <2> QED BY <1>5, <2>1 DEF EndTurn, TypeOK, store, bounds
<1>6. CASE Finish(i)
  <2> DEFINE outcome == IF job[i].stage = "ok" THEN "succeeded" ELSE "failed"
  <2>1. outcome \in Ended /\ outcome \in Stages
    BY DEF Ended, Stages
  <2>2. job' \in [Runs -> Jobs]
    BY <1>6, <2>1, MovesTypes DEF Finish
  <2>3. run' \in [Runs -> RunRows]
    <3>1. [run EXCEPT ![i].status = outcome, ![i].owner = Nobody, ![i].leased = FALSE]
            \in [Runs -> RunRows]
      <4> HIDE DEF outcome
      <4> QED BY <2>1, RowTypes
    <3>2. \/ run' = [run EXCEPT ![i].status = outcome, ![i].owner = Nobody, ![i].leased = FALSE]
          \/ run' = run
      BY <1>6 DEF Finish
    <3>3. run \in [Runs -> RunRows]
      BY DEF TypeOK
    <3> QED BY <3>1, <3>2, <3>3
  <2> QED BY <1>6, <2>2, <2>3 DEF Finish, TypeOK, bounds
<1>7. CASE Notify(i)
  <2>1. job' \in [Runs -> Jobs]
    BY <1>7, MovesTypes DEF Notify, Stages
  <2>2. notes' \in [Runs -> Seq(Ended)]
    <3>1. notes \in [Runs -> Seq(Ended)] /\ job[i].stage \in Ended
      BY <1>7 DEF Notify, TypeOK
    <3>2. Append(notes[i], job[i].stage) \in Seq(Ended)
      BY <3>1
    <3> QED BY <1>7, <3>1, <3>2 DEF Notify
  <2> QED BY <1>7, <2>1, <2>2 DEF Notify, TypeOK, bounds
<1>8. CASE Renew(i)
  BY <1>1, <1>8, RowTypes DEF Renew, TypeOK, bounds
<1>9. CASE WriteFails(i)
  <2>1. job' \in [Runs -> Jobs]
    BY <1>9, MovesTypes DEF WriteFails, Stages
  <2>2. faults' \in 0 .. MaxFaults
    BY <1>9, BoundsAssumption DEF WriteFails, TypeOK
  <2> QED BY <1>9, <2>1, <2>2 DEF WriteFails, TypeOK, store
<1> QED BY <1>2, <1>3, <1>4, <1>5, <1>6, <1>7, <1>8, <1>9 DEF JobStep

LEMMA RequestsKeepTypes ==
  ASSUME TypeOK,
         \/ \E p \in Procs, r \in Routines : RunNow(p, r)
         \/ \E r \in Routines, kind \in Kinds \ {"none"} : BeginRequest(r, kind)
         \/ EndRequest \/ EndDelete
  PROVE  TypeOK'
<1>1. ASSUME NEW p \in Procs, NEW r \in Routines, RunNow(p, r) PROVE TypeOK'
  <2>1. FreshRun(r, 0) \in RunRows
    BY FreshRunIsRow
  <2>2. run' \in [Runs -> RunRows] /\ job' \in [Runs -> Jobs]
    BY <1>1, <2>1, FreshJobIsJob DEF RunNow, TypeOK
  <2>3. requests' \in 0 .. MaxRequests
    BY <1>1, BoundsAssumption DEF RunNow, TypeOK
  <2> QED BY <1>1, <2>2, <2>3 DEF RunNow, TypeOK
<1>2. ASSUME NEW r \in Routines, NEW kind \in Kinds, BeginRequest(r, kind) PROVE TypeOK'
  <2>1. now \in Nat /\ routine[r].enabled \in BOOLEAN
    BY BoundsAssumption DEF TypeOK, RoutineRows
  <2>2. request' \in Requests
    BY <1>2, <2>1 DEF BeginRequest, Requests
  <2>3. requests' \in 0 .. MaxRequests
    BY <1>2, BoundsAssumption DEF BeginRequest, TypeOK
  <2> QED BY <1>2, <2>2, <2>3 DEF BeginRequest, TypeOK, store
<1>3. NoRequest \in Requests
  BY RoutineChosen DEF NoRequest, Requests, Kinds
<1>4. request.of \in Routines /\ request.at \in Nat /\ request.kind \in Kinds
  BY DEF TypeOK, Requests
<1>5. ASSUME EndRequest PROVE TypeOK'
  <2> DEFINE row == Changed(routine[request.of], request)
  <2>1. routine[request.of] \in RoutineRows
    BY <1>4 DEF TypeOK
  <2>2. NextSlot(request.at) \in Nat
    BY <1>4, NextSlotIsNat
  <2>3. row \in RoutineRows
    <3>1. CASE request.kind = "pause"
      BY <2>1, <3>1 DEF Changed, RoutineRows
    <3>2. CASE request.kind = "resume"
      BY <2>1, <2>2, <3>2 DEF Changed, RoutineRows
    <3>3. CASE request.kind = "enable"
      BY <2>1, <2>2, <3>3 DEF Changed, RoutineRows
    <3>4. CASE request.kind = "reschedule"
      BY <2>1, <2>2, <3>4 DEF Changed, RoutineRows
    <3> QED BY <1>4, <1>5, <3>1, <3>2, <3>3, <3>4 DEF EndRequest, Kinds
  <2>4. routine' = [routine EXCEPT ![request.of] = row]
    BY <1>5 DEF EndRequest
  <2>5. since' \in [Routines -> Nat]
    BY <1>4, <1>5, BoundsAssumption DEF EndRequest, TypeOK
  <2>6. routine' \in [Routines -> RoutineRows]
    <3> HIDE DEF row
    <3> QED BY <2>3, <2>4 DEF TypeOK
  <2> QED BY <1>3, <1>5, <2>5, <2>6 DEF EndRequest, TypeOK, bounds
<1>6. ASSUME EndDelete PROVE TypeOK'
  <2>1. [exists |-> FALSE, enabled |-> FALSE, next |-> 0] \in RoutineRows
    BY DEF RoutineRows
  <2>2. routine' \in [Routines -> RoutineRows]
    BY <1>6, <2>1 DEF EndDelete, TypeOK
  <2>3. [NoRun EXCEPT !.status = "deleted", !.of = request.of] \in RunRows
    <3>1. \A row \in RunRows, r \in Routines :
            [row EXCEPT !.status = "deleted", !.of = r] \in RunRows
      BY DEF RunRows
    <3> QED BY <1>4, <3>1, NoRunIsRow
  <2>4. run' \in [Runs -> RunRows]
    BY <1>6, <2>3 DEF EndDelete, TypeOK
  <2> QED BY <1>3, <1>6, <2>2, <2>4 DEF EndDelete, TypeOK, bounds
<1> QED BY <1>1, <1>2, <1>5, <1>6

LEMMA ProcessesKeepTypes ==
  ASSUME TypeOK, (\E p \in Procs : Crash(p) \/ Boot(p)) \/ TimePasses PROVE TypeOK'
<1>1. ASSUME NEW p \in Procs, Crash(p) PROVE TypeOK'
  <2>1. NoJob \in Jobs /\ [stage |-> "idle", room |-> 0] \in Ticks
    BY DEF NoJob, Jobs, Stages, Ticks
  <2>2. job' \in [Runs -> Jobs] /\ tick' \in [Procs -> Ticks]
    BY <1>1, <2>1 DEF Crash, TypeOK
  <2>3. crashes' \in 0 .. MaxCrashes /\ alive' \subseteq Procs
    BY <1>1, BoundsAssumption DEF Crash, TypeOK
  <2> QED BY <1>1, <2>2, <2>3 DEF Crash, TypeOK, store
<1>2. ASSUME NEW p \in Procs, Boot(p) PROVE TypeOK'
  BY <1>2, ReapTypes DEF Boot, TypeOK, bounds
<1>3. ASSUME TimePasses PROVE TypeOK'
  <2>1. now' \in 0 .. Horizon
    BY <1>3, BoundsAssumption DEF TimePasses, TypeOK
  <2>2. ASSUME NEW i \in Runs, run[i].left > 0
        PROVE  [run[i] EXCEPT !.left = @ - 1] \in RunRows
    <3>1. run[i] \in RunRows
      BY DEF TypeOK
    <3>2. run[i].left - 1 \in 0 .. Window
      BY <2>2, <3>1, WindowAssumption DEF RunRows
    <3> QED BY <3>1, <3>2 DEF RunRows
  <2>3. run' \in [Runs -> RunRows]
    BY <1>3, <2>2 DEF TimePasses, TypeOK
  <2>4. timer' \in [Runs -> 0 .. RenewEvery]
    BY <1>3, WindowAssumption DEF TimePasses, TypeOK
  <2> QED BY <1>3, <2>1, <2>3, <2>4 DEF TimePasses, TypeOK, bounds
<1> QED BY <1>1, <1>2, <1>3

\* Every reachable state is well typed (TypeOK).
THEOREM TypesHold == Spec => []TypeOK
<1>1. TypeOK /\ UNCHANGED vars => TypeOK'
  BY DEF TypeOK, vars, bounds
<1>2. TypeOK /\ Next => TypeOK'
  BY JobsKeepTypes, TicksKeepTypes, ClaimDueKeepsTypes, RequestsKeepTypes, ProcessesKeepTypes
     DEF Next, TickStep
<1> QED BY <1>1, <1>2, TypeInit, PTL DEF Spec
-----------------------------------------------------------------------------
\* What one step may do to a run: leave it, have it recorded or picked up, reap
\* it, end it, tell of it or delete it.
Rests(i) == /\ run'[i].status = run[i].status /\ notes'[i] = notes[i]
            /\ job'[i].stage = job[i].stage \/ job'[i].stage \notin Ended
GoesOn(i) == /\ run[i].status \in Live \cup {"none"} /\ run'[i].status \in Live
             /\ notes'[i] = notes[i] /\ job'[i].stage \notin Ended
IsReaped(i) == /\ run[i].status \in Live /\ run'[i].status = "failed"
               /\ notes'[i] = Append(notes[i], "failed") /\ job'[i] = job[i]
Ends(i) == /\ run[i].status \in Live /\ run'[i].status \in Ended
           /\ notes'[i] = notes[i] /\ job'[i].stage = run'[i].status
IsTold(i) == /\ job[i].stage \in Ended
             /\ run[i].status # "deleted" /\ run'[i].status = run[i].status
             /\ notes'[i] = Append(notes[i], job[i].stage) /\ job'[i].stage = "none"
IsDeleted(i) == /\ run[i].status # "none" /\ run'[i].status = "deleted"
                /\ notes'[i] = notes[i] /\ job'[i] = job[i]

RunSteps == \A i \in Runs :
  Rests(i) \/ GoesOn(i) \/ IsReaped(i) \/ Ends(i) \/ IsTold(i) \/ IsDeleted(i)

\* No run becomes a run of a slot, or changes what it was recorded with.
SameSlot(i) == /\ run'[i].of = run[i].of /\ run'[i].slot = run[i].slot
               /\ run'[i].at = run[i].at /\ run'[i].since = run[i].since
SlotsKept ==
  /\ Scheduled' \subseteq Scheduled
  /\ \A i \in Scheduled' : SameSlot(i)

LEMMA ReapSteps ==
  ASSUME TypeOK, Reap, UNCHANGED job PROVE RunSteps /\ SlotsKept
<1>1. \A i \in Runs : run[i] \in RunRows
  BY DEF TypeOK
<1>2. ASSUME NEW i \in Runs
      PROVE  /\ Rests(i) \/ IsReaped(i)
             /\ SameSlot(i)
             /\ run'[i].status # run[i].status => run[i].status \in Live
  <2>1. CASE Reapable(i)
    BY <1>1, <2>1 DEF Reap, Reapable, IsReaped, RunRows, SameSlot
  <2>2. CASE ~Reapable(i)
    BY <2>2 DEF Reap, Rests, SameSlot
  <2> QED BY <2>1, <2>2
<1> QED BY <1>2 DEF RunSteps, SlotsKept, SameSlot, Scheduled, Live

LEMMA StillSteps ==
  ASSUME TypeOK, UNCHANGED <<run, notes>>,
         \A i \in Runs : job'[i].stage = job[i].stage \/ job'[i].stage \notin Ended
  PROVE  RunSteps /\ SlotsKept
BY DEF RunSteps, Rests, SlotsKept, SameSlot, Scheduled

LEMMA MovesStages ==
  ASSUME TypeOK, NEW i \in Runs, NEW stage, Moves(i, stage)
  PROVE  /\ job'[i].stage = stage
         /\ \A k \in Runs \ {i} : job'[k] = job[k]
BY DEF TypeOK, Jobs, Moves

LEMMA LeavesStages ==
  ASSUME TypeOK, NEW i \in Runs, Leaves(i)
  PROVE  /\ job'[i].stage = "none"
         /\ \A k \in Runs \ {i} : job'[k] = job[k]
BY DEF TypeOK, Leaves, NoJob

LEMMA JobSteps ==
  ASSUME TypeOK, NEW i \in Runs, JobStep(i) \/ Renew(i) \/ WriteFails(i)
  PROVE  RunSteps /\ SlotsKept
<1>1. CASE StartJob(i) \/ BeginTurn(i) \/ EndTurn(i) \/ WriteFails(i)
  <2>1. (\E stage \in {"read", "turn", "ok", "bad"} : Moves(i, stage)) \/ Leaves(i)
    BY <1>1 DEF StartJob, BeginTurn, EndTurn, WriteFails
  <2>2. \A k \in Runs : job'[k].stage = job[k].stage \/ job'[k].stage \notin Ended
    BY <2>1, MovesStages, LeavesStages DEF Ended
  <2>3. UNCHANGED <<run, notes>>
    BY <1>1 DEF StartJob, BeginTurn, EndTurn, WriteFails, store
  <2> QED BY <2>2, <2>3, StillSteps
<1>2. CASE ClaimLease(i)
  <2>1. CASE Claimable(i, job[i].by)
    <3>1. /\ run' = Leased(i, job[i].by) /\ notes' = notes
          /\ job'[i].stage = "held" /\ \A k \in Runs \ {i} : job'[k] = job[k]
      BY <1>2, <2>1, MovesStages DEF ClaimLease
    <3>2. /\ run'[i].status = "running"
          /\ \A k \in Runs : SameSlot(k)
          /\ \A k \in Runs \ {i} : run'[k] = run[k]
      BY <3>1 DEF Leased, TypeOK, RunRows, SameSlot
    <3>3. run[i].status \in Live
      BY <2>1 DEF Claimable
    <3>4. GoesOn(i) /\ \A k \in Runs \ {i} : Rests(k)
      BY <3>1, <3>2, <3>3 DEF GoesOn, Rests, Live, Ended
    <3> QED BY <3>2, <3>3, <3>4 DEF RunSteps, SlotsKept, SameSlot, Scheduled, Live
  <2>2. CASE ~Claimable(i, job[i].by)
    BY <1>2, <2>2, LeavesStages, StillSteps DEF ClaimLease, Ended
  <2> QED BY <2>1, <2>2
<1>3. CASE Renew(i)
  <2>1. run' = Renewed(i) /\ notes' = notes /\ job' = job
    BY <1>3 DEF Renew
  <2>2. \A k \in Runs : /\ run'[k].status = run[k].status
                        /\ SameSlot(k)
    BY <2>1 DEF Renewed, TypeOK, RunRows, SameSlot
  <2> QED BY <2>1, <2>2 DEF RunSteps, Rests, SlotsKept, SameSlot, Scheduled
<1>4. CASE Finish(i)
  <2> DEFINE outcome == IF job[i].stage = "ok" THEN "succeeded" ELSE "failed"
  <2>1. CASE OwnedBy(i, job[i].by)
    <3>1. outcome \in Ended
      BY DEF Ended
    <3>2. /\ run' = [run EXCEPT ![i].status = outcome, ![i].owner = Nobody, ![i].leased = FALSE]
          /\ notes' = notes
          /\ Moves(i, outcome)
      BY <1>4, <2>1 DEF Finish
    <3> HIDE DEF outcome
    <3>3. job'[i].stage = outcome /\ \A k \in Runs \ {i} : job'[k] = job[k]
      BY <3>2, MovesStages
    <3>4. /\ run'[i].status = outcome
          /\ \A k \in Runs : SameSlot(k)
          /\ \A k \in Runs \ {i} : run'[k] = run[k]
      BY <3>2 DEF TypeOK, RunRows, SameSlot
    <3>5. run[i].status \in Live
      BY <2>1 DEF OwnedBy
    <3>6. Ends(i) /\ \A k \in Runs \ {i} : Rests(k)
      BY <3>1, <3>2, <3>3, <3>4, <3>5 DEF Ends, Rests
    <3> QED BY <3>4, <3>5, <3>6 DEF RunSteps, SlotsKept, SameSlot, Scheduled, Live
  <2>2. CASE ~OwnedBy(i, job[i].by)
    BY <1>4, <2>2, LeavesStages, StillSteps DEF Finish, Ended
  <2> QED BY <2>1, <2>2
<1>5. CASE Notify(i)
  <2>1. /\ run' = run /\ job[i].stage \in Ended
        /\ job'[i].stage = "none" /\ \A k \in Runs \ {i} : job'[k] = job[k]
    BY <1>5, LeavesStages DEF Notify
  <2>2. CASE run[i].status = "deleted"
    BY <1>5, <2>1, <2>2, StillSteps DEF Notify, Ended
  <2>3. CASE run[i].status # "deleted"
    <3>1. /\ notes'[i] = Append(notes[i], job[i].stage)
          /\ \A k \in Runs \ {i} : notes'[k] = notes[k]
      BY <1>5, <2>3 DEF Notify, TypeOK
    <3>2. IsTold(i) /\ \A k \in Runs \ {i} : Rests(k)
      BY <2>1, <2>3, <3>1 DEF IsTold, Rests
    <3> QED BY <2>1, <3>2 DEF RunSteps, SlotsKept, SameSlot, Scheduled
  <2> QED BY <2>2, <2>3
<1> QED BY <1>1, <1>2, <1>3, <1>4, <1>5 DEF JobStep

LEMMA RequestSteps ==
  ASSUME TypeOK,
         \/ \E p \in Procs, r \in Routines : RunNow(p, r)
         \/ \E r \in Routines, kind \in Kinds \ {"none"} : BeginRequest(r, kind)
         \/ EndRequest \/ EndDelete
  PROVE  RunSteps /\ SlotsKept
<1>1. ASSUME NEW p \in Procs, NEW r \in Routines, RunNow(p, r) PROVE RunSteps /\ SlotsKept
  <2>1. PICK i \in Runs \ (Used \cup {MaxRuns}) :
          /\ run' = [run EXCEPT ![i] = FreshRun(r, 0)]
          /\ job' = [job EXCEPT ![i] = [by |-> p, stage |-> "waiting"]]
    BY <1>1 DEF RunNow
  <2>2. /\ run'[i] = FreshRun(r, 0) /\ job'[i].stage = "waiting" /\ notes' = notes
        /\ \A k \in Runs \ {i} : run'[k] = run[k] /\ job'[k] = job[k]
    BY <1>1, <2>1 DEF RunNow, TypeOK
  <2>3. run[i].status = "none" /\ run'[i].status = "queued" /\ run'[i].slot = 0
    BY <2>2 DEF Used, FreshRun
  <2>4. GoesOn(i) /\ \A k \in Runs \ {i} : Rests(k)
    BY <2>2, <2>3 DEF GoesOn, Rests, Live, Ended
  <2>5. i \notin Scheduled' /\ \A k \in Scheduled' \ {i} : k \in Scheduled /\ run'[k] = run[k]
    BY <2>2, <2>3 DEF Scheduled
  <2> QED BY <2>4, <2>5 DEF RunSteps, SlotsKept, SameSlot
<1>2. ASSUME NEW r \in Routines, NEW kind \in Kinds, BeginRequest(r, kind)
      PROVE  RunSteps /\ SlotsKept
  BY <1>2, StillSteps DEF BeginRequest, store
<1>3. ASSUME EndRequest PROVE RunSteps /\ SlotsKept
  BY <1>3, StillSteps DEF EndRequest
<1>4. ASSUME EndDelete PROVE RunSteps /\ SlotsKept
  <2>1. ASSUME NEW i \in Runs
        PROVE  /\ Rests(i) \/ IsDeleted(i)
               /\ run'[i].status = "deleted" \/ run'[i] = run[i]
    <3>1. CASE i \in Used /\ run[i].of = request.of
      <4>1. run'[i] = [NoRun EXCEPT !.status = "deleted", !.of = request.of]
        BY <1>4, <3>1 DEF EndDelete
      <4>2. run'[i].status = "deleted"
        BY <4>1 DEF NoRun
      <4> QED BY <1>4, <3>1, <4>2 DEF EndDelete, Used, IsDeleted
    <3>2. CASE ~(i \in Used /\ run[i].of = request.of)
      BY <1>4, <3>2 DEF EndDelete, Rests
    <3> QED BY <3>1, <3>2
  <2> QED BY <2>1 DEF RunSteps, SlotsKept, SameSlot, Scheduled
<1> QED BY <1>1, <1>2, <1>3, <1>4

LEMMA ProcessSteps ==
  ASSUME TypeOK, (\E p \in Procs : Crash(p) \/ Boot(p)) \/ TimePasses
  PROVE  RunSteps /\ SlotsKept
<1>1. ASSUME NEW p \in Procs, Crash(p) PROVE RunSteps /\ SlotsKept
  <2>1. \A i \in Runs : job'[i] = job[i] \/ job'[i].stage = "none"
    BY <1>1 DEF Crash, NoJob
  <2> QED BY <1>1, <2>1, StillSteps DEF Crash, store, Ended
<1>2. ASSUME NEW p \in Procs, Boot(p) PROVE RunSteps /\ SlotsKept
  BY <1>2, ReapSteps DEF Boot
<1>3. ASSUME TimePasses PROVE RunSteps /\ SlotsKept
  <2>1. \A i \in Runs : /\ run'[i].status = run[i].status
                        /\ SameSlot(i)
    <3>1. \A i \in Runs : run[i] \in RunRows
      BY DEF TypeOK
    <3> QED BY <1>3, <3>1 DEF TimePasses, RunRows, SameSlot
  <2> QED BY <1>3, <2>1 DEF TimePasses, RunSteps, Rests, SlotsKept, SameSlot, Scheduled
<1> QED BY <1>1, <1>2, <1>3

LEMMA TickSteps ==
  ASSUME TypeOK, NEW p \in Procs, TickReaps(p) \/ TickReadsRoom(p)
  PROVE  RunSteps /\ SlotsKept
BY ReapSteps, StillSteps DEF TickReaps, TickReadsRoom, store

\* The runs that a claim records: of routines whose slot had no run.
LEMMA ClaimRecords ==
  ASSUME TypeOK, NEW p \in Procs, ClaimDue(p)
  PROVE  \A i \in Runs :
           \/ run'[i] = run[i] /\ job'[i] = job[i]
           \/ \E r \in Routines :
                /\ run[i].status = "none" /\ ~Recorded(r, routine[r].next)
                /\ run'[i] = FreshRun(r, routine[r].next)
                /\ job'[i].stage = "waiting"
                /\ \A k \in Runs : \/ run'[k] = run[k] /\ job'[k] = job[k]
                                   \/ run'[k].of = r => k = i
<1>1. PICK S \in Chosen(tick[p].room) :
        \E broken \in SUBSET S : \E f \in NextIds(Unrecorded(S \ broken)) :
          RecordRuns(p, Unrecorded(S \ broken), f)
  BY DEF ClaimDue
<1>0. PICK broken \in SUBSET S :
        \E f \in NextIds(Unrecorded(S \ broken)) : RecordRuns(p, Unrecorded(S \ broken), f)
  BY <1>1
<1> DEFINE new == Unrecorded(S \ broken)
<1>2. PICK f \in NextIds(new) : RecordRuns(p, new, f)
  BY <1>0
<1>3. new \subseteq Routines /\ \A r \in new : ~Recorded(r, routine[r].next)
  BY DEF Chosen, Unrecorded
<1>4. f \in [new -> Runs \ Used]
  BY DEF NextIds
<1> HIDE DEF new
<1>5. ASSUME NEW i \in Runs, \E r \in new : f[r] = i
      PROVE  /\ RoutineOf(new, f, i) \in new /\ f[RoutineOf(new, f, i)] = i
             /\ run'[i] = FreshRun(RoutineOf(new, f, i), routine[RoutineOf(new, f, i)].next)
             /\ run'[i].of = RoutineOf(new, f, i)
             /\ job'[i].stage = "waiting"
  <2>1. RoutineOf(new, f, i) \in new /\ f[RoutineOf(new, f, i)] = i
    BY <1>5 DEF RoutineOf
  <2>2. /\ run'[i] = FreshRun(RoutineOf(new, f, i), routine[RoutineOf(new, f, i)].next)
        /\ job'[i] = [by |-> p, stage |-> "waiting"]
    BY <1>2, <1>5 DEF RecordRuns
  <2> QED BY <2>1, <2>2 DEF FreshRun
<1>6. \A i \in Runs : (\E r \in new : f[r] = i) \/ (run'[i] = run[i] /\ job'[i] = job[i])
  BY <1>2 DEF RecordRuns
<1>7. ASSUME NEW i \in Runs, \E r \in new : f[r] = i
      PROVE  run[i].status = "none"
  BY <1>4, <1>7 DEF Used
<1> QED BY <1>3, <1>5, <1>6, <1>7

LEMMA ClaimSteps ==
  ASSUME TypeOK, NEW p \in Procs, ClaimDue(p) PROVE RunSteps
<1>1. notes' = notes
  BY DEF ClaimDue
<1>2. ASSUME NEW i \in Runs PROVE Rests(i) \/ GoesOn(i)
  <2>1. CASE run'[i] = run[i] /\ job'[i] = job[i]
    BY <1>1, <2>1 DEF Rests
  <2>2. CASE ~(run'[i] = run[i] /\ job'[i] = job[i])
    <3>1. PICK r \in Routines : /\ run[i].status = "none"
                                /\ run'[i] = FreshRun(r, routine[r].next)
                                /\ job'[i].stage = "waiting"
      BY <2>2, ClaimRecords
    <3> QED BY <1>1, <3>1 DEF GoesOn, FreshRun, Live, Ended
  <2> QED BY <2>1, <2>2
<1> QED BY <1>2 DEF RunSteps

LEMMA EveryStep == ASSUME TypeOK, [Next]_vars PROVE RunSteps
<1>1. CASE UNCHANGED vars
  BY <1>1, StillSteps DEF vars
<1>2. CASE Next
  BY <1>2, JobSteps, TickSteps, ClaimSteps, RequestSteps, ProcessSteps DEF Next, TickStep
<1> QED BY <1>1, <1>2

-----------------------------------------------------------------------------
\* The end of a run.

\* A run that ended never runs again (EndedRunsStayEnded), whatever late claims,
\* renewals and results of other processes arrive: claimLease and finishOwned
\* change a row only while it has not ended.
THEOREM EndedForGood == Spec => EndedRunsStayEnded
<1>1. ASSUME TypeOK, [Next]_vars, NEW i \in Runs, run[i].status \in Ended
      PROVE  run'[i].status \in {run[i].status, "deleted"}
  BY <1>1, EveryStep DEF RunSteps, Rests, GoesOn, IsReaped, Ends, IsTold, IsDeleted, Live, Ended
<1>2. TypeOK /\ [Next]_vars =>
        [\A i \in Runs : run[i].status \in Ended =>
           run'[i].status \in {run[i].status, "deleted"}]_vars
  BY <1>1
<1> QED BY <1>2, TypesHold, PTL DEF Spec, EndedRunsStayEnded

\* A run whose job is about to tell of its end was not told of yet.
ToldLater ==
  \A i \in Runs : job[i].stage \in Ended =>
     notes[i] = <<>> /\ run[i].status \in {job[i].stage, "deleted"}

NotesInv == ToldOnceAndTruly /\ ToldLater

LEMMA NotEndedNotTold ==
  ASSUME TypeOK, ToldOnceAndTruly, NEW i \in Runs, run[i].status \in Live \cup {"none"}
  PROVE  notes[i] = <<>>
<1>1. notes[i] \in Seq(Ended)
  BY DEF TypeOK
<1>2. CASE notes[i] = <<run[i].status>>
  <2>1. notes[i][1] \in Ended
    BY <1>1, <1>2
  <2> QED BY <1>2, <2>1 DEF Live, Ended
<1> QED BY <1>2 DEF ToldOnceAndTruly, Live

LEMMA NotesStep ==
  ASSUME TypeOK, NotesInv, [Next]_vars PROVE NotesInv'
<1> USE DEF NotesInv
<1>1. SUFFICES ASSUME NEW i \in Runs
               PROVE  /\ notes'[i] # <<>> =>
                           \/ run'[i].status = "deleted" /\ Len(notes'[i]) = 1
                           \/ notes'[i] = <<run'[i].status>>
                      /\ job'[i].stage \in Ended =>
                           notes'[i] = <<>> /\ run'[i].status \in {job'[i].stage, "deleted"}
  BY DEF ToldOnceAndTruly, ToldLater
<1>2. Rests(i) \/ GoesOn(i) \/ IsReaped(i) \/ Ends(i) \/ IsTold(i) \/ IsDeleted(i)
  BY EveryStep DEF RunSteps
<1>3. CASE Rests(i)
  BY <1>3 DEF Rests, ToldOnceAndTruly, ToldLater
<1>4. CASE GoesOn(i)
  BY <1>4, NotEndedNotTold DEF GoesOn
<1>5. CASE IsReaped(i)
  <2>1. notes'[i] = <<"failed">>
    <3>1. notes[i] = <<>> /\ notes'[i] = Append(notes[i], "failed")
      BY <1>5, NotEndedNotTold DEF IsReaped
    <3> QED BY <3>1
  <2>2. job'[i].stage \notin Ended
    BY <1>5 DEF IsReaped, ToldLater, Live, Ended
  <2> QED BY <1>5, <2>1, <2>2 DEF IsReaped
<1>6. CASE Ends(i)
  BY <1>6, NotEndedNotTold DEF Ends
<1>7. CASE IsTold(i)
  <2> DEFINE end == job[i].stage
  <2>1. notes[i] = <<>> /\ notes'[i] = Append(notes[i], end)
    BY <1>7 DEF IsTold, ToldLater
  <2>2. run'[i].status = end /\ job'[i].stage \notin Ended
    BY <1>7 DEF IsTold, ToldLater, Ended
  <2> HIDE DEF end
  <2>3. notes'[i] = <<end>>
    BY <2>1
  <2> QED BY <2>2, <2>3
<1>8. CASE IsDeleted(i)
  <2>1. notes'[i] = notes[i] /\ job'[i] = job[i] /\ run'[i].status = "deleted"
    BY <1>8 DEF IsDeleted
  <2>2. notes[i] # <<>> => Len(notes[i]) = 1
    <3>1. notes[i] = <<run[i].status>> => Len(notes[i]) = 1
      OBVIOUS
    <3> QED BY <3>1 DEF ToldOnceAndTruly
  <2>3. job[i].stage \in Ended => notes[i] = <<>>
    BY DEF ToldLater
  <2> QED BY <2>1, <2>2, <2>3
<1> QED BY <1>2, <1>3, <1>4, <1>5, <1>6, <1>7, <1>8

\* A run is told of at most once, and truly (ToldOnceAndTruly), although the
\* process that executed it, a later write that fails and the reaps of every
\* process each write of their own accord.
THEOREM ToldOnce == Spec => []ToldOnceAndTruly
<1>1. Init => NotesInv
  BY DEF Init, NotesInv, ToldOnceAndTruly, ToldLater, NoJob, Ended
<1>2. TypeOK /\ NotesInv /\ [Next]_vars => NotesInv'
  BY NotesStep
<1>3. NotesInv => ToldOnceAndTruly
  BY DEF NotesInv
<1> QED BY <1>1, <1>2, <1>3, TypesHold, PTL DEF Spec

-----------------------------------------------------------------------------
\* Slots.

LEMMA ClaimFiresOnce ==
  ASSUME TypeOK, SlotFiresOnce, NEW p \in Procs, ClaimDue(p) PROVE SlotFiresOnce'
<1> SUFFICES ASSUME NEW i \in Scheduled', NEW k \in Scheduled',
                    i # k, run'[i].of = run'[k].of
             PROVE  run'[i].slot # run'[k].slot
  BY DEF SlotFiresOnce
<1>1. i \in Runs /\ k \in Runs
  BY DEF Scheduled
<1>2. CASE run'[i] = run[i] /\ run'[k] = run[k]
  BY <1>1, <1>2 DEF SlotFiresOnce, Scheduled
<1>3. ASSUME NEW m \in {i, k}, NEW n \in {i, k}, m # n, run'[m] # run[m]
      PROVE  run'[m].slot # run'[n].slot
  <2>1. PICK r \in Routines :
          /\ ~Recorded(r, routine[r].next)
          /\ run'[m] = FreshRun(r, routine[r].next)
          /\ run'[n] = run[n] \/ (run'[n].of = r => n = m)
    BY <1>1, <1>3, ClaimRecords
  <2>2. run'[m].of = r /\ run'[m].slot = routine[r].next
    BY <2>1 DEF FreshRun
  <2>3. run'[n] = run[n] /\ run[n].of = r
    BY <1>3, <2>1, <2>2
  <2>4. run[n].status # "none"
    BY <1>3, <2>3 DEF Scheduled
  <2> QED BY <1>1, <1>3, <2>1, <2>2, <2>3, <2>4 DEF Recorded
<1> QED BY <1>1, <1>2, <1>3

\* A slot fires at most once (SlotFiresOnce) across processes, crashes and
\* requests that move a routine back to a slot already taken.
THEOREM SlotsFireOnce == Spec => []SlotFiresOnce
<1>1. Init => SlotFiresOnce
  BY DEF Init, SlotFiresOnce, Scheduled, NoRun
<1>2. ASSUME TypeOK, SlotFiresOnce, [Next]_vars PROVE SlotFiresOnce'
  <2>1. ASSUME SlotsKept PROVE SlotFiresOnce'
    BY <1>2, <2>1 DEF SlotsKept, SameSlot, SlotFiresOnce
  <2>2. CASE UNCHANGED vars
    BY <1>2, <2>1, <2>2, StillSteps DEF vars
  <2>3. ASSUME NEW p \in Procs, ClaimDue(p) PROVE SlotFiresOnce'
    BY <1>2, <2>3, ClaimFiresOnce
  <2>4. CASE Next
    BY <1>2, <2>1, <2>3, <2>4, JobSteps, TickSteps, RequestSteps, ProcessSteps DEF Next, TickStep
  <2> QED BY <1>2, <2>2, <2>4
<1> QED BY <1>1, <1>2, TypesHold, PTL DEF Spec

-----------------------------------------------------------------------------
\* Missed slots.

LEMMA NextSlotIsLater == ASSUME NEW t \in Nat PROVE NextSlot(t) \in Nat /\ NextSlot(t) > t
<1>1. Period \in Nat /\ Period > 0
  BY PeriodAssumption
<1> DEFINE q == t \div Period
           rest == t % Period
<1>2. q \in Nat /\ rest \in Nat /\ rest < Period /\ t = Period * q + rest
  BY <1>1, SMT
<1> HIDE DEF q, rest
<1>3. (q + 1) * Period = Period * q + Period
  BY <1>1, <1>2, SMT
<1>4. Period * q \in Nat
  BY <1>1, <1>2, SMT
<1>5. NextSlot(t) = (q + 1) * Period
  BY DEF NextSlot, q
<1> QED BY <1>1, <1>2, <1>3, <1>4, <1>5, NextSlotIsNat

LEMMA Numbers ==
  ASSUME TypeOK
  PROVE  /\ now \in Nat /\ Delay \in Nat
         /\ \A r \in Routines : since[r] \in Nat /\ routine[r].next \in Nat
         /\ \A i \in Runs : run[i].at \in Nat
         /\ request.at \in Nat
<1>1. now \in Nat
  BY BoundsAssumption DEF TypeOK
<1>2. \A r \in Routines : routine[r] \in RoutineRows
  BY DEF TypeOK
<1>3. \A i \in Runs : run[i] \in RunRows
  BY DEF TypeOK
<1>4. since \in [Routines -> Nat] /\ request \in Requests
  BY DEF TypeOK
<1> QED BY <1>1, <1>2, <1>3, <1>4, DelayAssumption DEF RoutineRows, RunRows, Requests

\* Runs have ids in the order in which they are recorded.
UsedFirst == \A i, k \in Runs : i < k /\ k \in Used => i \in Used

\* A routine's next slot is later than what a request enabled it at, and than every
\* run it has had, give or take a request under way.
SlotsAhead(r) == /\ since[r] <= now
                 /\ routine[r].exists => routine[r].next > since[r] - Delay
RunsBehind(r) == routine[r].exists =>
  \A i \in Scheduled : run[i].of = r => run[i].at - Delay < routine[r].next

\* A request does not take longer than it may.
RequestInTime == request.kind # "none" => request.at <= now /\ now - request.at <= Delay

SlotsInv ==
  /\ UsedFirst /\ RequestInTime
  /\ \A r \in Routines : SlotsAhead(r) /\ RunsBehind(r)
  /\ \A i \in Scheduled : run[i].at <= now
  /\ MissedSlotsAreNotReplayed

\* What a step leaves alone when it neither records a run nor changes a routine.
LEMMA SlotsRest ==
  ASSUME TypeOK, TypeOK', SlotsInv, SlotsKept, Used' = Used, UNCHANGED <<routine, since>>,
         now' >= now, RequestInTime'
  PROVE  SlotsInv'
<1>1. /\ now \in Nat /\ now' \in Nat /\ Delay \in Nat
      /\ \A r \in Routines : since[r] \in Nat
      /\ \A i \in Runs : run[i].at \in Nat
  <2>1. now' \in Nat
    BY BoundsAssumption DEF TypeOK
  <2> QED BY <2>1, Numbers
<1>2. UsedFirst'
  BY DEF SlotsInv, UsedFirst, Runs
<1>3. /\ Scheduled' \subseteq Scheduled /\ Scheduled \subseteq Runs
      /\ \A i \in Scheduled' : SameSlot(i)
  BY DEF SlotsKept, Scheduled
<1>4. \A r \in Routines : SlotsAhead(r)' /\ RunsBehind(r)'
  BY <1>1, <1>3 DEF SlotsInv, SlotsAhead, RunsBehind, SameSlot
<1>5. \A i \in Scheduled' : run'[i].at <= now'
  BY <1>1, <1>3 DEF SlotsInv, SameSlot
<1>6. MissedSlotsAreNotReplayed'
  BY <1>3 DEF SlotsInv, MissedSlotsAreNotReplayed, GapIsSkipped, PausedGapIsNotReplayed, SameSlot
<1> QED BY <1>2, <1>4, <1>5, <1>6 DEF SlotsInv

LEMMA ReapKeepsUsed == ASSUME TypeOK, Reap PROVE Used' = Used
<1>1. ASSUME NEW i \in Runs PROVE run'[i].status = "none" <=> run[i].status = "none"
  <2>1. CASE Reapable(i)
    BY <2>1 DEF Reap, Reapable, Live, TypeOK, RunRows
  <2>2. CASE ~Reapable(i)
    BY <2>2 DEF Reap
  <2> QED BY <2>1, <2>2
<1> QED BY <1>1 DEF Used

LEMMA JobsKeepUsed ==
  ASSUME TypeOK, NEW i \in Runs, JobStep(i) \/ Renew(i) \/ WriteFails(i)
  PROVE  Used' = Used /\ UNCHANGED <<now, routine, since, request>>
<1>1. CASE StartJob(i) \/ BeginTurn(i) \/ EndTurn(i) \/ Notify(i) \/ WriteFails(i)
  BY <1>1 DEF StartJob, BeginTurn, EndTurn, Notify, WriteFails, store, Used
<1>2. CASE ClaimLease(i)
  <2>1. \A k \in Runs : run'[k].status = "none" <=> run[k].status = "none"
    <3>1. CASE Claimable(i, job[i].by)
      <4>1. run' = Leased(i, job[i].by) /\ run[i].status # "none"
        BY <1>2, <3>1 DEF ClaimLease, Claimable, Live
      <4>2. run'[i].status = "running" /\ \A k \in Runs \ {i} : run'[k] = run[k]
        BY <4>1 DEF Leased, TypeOK, RunRows
      <4> QED BY <4>1, <4>2
    <3>2. CASE ~Claimable(i, job[i].by)
      BY <1>2, <3>2 DEF ClaimLease
    <3> QED BY <3>1, <3>2
  <2> QED BY <1>2, <2>1 DEF ClaimLease, Used
<1>3. CASE Renew(i)
  <2>1. \A k \in Runs : run'[k].status = run[k].status
    BY <1>3 DEF Renew, Renewed, TypeOK, RunRows
  <2> QED BY <1>3, <2>1 DEF Renew, Used
<1>4. CASE Finish(i)
  <2>1. \A k \in Runs : run'[k].status = "none" <=> run[k].status = "none"
    <3>1. CASE OwnedBy(i, job[i].by)
      <4>1. PICK outcome \in Ended :
              run' = [run EXCEPT ![i].status = outcome, ![i].owner = Nobody, ![i].leased = FALSE]
        BY <1>4, <3>1 DEF Finish, Ended
      <4>2. run'[i].status = outcome /\ \A k \in Runs \ {i} : run'[k] = run[k]
        BY <4>1 DEF TypeOK, RunRows
      <4> QED BY <3>1, <4>2 DEF OwnedBy, Live, Ended
    <3>2. CASE ~OwnedBy(i, job[i].by)
      BY <1>4, <3>2 DEF Finish
    <3> QED BY <3>1, <3>2
  <2> QED BY <1>4, <2>1 DEF Finish, Used
<1> QED BY <1>1, <1>2, <1>3, <1>4 DEF JobStep

\* A claim records runs of due routines for their slots, and moves them past now.
LEMMA ClaimMoves ==
  ASSUME TypeOK, NEW p \in Procs, ClaimDue(p)
  PROVE  /\ \A i \in Runs : run'[i] # run[i] =>
              /\ run[i].status = "none"
              /\ \E r \in Routines :
                   /\ routine[r].exists
                   /\ run'[i] = FreshRun(r, routine[r].next)
                   /\ routine'[r].next = NextSlot(now)
         /\ \A i, k \in Runs : run'[i] # run[i] /\ run'[k] # run[k] /\ run'[i].of = run'[k].of
              => i = k
         /\ \A r \in Routines : /\ routine'[r].exists = routine[r].exists
                                /\ routine'[r].next \in {routine[r].next, NextSlot(now)}
         /\ UsedFirst => UsedFirst'
<1>1. PICK S \in Chosen(tick[p].room) : \E broken \in SUBSET S :
        /\ \E f \in NextIds(Unrecorded(S \ broken)) : RecordRuns(p, Unrecorded(S \ broken), f)
        /\ MoveOn(S, broken)
  BY DEF ClaimDue
<1>2. PICK broken \in SUBSET S :
        /\ \E f \in NextIds(Unrecorded(S \ broken)) : RecordRuns(p, Unrecorded(S \ broken), f)
        /\ MoveOn(S, broken)
  BY <1>1
<1> DEFINE new == Unrecorded(S \ broken)
<1>3. PICK f \in NextIds(new) : RecordRuns(p, new, f)
  BY <1>2
<1>4. /\ S \subseteq {r \in Routines : Due(r)}
      /\ new \subseteq S \ broken
  BY DEF Chosen, Unrecorded
<1>5. /\ f \in [new -> Runs \ Used]
      /\ \A r, s \in new : r # s => f[r] # f[s]
      /\ \A i \in Runs \ Used : (\E r \in new : f[r] > i) => \E r \in new : f[r] = i
  BY DEF NextIds
<1> HIDE DEF new
<1>6. \A r \in Routines : routine[r] \in RoutineRows
  BY DEF TypeOK
<1>7. \A r \in Routines : /\ routine'[r].exists = routine[r].exists
                          /\ routine'[r].next \in {routine[r].next, NextSlot(now)}
                          /\ r \in S \ broken => routine'[r].next = NextSlot(now)
  BY <1>2, <1>6 DEF MoveOn, SlotAfter, RoutineRows
<1>8. ASSUME NEW i \in Runs, run'[i] # run[i]
      PROVE  /\ i \notin Used
             /\ \E r \in new : f[r] = i /\ run'[i] = FreshRun(r, routine[r].next)
  <2>1. \E r \in new : f[r] = i
    BY <1>3, <1>8 DEF RecordRuns
  <2>2. RoutineOf(new, f, i) \in new /\ f[RoutineOf(new, f, i)] = i
    BY <2>1 DEF RoutineOf
  <2>3. run'[i] = FreshRun(RoutineOf(new, f, i), routine[RoutineOf(new, f, i)].next)
    BY <1>3, <2>1 DEF RecordRuns
  <2> QED BY <1>5, <2>2, <2>3
<1>9. ASSUME NEW i \in Runs, run'[i] # run[i]
      PROVE  /\ run[i].status = "none"
             /\ \E r \in Routines : /\ routine[r].exists
                                    /\ run'[i] = FreshRun(r, routine[r].next)
                                    /\ routine'[r].next = NextSlot(now)
  <2>1. PICK r \in new : f[r] = i /\ run'[i] = FreshRun(r, routine[r].next)
    BY <1>8, <1>9
  <2> QED BY <1>4, <1>7, <1>8, <1>9, <2>1 DEF Due, Used
<1>10. ASSUME NEW i \in Runs, NEW k \in Runs,
              run'[i] # run[i], run'[k] # run[k], run'[i].of = run'[k].of
       PROVE  i = k
  <2>1. PICK r \in new : f[r] = i /\ run'[i] = FreshRun(r, routine[r].next)
    BY <1>8, <1>10
  <2>2. PICK s \in new : f[s] = k /\ run'[k] = FreshRun(s, routine[s].next)
    BY <1>8, <1>10
  <2>3. run'[i].of = r /\ run'[k].of = s
    BY <2>1, <2>2 DEF FreshRun
  <2> QED BY <1>10, <2>1, <2>2, <2>3
<1>11. ASSUME UsedFirst PROVE UsedFirst'
  <2>1. SUFFICES ASSUME NEW i \in Runs, NEW k \in Runs, i < k, run'[k].status # "none"
                 PROVE  run'[i].status # "none"
    BY DEF UsedFirst, Used
  <2>2. \A j \in Runs : (\E r \in new : f[r] = j) => run'[j].status = "queued"
    <3> SUFFICES ASSUME NEW j \in Runs, \E r \in new : f[r] = j PROVE run'[j].status = "queued"
      OBVIOUS
    <3>1. run'[j] = FreshRun(RoutineOf(new, f, j), routine[RoutineOf(new, f, j)].next)
      BY <1>3 DEF RecordRuns
    <3> QED BY <3>1 DEF FreshRun
  <2>3. CASE i \in Used
    BY <1>8, <2>3 DEF Used
  <2>4. CASE i \notin Used
    <3>1. k \notin Used
      BY <1>11, <2>1, <2>4 DEF UsedFirst
    <3>2. run'[k] # run[k]
      BY <2>1, <3>1 DEF Used
    <3>3. PICK r \in new : f[r] = k
      BY <1>8, <3>2
    <3>4. f[r] > i
      BY <2>1, <3>3 DEF Runs
    <3>5. \E s \in new : f[s] = i
      BY <1>5, <2>4, <3>4
    <3> QED BY <2>2, <3>5
  <2> QED BY <2>3, <2>4
<1> QED BY <1>7, <1>9, <1>10, <1>11

LEMMA ClaimKeepsSlots ==
  ASSUME TypeOK, TypeOK', SlotsInv, NEW p \in Procs, ClaimDue(p) PROVE SlotsInv'
<1>1. UNCHANGED <<now, since, request>>
  BY DEF ClaimDue
<1>2. /\ now \in Nat /\ Delay \in Nat /\ NextSlot(now) \in Nat /\ NextSlot(now) > now
      /\ \A r \in Routines : since[r] \in Nat /\ routine[r].next \in Nat
      /\ \A i \in Runs : run[i].at \in Nat
  BY Numbers, NextSlotIsLater
<1>3. UsedFirst' /\ RequestInTime'
  BY <1>1, ClaimMoves DEF SlotsInv, RequestInTime
\* A run that was recorded now, or before.
<1> DEFINE Now(i) == /\ run[i].status = "none"
                     /\ run'[i].of \in Routines /\ routine[run'[i].of].exists
                     /\ run'[i].slot = routine[run'[i].of].next
                     /\ run'[i].at = now /\ run'[i].since = since[run'[i].of]
                     /\ routine'[run'[i].of].next = NextSlot(now)
<1>4. \A i \in Scheduled' : i \in Runs /\ ((run'[i] = run[i] /\ i \in Scheduled) \/ Now(i))
  <2> SUFFICES ASSUME NEW i \in Runs, i \in Scheduled', run'[i] # run[i] PROVE Now(i)
    BY DEF Scheduled
  <2>1. PICK r \in Routines : /\ run[i].status = "none" /\ routine[r].exists
                              /\ run'[i] = FreshRun(r, routine[r].next)
                              /\ routine'[r].next = NextSlot(now)
    BY ClaimMoves
  <2>2. run'[i].of = r /\ run'[i].slot = routine[r].next /\ run'[i].at = now
        /\ run'[i].since = since[r]
    BY <2>1 DEF FreshRun
  <2> QED BY <2>1, <2>2
<1>5. \A i \in Scheduled' : run'[i].at <= now'
  BY <1>1, <1>2, <1>4 DEF SlotsInv
<1>6. ASSUME NEW r \in Routines PROVE SlotsAhead(r)' /\ RunsBehind(r)'
  <2>1. /\ routine'[r].exists = routine[r].exists
        /\ routine'[r].next = routine[r].next \/ routine'[r].next = NextSlot(now)
    BY ClaimMoves
  <2>2. SlotsAhead(r) /\ RunsBehind(r) /\ \A i \in Scheduled : run[i].at <= now
    BY DEF SlotsInv
  <2>3. SlotsAhead(r)'
    BY <1>1, <1>2, <2>1, <2>2 DEF SlotsAhead
  <2>4. RunsBehind(r)'
    <3> SUFFICES ASSUME routine'[r].exists, NEW i \in Scheduled', run'[i].of = r
                 PROVE  run'[i].at - Delay < routine'[r].next
      BY DEF RunsBehind
    <3>1. CASE Now(i)
      BY <1>2, <3>1
    <3>2. CASE run'[i] = run[i] /\ i \in Scheduled
      <4>1. run[i].at - Delay < routine[r].next /\ run[i].at <= now /\ run[i].at \in Nat
        BY <1>2, <1>4, <2>1, <2>2, <3>2 DEF RunsBehind
      <4> QED BY <1>2, <2>1, <3>2, <4>1
    <3> QED BY <1>4, <3>1, <3>2
  <2> QED BY <2>3, <2>4
<1>7. GapIsSkipped'
  <2> SUFFICES ASSUME NEW i \in Scheduled', NEW k \in Scheduled',
                      i < k, run'[i].of = run'[k].of
               PROVE  run'[i].at - Delay < run'[k].slot
    BY DEF GapIsSkipped
  <2>0. i \in Runs /\ k \in Runs
    BY <1>4
  <2>1. CASE Now(i) /\ run'[k] = run[k] /\ k \in Scheduled
    <3>1. k \in Used /\ i \notin Used
      BY <2>0, <2>1 DEF Used, Scheduled
    <3> QED BY <2>0, <3>1 DEF SlotsInv, UsedFirst
  <2>2. CASE Now(k) /\ run'[i] = run[i] /\ i \in Scheduled
    BY <2>0, <2>2 DEF SlotsInv, RunsBehind
  <2>3. CASE Now(i) /\ Now(k)
    <3>1. run'[i] # run[i] /\ run'[k] # run[k]
      BY <2>0, <2>3 DEF Scheduled
    <3>2. i = k
      BY <2>0, <3>1, ClaimMoves
    <3> QED BY <2>0, <3>2 DEF Runs
  <2>4. CASE run'[i] = run[i] /\ run'[k] = run[k] /\ i \in Scheduled /\ k \in Scheduled
    BY <2>4 DEF SlotsInv, MissedSlotsAreNotReplayed, GapIsSkipped
  <2> QED BY <1>4, <2>1, <2>2, <2>3, <2>4
<1>8. PausedGapIsNotReplayed'
  <2> SUFFICES ASSUME NEW i \in Scheduled' PROVE run'[i].slot > run'[i].since - Delay
    BY DEF PausedGapIsNotReplayed
  <2>1. CASE Now(i)
    BY <2>1 DEF SlotsInv, SlotsAhead
  <2>2. CASE run'[i] = run[i] /\ i \in Scheduled
    BY <2>2 DEF SlotsInv, MissedSlotsAreNotReplayed, PausedGapIsNotReplayed
  <2> QED BY <1>4, <2>1, <2>2
<1> QED BY <1>3, <1>5, <1>6, <1>7, <1>8 DEF SlotsInv, MissedSlotsAreNotReplayed

LEMMA RunNowKeepsSlots ==
  ASSUME TypeOK, TypeOK', SlotsInv, NEW p \in Procs, NEW r \in Routines, RunNow(p, r)
  PROVE  SlotsInv'
<1>1. UNCHANGED <<now, routine, since, request>>
  BY DEF RunNow
<1>2. PICK i \in Runs \ Used : /\ \A k \in Runs \ Used : i <= k
                               /\ run' = [run EXCEPT ![i] = FreshRun(r, 0)]
  BY DEF RunNow
<1>3. /\ run'[i] = FreshRun(r, 0) /\ run[i].status = "none"
      /\ \A k \in Runs \ {i} : run'[k] = run[k]
  BY <1>2 DEF TypeOK, Used
<1>4. run'[i].slot = 0 /\ run'[i].status = "queued"
  BY <1>3 DEF FreshRun
<1>5. Used' = Used \cup {i} /\ Scheduled' = Scheduled
  BY <1>3, <1>4 DEF Used, Scheduled
<1>6. \A k \in Scheduled : k \in Runs /\ run'[k] = run[k]
  BY <1>3 DEF Scheduled
<1>7. UsedFirst'
  <2> SUFFICES ASSUME NEW j \in Runs, NEW k \in Runs, j < k, k \in Used' PROVE j \in Used'
    BY DEF UsedFirst, Runs
  <2>1. CASE k \in Used
    BY <1>5, <2>1 DEF SlotsInv, UsedFirst
  <2>2. CASE k = i
    BY <1>2, <1>5, <2>2 DEF Runs
  <2> QED BY <1>5, <2>1, <2>2
<1>8. RequestInTime' /\ \A s \in Routines : SlotsAhead(s)' /\ RunsBehind(s)'
  BY <1>1, <1>5, <1>6 DEF SlotsInv, RequestInTime, SlotsAhead, RunsBehind
<1>9. MissedSlotsAreNotReplayed' /\ \A k \in Scheduled' : run'[k].at <= now'
  BY <1>1, <1>5, <1>6
     DEF SlotsInv, MissedSlotsAreNotReplayed, GapIsSkipped, PausedGapIsNotReplayed
<1> QED BY <1>7, <1>8, <1>9 DEF SlotsInv

LEMMA EndRequestKeepsSlots == ASSUME TypeOK, TypeOK', SlotsInv, EndRequest PROVE SlotsInv'
<1> DEFINE r == request.of
           row == Changed(routine[r], request)
<1>1. /\ r \in Routines /\ routine[r] \in RoutineRows /\ request \in Requests
      /\ request.kind \in {"pause", "resume", "enable", "reschedule"}
  BY DEF EndRequest, TypeOK, Requests, Kinds
<1>2. /\ routine' = [routine EXCEPT ![r] = row]
      /\ since' = IF row.enabled /\ ~request.enabled THEN [since EXCEPT ![r] = now] ELSE since
      /\ request' = NoRequest /\ UNCHANGED <<now, run>>
  BY DEF EndRequest
<1>3. /\ now \in Nat /\ Delay \in Nat /\ request.at \in Nat
      /\ \A s \in Routines : since[s] \in Nat /\ routine[s].next \in Nat
      /\ \A i \in Runs : run[i].at \in Nat
  BY Numbers
<1>4. NextSlot(request.at) \in Nat /\ NextSlot(request.at) > now - Delay
  <2>1. request.at <= now /\ now - request.at <= Delay
    BY <1>1 DEF SlotsInv, RequestInTime
  <2>2. NextSlot(request.at) \in Nat /\ NextSlot(request.at) > request.at
    BY <1>3, NextSlotIsLater
  <2> HIDE DEF r, row
  <2> QED BY <1>3, <2>1, <2>2
<1>5. /\ row.exists = routine[r].exists
      /\ \/ row.next = NextSlot(request.at)
         \/ row.next = routine[r].next /\ ~(row.enabled /\ ~request.enabled)
  <2>1. CASE request.kind = "pause"
    BY <1>1, <2>1 DEF Changed, RoutineRows
  <2>2. CASE request.kind = "resume"
    BY <1>1, <2>2 DEF Changed, RoutineRows
  <2>3. CASE request.kind = "enable"
    BY <1>1, <2>3 DEF Changed, RoutineRows
  <2>4. CASE request.kind = "reschedule"
    BY <1>1, <2>4 DEF Changed, RoutineRows
  <2> QED BY <1>1, <2>1, <2>2, <2>3, <2>4
<1> HIDE DEF row
<1>6. /\ routine'[r] = row /\ \A s \in Routines \ {r} : routine'[s] = routine[s]
      /\ since'[r] = (IF row.enabled /\ ~request.enabled THEN now ELSE since[r])
      /\ \A s \in Routines \ {r} : since'[s] = since[s]
  BY <1>1, <1>2 DEF TypeOK
<1> HIDE DEF r
<1>7. Used' = Used /\ Scheduled' = Scheduled
  BY <1>2 DEF Used, Scheduled
<1>8. ASSUME NEW s \in Routines PROVE SlotsAhead(s)' /\ RunsBehind(s)'
  <2>1. SlotsAhead(s) /\ RunsBehind(s) /\ \A i \in Scheduled : i \in Runs /\ run[i].at <= now
    BY DEF SlotsInv, Scheduled
  <2>2. CASE s # r
    BY <1>2, <1>6, <1>7, <2>1, <2>2 DEF SlotsAhead, RunsBehind
  <2>3. CASE s = r /\ row.next = NextSlot(request.at)
    <3>1. SlotsAhead(s)'
      BY <1>2, <1>3, <1>4, <1>6, <2>1, <2>3 DEF SlotsAhead
    <3>2. RunsBehind(s)'
      BY <1>2, <1>3, <1>4, <1>6, <1>7, <2>1, <2>3 DEF RunsBehind
    <3> QED BY <3>1, <3>2
  <2>4. CASE s = r /\ row.next = routine[r].next /\ ~(row.enabled /\ ~request.enabled)
    BY <1>2, <1>5, <1>6, <1>7, <2>1, <2>4 DEF SlotsAhead, RunsBehind
  <2> QED BY <1>5, <2>2, <2>3, <2>4
<1>9. RequestInTime' /\ UsedFirst'
  BY <1>2, <1>7 DEF SlotsInv, RequestInTime, NoRequest, UsedFirst, Runs
<1>10. MissedSlotsAreNotReplayed' /\ \A i \in Scheduled' : run'[i].at <= now'
  BY <1>2, <1>7 DEF SlotsInv, MissedSlotsAreNotReplayed, GapIsSkipped, PausedGapIsNotReplayed
<1> QED BY <1>8, <1>9, <1>10 DEF SlotsInv

LEMMA EndDeleteKeepsSlots == ASSUME TypeOK, TypeOK', SlotsInv, EndDelete PROVE SlotsInv'
<1>1. /\ request.of \in Routines /\ request' = NoRequest /\ UNCHANGED <<now, since>>
      /\ ~routine'[request.of].exists
      /\ \A s \in Routines \ {request.of} : routine'[s] = routine[s]
  BY DEF EndDelete, TypeOK, Requests
<1>2. SlotsKept
  BY RequestSteps
<1>3. Used' = Used
  <2>1. \A i \in Runs : run'[i].status = "none" <=> run[i].status = "none"
    <3> SUFFICES ASSUME NEW i \in Runs PROVE run'[i].status = "none" <=> run[i].status = "none"
      OBVIOUS
    <3>1. CASE i \in Used /\ run[i].of = request.of
      <4>1. run'[i] = [NoRun EXCEPT !.status = "deleted", !.of = request.of]
        BY <3>1 DEF EndDelete
      <4>2. run'[i].status = "deleted"
        BY <4>1 DEF NoRun
      <4> QED BY <3>1, <4>2 DEF Used
    <3>2. CASE ~(i \in Used /\ run[i].of = request.of)
      BY <3>2 DEF EndDelete
    <3> QED BY <3>1, <3>2
  <2> QED BY <2>1 DEF Used
<1>4. /\ Scheduled' \subseteq Scheduled
      /\ \A i \in Scheduled' : SameSlot(i)
  BY <1>2 DEF SlotsKept
<1>5. RequestInTime' /\ UsedFirst'
  BY <1>1, <1>3 DEF SlotsInv, RequestInTime, NoRequest, UsedFirst, Runs
<1>6. \A s \in Routines : SlotsAhead(s)' /\ RunsBehind(s)'
  BY <1>1, <1>4 DEF SlotsInv, SlotsAhead, RunsBehind, SameSlot
<1>7. MissedSlotsAreNotReplayed' /\ \A i \in Scheduled' : run'[i].at <= now'
  BY <1>1, <1>4
     DEF SlotsInv, MissedSlotsAreNotReplayed, GapIsSkipped, PausedGapIsNotReplayed, SameSlot
<1> QED BY <1>5, <1>6, <1>7 DEF SlotsInv

LEMMA OthersKeepSlots ==
  ASSUME TypeOK, TypeOK', SlotsInv,
         \/ UNCHANGED vars
         \/ \E i \in Runs : JobStep(i) \/ Renew(i) \/ WriteFails(i)
         \/ \E p \in Procs : TickReaps(p) \/ TickReadsRoom(p) \/ Crash(p) \/ Boot(p)
         \/ \E r \in Routines, kind \in Kinds \ {"none"} : BeginRequest(r, kind)
         \/ TimePasses
  PROVE  SlotsInv'
<1>1. CASE UNCHANGED vars
  BY <1>1, SlotsRest, StillSteps DEF vars, Used, SlotsInv, RequestInTime, TypeOK
<1>2. ASSUME NEW i \in Runs, JobStep(i) \/ Renew(i) \/ WriteFails(i) PROVE SlotsInv'
  <2>1. Used' = Used /\ UNCHANGED <<now, routine, since, request>> /\ SlotsKept
    BY <1>2, JobSteps, JobsKeepUsed
  <2>2. RequestInTime' /\ now' >= now
    BY <2>1, Numbers DEF SlotsInv, RequestInTime
  <2> QED BY <2>1, <2>2, SlotsRest
<1>3. ASSUME NEW p \in Procs, TickReaps(p) \/ TickReadsRoom(p) PROVE SlotsInv'
  <2>1. Used' = Used /\ UNCHANGED <<now, routine, since, request>>
    BY <1>3, ReapKeepsUsed DEF TickReaps, TickReadsRoom, store, Used
  <2> QED BY <1>3, <2>1, SlotsRest, TickSteps DEF SlotsInv, RequestInTime, TypeOK
<1>4. ASSUME NEW p \in Procs, Crash(p) \/ Boot(p) PROVE SlotsInv'
  <2>1. Used' = Used /\ UNCHANGED <<now, routine, since, request>>
    BY <1>4, ReapKeepsUsed DEF Crash, Boot, store, Used
  <2> QED BY <1>4, <2>1, SlotsRest, ProcessSteps DEF SlotsInv, RequestInTime, TypeOK
<1>5. ASSUME NEW r \in Routines, NEW kind \in Kinds \ {"none"}, BeginRequest(r, kind)
      PROVE  SlotsInv'
  <2>1. UNCHANGED <<now, routine, run, since>> /\ request'.at = now
    BY <1>5 DEF BeginRequest, store
  <2>2. RequestInTime'
    BY <2>1, DelayAssumption DEF RequestInTime, TypeOK
  <2>3. SlotsKept /\ Used' = Used /\ now' >= now
    BY <1>5, <2>1, RequestSteps, Numbers DEF Used
  <2> QED BY <2>1, <2>2, <2>3, SlotsRest
<1>6. ASSUME TimePasses PROVE SlotsInv'
  <2>1. /\ UNCHANGED <<routine, since, request>>
        /\ now \in Nat /\ now' \in {now, now + 1} /\ request.at \in Nat /\ Delay \in Nat
        /\ request.kind # "none" => now - request.at < Delay
    BY <1>6, DelayAssumption DEF TimePasses, OnTime, TypeOK, Requests
  <2>2. RequestInTime'
    BY <2>1 DEF SlotsInv, RequestInTime
  <2>3. Used' = Used
    <3>1. \A i \in Runs : run'[i].status = run[i].status
      BY <1>6 DEF TimePasses, TypeOK, RunRows
    <3> QED BY <3>1 DEF Used
  <2> QED BY <1>6, <2>1, <2>2, <2>3, SlotsRest, ProcessSteps
<1> QED BY <1>1, <1>2, <1>3, <1>4, <1>5, <1>6

\* What passed in downtime or in a pause is not run afterwards
\* (MissedSlotsAreNotReplayed), whatever requests overlap ticks, for every length of
\* a slot and every time that a request may take.
THEOREM MissedSlotsStayMissed == Spec => []MissedSlotsAreNotReplayed
<1>1. Init => SlotsInv
  <2> SUFFICES ASSUME Init PROVE SlotsInv OBVIOUS
  <2>1. Used = {} /\ Scheduled = {}
    BY DEF Init, Used, Scheduled, NoRun
  <2>2. NextSlot(0) \in Nat /\ NextSlot(0) > 0
    BY NextSlotIsLater
  <2> QED BY <2>1, <2>2, DelayAssumption
       DEF Init, SlotsInv, UsedFirst, RequestInTime, NoRequest, SlotsAhead, RunsBehind,
           MissedSlotsAreNotReplayed, GapIsSkipped, PausedGapIsNotReplayed
<1>2. ASSUME TypeOK, TypeOK', SlotsInv, [Next]_vars PROVE SlotsInv'
  BY <1>2, OthersKeepSlots, ClaimKeepsSlots, RunNowKeepsSlots, EndRequestKeepsSlots,
     EndDeleteKeepsSlots DEF Next, TickStep
<1>3. SlotsInv => MissedSlotsAreNotReplayed
  BY DEF SlotsInv
<1> QED BY <1>1, <1>2, <1>3, TypesHold, PTL DEF Spec

-----------------------------------------------------------------------------
\* Leases.

\* What is left of the lease of a run whose process renews it in time.
Lease(i) ==
  job[i].stage \in Holding /\ job[i].by \notin Stalling =>
     \/ run[i].status = "deleted"
     \/ /\ run[i].status = "running" /\ run[i].owner = job[i].by
        /\ run[i].left >= Window - timer[i]

LeaseInv == \A i \in Runs : Lease(i)

\* A step leaves the lease alone if the row and the timer stay and the job does
\* not become one that holds it.
LeaseStays(i) ==
  /\ run'[i] = run[i] /\ timer'[i] = timer[i]
  /\ job'[i].stage \in Holding => job[i].stage \in Holding /\ job'[i].by = job[i].by

LEMMA LeaseStaysHeld ==
  ASSUME NEW i \in Runs, Lease(i), LeaseStays(i) \/ job'[i].stage \notin Holding
  PROVE  Lease(i)'
BY DEF Lease, LeaseStays

LEMMA LeaseSurvivesReap ==
  ASSUME RenewEvery < Window, TypeOK, LeaseInv, Reap, UNCHANGED <<job, timer>>
  PROVE  LeaseInv'
<1> SUFFICES ASSUME NEW i \in Runs PROVE Lease(i)'
  BY DEF LeaseInv
<1>1. Lease(i) /\ timer[i] \in 0 .. RenewEvery /\ run[i] \in RunRows
  BY DEF TypeOK, LeaseInv
<1>2. CASE Reapable(i)
  <2>1. ~(run[i].left >= Window - timer[i]) /\ run[i].status # "deleted"
    BY <1>1, <1>2, WindowAssumption DEF Reapable, Live
  <2> QED BY <1>1, <2>1 DEF Lease
<1>3. CASE ~Reapable(i)
  BY <1>1, <1>3, LeaseStaysHeld DEF Reap, LeaseStays
<1> QED BY <1>2, <1>3

LEMMA LeaseUnderJobs ==
  ASSUME TypeOK, LeaseInv, NEW i \in Runs, JobStep(i) \/ Renew(i) \/ WriteFails(i)
  PROVE  LeaseInv'
<1>1. \A k \in Runs : Lease(k) /\ run[k] \in RunRows /\ job[k] \in Jobs
  BY DEF TypeOK, LeaseInv
<1>2. SUFFICES Lease(i)' /\ \A k \in Runs \ {i} : LeaseStays(k)
  BY <1>1, LeaseStaysHeld DEF LeaseInv
<1>3. ASSUME NEW stage, Moves(i, stage)
      PROVE  job'[i] = [job[i] EXCEPT !.stage = stage] /\ job'[i].by = job[i].by
  BY <1>3 DEF Moves, TypeOK, Jobs
<1>4. ASSUME Moves(i, "read") \/ Leaves(i) \/ (\E stage \in Ended : Moves(i, stage))
      PROVE  Lease(i)'
  <2>1. job'[i].stage \notin Holding
    BY <1>4, MovesStages, LeavesStages DEF Holding, Ended
  <2> QED BY <1>1, <2>1, LeaseStaysHeld
<1>5. ASSUME NEW stage, Moves(i, stage) \/ Leaves(i), UNCHANGED <<run, timer>>
      PROVE  \A k \in Runs \ {i} : LeaseStays(k)
  BY <1>5, MovesStages, LeavesStages DEF LeaseStays
<1>6. CASE StartJob(i)
  BY <1>4, <1>5, <1>6 DEF StartJob, store
<1>7. CASE BeginTurn(i) \/ EndTurn(i)
  <2>1. PICK stage \in {"turn", "ok", "bad"} : Moves(i, stage)
    BY <1>7 DEF BeginTurn, EndTurn
  <2>2. UNCHANGED <<run, timer>> /\ job[i].stage \in Holding
    BY <1>7 DEF BeginTurn, EndTurn, store, Holding
  <2>3. LeaseStays(i)
    BY <1>3, <2>1, <2>2 DEF LeaseStays
  <2> QED BY <1>1, <1>5, <2>1, <2>2, <2>3, LeaseStaysHeld
<1>8. CASE ClaimLease(i)
  <2>1. CASE Claimable(i, job[i].by)
    <3>1. /\ run' = Leased(i, job[i].by) /\ timer' = [timer EXCEPT ![i] = 0]
          /\ Moves(i, "held")
      BY <1>8, <2>1 DEF ClaimLease
    <3>2. /\ run'[i].status = "running" /\ run'[i].owner = job[i].by /\ run'[i].left = Window
          /\ timer'[i] = 0
          /\ \A k \in Runs \ {i} : run'[k] = run[k] /\ timer'[k] = timer[k]
      BY <3>1 DEF Leased, TypeOK, RunRows
    <3>3. Lease(i)'
      <4>1. job'[i].by = job[i].by
        BY <1>3, <3>1
      <4>2. run'[i].left >= Window - timer'[i]
        BY <3>2, WindowAssumption
      <4> QED BY <3>2, <4>1, <4>2 DEF Lease
    <3> QED BY <3>1, <3>2, <3>3, MovesStages DEF LeaseStays
  <2>2. CASE ~Claimable(i, job[i].by)
    BY <1>4, <1>5, <1>8, <2>2 DEF ClaimLease
  <2> QED BY <2>1, <2>2
<1>9. CASE Renew(i)
  <2>1. run' = Renewed(i) /\ timer' = [timer EXCEPT ![i] = 0] /\ job' = job
    BY <1>9 DEF Renew
  <2>2. timer'[i] = 0 /\ \A k \in Runs \ {i} : run'[k] = run[k] /\ timer'[k] = timer[k]
    BY <2>1 DEF Renewed, TypeOK, RunRows
  <2>3. Lease(i)'
    <3>1. CASE OwnedBy(i, job[i].by)
      <4>1. /\ run'[i].status = run[i].status /\ run'[i].owner = run[i].owner
            /\ run'[i].left = Window
        BY <2>1, <3>1 DEF Renewed, TypeOK, RunRows
      <4>2. job'[i] = job[i] /\ run'[i].left >= Window - timer'[i]
        BY <2>1, <2>2, <4>1, WindowAssumption
      <4> QED BY <1>1, <4>1, <4>2 DEF Lease
    <3>2. CASE ~OwnedBy(i, job[i].by)
      <4>1. run' = run
        BY <2>1, <3>2 DEF Renewed
      <4>2. job'[i] = job[i] /\ run'[i] = run[i]
        BY <2>1, <4>1
      <4>3. ~(run[i].status = "running" /\ run[i].owner = job[i].by)
        BY <3>2 DEF OwnedBy, Live
      <4> QED BY <1>1, <4>2, <4>3 DEF Lease
    <3> QED BY <3>1, <3>2
  <2> QED BY <2>1, <2>2, <2>3 DEF LeaseStays
<1>10. CASE Finish(i)
  <2>1. (\E stage \in Ended : Moves(i, stage)) \/ Leaves(i)
    BY <1>10 DEF Finish, Ended
  <2>2. timer' = timer /\ \A k \in Runs \ {i} : run'[k] = run[k]
    BY <1>10 DEF Finish, TypeOK
  <2> QED BY <1>4, <2>1, <2>2, MovesStages, LeavesStages DEF LeaseStays
<1>11. CASE Notify(i) \/ WriteFails(i)
  BY <1>4, <1>5, <1>11 DEF Notify, WriteFails, store
<1> QED BY <1>6, <1>7, <1>8, <1>9, <1>10, <1>11 DEF JobStep

LEMMA LeaseUnderRequests ==
  ASSUME TypeOK, LeaseInv,
         \/ \E p \in Procs, r \in Routines : RunNow(p, r)
         \/ \E r \in Routines, kind \in Kinds \ {"none"} : BeginRequest(r, kind)
         \/ EndRequest \/ EndDelete
  PROVE  LeaseInv'
<1>1. \A k \in Runs : Lease(k)
  BY DEF LeaseInv
<1>2. ASSUME NEW p \in Procs, NEW r \in Routines, RunNow(p, r) PROVE LeaseInv'
  <2>1. PICK i \in Runs : /\ run' = [run EXCEPT ![i] = FreshRun(r, 0)]
                          /\ job' = [job EXCEPT ![i] = [by |-> p, stage |-> "waiting"]]
    BY <1>2 DEF RunNow
  <2>2. job'[i].stage \notin Holding /\ \A k \in Runs \ {i} : LeaseStays(k)
    BY <1>2, <2>1 DEF RunNow, TypeOK, Holding, LeaseStays
  <2> QED BY <1>1, <2>2, LeaseStaysHeld DEF LeaseInv
<1>3. CASE EndRequest \/ \E r \in Routines, kind \in Kinds \ {"none"} : BeginRequest(r, kind)
  <2>1. UNCHANGED <<run, job, timer>>
    BY <1>3 DEF EndRequest, BeginRequest, store
  <2> QED BY <1>1, <2>1, LeaseStaysHeld DEF LeaseInv, LeaseStays
<1>4. ASSUME EndDelete PROVE LeaseInv'
  <2> SUFFICES ASSUME NEW i \in Runs PROVE Lease(i)'
    BY DEF LeaseInv
  <2>1. CASE i \in Used /\ run[i].of = request.of
    <3>1. run'[i] = [NoRun EXCEPT !.status = "deleted", !.of = request.of]
      BY <1>4, <2>1 DEF EndDelete
    <3>2. run'[i].status = "deleted"
      BY <3>1 DEF NoRun
    <3> QED BY <3>2 DEF Lease
  <2>2. CASE ~(i \in Used /\ run[i].of = request.of)
    BY <1>1, <1>4, <2>2, LeaseStaysHeld DEF EndDelete, LeaseStays
  <2> QED BY <2>1, <2>2
<1> QED BY <1>2, <1>3, <1>4

LEMMA LeaseUnderTicks ==
  ASSUME RenewEvery < Window, TypeOK, LeaseInv, NEW p \in Procs, TickStep(p)
  PROVE  LeaseInv'
<1>1. CASE TickReaps(p)
  BY <1>1, LeaseSurvivesReap DEF TickReaps
<1>2. CASE TickReadsRoom(p)
  BY <1>2, LeaseStaysHeld DEF TickReadsRoom, store, LeaseInv, LeaseStays
<1>3. CASE ClaimDue(p)
  <2>1. timer' = timer
    BY <1>3 DEF ClaimDue
  <2>2. ASSUME NEW i \in Runs PROVE LeaseStays(i) \/ job'[i].stage \notin Holding
    <3>1. \/ run'[i] = run[i] /\ job'[i] = job[i]
          \/ job'[i].stage = "waiting"
      BY <1>3, ClaimRecords
    <3> QED BY <2>1, <3>1 DEF LeaseStays, Holding
  <2> QED BY <2>2, LeaseStaysHeld DEF LeaseInv
<1> QED BY <1>1, <1>2, <1>3 DEF TickStep

LEMMA LeaseUnderProcesses ==
  ASSUME RenewEvery < Window, TypeOK, LeaseInv,
         (\E p \in Procs : Crash(p) \/ Boot(p)) \/ TimePasses
  PROVE  LeaseInv'
<1>1. ASSUME NEW p \in Procs, Crash(p) PROVE LeaseInv'
  <2>1. \A i \in Runs : LeaseStays(i) \/ job'[i].stage \notin Holding
    BY <1>1 DEF Crash, store, NoJob, Holding, LeaseStays
  <2> QED BY <2>1, LeaseStaysHeld DEF LeaseInv
<1>2. ASSUME NEW p \in Procs, Boot(p) PROVE LeaseInv'
  BY <1>2, LeaseSurvivesReap DEF Boot
<1>3. ASSUME TimePasses PROVE LeaseInv'
  <2> SUFFICES ASSUME NEW i \in Runs, job[i].stage \in Holding, job[i].by \notin Stalling,
                      run[i].status # "deleted"
               PROVE  Lease(i)'
    <3>1. \A k \in Runs : job'[k] = job[k] /\ (run[k].status = "deleted" => run'[k] = run[k])
      BY <1>3 DEF TimePasses, Live
    <3> QED BY <3>1 DEF LeaseInv, Lease
  <2>1. /\ run[i].status = "running" /\ run[i].owner = job[i].by
        /\ run[i].left >= Window - timer[i]
    BY DEF LeaseInv, Lease
  <2>2. timer[i] < RenewEvery /\ timer[i] \in Nat
    BY <1>3, WindowAssumption DEF TimePasses, OnTime, TypeOK
  <2>3. run[i] \in RunRows /\ run[i].left \in Nat /\ run[i].left > 0
    BY <2>1, <2>2, WindowAssumption DEF TypeOK, RunRows
  <2>4. timer'[i] = timer[i] + 1
    BY <1>3, <2>2 DEF TimePasses
  <2>5. run'[i] = [run[i] EXCEPT !.left = @ - 1]
    BY <1>3, <2>1, <2>3 DEF TimePasses, Live
  <2>6. /\ run'[i].status = "running" /\ run'[i].owner = job[i].by
        /\ run'[i].left = run[i].left - 1
    BY <2>1, <2>3, <2>5 DEF RunRows
  <2>7. run'[i].left >= Window - timer'[i]
    BY <2>1, <2>2, <2>3, <2>4, <2>6, WindowAssumption
  <2> QED BY <1>3, <2>6, <2>7 DEF TimePasses, Lease
<1> QED BY <1>1, <1>2, <1>3

\* A run whose process renews in time is not reaped (LiveRunsAreNotReaped), by
\* whichever process ticks or starts, when leases are renewed within their
\* window, as 30 seconds and two minutes are.
THEOREM LiveRunsAreSafe ==
  ASSUME RenewEvery < Window PROVE Spec => []LiveRunsAreNotReaped
<1>1. Init => LeaseInv
  BY DEF Init, LeaseInv, Lease, NoJob, Holding
<1>2. ASSUME TypeOK, LeaseInv, [Next]_vars PROVE LeaseInv'
  <2>1. CASE UNCHANGED vars
    BY <1>2, <2>1, LeaseStaysHeld DEF vars, LeaseInv, LeaseStays
  <2>2. CASE Next
    BY <1>2, <2>2, LeaseUnderJobs, LeaseUnderTicks, LeaseUnderRequests, LeaseUnderProcesses
       DEF Next
  <2> QED BY <1>2, <2>1, <2>2
<1>3. LeaseInv => LiveRunsAreNotReaped
  BY DEF LeaseInv, Lease, LiveRunsAreNotReaped
<1> QED BY <1>1, <1>2, <1>3, TypesHold, PTL DEF Spec

=============================================================================
