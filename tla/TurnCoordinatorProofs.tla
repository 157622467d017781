------------------------ MODULE TurnCoordinatorProofs ------------------------
(***************************************************************************)
(* The promise chain of the turn coordinator excludes and implements the   *)
(* abstract lock, and its slots are counted and never strand a waiter, for *)
(* every set of chats, turns and settings.                                 *)
(***************************************************************************)
EXTENDS TurnCoordinator, FunctionTheorems, FiniteSetTheorems, TLAPS

-----------------------------------------------------------------------------
(***************************************************************************)
(* The abstract lock by itself, whose variables are `asked` and `stage`.   *)
(***************************************************************************)

VARIABLES asked, stage

AnyLock == INSTANCE ChatLock WITH calls <- asked, state <- stage

\* Whoever is listed for a chat has asked.
LockListsAskers == \A c \in Chats : \A i \in DOMAIN asked[c] : stage[asked[c][i]] # "out"

\* A turn is listed at one place of one chat.
LockListsOnce == \A c, d \in Chats : \A i \in DOMAIN asked[c], j \in DOMAIN asked[d] :
                asked[c][i] = asked[d][j] => c = d /\ i = j

\* Together, an inductive invariant of the lock.
LockInv == AnyLock!TypeOK /\ LockListsAskers /\ LockListsOnce /\ AnyLock!FirstComeFirstServed

\* A step never takes the order of callers away from a chat, nor a state
\* outside the four.
LEMMA LockTypeStep == AnyLock!TypeOK /\ [AnyLock!Next]_(AnyLock!vars) => AnyLock!TypeOK'
<1> SUFFICES ASSUME AnyLock!TypeOK, [AnyLock!Next]_(AnyLock!vars) PROVE AnyLock!TypeOK'
  OBVIOUS
<1>1. CASE UNCHANGED AnyLock!vars
  BY <1>1 DEF AnyLock!TypeOK, AnyLock!vars
<1>2. ASSUME NEW t \in Turns, NEW c \in Chats, AnyLock!Arrive(t, c) PROVE AnyLock!TypeOK'
  BY <1>2 DEF AnyLock!TypeOK, AnyLock!Arrive
<1>3. ASSUME NEW t \in Turns, AnyLock!Enter(t) PROVE AnyLock!TypeOK'
  BY <1>3 DEF AnyLock!TypeOK, AnyLock!Enter
<1>4. ASSUME NEW t \in Turns, AnyLock!Leave(t) PROVE AnyLock!TypeOK'
  BY <1>4 DEF AnyLock!TypeOK, AnyLock!Leave
<1> QED
  BY <1>1, <1>2, <1>3, <1>4 DEF AnyLock!Next

LEMMA LockInvStep == LockInv /\ [AnyLock!Next]_(AnyLock!vars) => LockInv'
<1> SUFFICES ASSUME LockInv, [AnyLock!Next]_(AnyLock!vars) PROVE LockInv'
  OBVIOUS
<1> USE DEF LockInv
<1>0. AnyLock!TypeOK'
  BY LockTypeStep
<1>1. CASE UNCHANGED AnyLock!vars
  BY <1>1, <1>0 DEF AnyLock!vars, LockListsAskers, LockListsOnce, AnyLock!FirstComeFirstServed
<1>2. ASSUME NEW t \in Turns, NEW c \in Chats, AnyLock!Arrive(t, c) PROVE LockInv'
  <2>1. /\ stage[t] = "out"
        /\ stage' = [stage EXCEPT ![t] = "waiting"]
        /\ asked' = [asked EXCEPT ![c] = Append(asked[c], t)]
    BY <1>2 DEF AnyLock!Arrive
  <2>2. \A d \in Chats : \A i \in DOMAIN asked'[d] :
          \/ i \in DOMAIN asked[d] /\ asked'[d][i] = asked[d][i] /\ asked[d][i] # t
          \/ d = c /\ i = Len(asked[c]) + 1 /\ asked'[d][i] = t
    BY <2>1 DEF AnyLock!TypeOK, LockListsAskers
  <2>3. \A d \in Chats : \A i \in DOMAIN asked[d] : asked[d][i] \in Turns
    BY DEF AnyLock!TypeOK
  <2>4. LockListsAskers'
    BY <2>1, <2>2, <2>3 DEF AnyLock!TypeOK, LockListsAskers
  <2>5. LockListsOnce'
    BY <2>2 DEF LockListsOnce
  <2>6. AnyLock!FirstComeFirstServed'
    <3> SUFFICES ASSUME NEW d \in Chats, NEW i \in DOMAIN asked'[d], NEW j \in DOMAIN asked'[d],
                        i < j, stage'[asked'[d][j]] \in {"holding", "released"}
                 PROVE  stage'[asked'[d][i]] = "released"
      BY DEF AnyLock!FirstComeFirstServed
    <3>1. asked'[d][j] # t
      BY <2>1 DEF AnyLock!TypeOK
    <3>2. j \in DOMAIN asked[d] /\ asked'[d][j] = asked[d][j]
      BY <2>2, <3>1
    <3>3. i \in DOMAIN asked[d] /\ asked'[d][i] = asked[d][i] /\ asked[d][i] # t
      BY <2>2, <3>2 DEF AnyLock!TypeOK
    <3> QED
      BY <2>1, <2>3, <3>1, <3>2, <3>3 DEF AnyLock!TypeOK, AnyLock!FirstComeFirstServed
  <2> QED
    BY <1>0, <2>4, <2>5, <2>6
<1>3. ASSUME NEW t \in Turns, AnyLock!Enter(t) PROVE LockInv'
  <2>1. /\ stage[t] = "waiting"
        /\ stage' = [stage EXCEPT ![t] = "holding"]
        /\ asked' = asked
    BY <1>3 DEF AnyLock!Enter
  <2>c. PICK c \in Chats : \E k \in DOMAIN asked[c] : asked[c][k] = t /\ AnyLock!AllBefore(c, k)
    BY <1>3 DEF AnyLock!Enter
  <2>2. PICK k \in DOMAIN asked[c] : asked[c][k] = t /\ AnyLock!AllBefore(c, k)
    BY <2>c
  <2>3. LockListsAskers' /\ LockListsOnce'
    BY <2>1 DEF AnyLock!TypeOK, LockListsAskers, LockListsOnce
  <2>4. AnyLock!FirstComeFirstServed'
    <3> SUFFICES ASSUME NEW d \in Chats, NEW i \in DOMAIN asked[d], NEW j \in DOMAIN asked[d],
                        i < j, stage'[asked[d][j]] \in {"holding", "released"}
                 PROVE  stage'[asked[d][i]] = "released"
      BY <2>1 DEF AnyLock!FirstComeFirstServed
    <3>1. asked[d][i] \in Turns /\ asked[d][j] \in Turns
      BY DEF AnyLock!TypeOK
    <3>2. stage[asked[d][i]] = "released"
      <4>1. CASE asked[d][j] = t
        <5>1. d = c /\ j = k
          BY <4>1, <2>2 DEF LockListsOnce
        <5>2. i \in 1 .. (k - 1)
          BY <5>1 DEF AnyLock!TypeOK
        <5> QED
          BY <5>1, <5>2, <2>2 DEF AnyLock!AllBefore
      <4>2. CASE asked[d][j] # t
        BY <4>2, <2>1, <3>1 DEF AnyLock!TypeOK, AnyLock!FirstComeFirstServed
      <4> QED
        BY <4>1, <4>2
    <3> QED
      BY <3>1, <3>2, <2>1 DEF AnyLock!TypeOK
  <2> QED
    BY <1>0, <2>3, <2>4
<1>4. ASSUME NEW t \in Turns, AnyLock!Leave(t) PROVE LockInv'
  <2>1. /\ stage[t] = "holding"
        /\ stage' = [stage EXCEPT ![t] = "released"]
        /\ asked' = asked
    BY <1>4 DEF AnyLock!Leave
  <2>2. LockListsAskers' /\ LockListsOnce'
    BY <2>1 DEF AnyLock!TypeOK, LockListsAskers, LockListsOnce
  <2>3. AnyLock!FirstComeFirstServed'
    <3> SUFFICES ASSUME NEW d \in Chats, NEW i \in DOMAIN asked[d], NEW j \in DOMAIN asked[d],
                        i < j, stage'[asked[d][j]] \in {"holding", "released"}
                 PROVE  stage'[asked[d][i]] = "released"
      BY <2>1 DEF AnyLock!FirstComeFirstServed
    <3>1. asked[d][i] \in Turns /\ asked[d][j] \in Turns
      BY DEF AnyLock!TypeOK
    <3>2. stage[asked[d][j]] \in {"holding", "released"}
      BY <2>1, <3>1 DEF AnyLock!TypeOK
    <3> QED
      BY <2>1, <3>1, <3>2 DEF AnyLock!TypeOK, AnyLock!FirstComeFirstServed
  <2> QED
    BY <1>0, <2>2, <2>3
<1> QED
  BY <1>1, <1>2, <1>3, <1>4 DEF AnyLock!Next

LEMMA LockInvInit == AnyLock!Init => LockInv
BY DEF AnyLock!Init, LockInv, AnyLock!TypeOK, LockListsAskers, LockListsOnce, AnyLock!FirstComeFirstServed

\* In every behaviour the callers of a chat are served in the order in which
\* they asked.
THEOREM AnyLockIsFair == AnyLock!Spec => []AnyLock!FirstComeFirstServed
<1>1. LockInv => AnyLock!FirstComeFirstServed
  BY DEF LockInv
<1> QED
  BY LockInvInit, LockInvStep, <1>1, PTL DEF AnyLock!Spec

\* Two holders of one chat would each be unserved before the other.
LEMMA LockInvExcludes == LockInv => AnyLock!MutualExclusion
<1> SUFFICES ASSUME LockInv, NEW c \in Chats, NEW i \in DOMAIN asked[c], NEW j \in DOMAIN asked[c],
                    stage[asked[c][i]] = "holding", stage[asked[c][j]] = "holding"
             PROVE  i = j
  BY DEF AnyLock!MutualExclusion
<1>1. ~(i < j) /\ ~(j < i)
  BY DEF LockInv, AnyLock!FirstComeFirstServed
<1> QED
  BY <1>1 DEF LockInv, AnyLock!TypeOK

\* In every behaviour no two turns hold one chat at the same time.
THEOREM AnyLockExcludes == AnyLock!Spec => []AnyLock!MutualExclusion
<1>1. LockInv => AnyLock!MutualExclusion
  BY LockInvExcludes
<1> QED
  BY LockInvInit, LockInvStep, <1>1, PTL DEF AnyLock!Spec

-----------------------------------------------------------------------------
(***************************************************************************)
(* The promise chain, its slots, and that the chain implements the lock.    *)
(***************************************************************************)

\* The i-th caller of chat c and everybody before it opened their gates.
OpenUpTo(c, i) == \A j \in 1 .. i : calls[c][j] \in open

ListedOnce == \A c, d \in Chats : \A i \in DOMAIN calls[c], j \in DOMAIN calls[d] :
                calls[c][i] = calls[d][j] => c = d /\ i = j

\* A turn holds or waits for a chat only after its call of lock, and its gate
\* is open exactly when it is through.
ListedState ==
  \A c \in Chats : \A i \in DOMAIN calls[c] :
    /\ pc[calls[c][i]] \in {"locking", "running", "released", "done"}
    /\ calls[c][i] \in open <=> pc[calls[c][i]] \in {"released", "done"}

Listed == \A t \in Turns :
            pc[t] \in {"locking", "running", "released"} \/ t \in open
              => \E c \in Chats : \E i \in DOMAIN calls[c] : calls[c][i] = t

\* The link of a caller: its predecessor, or nothing when all before it were
\* through at the time of its call.
Links == \A c \in Chats : \A i \in DOMAIN calls[c] :
           IF prev[calls[c][i]] = NoTurn THEN OpenUpTo(c, i - 1)
           ELSE i > 1 /\ prev[calls[c][i]] = calls[c][i - 1]

\* A resolved promise means that the whole chain up to it was released.
SettledChain == \A c \in Chats : \A i \in DOMAIN calls[c] :
                  calls[c][i] \in settled => OpenUpTo(c, i)

\* Whoever got past waiting has nobody unreleased before it.
ServedInOrder == \A c \in Chats : \A i \in DOMAIN calls[c] :
                   pc[calls[c][i]] # "locking" => OpenUpTo(c, i - 1)

ChainInv == /\ ListedOnce /\ ListedState /\ Listed
            /\ Links /\ SettledChain /\ settled \subseteq open
            /\ ServedInOrder /\ TailsMatchCallers

\* A turn that waits for a slot did nothing yet, and waits once.
WaitersQueued == /\ \A i \in DOMAIN waiting : pc[waiting[i]] = "queued"
                 /\ \A i, j \in DOMAIN waiting : waiting[i] = waiting[j] => i = j

\* A job was started and is not finished.
JobsStarted == \A t \in jobs : pc[t] \in {"started", "locking", "running", "released"}

SlotInv == WaitersQueued /\ JobsStarted /\ ActiveCountsJobs /\ NobodyWaitsForNothing

IInv == TypeOK /\ SlotInv /\ ChainInv

-----------------------------------------------------------------------------
\* pump() starts no more waiters than there are, and its loop ends with no
\* waiter left or with as many turns as the limit allows.
LEMMA StartsBounds ==
  ASSUME TypeOK, NEW n \in Int
  PROVE  /\ Limit \in Nat /\ Limit >= 1
         /\ Starts(n) \in Nat /\ Starts(n) <= Len(waiting)
         /\ Starts(n) = Len(waiting) \/ n + Starts(n) >= Limit
         /\ Starts(n) = 0 \/ n + Starts(n) <= Limit
<1>1. concurrency \in Int /\ Len(waiting) \in Nat
  BY SettingsAssumption DEF TypeOK
<1>2. Limit \in Nat /\ Limit >= 1
  BY <1>1 DEF Limit
<1> QED
  BY <1>1, <1>2 DEF Starts

\* The k oldest waiters are k turns.
LEMMA ShiftedCount ==
  ASSUME TypeOK, WaitersQueued, NEW k \in 0 .. Len(waiting)
  PROVE  /\ Shifted(k) \subseteq Turns
         /\ \A u \in Shifted(k) : pc[u] = "queued"
         /\ IsFiniteSet(Shifted(k))
         /\ Cardinality(Shifted(k)) = k
<1>1. waiting \in Seq(Turns) /\ Len(waiting) \in Nat
  BY DEF TypeOK
<1>2. 1 .. k \subseteq DOMAIN waiting
  BY <1>1
<1>3. Shifted(k) \subseteq Turns /\ \A u \in Shifted(k) : pc[u] = "queued"
  BY <1>1, <1>2 DEF Shifted, WaitersQueued
<1> DEFINE f == [i \in 1 .. k |-> waiting[i]]
<1>4. f \in [1 .. k -> Shifted(k)]
  BY DEF Shifted
<1>5. f \in Injection(1 .. k, Shifted(k))
  BY <1>2, <1>4 DEF WaitersQueued, Injection, IsInjective
<1>6. f \in Surjection(1 .. k, Shifted(k))
  BY <1>4 DEF Shifted, Surjection
<1>7. ExistsBijection(1 .. k, Shifted(k))
  BY <1>5, <1>6 DEF Bijection, ExistsBijection
<1>8. IsFiniteSet(1 .. k) /\ Cardinality(1 .. k) = k
  BY FS_Interval
<1> QED
  BY <1>3, <1>7, <1>8, FS_Bijection

\* The set of jobs is finite, and the counter of its members a natural number.
LEMMA JobsFinite == ASSUME TypeOK PROVE IsFiniteSet(jobs) /\ Cardinality(jobs) \in Nat
BY TurnsFinite, FS_Subset, FS_CardinalityType DEF TypeOK

\* What the end of a job does to the slots, the waiters and the turns.
LEMMA FinishEffect ==
  ASSUME TypeOK, SlotInv, NEW t \in Turns, Finish(t)
  PROVE  /\ TypeOK'
         /\ SlotInv'
         /\ pc[t] \in {"started", "released"} /\ pc'[t] = "done"
         /\ \A u \in Turns : u # t => \/ pc'[u] = pc[u]
                                      \/ pc[u] = "queued" /\ pc'[u] = "started"
<1> DEFINE k == Starts(active - 1)
<1> USE DEF SlotInv
<1>0. t \in jobs /\ pc[t] \in {"started", "released"}
  BY DEF Finish
<1>1. active >= 1
  BY <1>0, JobsFinite, FS_EmptySet DEF ActiveCountsJobs, TypeOK
<1>2. /\ k \in Nat /\ k <= Len(waiting) /\ active - 1 \in Nat /\ Limit >= 1 /\ Limit \in Nat
      /\ k = Len(waiting) \/ active - 1 + k >= Limit
  BY <1>1, StartsBounds DEF TypeOK
<1> HIDE DEF k
<1>3. /\ active' = active - 1 + k
      /\ jobs' = (jobs \ {t}) \cup Shifted(k)
      /\ waiting' = SubSeq(waiting, k + 1, Len(waiting))
      /\ idleWaiters' = IF Idle(active', waiting') THEN {} ELSE idleWaiters
      /\ raised' = FALSE
      /\ pc' = [u \in Turns |-> IF u = t THEN "done"
                                ELSE IF u \in Shifted(k) THEN "started" ELSE pc[u]]
      /\ UNCHANGED <<lockVars, concurrency>>
  BY DEF Finish, k
<1>4. waiting \in Seq(Turns) /\ Len(waiting) \in Nat
  BY DEF TypeOK
<1>5. /\ Shifted(k) \subseteq Turns /\ \A u \in Shifted(k) : pc[u] = "queued"
      /\ IsFiniteSet(Shifted(k)) /\ Cardinality(Shifted(k)) = k
  BY <1>2, <1>4, ShiftedCount
<1>6. /\ waiting' \in Seq(Turns) /\ Len(waiting') = Len(waiting) - k
      /\ \A i \in DOMAIN waiting' : waiting'[i] = waiting[k + i] /\ k + i \in DOMAIN waiting
  BY <1>2, <1>3, <1>4
<1>7. TypeOK'
  <2>1. active' \in Nat /\ jobs' \subseteq Turns /\ idleWaiters' \subseteq IdleCallers
    BY <1>2, <1>3, <1>5 DEF TypeOK
  <2>2. pc' \in [Turns -> PCs]
    BY <1>3 DEF TypeOK, PCs
  <2> QED
    BY <1>3, <1>6, <2>1, <2>2 DEF TypeOK, lockVars
<1>8. pc'[t] = "done" /\ \A u \in Turns : u # t =>
         pc'[u] = pc[u] \/ (pc[u] = "queued" /\ pc'[u] = "started")
  BY <1>3, <1>5
<1>9. WaitersQueued'
  <2>1. \A i, j \in DOMAIN waiting' : waiting'[i] = waiting'[j] => i = j
    BY <1>2, <1>4, <1>6 DEF WaitersQueued
  <2>2. ASSUME NEW i \in DOMAIN waiting' PROVE pc'[waiting'[i]] = "queued"
    <3>1. waiting'[i] \in Turns /\ pc[waiting'[i]] = "queued"
      BY <1>4, <1>6 DEF WaitersQueued
    <3>2. waiting'[i] \notin Shifted(k)
      BY <1>2, <1>4, <1>6 DEF WaitersQueued, Shifted
    <3>3. waiting'[i] # t
      BY <3>1, <1>0
    <3> QED
      BY <1>3, <3>1, <3>2, <3>3
  <2> QED
    BY <2>1, <2>2 DEF WaitersQueued
<1>10. JobsStarted'
  BY <1>3, <1>5, <1>0 DEF JobsStarted, TypeOK
<1>11. ActiveCountsJobs'
  <2>1. IsFiniteSet(jobs \ {t}) /\ Cardinality(jobs \ {t}) = active - 1
    BY <1>0, JobsFinite, FS_RemoveElement DEF ActiveCountsJobs
  <2>2. (jobs \ {t}) \cap Shifted(k) = {}
    BY <1>5 DEF JobsStarted
  <2>3. Cardinality((jobs \ {t}) \cup Shifted(k)) = active - 1 + k
    <3>1. Cardinality((jobs \ {t}) \cup Shifted(k))
            = Cardinality(jobs \ {t}) + Cardinality(Shifted(k)) - Cardinality((jobs \ {t}) \cap Shifted(k))
      BY <1>5, <2>1, FS_Union
    <3> QED
      <4>1. Cardinality((jobs \ {t}) \cap Shifted(k)) = 0
        BY <2>2, FS_EmptySet
      <4> QED
        BY <3>1, <4>1, <1>2, <1>5, <2>1
  <2> QED
    BY <1>3, <2>3 DEF ActiveCountsJobs
<1>12. NobodyWaitsForNothing'
  <2>1. ASSUME waiting' # <<>> \/ idleWaiters' # {} PROVE active' # 0
    <3>1. CASE waiting' # <<>>
      <4>1. k # Len(waiting)
        BY <3>1, <1>6
      <4> QED
        BY <4>1, <1>2, <1>3
    <3>2. CASE waiting' = <<>> /\ idleWaiters' # {}
      BY <3>2, <1>3 DEF Idle
    <3> QED
      BY <2>1, <3>1, <3>2
  <2> QED
    BY <2>1, <1>7, <1>11, FS_EmptySet DEF ActiveCountsJobs, NobodyWaitsForNothing
<1> QED
  BY <1>0, <1>7, <1>8, <1>9, <1>10, <1>11, <1>12

LEMMA RunInBackgroundKeepsSlots ==
  ASSUME TypeOK, SlotInv, NEW t \in Turns, RunInBackground(t)
  PROVE  TypeOK' /\ SlotInv'
<1> USE DEF SlotInv
<1>1. pc[t] = "new" /\ UNCHANGED <<lockVars, concurrency, idleWaiters, raised>>
  BY DEF RunInBackground
<1>2. t \notin jobs
  BY <1>1 DEF JobsStarted
<1>3. Limit \in Nat /\ Limit >= 1 /\ active \in Nat
  BY StartsBounds DEF TypeOK
<1>4. CASE active < Limit
  <2>1. /\ active' = active + 1 /\ jobs' = jobs \cup {t} /\ waiting' = waiting
        /\ pc' = [pc EXCEPT ![t] = "started"]
    BY <1>4 DEF RunInBackground
  <2>2. TypeOK'
    BY <1>1, <1>3, <2>1 DEF TypeOK, PCs, lockVars
  <2>3. WaitersQueued' /\ JobsStarted'
    BY <1>1, <2>1 DEF TypeOK, WaitersQueued, JobsStarted
  <2>4. ActiveCountsJobs'
    BY <1>2, <2>1, JobsFinite, FS_AddElement DEF ActiveCountsJobs
  <2>5. NobodyWaitsForNothing'
    BY <2>1 DEF NobodyWaitsForNothing
  <2> QED
    BY <2>2, <2>3, <2>4, <2>5
<1>5. CASE ~(active < Limit)
  <2>1. /\ waiting' = Append(waiting, t) /\ UNCHANGED <<active, jobs>>
        /\ pc' = [pc EXCEPT ![t] = "queued"]
    BY <1>5 DEF RunInBackground
  <2>2. TypeOK'
    BY <1>1, <2>1 DEF TypeOK, PCs, lockVars
  <2>3. \A i \in DOMAIN waiting : waiting[i] # t
    BY <1>1 DEF WaitersQueued
  <2>4. WaitersQueued'
    BY <1>1, <2>1, <2>3 DEF TypeOK, WaitersQueued
  <2>5. JobsStarted' /\ ActiveCountsJobs'
    BY <1>2, <2>1 DEF TypeOK, JobsStarted, ActiveCountsJobs
  <2>6. jobs # {}
    BY <1>3, <1>5, FS_EmptySet DEF ActiveCountsJobs
  <2>7. NobodyWaitsForNothing'
    BY <2>1, <2>6 DEF NobodyWaitsForNothing
  <2> QED
    BY <2>2, <2>4, <2>5, <2>7
<1> QED
  BY <1>4, <1>5

\* A step that moves one turn along its lock, and touches no slot.
LEMMA LockStepKeepsSlots ==
  ASSUME TypeOK, SlotInv, NEW t \in Turns, NEW s \in {"locking", "running", "released"},
         pc[t] \in {"new", "started", "locking", "running"},
         pc' = [pc EXCEPT ![t] = s], UNCHANGED slotVars
  PROVE  SlotInv'
<1>1. WaitersQueued'
  BY DEF SlotInv, WaitersQueued, slotVars, TypeOK
<1>2. JobsStarted'
  BY DEF SlotInv, JobsStarted, slotVars, TypeOK
<1> QED
  BY <1>1, <1>2 DEF SlotInv, ActiveCountsJobs, NobodyWaitsForNothing, slotVars

\* The types and the slots are kept by every step.
LEMMA SlotsStep == TypeOK /\ SlotInv /\ [Next]_vars => TypeOK' /\ SlotInv'
<1> SUFFICES ASSUME TypeOK, SlotInv, [Next]_vars PROVE TypeOK' /\ SlotInv'
  OBVIOUS
<1>1. CASE UNCHANGED vars
  BY <1>1 DEF vars, lockVars, slotVars, TypeOK, SlotInv, WaitersQueued, JobsStarted,
              ActiveCountsJobs, NobodyWaitsForNothing
<1>2. ASSUME NEW t \in Turns, RunInBackground(t) PROVE TypeOK' /\ SlotInv'
  BY <1>2, RunInBackgroundKeepsSlots
<1>3. ASSUME NEW t \in Turns, NEW c \in Chats, Lock(t, c) PROVE TypeOK' /\ SlotInv'
  <2>1. TypeOK'
    BY <1>3 DEF TypeOK, Lock, slotVars, PCs
  <2>2. SlotInv'
    BY <1>3, LockStepKeepsSlots DEF Lock
  <2> QED
    BY <2>1, <2>2
<1>4. ASSUME NEW t \in Turns, Grant(t) PROVE TypeOK' /\ SlotInv'
  <2>1. TypeOK'
    BY <1>4 DEF TypeOK, Grant, slotVars, lockVars, PCs
  <2>2. SlotInv'
    BY <1>4, LockStepKeepsSlots DEF Grant
  <2> QED
    BY <2>1, <2>2
<1>5. ASSUME NEW t \in Turns, Release(t) PROVE TypeOK' /\ SlotInv'
  <2>1. TypeOK'
    BY <1>5 DEF TypeOK, Release, TailsWithout, slotVars, PCs
  <2>2. SlotInv'
    BY <1>5, LockStepKeepsSlots DEF Release
  <2> QED
    BY <2>1, <2>2
<1>6. ASSUME NEW t \in Turns, Settle(t) PROVE TypeOK' /\ SlotInv'
  BY <1>6 DEF TypeOK, Settle, slotVars, SlotInv, WaitersQueued, JobsStarted,
              ActiveCountsJobs, NobodyWaitsForNothing
<1>7. ASSUME NEW t \in Turns, Finish(t) PROVE TypeOK' /\ SlotInv'
  BY <1>7, FinishEffect
<1>8. ASSUME NEW w \in IdleCallers, WhenIdle(w) PROVE TypeOK' /\ SlotInv'
  <2>1. TypeOK'
    BY <1>8 DEF TypeOK, WhenIdle, lockVars
  <2>2. jobs # {}
    BY <1>8, FS_EmptySet DEF WhenIdle, Idle, SlotInv, ActiveCountsJobs, NobodyWaitsForNothing
  <2> QED
    BY <1>8, <2>1, <2>2 DEF WhenIdle, SlotInv, WaitersQueued, JobsStarted, ActiveCountsJobs,
                            NobodyWaitsForNothing
<1>9. ASSUME NEW n \in Settings, SetConcurrency(n) PROVE TypeOK' /\ SlotInv'
  BY <1>9 DEF TypeOK, SetConcurrency, lockVars, SlotInv, WaitersQueued, JobsStarted,
              ActiveCountsJobs, NobodyWaitsForNothing
<1> QED
  BY <1>1, <1>2, <1>3, <1>4, <1>5, <1>6, <1>7, <1>8, <1>9 DEF Next

LEMMA SlotsInit == Init => TypeOK /\ SlotInv
<1> SUFFICES ASSUME Init PROVE TypeOK /\ SlotInv
  OBVIOUS
<1>1. TypeOK
  <2>1. raised \in BOOLEAN
    BY DEF Init
  <2>2. QED
    BY <2>1 DEF Init, TypeOK, PCs
<1>2. WaitersQueued /\ JobsStarted /\ NobodyWaitsForNothing
  BY DEF Init, WaitersQueued, JobsStarted, NobodyWaitsForNothing
<1>3. ActiveCountsJobs
  BY FS_EmptySet DEF Init, ActiveCountsJobs
<1> QED
  BY <1>1, <1>2, <1>3 DEF SlotInv

\* The variables of the coordinator keep their types.
THEOREM TypesHold == Spec => []TypeOK
BY SlotsInit, SlotsStep, PTL DEF Spec

\* The slot counter is exact, whatever starts, ends or changes the limit.
THEOREM SlotsAreCounted == Spec => []ActiveCountsJobs
<1>1. SlotInv => ActiveCountsJobs
  BY DEF SlotInv
<1> QED
  BY SlotsInit, SlotsStep, <1>1, PTL DEF Spec

\* A turn waiting for a slot, or a caller waiting for idle, always has a
\* running job whose end wakes it: changing the limit strands nobody.
THEOREM WaitersAreNotStranded == Spec => []NobodyWaitsForNothing
<1>1. SlotInv => NobodyWaitsForNothing
  BY DEF SlotInv
<1> QED
  BY SlotsInit, SlotsStep, <1>1, PTL DEF Spec

\* The slots add up (the counter and the waiters of createTurnCoordinator).
THEOREM SlotsHold == Spec => []SlotsAddUp
BY SlotsAreCounted, WaitersAreNotStranded, PTL DEF SlotsAddUp

\* What any step does with the slots: four of the parts of SlotDiscipline.
SlotsFilled == jobs \ jobs' # {} /\ waiting' # <<>> => active' >= Limit
StartedUnderLimit == jobs' \ jobs # {} => active' <= Limit'
StartedInOrder ==
  \A i, j \in DOMAIN waiting : i < j /\ waiting[j] \in jobs' => waiting[i] \in jobs'
ToldWhenIdle == idleWaiters \ idleWaiters' # {} => active' = 0 /\ waiting' = <<>>
SlotStep == SlotsFilled /\ StartedUnderLimit /\ StartedInOrder /\ ToldWhenIdle

\* A waiter holds no slot.
LEMMA WaitersHoldNothing ==
  ASSUME TypeOK, SlotInv, NEW i \in DOMAIN waiting PROVE waiting[i] \notin jobs
BY DEF SlotInv, WaitersQueued, JobsStarted

\* A step that neither gives nor takes a slot and tells nobody that all is idle.
LEMMA QuietSlotStep ==
  ASSUME TypeOK, SlotInv, jobs' = jobs, idleWaiters \subseteq idleWaiters' PROVE SlotStep
<1>1. StartedInOrder
  BY WaitersHoldNothing DEF StartedInOrder
<1>2. QED
  BY <1>1 DEF SlotStep, SlotsFilled, StartedUnderLimit, ToldWhenIdle

\* A turn that finds a slot free is no waiter, and there was room for it.
LEMMA RunSlotStep ==
  ASSUME TypeOK, SlotInv, NEW t \in Turns, RunInBackground(t) PROVE SlotStep
<1>1. /\ pc[t] = "new" /\ UNCHANGED <<concurrency, idleWaiters>>
      /\ Limit' = Limit /\ Limit \in Nat /\ active \in Nat
  BY StartsBounds DEF RunInBackground, TypeOK, Limit
<1>2. CASE active < Limit
  <2>1. active' = active + 1 /\ jobs' = jobs \cup {t} /\ waiting' = waiting
    BY <1>2 DEF RunInBackground
  <2>2. \A i \in DOMAIN waiting : waiting[i] # t
    BY <1>1 DEF SlotInv, WaitersQueued
  <2>3. StartedInOrder
    BY <2>1, <2>2, WaitersHoldNothing DEF StartedInOrder
  <2>4. StartedUnderLimit
    BY <1>1, <1>2, <2>1 DEF StartedUnderLimit
  <2>5. QED
    BY <1>1, <2>1, <2>3, <2>4 DEF SlotStep, SlotsFilled, ToldWhenIdle
<1>3. CASE ~(active < Limit)
  <2>1. jobs' = jobs
    BY <1>3 DEF RunInBackground
  <2>2. QED
    BY <1>1, <2>1, QuietSlotStep
<1>4. QED
  BY <1>2, <1>3

\* The end of a job: pump() starts the oldest waiters until none is left or the
\* limit is reached.
LEMMA FinishSlotStep ==
  ASSUME TypeOK, SlotInv, NEW t \in Turns, Finish(t) PROVE SlotStep
<1> DEFINE k == Starts(active - 1)
<1>1. active >= 1 /\ active \in Nat
  BY JobsFinite, FS_EmptySet DEF Finish, SlotInv, ActiveCountsJobs, TypeOK
<1>2. /\ k \in Nat /\ k <= Len(waiting) /\ Limit \in Nat /\ Len(waiting) \in Nat
      /\ k = Len(waiting) \/ active - 1 + k >= Limit
      /\ k = 0 \/ active - 1 + k <= Limit
  BY <1>1, StartsBounds DEF TypeOK
<1>3. /\ active' = active - 1 + k /\ jobs' = (jobs \ {t}) \cup Shifted(k)
      /\ waiting' = SubSeq(waiting, k + 1, Len(waiting))
      /\ idleWaiters' = IF Idle(active', waiting') THEN {} ELSE idleWaiters
      /\ Limit' = Limit
  BY DEF Finish, Limit
<1> HIDE DEF k
<1>4. waiting \in Seq(Turns) /\ DOMAIN waiting = 1 .. Len(waiting)
  BY DEF TypeOK
<1>5. SlotsFilled
  <2>1. k = Len(waiting) => waiting' = <<>>
    BY <1>2, <1>3, <1>4
  <2>2. QED
    BY <1>2, <1>3, <2>1 DEF SlotsFilled
<1>6. StartedUnderLimit
  <2>1. k = 0 => Shifted(k) = {}
    BY DEF Shifted
  <2>2. QED
    BY <1>1, <1>2, <1>3, <2>1 DEF StartedUnderLimit
<1>7. StartedInOrder
  <2>1. SUFFICES ASSUME NEW i \in DOMAIN waiting, NEW j \in DOMAIN waiting, i < j,
                        waiting[j] \in jobs'
                 PROVE  waiting[i] \in Shifted(k)
    BY <1>3 DEF StartedInOrder
  <2>2. waiting[j] \in Shifted(k)
    BY <1>3, <2>1, WaitersHoldNothing
  <2>3. PICK m \in 1 .. k : waiting[j] = waiting[m]
    BY <2>2 DEF Shifted
  <2>4. m \in DOMAIN waiting /\ m = j
    <3>1. m \in 1 .. Len(waiting)
      BY <1>2, <2>3
    <3>2. m \in DOMAIN waiting
      BY <1>4, <3>1
    <3>3. QED
      BY <2>1, <2>3, <3>2 DEF SlotInv, WaitersQueued
  <2>5. i \in 1 .. k
    <3>1. i \in 1 .. Len(waiting) /\ j \in 1 .. Len(waiting)
      BY <1>4, <2>1
    <3>2. QED
      BY <1>2, <2>1, <2>4, <3>1
  <2>6. QED
    BY <2>5 DEF Shifted
<1>8. ToldWhenIdle
  BY <1>3 DEF ToldWhenIdle, Idle
<1>9. QED
  BY <1>5, <1>6, <1>7, <1>8 DEF SlotStep

\* Every step of the coordinator.
LEMMA EverySlotStep ==
  ASSUME TypeOK, SlotInv, [Next]_vars PROVE SlotStep
<1>1. ASSUME jobs' = jobs, idleWaiters \subseteq idleWaiters' PROVE SlotStep
  BY <1>1, QuietSlotStep
<1>2. CASE UNCHANGED vars
  BY <1>1, <1>2 DEF vars, slotVars
<1>3. ASSUME NEW t \in Turns, NEW c \in Chats, Lock(t, c) PROVE SlotStep
  BY <1>1, <1>3 DEF Lock, slotVars
<1>4. ASSUME NEW t \in Turns, Grant(t) \/ Release(t) \/ Settle(t) PROVE SlotStep
  BY <1>1, <1>4 DEF Grant, Release, Settle, slotVars
<1>5. ASSUME NEW w \in IdleCallers, WhenIdle(w) PROVE SlotStep
  BY <1>1, <1>5 DEF WhenIdle
<1>6. ASSUME NEW n \in Settings, SetConcurrency(n) PROVE SlotStep
  BY <1>1, <1>6 DEF SetConcurrency
<1>7. QED
  BY <1>2, <1>3, <1>4, <1>5, <1>6, RunSlotStep, FinishSlotStep DEF Next

\* While turns wait and the limit did not grow since a job last ended, no slot is
\* free.
NoFreeSlots == waiting # <<>> /\ ~raised => active >= Limit

\* A step that leaves the slots alone leaves none free.
LEMMA NoFreeSlotsKept ==
  ASSUME NoFreeSlots, UNCHANGED <<waiting, raised, active, concurrency>> PROVE NoFreeSlots'
BY DEF NoFreeSlots, Limit

\* No step frees a slot before waiters, save a raise of the limit.
LEMMA NoFreeSlotsStep ==
  ASSUME TypeOK, SlotInv, NoFreeSlots, [Next]_vars PROVE NoFreeSlots'
<1>1. CASE UNCHANGED vars
  BY <1>1, NoFreeSlotsKept DEF vars, slotVars
<1>2. ASSUME NEW t \in Turns, RunInBackground(t) PROVE NoFreeSlots'
  <2>1. Limit \in Nat /\ active \in Nat
    BY StartsBounds DEF TypeOK
  <2>2. raised' = raised /\ Limit' = Limit
    BY <1>2 DEF RunInBackground, Limit
  <2>3. CASE active < Limit
    <3>1. active' = active + 1 /\ waiting' = waiting
      BY <1>2, <2>3 DEF RunInBackground
    <3>2. QED
      BY <2>1, <2>2, <3>1 DEF NoFreeSlots
  <2>4. CASE ~(active < Limit)
    <3>1. active' = active
      BY <1>2, <2>4 DEF RunInBackground
    <3>2. QED
      BY <2>1, <2>2, <2>4, <3>1 DEF NoFreeSlots
  <2>5. QED
    BY <2>3, <2>4
<1>3. ASSUME NEW t \in Turns, NEW c \in Chats, Lock(t, c) PROVE NoFreeSlots'
  BY <1>3, NoFreeSlotsKept DEF Lock, slotVars
<1>4. ASSUME NEW t \in Turns, Grant(t) \/ Release(t) \/ Settle(t) PROVE NoFreeSlots'
  BY <1>4, NoFreeSlotsKept DEF Grant, Release, Settle, slotVars
<1>5. ASSUME NEW t \in Turns, Finish(t) PROVE NoFreeSlots'
  <2>1. t \in jobs /\ jobs' = (jobs \ {t}) \cup Shifted(Starts(active - 1)) /\ Limit' = Limit
    BY <1>5 DEF Finish, Limit
  <2>2. ASSUME NEW k \in Nat PROVE t \notin Shifted(k) \/ k > Len(waiting)
    <3>1. DOMAIN waiting = 1 .. Len(waiting) /\ Len(waiting) \in Nat
      BY DEF TypeOK
    <3>2. QED
      BY <2>1, <3>1, WaitersHoldNothing DEF Shifted
  <2>3. active - 1 \in Int
    BY DEF TypeOK
  <2>4. t \notin jobs'
    BY <2>1, <2>2, <2>3, StartsBounds DEF TypeOK
  <2>5. SlotsFilled
    BY <1>5, FinishSlotStep DEF SlotStep
  <2>6. QED
    BY <2>1, <2>4, <2>5 DEF SlotsFilled, NoFreeSlots
<1>6. ASSUME NEW w \in IdleCallers, WhenIdle(w) PROVE NoFreeSlots'
  BY <1>6, NoFreeSlotsKept DEF WhenIdle
<1>7. ASSUME NEW n \in Settings, SetConcurrency(n) PROVE NoFreeSlots'
  <2>1. /\ waiting' = waiting /\ active' = active
        /\ raised' = (waiting # <<>> /\ (raised \/ Limit' > Limit))
    BY <1>7 DEF SetConcurrency
  <2>2. concurrency' \in Int /\ concurrency \in Int /\ active \in Nat
    BY <1>7, SettingsAssumption DEF SetConcurrency, TypeOK
  <2>3. Limit \in Int /\ Limit' \in Int
    BY <2>2 DEF Limit
  <2>4. SUFFICES ASSUME waiting' # <<>>, ~raised' PROVE active' >= Limit'
    BY DEF NoFreeSlots
  <2>5. ~raised /\ ~(Limit' > Limit)
    BY <2>1, <2>4
  <2>6. active >= Limit
    BY <2>1, <2>4, <2>5 DEF NoFreeSlots
  <2>7. QED
    BY <2>1, <2>2, <2>3, <2>5, <2>6
<1>8. QED
  BY <1>1, <1>2, <1>3, <1>4, <1>5, <1>6, <1>7 DEF Next

\* Only runInBackground itself starts a turn that was just asked for.
LEMMA NewcomerStep ==
  ASSUME TypeOK, SlotInv, NoFreeSlots, [Next]_vars,
         NEW t \in Turns, pc[t] = "new", t \in jobs', waiting # <<>>
  PROVE  raised
<1>1. t \notin jobs
  BY DEF SlotInv, JobsStarted
<1>2. ASSUME NEW u \in Turns, RunInBackground(u) PROVE raised
  <2>1. Limit \in Nat /\ active \in Nat
    BY StartsBounds DEF TypeOK
  <2>2. active < Limit
    BY <1>1, <1>2 DEF RunInBackground
  <2>3. QED
    BY <2>1, <2>2 DEF NoFreeSlots
<1>3. ASSUME NEW u \in Turns, Finish(u) PROVE FALSE
  <2>1. t \in Shifted(Starts(active - 1))
    BY <1>1, <1>3 DEF Finish
  <2>2. Starts(active - 1) \in 0 .. Len(waiting)
    <3>1. active - 1 \in Int /\ Len(waiting) \in Nat
      BY DEF TypeOK
    <3>2. QED
      BY <3>1, StartsBounds
  <2>3. pc[t] = "queued"
    BY <2>1, <2>2, ShiftedCount DEF SlotInv
  <2>4. QED
    BY <2>3
<1>4. ASSUME jobs' = jobs PROVE FALSE
  BY <1>1, <1>4
<1>5. QED
  BY <1>2, <1>3, <1>4
  DEF Next, Lock, Grant, Release, Settle, WhenIdle, SetConcurrency, vars, slotVars

\* How pump and runInBackground give slots, whatever the setting is changed to
\* meanwhile: to as many turns as the limit in force admits, to the waiters in
\* their order, to a newcomer before them only where the limit was raised since a
\* job last ended; and whenIdle returns only when all is idle.
THEOREM SlotDisciplineHolds == Spec => SlotDiscipline
<1>1. TypeOK /\ SlotInv /\ NoFreeSlots /\ [Next]_vars =>
        /\ [jobs \ jobs' # {} /\ waiting' # <<>> => active' >= Limit]_vars
        /\ [jobs' \ jobs # {} => active' <= Limit']_vars
        /\ [\A i, j \in DOMAIN waiting :
              i < j /\ waiting[j] \in jobs' => waiting[i] \in jobs']_vars
        /\ [idleWaiters \ idleWaiters' # {} => active' = 0 /\ waiting' = <<>>]_vars
  BY EverySlotStep DEF SlotStep, SlotsFilled, StartedUnderLimit, StartedInOrder, ToldWhenIdle
<1>2. TypeOK /\ SlotInv /\ NoFreeSlots /\ [Next]_vars =>
        [(\E t \in Turns : pc[t] = "new" /\ t \in jobs') /\ waiting # <<>> => raised]_vars
  BY NewcomerStep
<1>3. Init => NoFreeSlots
  BY DEF Init, NoFreeSlots
<1>4. TypeOK /\ SlotInv /\ NoFreeSlots /\ [Next]_vars => NoFreeSlots'
  BY NoFreeSlotsStep
<1>5. QED
  BY <1>1, <1>2, <1>3, <1>4, SlotsInit, SlotsStep, PTL
  DEF Spec, SlotDiscipline, FinishFillsSlots, StartsUnderLimit, WaitersStartInOrder,
      NewcomersOvertakeAfterARaise, IdleMeansIdle

-----------------------------------------------------------------------------
\* A step that leaves the chain alone, and moves only turns that are in none
\* or that are through.
LEMMA ChainUntouched ==
  ASSUME TypeOK, ChainInv, UNCHANGED lockVars,
         \A u \in Turns : \/ pc'[u] = pc[u]
                          \/ /\ pc[u] \in {"new", "queued", "started"} /\ u \notin open
                             /\ pc'[u] \in {"queued", "started", "done"}
                          \/ pc[u] = "released" /\ pc'[u] = "done"
  PROVE  ChainInv'
<1> USE DEF ChainInv, lockVars
<1>1. \A c \in Chats : \A i \in DOMAIN calls[c] :
        /\ calls[c][i] \in Turns
        /\ \/ pc'[calls[c][i]] = pc[calls[c][i]]
           \/ pc[calls[c][i]] = "released" /\ pc'[calls[c][i]] = "done"
  BY DEF TypeOK, ListedState
<1>2. ListedState' /\ ServedInOrder'
  BY <1>1 DEF ListedState, ServedInOrder, OpenUpTo
<1>3. Listed'
  BY DEF Listed, TypeOK
<1>4. ListedOnce' /\ Links' /\ SettledChain' /\ TailsMatchCallers'
  BY DEF ListedOnce, Links, SettledChain, TailsMatchCallers, OpenUpTo
<1> QED
  BY <1>2, <1>3, <1>4

\* A call of lock links itself behind the last caller.
LEMMA LockKeepsChain ==
  ASSUME TypeOK, ChainInv, NEW t \in Turns, NEW c \in Chats, Lock(t, c)
  PROVE  ChainInv'
<1> USE DEF ChainInv
<1>1. /\ pc[t] \in {"new", "started"}
      /\ prev' = [prev EXCEPT ![t] = tails[c]]
      /\ tails' = [tails EXCEPT ![c] = t]
      /\ calls' = [calls EXCEPT ![c] = Append(calls[c], t)]
      /\ pc' = [pc EXCEPT ![t] = "locking"]
      /\ open' = open /\ settled' = settled
  BY DEF Lock
<1>2. calls[c] \in Seq(Turns) /\ Len(calls[c]) \in Nat
  BY DEF TypeOK
<1>3. \A d \in Chats : \A i \in DOMAIN calls'[d] :
        \/ i \in DOMAIN calls[d] /\ calls'[d][i] = calls[d][i] /\ calls[d][i] # t /\ calls[d][i] \in Turns
        \/ d = c /\ i = Len(calls[c]) + 1 /\ calls'[d][i] = t
  <2>1. \A i \in DOMAIN calls[c] : calls[c][i] \in Turns
    BY <1>2
  <2>2. \A d \in Chats \ {c} : calls'[d] = calls[d] /\ calls[d] \in Seq(Turns)
    BY <1>1 DEF TypeOK
  <2>3. calls'[c] = Append(calls[c], t)
    BY <1>1 DEF TypeOK
  <2>4. \A d \in Chats : \A i \in DOMAIN calls[d] : calls[d][i] # t
    BY <1>1 DEF ListedState
  <2>5. \A i \in DOMAIN calls'[c] :
          \/ i \in DOMAIN calls[c] /\ calls'[c][i] = calls[c][i]
          \/ i = Len(calls[c]) + 1 /\ calls'[c][i] = t
    BY <1>2, <2>3
  <2> QED
    BY <2>1, <2>2, <2>4, <2>5
<1>n. t \notin open
  BY <1>1 DEF Listed, ListedState
<1>4. \A d \in Chats : \A i \in DOMAIN calls[d] :
        i \in DOMAIN calls'[d] /\ calls'[d][i] = calls[d][i]
  BY <1>1 DEF TypeOK
<1>5. \A d \in Chats : \A i \in DOMAIN calls[d] : \A n \in {i - 1, i} : OpenUpTo(d, n) => OpenUpTo(d, n)'
  BY <1>1, <1>4 DEF OpenUpTo, TypeOK
<1>6. ListedOnce'
  BY <1>3 DEF ListedOnce
<1>7. ListedState'
  <2> SUFFICES ASSUME NEW d \in Chats, NEW i \in DOMAIN calls'[d]
               PROVE  /\ pc'[calls'[d][i]] \in {"locking", "running", "released", "done"}
                      /\ calls'[d][i] \in open' <=> pc'[calls'[d][i]] \in {"released", "done"}
    BY DEF ListedState
  <2>1. CASE calls'[d][i] = t
    BY <2>1, <1>1, <1>n DEF TypeOK
  <2>2. CASE calls'[d][i] # t
    BY <2>2, <1>1, <1>3 DEF TypeOK, ListedState
  <2> QED
    BY <2>1, <2>2
<1>8. Listed'
  <2> SUFFICES ASSUME NEW u \in Turns, pc'[u] \in {"locking", "running", "released"} \/ u \in open'
               PROVE  \E d \in Chats : \E i \in DOMAIN calls'[d] : calls'[d][i] = u
    BY DEF Listed
  <2>1. CASE u = t
    <3>1. Len(calls[c]) + 1 \in DOMAIN calls'[c] /\ calls'[c][Len(calls[c]) + 1] = t
      BY <1>1, <1>2 DEF TypeOK
    <3> QED
      BY <2>1, <3>1
  <2>2. CASE u # t
    <3>1. pc[u] \in {"locking", "running", "released"} \/ u \in open
      BY <2>2, <1>1 DEF TypeOK
    <3>2. PICK d \in Chats : \E i \in DOMAIN calls[d] : calls[d][i] = u
      BY <3>1 DEF Listed
    <3> QED
      BY <3>2, <1>4
  <2> QED
    BY <2>1, <2>2
<1>9. Links'
  <2> SUFFICES ASSUME NEW d \in Chats, NEW i \in DOMAIN calls'[d]
               PROVE  IF prev'[calls'[d][i]] = NoTurn THEN OpenUpTo(d, i - 1)'
                      ELSE i > 1 /\ prev'[calls'[d][i]] = calls'[d][i - 1]
    BY DEF Links
  <2>1. CASE calls'[d][i] # t
    <3>1. i \in DOMAIN calls[d] /\ calls'[d][i] = calls[d][i] /\ prev'[calls'[d][i]] = prev[calls[d][i]]
      BY <2>1, <1>1, <1>3 DEF TypeOK
    <3>2. i > 1 => calls'[d][i - 1] = calls[d][i - 1]
      BY <3>1, <1>4 DEF TypeOK
    <3> QED
      BY <3>1, <3>2, <1>5 DEF Links
  <2>2. CASE calls'[d][i] = t
    <3>1. d = c /\ i = Len(calls[c]) + 1 /\ prev'[calls'[d][i]] = tails[c]
      BY <2>2, <1>1, <1>3 DEF TypeOK
    <3>2. CASE tails[c] = NoTurn
      <4>1. OpenUpTo(c, i - 1)'
        BY <3>1, <3>2, <1>1, <1>2, <1>4 DEF OpenUpTo, TailsMatchCallers
      <4> QED
        BY <3>1, <3>2, <4>1
    <3>3. CASE tails[c] # NoTurn
      <4>1. calls[c] # <<>> /\ tails[c] = calls[c][Len(calls[c])]
        BY <3>3 DEF TailsMatchCallers
      <4>2. i > 1 /\ calls'[c][i - 1] = calls[c][Len(calls[c])]
        BY <3>1, <4>1, <1>2, <1>4
      <4> QED
        BY <3>1, <3>3, <4>1, <4>2
    <3> QED
      BY <3>2, <3>3
  <2> QED
    BY <2>1, <2>2
<1>10. SettledChain'
  <2> SUFFICES ASSUME NEW d \in Chats, NEW i \in DOMAIN calls'[d], calls'[d][i] \in settled'
               PROVE  OpenUpTo(d, i)'
    BY DEF SettledChain
  <2>1. calls'[d][i] # t
    BY <1>1, <1>n
  <2>2. i \in DOMAIN calls[d] /\ calls[d][i] \in settled
    BY <2>1, <1>1, <1>3
  <2> QED
    BY <2>2, <1>5 DEF SettledChain
<1>11. ServedInOrder'
  <2> SUFFICES ASSUME NEW d \in Chats, NEW i \in DOMAIN calls'[d], pc'[calls'[d][i]] # "locking"
               PROVE  OpenUpTo(d, i - 1)'
    BY DEF ServedInOrder
  <2>1. calls'[d][i] # t
    BY <1>1 DEF TypeOK
  <2>2. i \in DOMAIN calls[d] /\ pc[calls[d][i]] # "locking"
    BY <2>1, <1>1, <1>3 DEF TypeOK
  <2> QED
    BY <2>2, <1>5 DEF ServedInOrder
<1>12. TailsMatchCallers'
  <2> SUFFICES ASSUME NEW d \in Chats
               PROVE  IF tails'[d] = NoTurn THEN \A i \in DOMAIN calls'[d] : calls'[d][i] \in open'
                      ELSE /\ calls'[d] # <<>> /\ tails'[d] = calls'[d][Len(calls'[d])]
                           /\ tails'[d] \notin open'
    BY DEF TailsMatchCallers
  <2>1. CASE d = c
    <3>1. calls[c] \in Seq(Turns) /\ tails'[d] = t
      BY <2>1, <1>1 DEF TypeOK
    <3>2. calls'[d] = Append(calls[c], t)
      BY <2>1, <1>1 DEF TypeOK
    <3>3. calls'[d] # <<>> /\ t = calls'[d][Len(calls'[d])]
      BY <3>1, <3>2
    <3>4. t \notin open' /\ t # NoTurn
      BY <1>1, <1>n, NoTurnAssumption
    <3> QED
      BY <3>1, <3>3, <3>4
  <2>2. CASE d # c
    BY <2>2, <1>1 DEF TypeOK, TailsMatchCallers
  <2> QED
    BY <2>1, <2>2
<1> QED
  BY <1>1, <1>6, <1>7, <1>8, <1>9, <1>10, <1>11, <1>12

\* A caller whose `previous` resolved has nobody unreleased before it.
LEMMA PreviousSettledMeansServed ==
  ASSUME TypeOK, ChainInv, NEW c \in Chats, NEW i \in DOMAIN calls[c],
         PreviousSettled(calls[c][i])
  PROVE  OpenUpTo(c, i - 1)
<1> USE DEF ChainInv
<1>1. CASE prev[calls[c][i]] = NoTurn
  BY <1>1 DEF Links
<1>2. CASE prev[calls[c][i]] # NoTurn
  <2>1. i > 1 /\ prev[calls[c][i]] = calls[c][i - 1] /\ i - 1 \in DOMAIN calls[c]
    BY <1>2 DEF Links, TypeOK
  <2> QED
    BY <1>2, <2>1 DEF PreviousSettled, SettledChain
<1> QED
  BY <1>1, <1>2

LEMMA GrantKeepsChain ==
  ASSUME TypeOK, ChainInv, NEW t \in Turns, Grant(t)
  PROVE  ChainInv'
<1> USE DEF ChainInv
<1>1. /\ pc[t] = "locking" /\ PreviousSettled(t) /\ pc' = [pc EXCEPT ![t] = "running"]
      /\ UNCHANGED <<tails, prev, open, settled, calls>>
  BY DEF Grant, lockVars
<1>2. ListedState' /\ Listed'
  BY <1>1 DEF TypeOK, ListedState, Listed
<1>3. ServedInOrder'
  <2> SUFFICES ASSUME NEW c \in Chats, NEW i \in DOMAIN calls[c], pc'[calls[c][i]] # "locking"
               PROVE  OpenUpTo(c, i - 1)
    BY <1>1 DEF ServedInOrder, OpenUpTo
  <2>1. CASE calls[c][i] = t
    BY <2>1, <1>1, PreviousSettledMeansServed
  <2>2. CASE calls[c][i] # t
    BY <2>2, <1>1 DEF TypeOK, ServedInOrder
  <2> QED
    BY <2>1, <2>2
<1>4. ListedOnce' /\ Links' /\ SettledChain' /\ TailsMatchCallers' /\ settled' \subseteq open'
  BY <1>1 DEF ListedOnce, Links, SettledChain, TailsMatchCallers, OpenUpTo
<1> QED
  BY <1>2, <1>3, <1>4

LEMMA SettleKeepsChain ==
  ASSUME TypeOK, ChainInv, NEW t \in Turns, Settle(t)
  PROVE  ChainInv'
<1> USE DEF ChainInv
<1>1. /\ t \in open /\ PreviousSettled(t) /\ settled' = settled \cup {t}
      /\ UNCHANGED <<tails, prev, open, calls, pc>>
  BY DEF Settle
<1>2. SettledChain'
  <2> SUFFICES ASSUME NEW c \in Chats, NEW i \in DOMAIN calls[c], calls[c][i] \in settled'
               PROVE  OpenUpTo(c, i)
    BY <1>1 DEF SettledChain, OpenUpTo
  <2>1. CASE calls[c][i] = t
    <3>1. OpenUpTo(c, i - 1)
      BY <2>1, <1>1, PreviousSettledMeansServed
    <3> QED
      BY <2>1, <3>1, <1>1 DEF OpenUpTo, TypeOK
  <2>2. CASE calls[c][i] # t
    BY <2>2, <1>1 DEF SettledChain
  <2> QED
    BY <2>1, <2>2
<1>3. /\ ListedOnce' /\ ListedState' /\ Listed' /\ Links' /\ ServedInOrder'
      /\ TailsMatchCallers' /\ settled' \subseteq open'
  BY <1>1 DEF ListedOnce, ListedState, Listed, Links, ServedInOrder, TailsMatchCallers, OpenUpTo
<1> QED
  BY <1>2, <1>3

LEMMA ReleaseKeepsChain ==
  ASSUME TypeOK, ChainInv, NEW t \in Turns, Release(t)
  PROVE  ChainInv'
<1> USE DEF ChainInv
<1>1. /\ pc[t] = "running" /\ open' = open \cup {t}
      /\ tails' = [c \in Chats |-> IF tails[c] = t THEN NoTurn ELSE tails[c]]
      /\ pc' = [pc EXCEPT ![t] = "released"]
      /\ UNCHANGED <<prev, settled, calls>>
  BY DEF Release, TailsWithout
<1>2. \A c \in Chats, n \in Int : OpenUpTo(c, n) => OpenUpTo(c, n)'
  BY <1>1 DEF OpenUpTo
<1>3. ListedState' /\ Listed'
  BY <1>1 DEF TypeOK, ListedState, Listed
<1>4. \A c \in Chats : \A i \in DOMAIN calls[c] : i \in Int
  BY DEF TypeOK
<1>5. Links'
  BY <1>1, <1>2, <1>4 DEF Links
<1>6. SettledChain'
  BY <1>1, <1>2, <1>4 DEF SettledChain
<1>7. ServedInOrder'
  BY <1>1, <1>2, <1>4 DEF ServedInOrder, TypeOK
<1>8. TailsMatchCallers'
  <2> SUFFICES ASSUME NEW c \in Chats
               PROVE  IF tails'[c] = NoTurn THEN \A i \in DOMAIN calls[c] : calls[c][i] \in open'
                      ELSE /\ calls[c] # <<>> /\ tails'[c] = calls[c][Len(calls[c])]
                           /\ tails'[c] \notin open'
    BY <1>1 DEF TailsMatchCallers
  <2>1. CASE tails[c] = t
    <3>1. calls[c] # <<>> /\ t = calls[c][Len(calls[c])] /\ Len(calls[c]) \in DOMAIN calls[c]
      BY <2>1, NoTurnAssumption DEF TailsMatchCallers, TypeOK
    <3>2. OpenUpTo(c, Len(calls[c]) - 1)
      BY <3>1, <1>1 DEF ServedInOrder
    <3>3. \A i \in DOMAIN calls[c] : calls[c][i] \in open'
      BY <3>1, <3>2, <1>1 DEF OpenUpTo, TypeOK
    <3> QED
      BY <2>1, <3>3, <1>1
  <2>2. CASE tails[c] # t
    BY <2>2, <1>1 DEF TailsMatchCallers
  <2> QED
    BY <2>1, <2>2
<1>9. ListedOnce' /\ settled' \subseteq open'
  BY <1>1 DEF ListedOnce
<1> QED
  BY <1>3, <1>5, <1>6, <1>7, <1>8, <1>9

\* No step breaks the chain.
LEMMA ChainStep == IInv /\ [Next]_vars => ChainInv'
<1> SUFFICES ASSUME IInv, [Next]_vars PROVE ChainInv'
  OBVIOUS
<1> USE DEF IInv
<1>0. \A u \in Turns : pc[u] \in {"new", "queued", "started"} => u \notin open
  BY DEF ChainInv, Listed, ListedState
<1>1. CASE UNCHANGED vars
  BY <1>1, ChainUntouched DEF vars
<1>2. ASSUME NEW t \in Turns, RunInBackground(t) PROVE ChainInv'
  <2>1. UNCHANGED lockVars /\ pc[t] = "new"
        /\ \E s \in {"started", "queued"} : pc' = [pc EXCEPT ![t] = s]
    BY <1>2 DEF RunInBackground
  <2> QED
    BY <1>0, <2>1, ChainUntouched DEF TypeOK
<1>3. ASSUME NEW t \in Turns, NEW c \in Chats, Lock(t, c) PROVE ChainInv'
  BY <1>3, LockKeepsChain
<1>4. ASSUME NEW t \in Turns, Grant(t) PROVE ChainInv'
  BY <1>4, GrantKeepsChain
<1>5. ASSUME NEW t \in Turns, Release(t) PROVE ChainInv'
  BY <1>5, ReleaseKeepsChain
<1>6. ASSUME NEW t \in Turns, Settle(t) PROVE ChainInv'
  BY <1>6, SettleKeepsChain
<1>7. ASSUME NEW t \in Turns, Finish(t) PROVE ChainInv'
  <2>1. UNCHANGED lockVars
    BY <1>7 DEF Finish
  <2> QED
    BY <1>0, <1>7, <2>1, FinishEffect, ChainUntouched
<1>8. ASSUME NEW w \in IdleCallers, WhenIdle(w) PROVE ChainInv'
  BY <1>8, ChainUntouched DEF WhenIdle
<1>9. ASSUME NEW n \in Settings, SetConcurrency(n) PROVE ChainInv'
  BY <1>9, ChainUntouched DEF SetConcurrency
<1> QED
  BY <1>1, <1>2, <1>3, <1>4, <1>5, <1>6, <1>7, <1>8, <1>9 DEF Next

LEMMA IInvInit == Init => IInv
<1> SUFFICES ASSUME Init PROVE ChainInv
  BY SlotsInit DEF IInv
<1> QED
  BY DEF Init, ChainInv, ListedOnce, ListedState, Listed, Links, SettledChain, ServedInOrder,
         TailsMatchCallers

LEMMA IInvStep == IInv /\ [Next]_vars => IInv'
BY SlotsStep, ChainStep DEF IInv

-----------------------------------------------------------------------------
\* Two turns never run in one chat at the same time.
THEOREM LockExcludes == Spec => []MutualExclusion
<1>1. IInv => MutualExclusion
  <2> SUFFICES ASSUME IInv, NEW c \in Chats, NEW i \in DOMAIN calls[c], NEW j \in DOMAIN calls[c],
                      pc[calls[c][i]] = "running", pc[calls[c][j]] = "running"
               PROVE  i = j
    BY DEF MutualExclusion
  <2>1. calls[c][i] \notin open /\ calls[c][j] \notin open
    BY DEF IInv, ChainInv, ListedState
  <2>2. OpenUpTo(c, i - 1) /\ OpenUpTo(c, j - 1)
    BY DEF IInv, ChainInv, ServedInOrder
  <2> QED
    BY <2>1, <2>2 DEF IInv, TypeOK, OpenUpTo
<1> QED
  BY IInvInit, IInvStep, <1>1, PTL DEF Spec

\* The map of tails has an entry for a chat exactly while its last caller is
\* not through.
THEOREM TailsAreClean == Spec => []TailsMatchCallers
<1>1. IInv => TailsMatchCallers
  BY DEF IInv, ChainInv
<1> QED
  BY IInvInit, IInvStep, <1>1, PTL DEF Spec

-----------------------------------------------------------------------------
\* A step that calls no lock and moves turns only within one abstract state
\* stutters for the abstract lock.
LEMMA LockStutter ==
  ASSUME calls' = calls,
         \A u \in Turns : LockState'[u] = LockState[u]
  PROVE  UNCHANGED Abstract!vars
BY DEF Abstract!vars, LockState

\* Every step of the promise chain is a step of the abstract lock, or none.
LEMMA StepRefines == IInv /\ [Next]_vars => [Abstract!Next]_(Abstract!vars)
<1> SUFFICES ASSUME IInv, [Next]_vars PROVE [Abstract!Next]_(Abstract!vars)
  OBVIOUS
<1> USE DEF IInv
<1>0. \A u \in Turns : /\ pc[u] \in {"new", "queued", "started"} => u \notin open
                       /\ pc[u] \in {"locking", "running"} => u \notin open
                       /\ pc[u] = "released" => u \in open
  BY DEF ChainInv, Listed, ListedState
<1>1. CASE UNCHANGED vars
  BY <1>1, LockStutter DEF vars, lockVars, LockState
<1>2. ASSUME NEW t \in Turns, RunInBackground(t) PROVE UNCHANGED Abstract!vars
  <2>1. UNCHANGED lockVars /\ pc[t] = "new"
        /\ \E s \in {"started", "queued"} : pc' = [pc EXCEPT ![t] = s]
    BY <1>2 DEF RunInBackground
  <2> QED
    BY <1>0, <2>1, LockStutter DEF LockState, lockVars, TypeOK
<1>3. ASSUME NEW t \in Turns, NEW c \in Chats, Lock(t, c) PROVE Abstract!Arrive(t, c)
  <2>1. /\ pc[t] \in {"new", "started"} /\ pc' = [pc EXCEPT ![t] = "locking"] /\ open' = open
        /\ calls' = [calls EXCEPT ![c] = Append(@, t)]
    BY <1>3 DEF Lock
  <2>2. t \notin open
    BY <1>0, <2>1
  <2>3. LockState[t] = "out"
    BY <2>1, <2>2 DEF LockState
  <2>4. LockState' = [LockState EXCEPT ![t] = "waiting"]
    BY <2>1, <2>2 DEF LockState, TypeOK
  <2> QED
    BY <2>1, <2>3, <2>4 DEF Abstract!Arrive
<1>4. ASSUME NEW t \in Turns, Grant(t) PROVE Abstract!Enter(t)
  <2>1. /\ pc[t] = "locking" /\ PreviousSettled(t) /\ pc' = [pc EXCEPT ![t] = "running"]
        /\ open' = open /\ calls' = calls
    BY <1>4 DEF Grant, lockVars
  <2>2. t \notin open
    BY <1>0, <2>1
  <2>3. LockState[t] = "waiting" /\ LockState' = [LockState EXCEPT ![t] = "holding"]
    BY <2>1, <2>2 DEF LockState, TypeOK
  <2>4. PICK c \in Chats : \E i \in DOMAIN calls[c] : calls[c][i] = t
    BY <2>1 DEF ChainInv, Listed
  <2>5. PICK i \in DOMAIN calls[c] : calls[c][i] = t
    BY <2>4
  <2>6. OpenUpTo(c, i - 1)
    BY <2>1, <2>5, PreviousSettledMeansServed
  <2>7. calls[c] \in Seq(Turns)
    BY DEF TypeOK
  <2>8. Abstract!AllBefore(c, i)
    <3> SUFFICES ASSUME NEW j \in 1 .. (i - 1) PROVE LockState[calls[c][j]] = "released"
      BY DEF Abstract!AllBefore
    <3>1. calls[c][j] \in Turns
      BY <2>7
    <3> QED
      BY <2>6, <3>1 DEF OpenUpTo, LockState
  <2> QED
    BY <2>1, <2>3, <2>5, <2>8 DEF Abstract!Enter
<1>5. ASSUME NEW t \in Turns, Release(t) PROVE Abstract!Leave(t)
  <2>1. /\ pc[t] = "running" /\ open' = open \cup {t} /\ calls' = calls
        /\ pc' = [pc EXCEPT ![t] = "released"]
    BY <1>5 DEF Release
  <2>2. LockState[t] = "holding"
    BY <1>0, <2>1 DEF LockState
  <2>3. LockState' = [LockState EXCEPT ![t] = "released"]
    BY <2>1 DEF LockState, TypeOK
  <2> QED
    BY <2>1, <2>2, <2>3 DEF Abstract!Leave
<1>6. ASSUME NEW t \in Turns, Settle(t) PROVE UNCHANGED Abstract!vars
  BY <1>6, LockStutter DEF Settle, LockState
<1>7. ASSUME NEW t \in Turns, Finish(t) PROVE UNCHANGED Abstract!vars
  <2>1. UNCHANGED lockVars
    BY <1>7 DEF Finish
  <2>2. \A u \in Turns : \/ pc'[u] = pc[u]
                         \/ pc[u] \in {"queued", "started", "released"} /\ pc'[u] \in {"started", "done"}
    BY <1>7, FinishEffect
  <2>3. \A u \in Turns : LockState'[u] = LockState[u]
    BY <1>0, <2>1, <2>2 DEF LockState, lockVars
  <2> QED
    BY <2>1, <2>3, LockStutter DEF lockVars
<1>8. ASSUME NEW w \in IdleCallers, WhenIdle(w) PROVE UNCHANGED Abstract!vars
  BY <1>8, LockStutter DEF WhenIdle, lockVars, LockState
<1>9. ASSUME NEW n \in Settings, SetConcurrency(n) PROVE UNCHANGED Abstract!vars
  BY <1>9, LockStutter DEF SetConcurrency, lockVars, LockState
<1> QED
  BY <1>1, <1>2, <1>3, <1>4, <1>5, <1>6, <1>7, <1>8, <1>9 DEF Next, Abstract!Next

\* The chain of promises implements the lock that lets turns into a chat one
\* at a time, in the order in which they asked.
THEOREM ChainIsAChatLock == Spec => ImplementsChatLock
<1>1. Init => Abstract!Init
  BY DEF Init, Abstract!Init, LockState
<1> QED
  BY IInvInit, IInvStep, StepRefines, <1>1, PTL DEF Spec, ImplementsChatLock, Abstract!Spec
=============================================================================
