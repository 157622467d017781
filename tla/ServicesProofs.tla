---------------------------- MODULE ServicesProofs ----------------------------
(***************************************************************************)
(* What is proved of Deliveries, AgentChats and SettingsCache, for every   *)
(* number of processes, requests, agents and settings, every length of a   *)
(* lease and of a window, and every time of a cache; and that what is      *)
(* proved of the eight components of MCServices holds where they stand     *)
(* together.                                                               *)
(***************************************************************************)
EXTENDS MCServices, ProviderProofs, BrowserProofs, FiniteSetTheorems, TLAPS

-----------------------------------------------------------------------------
(***************************************************************************)
(* Deliveries: a delivery is told of once and as it ended, one whose       *)
(* process renews its lease is left alone, one that has ended stays as it  *)
(* ended, and no window lets in more than a limiter allows.                *)
(***************************************************************************)

Working == {"held", "turn", "finish"}
JobStages == {"none", "queued", "loaded", "held", "turn", "finish", "tell"}
Rows == [status : {"none", "rejected", "ignored", "accepted", "gone"} \cup Outcomes,
         owner : Hosts \cup {NoHost}, left : 0 .. NoLease, age : 0 .. Window]
Jobs == [stage : JobStages, outcome : Outcomes, since : 0 .. Window]
HookStates == [stage : {"out", "store", "over"}, by : Hosts \cup {NoHost},
               to : {"none", "rejected", "ignored", "accepted"}]

\* The types that the argument needs.
Typed ==
  /\ hook \in [Hooks -> HookStates] /\ delivery \in [Hooks -> Rows]
  /\ job \in [Hooks -> Jobs] /\ notices \in [Hooks -> Seq(Outcomes)]

\* A request that has not been answered has neither a row nor a job.
RequestOK(h) ==
  /\ hook[h].stage = "store" => hook[h].to # "none"
  /\ hook[h].stage # "over" => delivery[h].status = "none" /\ job[h].stage = "none"

\* What was told of a delivery, and what its row says.
NoticeOK(h) ==
  /\ delivery[h].status \in {"none", "rejected", "ignored", "accepted"} => notices[h] = <<>>
  /\ delivery[h].status \in Outcomes => notices[h] \in {<<>>, <<delivery[h].status>>}
  /\ Len(notices[h]) <= 1
  /\ job[h].stage = "tell" => /\ delivery[h].status \in {"gone", job[h].outcome}
                              /\ delivery[h].status # "gone" => notices[h] = <<>>

\* The lease of a delivery that is executed was renewed when its job remembers.
LeaseOK(h) ==
  job[h].stage \in Working /\ OwnerOf(h) \notin Late =>
    \/ Owned(h) /\ delivery[h].left + job[h].since = Window
    \/ delivery[h].status \in {"gone", "succeeded"}

\* A job renews in time, unless its process is late; one that has not claimed its
\* delivery has not renewed anything.
SinceOK(h) ==
  /\ job[h].stage \in {"none", "queued", "loaded"} => job[h].since = 0
  /\ OwnerOf(h) \notin Late => job[h].since <= RenewEvery

DeliveryOK(h) == RequestOK(h) /\ NoticeOK(h) /\ LeaseOK(h) /\ SinceOK(h)
DeliveriesInv == Typed /\ \A h \in Hooks : DeliveryOK(h)

-----------------------------------------------------------------------------
\* The constants as the arithmetic needs them.
LEMMA Times ==
  /\ Window \in Nat /\ RenewEvery \in Nat /\ RenewEvery < Window
  /\ NoLease = Window + 1 /\ NoLease \in Nat
BY DeliveryTimesAssumption DEF NoLease

\* The one notification of a delivery (WriteThrows and reapExpired add it to none).
LEMMA OneNotice ==
  ASSUME NEW outcome \in Outcomes
  PROVE  /\ Append(<<>>, outcome) = <<outcome>> /\ <<outcome>> \in Seq(Outcomes)
         /\ Len(<<outcome>>) = 1 /\ <<outcome>> # <<>>
OBVIOUS

\* The stage of one job changes.
LEMMA StageChanges ==
  ASSUME NEW h \in Hooks, NEW stage \in JobStages, job \in [Hooks -> Jobs], Stage(h, stage)
  PROVE  /\ job' \in [Hooks -> Jobs]
         /\ job'[h] = [stage |-> stage, outcome |-> job[h].outcome, since |-> job[h].since]
         /\ \A g \in Hooks \ {h} : job'[g] = job[g]
BY DEF Stage, Jobs

\* A job ends.
LEMMA JobEnds ==
  ASSUME NEW h \in Hooks, job \in [Hooks -> Jobs], JobOver(h)
  PROVE  /\ job' \in [Hooks -> Jobs] /\ job'[h] = NoJob
         /\ \A g \in Hooks \ {h} : job'[g] = job[g]
BY Times DEF JobOver, Jobs, NoJob, JobStages, Outcomes

\* A row as it is written without a lease.
LEMMA RowWritten ==
  ASSUME NEW status \in {"none", "rejected", "ignored", "accepted", "gone"} \cup Outcomes
  PROVE  DeliveryRow(status) \in Rows /\ DeliveryRow(status).status = status
BY Times DEF DeliveryRow, Rows

\* Nothing but delivery h changes.
OnlyAt(h) == \A g \in Hooks \ {h} : /\ hook'[g] = hook[g] /\ delivery'[g] = delivery[g]
                                    /\ job'[g] = job[g] /\ notices'[g] = notices[g]

\* A delivery that does not change keeps its part of the invariant.
LEMMA LocalStep ==
  ASSUME NEW h \in Hooks, DeliveriesInv, OnlyAt(h), Typed', DeliveryOK(h)'
  PROVE  DeliveriesInv'
<1>1. ASSUME NEW g \in Hooks \ {h} PROVE DeliveryOK(g)'
  BY <1>1 DEF DeliveriesInv, OnlyAt, DeliveryOK, RequestOK, NoticeOK, LeaseOK, SinceOK, Owned,
              OwnerOf
<1>2. QED
  BY <1>1 DEF DeliveriesInv

\* At the start there is nothing.
LEMMA DeliveriesStart == DeliveriesInit => DeliveriesInv
<1> SUFFICES ASSUME DeliveriesInit PROVE DeliveriesInv
  OBVIOUS
<1>1. Typed
  <2>1. NoJob \in Jobs /\ DeliveryRow("none") \in Rows
    BY Times, RowWritten DEF NoJob, Jobs, JobStages, Outcomes
  <2>2. [stage |-> "out", by |-> NoHost, to |-> "none"] \in HookStates
    BY DEF HookStates
  <2>3. QED
    BY <2>1, <2>2 DEF DeliveriesInit, Typed
<1>2. ASSUME NEW h \in Hooks PROVE DeliveryOK(h)
  BY Times DEF DeliveriesInit, DeliveryOK, RequestOK, NoticeOK, LeaseOK, SinceOK, NoJob,
               DeliveryRow, Outcomes, Working
<1>3. QED
  BY <1>1, <1>2 DEF DeliveriesInv

\* A request that has arrived has neither row nor job yet.
LEMMA ArriveKeeps ==
  ASSUME NEW h \in Hooks, NEW p \in Hosts, DeliveriesInv, Arrive(h, p) PROVE DeliveriesInv'
<1>1. PICK to \in {"rejected", "ignored", "accepted"} : Settle(h, p, to)
  BY DEF Arrive
<1>2. /\ hook[h].stage = "out" /\ delivery' = delivery /\ job' = job /\ notices' = notices
      /\ Typed /\ DeliveryOK(h)
  BY DEF Arrive, DeliveriesInv
<1>3. /\ hook' \in [Hooks -> HookStates]
      /\ hook'[h] = [stage |-> "store", by |-> p, to |-> to]
      /\ \A g \in Hooks \ {h} : hook'[g] = hook[g]
  BY <1>1, <1>2 DEF Settle, Typed, HookStates
<1>4. Typed' /\ OnlyAt(h)
  BY <1>2, <1>3 DEF Typed, OnlyAt
<1>5. DeliveryOK(h)'
  BY <1>2, <1>3, Times DEF DeliveryOK, RequestOK, NoticeOK, LeaseOK, SinceOK, Working
<1>6. QED
  BY <1>4, <1>5, LocalStep

\* Its row, and its job if it was accepted.
LEMMA DeliverKeeps ==
  ASSUME NEW h \in Hooks, DeliveriesInv, Deliver(h) PROVE DeliveriesInv'
<1>1. /\ hook[h].stage = "store" /\ notices' = notices /\ Typed /\ DeliveryOK(h)
      /\ hook[h] \in HookStates /\ job[h] \in Jobs /\ delivery[h].status = "none"
      /\ job[h].stage = "none" /\ job[h].since = 0 /\ notices[h] = <<>> /\ hook[h].to # "none"
  BY DEF Deliver, DeliveriesInv, Typed, DeliveryOK, RequestOK, SinceOK, NoticeOK
<1>2. PICK by \in Hosts \cup {NoHost} : hook' = [hook EXCEPT ![h] = Answered(by)]
  BY <1>1 DEF Deliver, HookStates, Typed
<1>3. /\ hook' \in [Hooks -> HookStates] /\ hook'[h].stage = "over"
      /\ \A g \in Hooks \ {h} : hook'[g] = hook[g]
  BY <1>1, <1>2 DEF Answered, HookStates, Typed
<1>4. CASE listener = "deleted"
  <2>1. delivery' = delivery /\ job' = job
    BY <1>4 DEF Deliver
  <2>2. Typed' /\ OnlyAt(h)
    BY <1>1, <1>3, <2>1 DEF Typed, OnlyAt
  <2>3. DeliveryOK(h)'
    BY <1>1, <1>3, <2>1, Times DEF DeliveryOK, RequestOK, NoticeOK, LeaseOK, SinceOK, Working
  <2>4. QED
    BY <2>2, <2>3, LocalStep
<1>5. CASE listener # "deleted"
  <2>1. PICK stage \in {"queued", "none"} : Stage(h, stage)
    BY <1>5 DEF Deliver, Stage
  <2>2. /\ job' \in [Hooks -> Jobs] /\ job'[h].stage \in {"queued", "none"} /\ job'[h].since = 0
        /\ \A g \in Hooks \ {h} : job'[g] = job[g]
    <3>1. stage \in JobStages /\ job \in [Hooks -> Jobs]
      BY <1>1 DEF JobStages, Typed
    <3>2. /\ job' \in [Hooks -> Jobs]
          /\ job'[h] = [stage |-> stage, outcome |-> job[h].outcome, since |-> job[h].since]
          /\ \A g \in Hooks \ {h} : job'[g] = job[g]
      BY <2>1, <3>1, StageChanges
    <3>3. QED
      BY <1>1, <3>2
  <2>3. /\ delivery' = [delivery EXCEPT ![h] = DeliveryRow(hook[h].to)]
        /\ hook[h].to \in {"rejected", "ignored", "accepted"}
    BY <1>1, <1>5 DEF Deliver, HookStates
  <2>4. /\ delivery' \in [Hooks -> Rows] /\ delivery'[h].status = hook[h].to
        /\ \A g \in Hooks \ {h} : delivery'[g] = delivery[g]
    BY <1>1, <2>3, RowWritten DEF Typed
  <2>5. Typed' /\ OnlyAt(h)
    BY <1>1, <1>3, <2>2, <2>4 DEF Typed, OnlyAt
  <2>6. DeliveryOK(h)'
    BY <1>1, <1>3, <2>2, <2>3, <2>4, Times
    DEF DeliveryOK, RequestOK, NoticeOK, LeaseOK, SinceOK, Working, Outcomes
  <2>7. QED
    BY <2>5, <2>6, LocalStep
<1>6. QED
  BY <1>4, <1>5

\* A listener that is deleted takes its rows with it; its jobs go on, and find none.
LEMMA PatchKeeps ==
  ASSUME DeliveriesInv, PatchListener PROVE DeliveriesInv'
<1>1. hook' = hook /\ job' = job /\ notices' = notices /\ Typed
  BY DEF PatchListener, DeliveriesInv
<1>2. \/ delivery' = delivery
      \/ delivery' = [h \in Hooks |-> IF delivery[h].status = "none" THEN delivery[h]
                                      ELSE DeliveryRow("gone")]
  BY DEF PatchListener
<1>3. CASE delivery' = delivery
  BY <1>1, <1>3 DEF DeliveriesInv, Typed, DeliveryOK, RequestOK, NoticeOK, LeaseOK, SinceOK, Owned,
                    OwnerOf
<1>4. CASE delivery' = [h \in Hooks |-> IF delivery[h].status = "none" THEN delivery[h]
                                        ELSE DeliveryRow("gone")]
  <2>1. Typed'
    BY <1>1, <1>4, RowWritten DEF Typed
  <2>2. ASSUME NEW h \in Hooks PROVE DeliveryOK(h)'
    <3>1. /\ delivery'[h] = delivery[h] \/ (delivery'[h].status = "gone" /\ delivery[h].status # "none")
          /\ DeliveryOK(h)
      BY <1>4, RowWritten DEF DeliveriesInv
    <3>2. QED
      BY <1>1, <3>1 DEF DeliveryOK, RequestOK, NoticeOK, LeaseOK, SinceOK, Owned, OwnerOf, Outcomes
  <2>3. QED
    BY <2>1, <2>2 DEF DeliveriesInv
<1>5. QED
  BY <1>2, <1>3, <1>4

\* A job that is loaded, takes its turn, or ends without its row having changed.
LEMMA StageKeeps ==
  ASSUME NEW h \in Hooks, DeliveriesInv, UNCHANGED <<hook, delivery, notices>>,
         \/ job[h].stage = "queued" /\ Stage(h, "loaded")
         \/ job[h].stage = "held" /\ Stage(h, "turn")
         \/ job[h].stage # "none" /\ JobOver(h)
  PROVE  DeliveriesInv'
<1>1. Typed /\ DeliveryOK(h) /\ job \in [Hooks -> Jobs] /\ job[h] \in Jobs
  BY DEF DeliveriesInv, Typed
<1>2. CASE job[h].stage = "queued" /\ Stage(h, "loaded")
  <2>1. /\ job' \in [Hooks -> Jobs] /\ job'[h].stage = "loaded" /\ job'[h].since = job[h].since
        /\ \A g \in Hooks \ {h} : job'[g] = job[g]
    <3>1. "loaded" \in JobStages
      BY DEF JobStages
    <3>2. /\ job' \in [Hooks -> Jobs]
          /\ job'[h] = [stage |-> "loaded", outcome |-> job[h].outcome, since |-> job[h].since]
          /\ \A g \in Hooks \ {h} : job'[g] = job[g]
      BY <1>1, <1>2, <3>1, StageChanges
    <3>3. QED
      BY <1>1, <3>2
  <2>2. Typed' /\ OnlyAt(h)
    BY <1>1, <2>1 DEF Typed, OnlyAt
  <2>3. DeliveryOK(h)'
    BY <1>1, <1>2, <2>1 DEF DeliveryOK, RequestOK, NoticeOK, LeaseOK, SinceOK, Working, OwnerOf
  <2>4. QED
    BY <2>2, <2>3, LocalStep
<1>3. CASE job[h].stage = "held" /\ Stage(h, "turn")
  <2>1. /\ job' \in [Hooks -> Jobs] /\ job'[h].stage = "turn" /\ job'[h].since = job[h].since
        /\ \A g \in Hooks \ {h} : job'[g] = job[g]
    <3>1. "turn" \in JobStages
      BY DEF JobStages
    <3>2. /\ job' \in [Hooks -> Jobs]
          /\ job'[h] = [stage |-> "turn", outcome |-> job[h].outcome, since |-> job[h].since]
          /\ \A g \in Hooks \ {h} : job'[g] = job[g]
      BY <1>1, <1>3, <3>1, StageChanges
    <3>3. QED
      BY <1>1, <3>2
  <2>2. Typed' /\ OnlyAt(h)
    BY <1>1, <2>1 DEF Typed, OnlyAt
  <2>3. DeliveryOK(h)'
    BY <1>1, <1>3, <2>1
    DEF DeliveryOK, RequestOK, NoticeOK, LeaseOK, SinceOK, Working, OwnerOf, Owned
  <2>4. QED
    BY <2>2, <2>3, LocalStep
<1>4. CASE job[h].stage # "none" /\ JobOver(h)
  <2>1. /\ job' \in [Hooks -> Jobs] /\ job'[h].stage = "none" /\ job'[h].since = 0
        /\ \A g \in Hooks \ {h} : job'[g] = job[g]
    BY <1>1, <1>4, JobEnds DEF NoJob
  <2>2. Typed' /\ OnlyAt(h)
    BY <1>1, <2>1 DEF Typed, OnlyAt
  <2>3. DeliveryOK(h)'
    BY <1>1, <1>4, <2>1, Times
    DEF DeliveryOK, RequestOK, NoticeOK, LeaseOK, SinceOK, Working, OwnerOf
  <2>4. QED
    BY <2>2, <2>3, LocalStep
<1>5. QED
  BY <1>2, <1>3, <1>4

\* The lease that the owner writes into its row.
LEMMA LeaseWritten ==
  ASSUME NEW h \in Hooks, Typed
  PROVE  /\ Lease(h) \in Rows /\ Lease(h).status = delivery[h].status
         /\ Lease(h).owner = OwnerOf(h) /\ Lease(h).left = Window
<1>1. hook[h] \in HookStates /\ delivery[h] \in Rows
  BY DEF Typed
<1>2. OwnerOf(h) \in Hosts \cup {NoHost} /\ Window \in 0 .. NoLease
  BY <1>1, Times DEF OwnerOf, HookStates
<1>3. QED
  BY <1>1, <1>2 DEF Lease, Rows

\* The lease begins: nothing has been renewed since.
LEMMA ClaimKeeps ==
  ASSUME NEW h \in Hooks, DeliveriesInv, ClaimDelivery(h) PROVE DeliveriesInv'
<1>1. /\ job[h].stage = "loaded" /\ Typed /\ DeliveryOK(h) /\ hook' = hook /\ notices' = notices
      /\ job \in [Hooks -> Jobs] /\ job[h] \in Jobs /\ job[h].since = 0
  BY DEF ClaimDelivery, DeliveriesInv, Typed, DeliveryOK, SinceOK
<1>2. CASE JobOver(h) /\ UNCHANGED delivery
  BY <1>1, <1>2, StageKeeps
<1>3. CASE Claimable(h) /\ delivery' = [delivery EXCEPT ![h] = Lease(h)] /\ Stage(h, "held")
  <2>1. /\ job' \in [Hooks -> Jobs] /\ job'[h].stage = "held" /\ job'[h].since = 0
        /\ \A g \in Hooks \ {h} : job'[g] = job[g]
    <3>1. "held" \in JobStages
      BY DEF JobStages
    <3>2. /\ job' \in [Hooks -> Jobs]
          /\ job'[h] = [stage |-> "held", outcome |-> job[h].outcome, since |-> job[h].since]
          /\ \A g \in Hooks \ {h} : job'[g] = job[g]
      BY <1>1, <1>3, <3>1, StageChanges
    <3>3. QED
      BY <1>1, <3>2
  <2>2. /\ delivery' \in [Hooks -> Rows] /\ delivery'[h].status = "accepted"
        /\ delivery'[h].owner = OwnerOf(h) /\ delivery'[h].left = Window
        /\ delivery[h].status = "accepted"
        /\ \A g \in Hooks \ {h} : delivery'[g] = delivery[g]
    BY <1>1, <1>3, LeaseWritten DEF Typed, Claimable
  <2>3. Typed' /\ OnlyAt(h)
    BY <1>1, <2>1, <2>2 DEF Typed, OnlyAt
  <2>4. DeliveryOK(h)'
    BY <1>1, <2>1, <2>2, Times
    DEF DeliveryOK, RequestOK, NoticeOK, LeaseOK, SinceOK, Working, OwnerOf, Owned, Outcomes
  <2>5. QED
    BY <2>3, <2>4, LocalStep
<1>4. QED
  BY <1>2, <1>3 DEF ClaimDelivery

\* The lease is renewed, or was lost and stays so.
LEMMA RenewKeeps ==
  ASSUME NEW h \in Hooks, DeliveriesInv, RenewLease(h) PROVE DeliveriesInv'
<1>1. /\ job[h].stage \in {"held", "turn", "finish", "tell"} /\ Typed /\ DeliveryOK(h)
      /\ hook' = hook /\ notices' = notices /\ job \in [Hooks -> Jobs] /\ job[h] \in Jobs
      /\ job' = [job EXCEPT ![h].since = 0]
  BY DEF RenewLease, DeliveriesInv, Typed
<1>2. /\ job'[h].stage = job[h].stage /\ job'[h].outcome = job[h].outcome /\ job'[h].since = 0
      /\ job' \in [Hooks -> Jobs] /\ \A g \in Hooks \ {h} : job'[g] = job[g]
  BY <1>1, Times DEF Jobs
<1>3. CASE Owned(h)
  <2>1. delivery' = [delivery EXCEPT ![h] = Lease(h)]
    BY <1>3 DEF RenewLease
  <2>2. /\ delivery' \in [Hooks -> Rows] /\ delivery'[h].status = "accepted"
        /\ delivery'[h].owner = OwnerOf(h) /\ delivery'[h].left = Window
        /\ delivery[h].status = "accepted"
        /\ \A g \in Hooks \ {h} : delivery'[g] = delivery[g]
    BY <1>1, <1>3, <2>1, LeaseWritten DEF Typed, Owned
  <2>3. Typed' /\ OnlyAt(h)
    BY <1>1, <1>2, <2>2 DEF Typed, OnlyAt
  <2>4. DeliveryOK(h)'
    BY <1>1, <1>2, <2>2, Times
    DEF DeliveryOK, RequestOK, NoticeOK, LeaseOK, SinceOK, Working, OwnerOf, Owned, Outcomes
  <2>5. QED
    BY <2>3, <2>4, LocalStep
<1>4. CASE ~Owned(h)
  <2>1. delivery' = delivery
    BY <1>4 DEF RenewLease
  <2>2. Typed' /\ OnlyAt(h)
    BY <1>1, <1>2, <2>1 DEF Typed, OnlyAt
  <2>3. DeliveryOK(h)'
    BY <1>1, <1>2, <1>4, <2>1, Times
    DEF DeliveryOK, RequestOK, NoticeOK, LeaseOK, SinceOK, Working, OwnerOf, Owned
  <2>4. QED
    BY <2>2, <2>3, LocalStep
<1>5. QED
  BY <1>3, <1>4

\* The turn ends: its outcome is kept for the row and the notification.
LEMMA TurnOverKeeps ==
  ASSUME NEW h \in Hooks, DeliveriesInv, TurnOver(h) PROVE DeliveriesInv'
<1>1. /\ job[h].stage \in {"held", "turn"} /\ Typed /\ DeliveryOK(h) /\ delivery' = delivery
      /\ hook' = hook /\ notices' = notices /\ job \in [Hooks -> Jobs] /\ job[h] \in Jobs
  BY DEF TurnOver, DeliveriesInv, Typed
<1>2. PICK outcome \in Outcomes :
        job' = [job EXCEPT ![h].stage = "finish", ![h].outcome = outcome]
  BY DEF TurnOver
<1>3. /\ job' \in [Hooks -> Jobs] /\ job'[h].stage = "finish" /\ job'[h].since = job[h].since
      /\ \A g \in Hooks \ {h} : job'[g] = job[g]
  BY <1>1, <1>2 DEF Jobs, JobStages
<1>4. Typed' /\ OnlyAt(h)
  BY <1>1, <1>3 DEF Typed, OnlyAt
<1>5. DeliveryOK(h)'
  BY <1>1, <1>3 DEF DeliveryOK, RequestOK, NoticeOK, LeaseOK, SinceOK, Working, OwnerOf, Owned
<1>6. QED
  BY <1>4, <1>5, LocalStep

\* Only the owner writes the outcome, into a row nobody was told of.
LEMMA FinishKeeps ==
  ASSUME NEW h \in Hooks, DeliveriesInv, FinishOwned(h) PROVE DeliveriesInv'
<1>1. /\ job[h].stage = "finish" /\ Typed /\ DeliveryOK(h)
      /\ hook' = hook /\ notices' = notices /\ job \in [Hooks -> Jobs] /\ job[h] \in Jobs
      /\ job[h].outcome \in Outcomes
  BY DEF FinishOwned, DeliveriesInv, Typed, Jobs
<1>2. CASE JobOver(h) /\ UNCHANGED delivery
  BY <1>1, <1>2, StageKeeps
<1>3. CASE Owned(h) /\ Stage(h, "tell")
           /\ delivery' = [delivery EXCEPT ![h] = DeliveryRow(job[h].outcome)]
  <2>1. /\ job' \in [Hooks -> Jobs] /\ job'[h].stage = "tell"
        /\ job'[h].since = job[h].since /\ job'[h].outcome = job[h].outcome
        /\ \A g \in Hooks \ {h} : job'[g] = job[g]
    <3>1. "tell" \in JobStages
      BY DEF JobStages
    <3>2. /\ job' \in [Hooks -> Jobs]
          /\ job'[h] = [stage |-> "tell", outcome |-> job[h].outcome, since |-> job[h].since]
          /\ \A g \in Hooks \ {h} : job'[g] = job[g]
      BY <1>1, <1>3, <3>1, StageChanges
    <3>3. QED
      BY <3>2
  <2>2. /\ delivery' \in [Hooks -> Rows] /\ delivery'[h].status = job[h].outcome
        /\ delivery[h].status = "accepted"
        /\ \A g \in Hooks \ {h} : delivery'[g] = delivery[g]
    BY <1>1, <1>3, RowWritten DEF Typed, Owned
  <2>3. Typed' /\ OnlyAt(h)
    BY <1>1, <2>1, <2>2 DEF Typed, OnlyAt
  <2>4. DeliveryOK(h)'
    BY <1>1, <2>1, <2>2
    DEF DeliveryOK, RequestOK, NoticeOK, LeaseOK, SinceOK, Working, OwnerOf, Outcomes
  <2>5. QED
    BY <2>3, <2>4, LocalStep
<1>4. QED
  BY <1>2, <1>3 DEF FinishOwned

\* The notification says what the row says, and is the first.
LEMMA TellKeeps ==
  ASSUME NEW h \in Hooks, DeliveriesInv, Tell(h) PROVE DeliveriesInv'
<1>1. /\ job[h].stage = "tell" /\ Typed /\ DeliveryOK(h) /\ delivery' = delivery /\ hook' = hook
      /\ JobOver(h) /\ job \in [Hooks -> Jobs] /\ job[h].outcome \in Outcomes
      /\ notices \in [Hooks -> Seq(Outcomes)]
  BY DEF Tell, DeliveriesInv, Typed, Jobs
<1>2. CASE delivery[h].status = "gone"
  <2>1. notices' = notices
    BY <1>2 DEF Tell
  <2>2. QED
    BY <1>1, <2>1, StageKeeps
<1>3. CASE delivery[h].status # "gone"
  <2>1. notices[h] = <<>> /\ delivery[h].status = job[h].outcome
    BY <1>1, <1>3 DEF DeliveryOK, NoticeOK
  <2>2. notices' = [notices EXCEPT ![h] = <<job[h].outcome>>]
    <3>1. notices' = [notices EXCEPT ![h] = Append(notices[h], job[h].outcome)]
      BY <1>3 DEF Tell
    <3>2. Append(notices[h], job[h].outcome) = <<job[h].outcome>>
      BY <1>1, <2>1, OneNotice
    <3>3. QED
      BY <3>1, <3>2
  <2>3. <<job[h].outcome>> \in Seq(Outcomes) /\ Len(<<job[h].outcome>>) = 1
    BY <1>1, OneNotice
  <2>4. /\ notices' \in [Hooks -> Seq(Outcomes)] /\ notices'[h] = <<delivery[h].status>>
        /\ Len(notices'[h]) = 1 /\ \A g \in Hooks \ {h} : notices'[g] = notices[g]
    BY <1>1, <2>1, <2>2, <2>3
  <2>5. /\ job' \in [Hooks -> Jobs] /\ job'[h].stage = "none" /\ job'[h].since = 0
        /\ \A g \in Hooks \ {h} : job'[g] = job[g]
    BY <1>1, JobEnds DEF NoJob
  <2>6. Typed' /\ OnlyAt(h)
    BY <1>1, <2>4, <2>5 DEF Typed, OnlyAt
  <2>7. DeliveryOK(h)'
    BY <1>1, <2>1, <2>4, <2>5, Times
    DEF DeliveryOK, RequestOK, NoticeOK, LeaseOK, SinceOK, Working, Outcomes
  <2>8. QED
    BY <2>6, <2>7, LocalStep
<1>4. QED
  BY <1>2, <1>3

\* A write that throws: the job tries to end the delivery as failed, or gives up.
LEMMA WriteThrowsKeeps ==
  ASSUME NEW h \in Hooks, DeliveriesInv, WriteThrows(h) PROVE DeliveriesInv'
<1>1. /\ job[h].stage \in {"finish", "tell"} /\ Typed /\ DeliveryOK(h) /\ delivery' = delivery
      /\ hook' = hook /\ notices' = notices /\ job \in [Hooks -> Jobs] /\ job[h] \in Jobs
  BY DEF WriteThrows, DeliveriesInv, Typed
<1>2. CASE job[h].outcome = "succeeded"
  <2>1. job' = [job EXCEPT ![h].stage = "finish", ![h].outcome = "failed"]
    BY <1>2 DEF WriteThrows
  <2>2. /\ job' \in [Hooks -> Jobs] /\ job'[h].stage = "finish" /\ job'[h].since = job[h].since
        /\ \A g \in Hooks \ {h} : job'[g] = job[g]
    BY <1>1, <2>1 DEF Jobs, JobStages, Outcomes
  <2>3. Typed' /\ OnlyAt(h)
    BY <1>1, <2>2 DEF Typed, OnlyAt
  <2>4. DeliveryOK(h)'
    BY <1>1, <1>2, <2>2
    DEF DeliveryOK, RequestOK, NoticeOK, LeaseOK, SinceOK, Working, OwnerOf, Owned
  <2>5. QED
    BY <2>3, <2>4, LocalStep
<1>3. CASE job[h].outcome # "succeeded"
  <2>1. JobOver(h)
    BY <1>3 DEF WriteThrows
  <2>2. QED
    BY <1>1, <2>1, StageKeeps
<1>4. QED
  BY <1>2, <1>3

\* A reaper ends what has no lease that lasts: never a delivery in hand.
LEMMA ReapKeeps ==
  ASSUME DeliveriesInv, ReapDeliveries PROVE DeliveriesInv'
<1>1. /\ hook' = hook /\ job' = job /\ Typed
      /\ delivery \in [Hooks -> Rows] /\ notices \in [Hooks -> Seq(Outcomes)]
      /\ delivery' = [h \in Hooks |-> IF Reapable(h) THEN DeliveryRow("failed") ELSE delivery[h]]
      /\ notices' = [h \in Hooks |-> IF Reapable(h) THEN Append(notices[h], "failed") ELSE notices[h]]
  BY DEF ReapDeliveries, DeliveriesInv, Typed
<1>2. ASSUME NEW h \in Hooks, Reapable(h)
      PROVE  /\ delivery'[h] \in Rows /\ delivery'[h].status = "failed"
             /\ notices'[h] = <<"failed">> /\ notices'[h] \in Seq(Outcomes) /\ Len(notices'[h]) = 1
             /\ delivery[h].status = "accepted"
  <2>1. "failed" \in Outcomes /\ delivery[h].status = "accepted"
    BY <1>2 DEF Outcomes, Reapable
  <2>2. notices[h] = <<>>
    BY <2>1 DEF DeliveriesInv, DeliveryOK, NoticeOK
  <2>3. delivery'[h] = DeliveryRow("failed") /\ notices'[h] = Append(<<>>, "failed")
    BY <1>1, <1>2, <2>2
  <2>4. QED
    BY <2>1, <2>3, OneNotice, RowWritten
<1>3. ASSUME NEW h \in Hooks, ~Reapable(h)
      PROVE  delivery'[h] = delivery[h] /\ notices'[h] = notices[h]
  BY <1>1, <1>3
<1>4. Typed'
  <2>1. ASSUME NEW h \in Hooks PROVE delivery'[h] \in Rows /\ notices'[h] \in Seq(Outcomes)
    BY <1>1, <1>2, <1>3
  <2>2. QED
    BY <1>1, <2>1 DEF Typed
<1>5. ASSUME NEW h \in Hooks PROVE DeliveryOK(h)'
  <2>1. CASE Reapable(h)
    <3>1. ~(job[h].stage \in Working /\ OwnerOf(h) \notin Late)
      <4>1. SUFFICES ASSUME job[h].stage \in Working, OwnerOf(h) \notin Late PROVE FALSE
        OBVIOUS
      <4>2. delivery[h].status = "accepted"
        BY <1>2, <2>1
      <4>3. delivery[h].left + job[h].since = Window /\ job[h].since <= RenewEvery
        BY <4>1, <4>2 DEF DeliveriesInv, DeliveryOK, LeaseOK, SinceOK
      <4>4. delivery[h].left \in 0 .. NoLease /\ job[h].since \in 0 .. Window
        BY <1>1 DEF Typed, Rows, Jobs
      <4>5. delivery[h].left # 0 /\ delivery[h].left # NoLease
        BY <4>3, <4>4, Times
      <4>6. QED
        BY <2>1, <4>5 DEF Reapable
    <3>2. job[h].stage # "tell" /\ hook[h].stage = "over"
      <4>1. job[h].outcome \in Outcomes /\ hook[h] \in HookStates
        BY <1>1 DEF Typed, Jobs
      <4>2. QED
        BY <1>2, <2>1, <4>1 DEF DeliveriesInv, DeliveryOK, RequestOK, NoticeOK, Outcomes
    <3>3. QED
      BY <1>1, <1>2, <2>1, <3>1, <3>2
      DEF DeliveriesInv, DeliveryOK, RequestOK, NoticeOK, LeaseOK, SinceOK, OwnerOf, Outcomes
  <2>2. CASE ~Reapable(h)
    BY <1>1, <1>3, <2>2
    DEF DeliveriesInv, DeliveryOK, RequestOK, NoticeOK, LeaseOK, SinceOK, OwnerOf, Owned
  <2>3. QED
    BY <2>1, <2>2
<1>6. QED
  BY <1>4, <1>5 DEF DeliveriesInv

\* A process stops: its jobs are gone, the rows stay.
LEMMA StopKeeps ==
  ASSUME NEW p \in Hosts, DeliveriesInv, StopHost(p) PROVE DeliveriesInv'
<1>1. /\ delivery' = delivery /\ notices' = notices /\ Typed
      /\ hook \in [Hooks -> HookStates] /\ job \in [Hooks -> Jobs]
      /\ hook' = [h \in Hooks |-> IF OwnerOf(h) = p THEN Answered(NoHost) ELSE hook[h]]
      /\ job' = [h \in Hooks |-> IF OwnerOf(h) = p THEN NoJob ELSE job[h]]
  BY DEF StopHost, DeliveriesInv, Typed
<1>2. Answered(NoHost) \in HookStates /\ Answered(NoHost).stage = "over"
  BY DEF Answered, HookStates
<1>3. NoJob \in Jobs /\ NoJob.stage = "none" /\ NoJob.since = 0
  BY Times DEF NoJob, Jobs, JobStages, Outcomes
<1>4. Typed'
  BY <1>1, <1>2, <1>3 DEF Typed
<1>5. ASSUME NEW h \in Hooks PROVE DeliveryOK(h)'
  <2>1. CASE OwnerOf(h) = p
    <3>1. hook'[h].stage = "over" /\ job'[h].stage = "none" /\ job'[h].since = 0
      BY <1>1, <1>2, <1>3, <2>1
    <3>2. QED
      BY <1>1, <3>1, Times
      DEF DeliveriesInv, DeliveryOK, RequestOK, NoticeOK, LeaseOK, SinceOK, Working
  <2>2. CASE OwnerOf(h) # p
    <3>1. hook'[h] = hook[h] /\ job'[h] = job[h]
      BY <1>1, <2>2
    <3>2. QED
      BY <1>1, <3>1
      DEF DeliveriesInv, DeliveryOK, RequestOK, NoticeOK, LeaseOK, SinceOK, Owned, OwnerOf
  <2>3. QED
    BY <2>1, <2>2
<1>6. QED
  BY <1>4, <1>5 DEF DeliveriesInv

\* Time passes only while those who renew in time have done so: a lease in hand
\* never runs out.
LEMMA TimeKeeps ==
  ASSUME DeliveriesInv, PassTime PROVE DeliveriesInv'
<1> DEFINE
  Held(h) == job[h].stage \in {"held", "turn", "finish", "tell"}
  OlderRow(h) == [delivery[h] EXCEPT !.age = Older(@, Window),
                                     !.left = IF @ \in {0, NoLease} THEN @ ELSE @ - 1]
<1>1. /\ hook' = hook /\ notices' = notices /\ Typed
      /\ delivery \in [Hooks -> Rows] /\ job \in [Hooks -> Jobs]
      /\ delivery' = [h \in Hooks |-> IF delivery[h].status # "accepted" THEN delivery[h]
                                      ELSE OlderRow(h)]
      /\ job' = [h \in Hooks |-> IF Held(h) THEN [job[h] EXCEPT !.since = Older(@, Window)]
                                 ELSE job[h]]
  BY DEF PassTime, DeliveriesInv, Typed
<1>2. ASSUME NEW n \in 0 .. Window
      PROVE  Older(n, Window) \in 0 .. Window /\ Older(n, Window) <= n + 1
  BY Times DEF Older
<1>3. ASSUME NEW h \in Hooks
      PROVE  /\ OlderRow(h) \in Rows /\ OlderRow(h).status = delivery[h].status
             /\ OlderRow(h).owner = delivery[h].owner
             /\ OlderRow(h).left = IF delivery[h].left \in {0, NoLease} THEN delivery[h].left
                                   ELSE delivery[h].left - 1
  <2>1. delivery[h] \in Rows
    BY <1>1
  <2>2. Older(delivery[h].age, Window) \in 0 .. Window
    BY <1>2, <2>1 DEF Rows
  <2>3. (IF delivery[h].left \in {0, NoLease} THEN delivery[h].left ELSE delivery[h].left - 1)
          \in 0 .. NoLease
    BY <2>1, Times DEF Rows
  <2>4. QED
    BY <2>1, <2>2, <2>3 DEF Rows
<1>4. ASSUME NEW h \in Hooks
      PROVE  /\ job'[h] \in Jobs /\ job'[h].stage = job[h].stage
             /\ job'[h].outcome = job[h].outcome
             /\ job'[h].since = IF Held(h) THEN Older(job[h].since, Window) ELSE job[h].since
  <2>1. job[h] \in Jobs
    BY <1>1
  <2>2. Older(job[h].since, Window) \in 0 .. Window
    BY <1>2, <2>1 DEF Jobs
  <2>3. QED
    BY <1>1, <2>1, <2>2 DEF Jobs
<1>5. ASSUME NEW h \in Hooks
      PROVE  /\ delivery'[h] \in Rows /\ delivery'[h].status = delivery[h].status
             /\ delivery'[h].owner = delivery[h].owner
             /\ delivery[h].status = "accepted" => delivery'[h].left = OlderRow(h).left
  BY <1>1, <1>3
<1>6. Typed'
  BY <1>1, <1>4, <1>5 DEF Typed
<1>7. ASSUME NEW h \in Hooks PROVE DeliveryOK(h)'
  <2>1. DeliveryOK(h) /\ OwnerOf(h)' = OwnerOf(h)
    BY <1>1 DEF DeliveriesInv, OwnerOf
  <2>2. RequestOK(h)' /\ NoticeOK(h)'
    BY <1>1, <1>4, <1>5, <2>1 DEF DeliveryOK, RequestOK, NoticeOK
  <2>3. ASSUME Held(h), OwnerOf(h) \notin Late
        PROVE  job[h].since < RenewEvery /\ job'[h].since = job[h].since + 1
    <3>1. job[h].since < RenewEvery /\ job[h].since \in 0 .. Window
      BY <1>1, <2>3 DEF PassTime, Renewed, Jobs
    <3>2. QED
      BY <1>4, <2>3, <3>1, Times DEF Older
  <2>4. SinceOK(h)'
    <3>1. SinceOK(h) /\ job[h].since \in 0 .. Window
      BY <1>1, <2>1 DEF DeliveryOK, Jobs
    <3>2. CASE Held(h)
      <4>1. job'[h].stage = job[h].stage
        BY <1>4
      <4>2. OwnerOf(h) \notin Late => job'[h].since <= RenewEvery
        BY <2>3, <3>1, <3>2, Times
      <4>3. QED
        BY <2>1, <3>2, <4>1, <4>2 DEF SinceOK
    <3>3. CASE ~Held(h)
      <4>1. job'[h].stage = job[h].stage /\ job'[h].since = job[h].since
        BY <1>4, <3>3
      <4>2. QED
        BY <2>1, <3>1, <4>1 DEF SinceOK
    <3>4. QED
      BY <3>2, <3>3
  <2>5. LeaseOK(h)'
    <3>1. SUFFICES ASSUME job'[h].stage \in Working, OwnerOf(h)' \notin Late
                   PROVE  \/ Owned(h)' /\ delivery'[h].left + job'[h].since = Window
                          \/ delivery'[h].status \in {"gone", "succeeded"}
      BY DEF LeaseOK
    <3>2. job[h].stage \in Working /\ Held(h) /\ OwnerOf(h) \notin Late
      BY <1>4, <2>1, <3>1 DEF Working
    <3>3. CASE delivery[h].status \in {"gone", "succeeded"}
      BY <1>5, <3>3
    <3>4. CASE Owned(h) /\ delivery[h].left + job[h].since = Window
      <4>1. delivery[h].left \in 0 .. NoLease /\ job[h].since \in 0 .. Window
        BY <1>1 DEF Rows, Jobs
      <4>2. delivery[h].left \notin {0, NoLease}
        BY <2>3, <3>2, <3>4, <4>1, Times
      <4>3. delivery'[h].left = delivery[h].left - 1
        BY <1>3, <1>5, <3>4, <4>2 DEF Owned
      <4>4. Owned(h)'
        BY <1>5, <2>1, <3>4 DEF Owned
      <4>5. QED
        BY <2>3, <3>2, <3>4, <4>1, <4>3, <4>4
    <3>5. QED
      BY <2>1, <3>2, <3>3, <3>4 DEF DeliveryOK, LeaseOK
  <2>6. QED
    BY <2>2, <2>4, <2>5 DEF DeliveryOK
<1>8. QED
  BY <1>6, <1>7 DEF DeliveriesInv

\* Every step keeps the invariant.
LEMMA DeliveriesStep == DeliveriesInv /\ [DeliveriesNext]_deliveryVars => DeliveriesInv'
<1> SUFFICES ASSUME DeliveriesInv, [DeliveriesNext]_deliveryVars PROVE DeliveriesInv'
  OBVIOUS
<1>1. ASSUME NEW h \in Hooks, NEW p \in Hosts, Arrive(h, p) PROVE DeliveriesInv'
  BY <1>1, ArriveKeeps
<1>2. ASSUME NEW h \in Hooks, Deliver(h) PROVE DeliveriesInv'
  BY <1>2, DeliverKeeps
<1>3. CASE PatchListener
  BY <1>3, PatchKeeps
<1>4. ASSUME NEW h \in Hooks, LoadDelivery(h) PROVE DeliveriesInv'
  BY <1>4, StageKeeps DEF LoadDelivery
<1>5. ASSUME NEW h \in Hooks, ClaimDelivery(h) PROVE DeliveriesInv'
  BY <1>5, ClaimKeeps
<1>6. ASSUME NEW h \in Hooks, RenewLease(h) PROVE DeliveriesInv'
  BY <1>6, RenewKeeps
<1>7. ASSUME NEW h \in Hooks, TakeTurn(h) PROVE DeliveriesInv'
  BY <1>7, StageKeeps DEF TakeTurn
<1>8. ASSUME NEW h \in Hooks, TurnOver(h) PROVE DeliveriesInv'
  BY <1>8, TurnOverKeeps
<1>9. ASSUME NEW h \in Hooks, FinishOwned(h) PROVE DeliveriesInv'
  BY <1>9, FinishKeeps
<1>10. ASSUME NEW h \in Hooks, Tell(h) PROVE DeliveriesInv'
  BY <1>10, TellKeeps
<1>11. ASSUME NEW h \in Hooks, WriteThrows(h) PROVE DeliveriesInv'
  BY <1>11, WriteThrowsKeeps
<1>12. CASE ReapDeliveries
  BY <1>12, ReapKeeps
<1>13. ASSUME NEW p \in Hosts, StopHost(p) PROVE DeliveriesInv'
  BY <1>13, StopKeeps
<1>14. CASE PassTime
  BY <1>14, TimeKeeps
<1>15. CASE UNCHANGED deliveryVars
  BY <1>15 DEF deliveryVars, DeliveriesInv, Typed, DeliveryOK, RequestOK, NoticeOK, LeaseOK, SinceOK,
               Owned, OwnerOf
<1> QED
  BY <1>1, <1>2, <1>3, <1>4, <1>5, <1>6, <1>7, <1>8, <1>9, <1>10, <1>11, <1>12, <1>13, <1>14, <1>15
  DEF DeliveriesNext, HeldJobSteps

-----------------------------------------------------------------------------
\* A delivery is told of at most once, and as its row ended (finishDelivery and
\* reapExpired).
THEOREM ToldOfOnce == DeliveriesSpec => []DeliveriesToldOnceAndTruly
<1>1. DeliveriesInv => DeliveriesToldOnceAndTruly
  <2>1. ASSUME DeliveriesInv, NEW h \in Hooks
        PROVE  /\ Len(notices[h]) <= 1
               /\ notices[h] # <<>> /\ delivery[h].status # "gone"
                    => notices[h] = <<delivery[h].status>>
    <3>1. delivery[h].status \in {"none", "rejected", "ignored", "accepted", "gone"} \cup Outcomes
      BY <2>1 DEF DeliveriesInv, Typed, Rows
    <3>2. QED
      BY <2>1, <3>1 DEF DeliveriesInv, DeliveryOK, NoticeOK
  <2>2. QED
    BY <2>1 DEF DeliveriesToldOnceAndTruly
<1>2. QED
  BY <1>1, DeliveriesStart, DeliveriesStep, PTL DEF DeliveriesSpec

\* A delivery whose process renews in time is nobody else's (reapExpired against
\* holdLease).
THEOREM LeasesHold == DeliveriesSpec => []HeldDeliveriesAreLeftAlone
<1>1. DeliveriesInv => HeldDeliveriesAreLeftAlone
  BY DEF DeliveriesInv, DeliveryOK, LeaseOK, Working, HeldDeliveriesAreLeftAlone
<1>2. QED
  BY <1>1, DeliveriesStart, DeliveriesStep, PTL DEF DeliveriesSpec

\* Deliveries are executed by one process and told of as they ended.
THEOREM DeliveriesHold == DeliveriesSpec => []DeliveriesAreTrue
BY ToldOfOnce, LeasesHold, PTL DEF DeliveriesAreTrue

\* What a step can make of a delivery that has ended.
LEMMA EndedStays ==
  ASSUME DeliveriesInv, [DeliveriesNext]_deliveryVars, NEW h \in Hooks,
         delivery[h].status \in Outcomes \cup {"rejected", "ignored"}
  PROVE  delivery'[h].status \in {delivery[h].status, "gone"}
<1>1. delivery[h].status \notin {"none", "accepted"} /\ delivery \in [Hooks -> Rows] /\ Typed
  BY DEF Outcomes, DeliveriesInv, Typed
<1>2. ASSUME NEW g \in Hooks, Deliver(g) PROVE delivery'[h] = delivery[h]
  <2>1. delivery[g].status = "none"
    BY <1>2 DEF Deliver, DeliveriesInv, DeliveryOK, RequestOK
  <2>2. QED
    BY <1>1, <1>2, <2>1 DEF Deliver
<1>3. ASSUME PatchListener PROVE delivery'[h].status \in {delivery[h].status, "gone"}
  BY <1>1, <1>3, RowWritten DEF PatchListener
<1>4. ASSUME NEW g \in Hooks, ClaimDelivery(g) PROVE delivery'[h] = delivery[h]
  BY <1>1, <1>4 DEF ClaimDelivery, Claimable
<1>5. ASSUME NEW g \in Hooks, RenewLease(g) PROVE delivery'[h] = delivery[h]
  BY <1>1, <1>5 DEF RenewLease, Owned
<1>6. ASSUME NEW g \in Hooks, FinishOwned(g) PROVE delivery'[h] = delivery[h]
  BY <1>1, <1>6 DEF FinishOwned, Owned
<1>7. ASSUME ReapDeliveries PROVE delivery'[h] = delivery[h]
  BY <1>1, <1>7 DEF ReapDeliveries, Reapable
<1>8. ASSUME PassTime PROVE delivery'[h] = delivery[h]
  BY <1>1, <1>8 DEF PassTime
<1>9. ASSUME UNCHANGED delivery PROVE delivery'[h].status \in {delivery[h].status, "gone"}
  BY <1>9
<1> QED
  BY <1>2, <1>3, <1>4, <1>5, <1>6, <1>7, <1>8, <1>9
  DEF DeliveriesNext, HeldJobSteps, deliveryVars, Arrive, LoadDelivery, TakeTurn, TurnOver, Tell,
      WriteThrows, StopHost

\* An ended delivery stays as it ended, whatever late claims, renewals and results
\* come (claimLease, renewLease, finishOwned, reapExpired).
THEOREM EndedForGood == DeliveriesSpec => EndedDeliveriesStay
<1>1. DeliveriesInv /\ [DeliveriesNext]_deliveryVars =>
        [\A h \in Hooks : delivery[h].status \in Outcomes \cup {"rejected", "ignored"} =>
           delivery'[h].status \in {delivery[h].status, "gone"}]_deliveryVars
  BY EndedStays
<1>2. QED
  BY <1>1, DeliveriesStart, DeliveriesStep, PTL DEF DeliveriesSpec, EndedDeliveriesStay

-----------------------------------------------------------------------------
\* What one limiter keeps: of the requests that it allowed, those of the window at
\* least, so that their number bounds what it allowed in the window.
LimiterOK(p) ==
  /\ IsFiniteSet(hits[p])
  /\ InWindow(p) \subseteq hits[p]
  /\ Cardinality(InWindow(p)) <= MaxHits

\* A request that has not arrived was allowed by none.
LimiterInv ==
  /\ hits \in [Hosts -> SUBSET Hooks] /\ allowed \in [Hosts -> SUBSET Hooks]
  /\ hitAge \in [Hooks -> 0 .. HitWindow]
  /\ \A h \in Hooks, p \in Hosts : hook[h].stage = "out" => h \notin allowed[p]
  /\ \A p \in Hosts : LimiterOK(p)

\* The constants of the limiter.
LEMMA LimiterConstants == MaxHits \in Nat \ {0} /\ HitWindow \in Nat \ {0}
BY DeliveryTimesAssumption

\* A set with a finite set around it is finite and no larger.
LEMMA Within ==
  ASSUME NEW S, IsFiniteSet(S), NEW T, T \subseteq S
  PROVE  IsFiniteSet(T) /\ Cardinality(T) <= Cardinality(S)
         /\ Cardinality(T) \in Nat /\ Cardinality(S) \in Nat
BY FS_Subset, FS_CardinalityType

\* One more element.
LEMMA OneMore ==
  ASSUME NEW S, IsFiniteSet(S), NEW x
  PROVE  /\ IsFiniteSet(S \cup {x}) /\ Cardinality(S) \in Nat
         /\ Cardinality(S \cup {x}) <= Cardinality(S) + 1
<1>1. Cardinality(S) \in Nat
  BY FS_CardinalityType
<1>2. IsFiniteSet(S \cup {x})
  BY FS_AddElement
<1>3. CASE x \in S
  <2>1. S \cup {x} = S
    BY <1>3
  <2>2. Cardinality(S \cup {x}) = Cardinality(S)
    BY <2>1
  <2>3. QED
    BY <1>1, <1>2, <2>2
<1>4. CASE x \notin S
  <2>1. Cardinality(S \cup {x}) = Cardinality(S) + 1
    BY <1>4, FS_AddElement
  <2>2. QED
    BY <1>1, <1>2, <2>1
<1>5. QED
  BY <1>3, <1>4

\* No limiter has allowed anything at the start.
LEMMA LimitersStart == DeliveriesInit => LimiterInv
<1> SUFFICES ASSUME DeliveriesInit PROVE LimiterInv
  OBVIOUS
<1>1. \A p \in Hosts : InWindow(p) = {} /\ hits[p] = {}
  BY DEF DeliveriesInit, InWindow
<1>2. ASSUME NEW p \in Hosts PROVE LimiterOK(p)
  BY <1>1, FS_EmptySet, LimiterConstants DEF LimiterOK
<1>3. QED
  BY <1>2, LimiterConstants DEF DeliveriesInit, LimiterInv

\* A request that is refused by the limiter only makes it forget what is old.
LEMMA RefusalKeeps ==
  ASSUME NEW p \in Hosts, LimiterInv, hits' = [hits EXCEPT ![p] = Recent(p)],
         UNCHANGED <<hitAge, allowed>>, NEW q \in Hosts
  PROVE  hits'[q] \subseteq Hooks /\ LimiterOK(q)'
<1>1. LimiterOK(q) /\ hits \in [Hosts -> SUBSET Hooks]
  BY DEF LimiterInv
<1>2. InWindow(q)' = InWindow(q)
  BY DEF InWindow
<1>3. hits'[q] \subseteq hits[q] /\ InWindow(q) \subseteq hits'[q]
  BY <1>1 DEF LimiterOK, Recent, InWindow
<1>4. IsFiniteSet(hits'[q])
  BY <1>1, <1>3, Within DEF LimiterOK
<1>5. QED
  BY <1>1, <1>2, <1>3, <1>4 DEF LimiterOK

\* One that is allowed comes to less than MaxHits others.
LEMMA AllowanceKeeps ==
  ASSUME NEW p \in Hosts, NEW h \in Hooks, LimiterInv, Allow(p), hook[h].stage = "out",
         hits' = [hits EXCEPT ![p] = Recent(p) \cup {h}], hitAge' = [hitAge EXCEPT ![h] = 0],
         allowed' = [allowed EXCEPT ![p] = @ \cup {h}], NEW q \in Hosts
  PROVE  hits'[q] \subseteq Hooks /\ allowed'[q] \subseteq Hooks /\ LimiterOK(q)'
<1>1. /\ LimiterOK(q) /\ hits \in [Hosts -> SUBSET Hooks] /\ allowed \in [Hosts -> SUBSET Hooks]
      /\ h \notin allowed[q] /\ hitAge \in [Hooks -> 0 .. HitWindow]
  BY DEF LimiterInv
<1>2. \A g \in Hooks \ {h} : hitAge'[g] = hitAge[g]
  BY <1>1
<1>3. CASE q # p
  <2>1. hits'[q] = hits[q] /\ allowed'[q] = allowed[q]
    BY <1>1, <1>3
  <2>2. InWindow(q)' = InWindow(q)
    BY <1>1, <1>2, <2>1 DEF InWindow
  <2>3. QED
    BY <1>1, <2>1, <2>2 DEF LimiterOK
<1>4. CASE q = p
  <2>1. hits'[q] = Recent(q) \cup {h} /\ allowed'[q] = allowed[q] \cup {h}
    BY <1>1, <1>4
  <2>2. Recent(q) \subseteq hits[q] /\ InWindow(q) \subseteq Recent(q)
    BY <1>1 DEF Recent, InWindow, LimiterOK
  <2>3. InWindow(q)' \subseteq hits'[q]
    BY <1>1, <1>2, <2>1, <2>2 DEF InWindow
  <2>4. IsFiniteSet(Recent(q))
    BY <1>1, <2>2, Within DEF LimiterOK
  <2>5. /\ IsFiniteSet(hits'[q]) /\ Cardinality(Recent(q)) \in Nat
        /\ Cardinality(hits'[q]) <= Cardinality(Recent(q)) + 1
    <3>1. /\ IsFiniteSet(Recent(q) \cup {h}) /\ Cardinality(Recent(q)) \in Nat
          /\ Cardinality(Recent(q) \cup {h}) <= Cardinality(Recent(q)) + 1
      BY <2>4, OneMore
    <3>2. QED
      BY <2>1, <3>1
  <2>6. Cardinality(hits'[q]) <= MaxHits
    <3>1. Cardinality(Recent(q)) < MaxHits
      BY <1>4 DEF Allow
    <3>2. Cardinality(hits'[q]) \in Nat
      BY <2>5, FS_CardinalityType
    <3>3. QED
      BY <2>5, <3>1, <3>2, LimiterConstants
  <2>7. Cardinality(InWindow(q)') <= Cardinality(hits'[q]) /\ Cardinality(InWindow(q)') \in Nat
        /\ Cardinality(hits'[q]) \in Nat
    BY <2>3, <2>5, Within
  <2>8. Cardinality(InWindow(q)') <= MaxHits
    BY <2>6, <2>7, LimiterConstants
  <2>9. hits'[q] \subseteq Hooks /\ allowed'[q] \subseteq Hooks
    BY <1>1, <2>1, <2>2
  <2>10. QED
    BY <2>3, <2>5, <2>8, <2>9 DEF LimiterOK
<1>5. QED
  BY <1>3, <1>4

\* A request arrives: at a limiter or past it.
LEMMA ArriveLimits ==
  ASSUME NEW h \in Hooks, NEW p \in Hosts, LimiterInv, DeliveriesInv, Arrive(h, p)
  PROVE  LimiterInv'
<1>1. PICK to \in {"rejected", "ignored", "accepted"} : Settle(h, p, to)
  BY DEF Arrive
<1>2. hook'[h].stage = "store" /\ \A g \in Hooks \ {h} : hook'[g] = hook[g]
  BY <1>1 DEF Settle, DeliveriesInv, Typed
<1>3. hook[h].stage = "out"
  BY DEF Arrive
<1>4. CASE UNCHANGED <<hits, hitAge, allowed>>
  BY <1>2, <1>4 DEF LimiterInv, LimiterOK, InWindow
<1>5. CASE hits' = [hits EXCEPT ![p] = Recent(p)] /\ UNCHANGED <<hitAge, allowed>>
  <2>1. \A q \in Hosts : hits'[q] \subseteq Hooks /\ LimiterOK(q)'
    BY <1>5, RefusalKeeps
  <2>2. hits' \in [Hosts -> SUBSET Hooks]
    BY <1>5, <2>1 DEF LimiterInv
  <2>3. QED
    BY <1>2, <1>5, <2>1, <2>2 DEF LimiterInv
<1>6. CASE /\ Allow(p) /\ hits' = [hits EXCEPT ![p] = Recent(p) \cup {h}]
           /\ hitAge' = [hitAge EXCEPT ![h] = 0] /\ allowed' = [allowed EXCEPT ![p] = @ \cup {h}]
  <2>1. \A q \in Hosts : hits'[q] \subseteq Hooks /\ allowed'[q] \subseteq Hooks /\ LimiterOK(q)'
    BY <1>3, <1>6, AllowanceKeeps
  <2>2. hits' \in [Hosts -> SUBSET Hooks] /\ allowed' \in [Hosts -> SUBSET Hooks]
    BY <1>6, <2>1 DEF LimiterInv
  <2>3. hitAge' \in [Hooks -> 0 .. HitWindow]
    BY <1>6, LimiterConstants DEF LimiterInv
  <2>4. ASSUME NEW g \in Hooks, NEW q \in Hosts, hook'[g].stage = "out" PROVE g \notin allowed'[q]
    BY <1>2, <1>6, <2>4 DEF LimiterInv
  <2>5. QED
    BY <2>1, <2>2, <2>3, <2>4 DEF LimiterInv
<1>7. QED
  BY <1>4, <1>5, <1>6 DEF Arrive

\* A process that stops forgets its limiter.
LEMMA StopLimits ==
  ASSUME NEW p \in Hosts, LimiterInv, DeliveriesInv, StopHost(p)
  PROVE  LimiterInv'
<1>1. /\ hits' = [hits EXCEPT ![p] = {}] /\ allowed' = [allowed EXCEPT ![p] = {}]
      /\ hitAge' = hitAge /\ hits \in [Hosts -> SUBSET Hooks] /\ allowed \in [Hosts -> SUBSET Hooks]
  BY DEF StopHost, LimiterInv
<1>2. \A h \in Hooks : hook'[h].stage = "out" => hook'[h] = hook[h]
  BY DEF StopHost, Answered
<1>3. ASSUME NEW q \in Hosts PROVE allowed'[q] \subseteq allowed[q] /\ LimiterOK(q)'
  <2>1. CASE q = p
    <3>1. hits'[q] = {} /\ allowed'[q] = {}
      BY <1>1, <2>1
    <3>2. InWindow(q)' = {}
      BY <3>1 DEF InWindow
    <3>3. QED
      BY <3>1, <3>2, FS_EmptySet, LimiterConstants DEF LimiterOK
  <2>2. CASE q # p
    <3>1. hits'[q] = hits[q] /\ allowed'[q] = allowed[q]
      BY <1>1, <2>2
    <3>2. InWindow(q)' = InWindow(q)
      BY <1>1, <3>1 DEF InWindow
    <3>3. QED
      BY <3>1, <3>2 DEF LimiterOK, LimiterInv
  <2>3. QED
    BY <2>1, <2>2
<1>4. hits' \in [Hosts -> SUBSET Hooks] /\ allowed' \in [Hosts -> SUBSET Hooks]
  BY <1>1
<1>5. ASSUME NEW h \in Hooks, NEW q \in Hosts, hook'[h].stage = "out" PROVE h \notin allowed'[q]
  <2>1. hook[h].stage = "out"
    BY <1>2, <1>5
  <2>2. h \notin allowed[q]
    BY <2>1 DEF LimiterInv
  <2>3. QED
    BY <1>3, <2>2
<1>6. QED
  BY <1>1, <1>3, <1>4, <1>5 DEF LimiterInv

\* Time takes requests out of the window and brings none back.
LEMMA TimeLimits ==
  ASSUME LimiterInv, PassTime PROVE LimiterInv'
<1>1. UNCHANGED <<hits, allowed, hook>> /\ hitAge' = [h \in Hooks |-> Older(hitAge[h], HitWindow)]
  BY DEF PassTime
<1>2. ASSUME NEW h \in Hooks PROVE hitAge'[h] \in 0 .. HitWindow /\ hitAge'[h] >= hitAge[h]
  <2>1. hitAge[h] \in 0 .. HitWindow
    BY DEF LimiterInv
  <2>2. QED
    BY <1>1, <2>1, LimiterConstants DEF Older
<1>3. ASSUME NEW q \in Hosts PROVE LimiterOK(q)'
  <2>1. LimiterOK(q) /\ allowed[q] \subseteq Hooks /\ hitAge \in [Hooks -> 0 .. HitWindow]
    BY DEF LimiterInv
  <2>2. InWindow(q)' \subseteq InWindow(q)
    BY <1>1, <1>2, <2>1, LimiterConstants DEF InWindow
  <2>3. IsFiniteSet(InWindow(q))
    BY <2>1, Within DEF LimiterOK
  <2>4. /\ Cardinality(InWindow(q)') <= Cardinality(InWindow(q))
        /\ Cardinality(InWindow(q)') \in Nat /\ Cardinality(InWindow(q)) \in Nat
    BY <2>2, <2>3, Within
  <2>5. Cardinality(InWindow(q)') <= MaxHits
    BY <2>1, <2>4, LimiterConstants DEF LimiterOK
  <2>6. QED
    BY <1>1, <2>1, <2>2, <2>5 DEF LimiterOK
<1>4. hitAge' \in [Hooks -> 0 .. HitWindow]
  BY <1>1, <1>2
<1>5. QED
  BY <1>1, <1>3, <1>4 DEF LimiterInv

\* No other step touches the limiters, or takes a request back.
LEMMA LimitersStep ==
  ASSUME LimiterInv, DeliveriesInv, [DeliveriesNext]_deliveryVars
  PROVE  LimiterInv'
<1>1. ASSUME UNCHANGED <<hits, hitAge, allowed>>,
             \A h \in Hooks : hook'[h].stage = "out" => hook[h].stage = "out"
      PROVE  LimiterInv'
  BY <1>1 DEF LimiterInv, LimiterOK, InWindow
<1>2. ASSUME UNCHANGED <<hits, hitAge, allowed, hook>> PROVE LimiterInv'
  BY <1>1, <1>2
<1>3. ASSUME NEW h \in Hooks, Deliver(h) PROVE LimiterInv'
  <2>1. UNCHANGED <<hits, hitAge, allowed>>
    BY <1>3 DEF Deliver
  <2>2. \A g \in Hooks : hook'[g].stage = "out" => hook[g].stage = "out"
    BY <1>3 DEF Deliver, Answered, DeliveriesInv, Typed
  <2>3. QED
    BY <1>1, <2>1, <2>2
<1>4. ASSUME NEW h \in Hooks, LoadDelivery(h) \/ ClaimDelivery(h) \/ RenewLease(h) \/ WriteThrows(h)
      PROVE  LimiterInv'
  BY <1>2, <1>4 DEF LoadDelivery, ClaimDelivery, RenewLease, WriteThrows
<1>5. ASSUME NEW h \in Hooks, HeldJobSteps(h) PROVE LimiterInv'
  BY <1>2, <1>5 DEF HeldJobSteps, TakeTurn, TurnOver, FinishOwned, Tell
<1>6. CASE PatchListener \/ ReapDeliveries \/ UNCHANGED deliveryVars
  BY <1>2, <1>6 DEF PatchListener, ReapDeliveries, deliveryVars
<1>7. QED
  BY <1>3, <1>4, <1>5, <1>6, ArriveLimits, StopLimits, TimeLimits DEF DeliveriesNext

\* "Sliding window of hits" (SlidingWindowLimiter.allow): whatever was allowed and
\* refused before, in no window are more requests allowed than the limiter may allow.
THEOREM LimitersHold == DeliveriesSpec => []WindowHolds
<1>1. LimiterInv => WindowHolds
  BY DEF LimiterInv, LimiterOK, WindowHolds
<1>2. QED
  BY <1>1, LimitersStart, LimitersStep, DeliveriesStart, DeliveriesStep, PTL DEF DeliveriesSpec

\* Faults and writes of the listener stay in their bounds.
ListenerTyped ==
  listener \in {"enabled", "disabled", "deleted"} /\ deliveryFaults \in 0 .. MaxDeliveryFaults

LEMMA ListenerStaysTyped ==
  ASSUME ListenerTyped, [DeliveriesNext]_deliveryVars PROVE ListenerTyped'
<1>1. MaxDeliveryFaults \in Nat
  BY DeliveryBoundsAssumption
<1>2. ASSUME UNCHANGED <<listener, deliveryFaults>> PROVE ListenerTyped'
  BY <1>2 DEF ListenerTyped
<1>3. ASSUME listener' = listener, deliveryFaults < MaxDeliveryFaults,
             deliveryFaults' = deliveryFaults + 1
      PROVE  ListenerTyped'
  BY <1>1, <1>3 DEF ListenerTyped
<1>4. CASE PatchListener
  BY <1>4 DEF PatchListener, ListenerTyped
<1>5. ASSUME NEW h \in Hooks, WriteThrows(h) PROVE ListenerTyped'
  BY <1>3, <1>5 DEF WriteThrows
<1>6. ASSUME NEW p \in Hosts, StopHost(p) PROVE ListenerTyped'
  BY <1>3, <1>6 DEF StopHost
<1>7. ASSUME NEW h \in Hooks, NEW p \in Hosts, Arrive(h, p) PROVE ListenerTyped'
  BY <1>2, <1>7 DEF Arrive
<1>8. ASSUME NEW h \in Hooks,
             Deliver(h) \/ LoadDelivery(h) \/ ClaimDelivery(h) \/ HeldJobSteps(h) \/ RenewLease(h)
      PROVE  ListenerTyped'
  BY <1>2, <1>8 DEF Deliver, LoadDelivery, ClaimDelivery, RenewLease, HeldJobSteps, TakeTurn,
                    TurnOver, FinishOwned, Tell
<1>9. CASE ReapDeliveries \/ PassTime \/ UNCHANGED deliveryVars
  BY <1>2, <1>9 DEF ReapDeliveries, PassTime, deliveryVars
<1>10. QED
  BY <1>4, <1>5, <1>6, <1>7, <1>8, <1>9 DEF DeliveriesNext

\* The state of a listener, its limiters, deliveries and jobs is well typed, for every
\* number of processes and requests.
THEOREM DeliveryTypesHold == DeliveriesSpec => []DeliveriesTypeOK
<1>1. DeliveriesInit => ListenerTyped
  BY DeliveryBoundsAssumption DEF DeliveriesInit, ListenerTyped
<1>2. ListenerTyped /\ [DeliveriesNext]_deliveryVars => ListenerTyped'
  BY ListenerStaysTyped
<1>3. DeliveriesInv /\ LimiterInv /\ ListenerTyped => DeliveriesTypeOK
  BY DEF DeliveriesInv, Typed, LimiterInv, ListenerTyped, DeliveriesTypeOK, HookStates, Rows, Jobs,
         JobStages
<1>4. QED
  BY <1>1, <1>2, <1>3, LimitersStart, LimitersStep, DeliveriesStart, DeliveriesStep, PTL
  DEF DeliveriesSpec

-----------------------------------------------------------------------------
(***************************************************************************)
(* AgentChats: an agent has one chat of its own, a group chat names agents *)
(* that exist unless one went away meanwhile, and a request fails for a    *)
(* reason.                                                                 *)
(***************************************************************************)

RequestStages == {"out", "find", "insert", "find again", "count", "clear", "drop", "check", "delete",
           "write", "store", "touch"} \cup Ended
RequestStates == [stage : RequestStages, chat : Nat, disturbed : BOOLEAN]

\* Chats have the numbers that were given out, and each agent at most one of its own.
ChatsOK ==
  /\ created \in Nat /\ DOMAIN chats \subseteq 1 .. created
  /\ chats = [c \in DOMAIN chats |-> chats[c]]
  /\ \A c \in DOMAIN chats : chats[c] \in Chat
  /\ \A c, d \in DOMAIN chats :
       chats[c].members = {} /\ chats[d].members = {} /\ chats[c].of = chats[d].of => c = d

\* The stages that a request of each kind goes through.
StageTypeOK(r) ==
  LET stage == request[r].stage IN
  /\ stage = "find" => Kind[r] \in {"open", "delete agent"}
  /\ stage = "insert" => Kind[r] \in {"open", "group"}
  /\ stage = "find again" => Kind[r] = "open"
  /\ stage = "write" => Kind[r] = "members"
  /\ stage \in {"store", "touch"} => Kind[r] = "append"
  /\ stage \in {"count", "check", "delete"} => Kind[r] = "delete agent"
  /\ stage \in {"clear", "drop"} => Kind[r] \in {"delete chat", "delete agent"}

\* What a request has read still holds, unless another has disturbed it.
StillTrue(r) ==
  LET stage == request[r].stage IN
  /\ Kind[r] = "open" /\ stage \in {"find", "insert"} => Of[r] \in agents
  /\ stage = "find again" => Own(Of[r]) # {}
  /\ stage \in {"store", "touch"} => request[r].chat \in DOMAIN chats
  /\ stage = "count" => request[r].chat = NoChat \/ request[r].chat \in Own(Of[r])
  /\ Kind[r] = "delete agent" /\ stage \in {"clear", "drop"} => Naming(Of[r]) \subseteq {request[r].chat}
  /\ stage \in {"check", "delete"} => Naming(Of[r]) = {}
  /\ stage = "failed" => Kind[r] \notin {"open", "delete agent"}
                         /\ (Kind[r] = "append" => request[r].chat \in raced)

\* What a request relies on, disturbed or not.
ChatOfRequest(r) ==
  LET c == request[r].chat IN
  /\ c \in 0 .. created
  /\ c \in DOMAIN chats =>
       /\ Kind[r] = "open" /\ request[r].stage = "done" => c \in Own(Of[r])
       /\ request[r].stage = "write" => ((chats[c].members = {}) <=> (With[r] = {}))
LastCheck(r) ==
  request[r].stage = "delete" => \A c \in DOMAIN chats : Of[r] \in chats[c].members => c \in raced

RequestFits(r) ==
  StageTypeOK(r) /\ ChatOfRequest(r) /\ LastCheck(r) /\ (~request[r].disturbed => StillTrue(r))

ChatsInv ==
  /\ request \in [Requests -> RequestStates]
  /\ ChatsOK /\ ChatsNameAgents /\ \A r \in Requests : RequestFits(r)
-----------------------------------------------------------------------------
\* A number that was given out, or none, is a number.
LEMMA UpTo == \A n \in Nat : \A c \in 0 .. n : c \in Nat
OBVIOUS

\* The requests after a step of r alone.
LEMMA ToEffect ==
  ASSUME request \in [Requests -> RequestStates], NEW r \in Requests, NEW stage \in RequestStages,
         NEW chat \in Nat, To(r, stage, chat)
  PROVE  /\ request' \in [Requests -> RequestStates]
         /\ request'[r].stage = stage /\ request'[r].chat = chat
         /\ request'[r].disturbed = request[r].disturbed
         /\ \A s \in Requests \ {r} : request'[s] = request[s]
BY DEF To, RequestStates

\* What a step does to the requests of others: some are disturbed, none is undisturbed.
Disturbs(r, Others) ==
  \A s \in Requests \ {r} :
    /\ request'[s].stage = request[s].stage /\ request'[s].chat = request[s].chat
    /\ ~request'[s].disturbed => ~request[s].disturbed /\ (s \in Others => ~UnderWay(s))

LEMMA ToDisturbingEffect ==
  ASSUME request \in [Requests -> RequestStates], NEW r \in Requests, NEW stage \in RequestStages,
         NEW chat \in Nat, NEW Others, ToDisturbing(r, stage, chat, Others)
  PROVE  /\ request' \in [Requests -> RequestStates]
         /\ request'[r].stage = stage /\ request'[r].chat = chat
         /\ request'[r].disturbed = request[r].disturbed
         /\ Disturbs(r, Others)
<1>1. request' = [s \in Requests |->
                CASE s = r -> [request[r] EXCEPT !.stage = stage, !.chat = chat]
                  [] s # r /\ s \in Others /\ UnderWay(s) -> [request[s] EXCEPT !.disturbed = TRUE]
                  [] OTHER -> request[s]]
  BY DEF ToDisturbing
<1>2. request'[r] = [request[r] EXCEPT !.stage = stage, !.chat = chat]
  BY <1>1
<1>3. ASSUME NEW s \in Requests \ {r}
      PROVE  request'[s] = IF s \in Others /\ UnderWay(s) THEN [request[s] EXCEPT !.disturbed = TRUE]
                           ELSE request[s]
  BY <1>1, <1>3
<1>4. ASSUME NEW s \in Requests \ {r}
      PROVE  /\ request'[s] \in RequestStates
             /\ request'[s].stage = request[s].stage /\ request'[s].chat = request[s].chat
             /\ ~request'[s].disturbed => ~request[s].disturbed /\ (s \in Others => ~UnderWay(s))
  <2>1. request[s] \in RequestStates
    OBVIOUS
  <2>2. CASE s \in Others /\ UnderWay(s)
    <3>1. request'[s] = [request[s] EXCEPT !.disturbed = TRUE]
      BY <1>3, <2>2
    <3>2. QED
      BY <2>1, <3>1 DEF RequestStates
  <2>3. CASE ~(s \in Others /\ UnderWay(s))
    <3>1. request'[s] = request[s]
      BY <1>3, <2>3
    <3>2. QED
      BY <2>1, <2>3, <3>1
  <2>4. QED
    BY <2>2, <2>3
<1>5. request[r] \in RequestStates
  OBVIOUS
<1>6. request'[r] \in RequestStates /\ request'[r].stage = stage /\ request'[r].chat = chat
      /\ request'[r].disturbed = request[r].disturbed
  BY <1>2, <1>5 DEF RequestStates
<1>7. request' \in [Requests -> RequestStates]
  <2>1. \A s \in Requests : request'[s] \in RequestStates
    BY <1>4, <1>6
  <2>2. QED
    BY <1>1, <2>1
<1>8. QED
  BY <1>4, <1>6, <1>7 DEF Disturbs

\* The chat that is found, if there is one.
LEMMA OwnFound ==
  ASSUME ChatsOK, NEW a
  PROVE  /\ OwnOrNone(a) \in 0 .. created
         /\ Own(a) # {} => OwnOrNone(a) \in Own(a)
         /\ Own(a) = {} => OwnOrNone(a) = NoChat
<1>1. created \in Nat /\ Own(a) \subseteq 1 .. created
  BY DEF ChatsOK, Own
<1>2. CASE Own(a) = {}
  BY <1>1, <1>2 DEF OwnOrNone, NoChat
<1>3. CASE Own(a) # {}
  <2>1. OwnOrNone(a) \in Own(a)
    BY <1>3 DEF OwnOrNone
  <2>2. QED
    BY <1>1, <1>3, <2>1
<1>4. QED
  BY <1>2, <1>3

\* The chats name whom they named, whatever messages they have.
SameChats ==
  /\ UNCHANGED <<agents, created, raced>> /\ DOMAIN chats' = DOMAIN chats
  /\ chats' = [c \in DOMAIN chats' |-> chats'[c]]
  /\ \A c \in DOMAIN chats : /\ chats'[c] \in Chat /\ chats'[c].of = chats[c].of
                             /\ chats'[c].members = chats[c].members

\* A request that does not move keeps what it relies on.
LEMMA QuietStep ==
  ASSUME ChatsInv, NEW r \in Requests, SameChats, request' \in [Requests -> RequestStates],
         \A s \in Requests \ {r} : request'[s] = request[s], RequestFits(r)'
  PROVE  ChatsInv'
<1>1. \A a : Own(a)' = Own(a) /\ Naming(a)' = Naming(a)
  BY DEF SameChats, Own, Naming
<1>2. ChatsOK'
  BY DEF ChatsInv, ChatsOK, SameChats
<1>3. ChatsNameAgents'
  BY DEF ChatsInv, ChatsNameAgents, SameChats
<1>4. ASSUME NEW s \in Requests \ {r} PROVE RequestFits(s)'
  <2>1. request'[s] = request[s] /\ RequestFits(s)
    BY DEF ChatsInv
  <2>2. StageTypeOK(s)'
    BY <2>1 DEF RequestFits, StageTypeOK
  <2>3. ChatOfRequest(s)'
    BY <1>1, <2>1 DEF RequestFits, ChatOfRequest, SameChats
  <2>4. LastCheck(s)'
    BY <2>1 DEF RequestFits, LastCheck, SameChats
  <2>5. StillTrue(s) => StillTrue(s)'
    BY <1>1, <2>1 DEF StillTrue, SameChats
  <2>6. QED
    BY <2>1, <2>2, <2>3, <2>4, <2>5 DEF RequestFits
<1>5. QED
  BY <1>2, <1>3, <1>4 DEF ChatsInv

\* Nothing is written.
LEMMA NothingWritten ==
  ASSUME ChatsInv, UNCHANGED <<agents, chats, created, raced>>
  PROVE  /\ SameChats
         /\ \A a : Own(a)' = Own(a) /\ Naming(a)' = Naming(a)
BY DEF ChatsInv, ChatsOK, SameChats, Own, Naming

\* A step of one request that reads, and ends where nothing is relied on or what it
\* relies on has just been read.
LEMMA ReadStep ==
  ASSUME ChatsInv, NEW r \in Requests, UNCHANGED <<agents, chats, created, raced>>,
         NEW stage \in RequestStages, NEW chat \in 0 .. created, To(r, stage, chat), StageTypeOK(r)',
         chat \in DOMAIN chats =>
           /\ Kind[r] = "open" /\ stage = "done" => chat \in Own(Of[r])
           /\ stage = "write" => ((chats[chat].members = {}) <=> (With[r] = {})),
         stage = "delete" => Naming(Of[r]) = {},
         ~request[r].disturbed =>
           /\ Kind[r] = "open" /\ stage \in {"find", "insert"} => Of[r] \in agents
           /\ stage = "find again" => Own(Of[r]) # {}
           /\ stage \in {"store", "touch"} => chat \in DOMAIN chats
           /\ stage = "count" => chat = NoChat \/ chat \in Own(Of[r])
           /\ Kind[r] = "delete agent" /\ stage \in {"clear", "drop"}
                => Naming(Of[r]) \subseteq {chat}
           /\ stage \in {"check", "delete"} => Naming(Of[r]) = {}
           /\ stage = "failed" => Kind[r] \notin {"open", "delete agent"}
                                  /\ (Kind[r] = "append" => chat \in raced)
  PROVE  ChatsInv'
<1>0. request \in [Requests -> RequestStates] /\ created \in Nat
  BY DEF ChatsInv, ChatsOK
<1>1. request \in [Requests -> RequestStates] /\ created \in Nat /\ chat \in Nat
  BY <1>0, UpTo
<1>2. /\ request' \in [Requests -> RequestStates]
      /\ request'[r].stage = stage /\ request'[r].chat = chat
      /\ request'[r].disturbed = request[r].disturbed
      /\ \A s \in Requests \ {r} : request'[s] = request[s]
  BY <1>1, ToEffect
<1>3. SameChats /\ \A a : Own(a)' = Own(a) /\ Naming(a)' = Naming(a)
  BY NothingWritten
<1>4. ChatOfRequest(r)'
  BY <1>2, <1>3 DEF ChatOfRequest
<1>5. LastCheck(r)'
  BY <1>2 DEF LastCheck, Naming
<1>6. ~request[r].disturbed => StillTrue(r)'
  BY <1>2, <1>3 DEF StillTrue
<1>7. RequestFits(r)'
  BY <1>2, <1>4, <1>5, <1>6 DEF RequestFits
<1>8. QED
  BY <1>2, <1>3, <1>7, QuietStep
\* What ChatsInv says of one request.
LEMMA KnownAgents ==
  ASSUME ChatsInv, NEW r \in Requests
  PROVE  /\ request[r] \in RequestStates /\ request[r].chat \in 0 .. created
         /\ ChatsOK /\ created \in Nat /\ DOMAIN chats \subseteq 1 .. created
         /\ StageTypeOK(r) /\ ChatOfRequest(r) /\ LastCheck(r) /\ (~request[r].disturbed => StillTrue(r))
BY DEF ChatsInv, RequestFits, ChatOfRequest, ChatsOK

\* The stage of a request that has moved fits its kind.
LEMMA StageFits ==
  ASSUME request \in [Requests -> RequestStates], NEW r \in Requests, NEW stage \in RequestStages,
         NEW chat \in Nat, To(r, stage, chat),
         /\ stage = "find" => Kind[r] \in {"open", "delete agent"}
         /\ stage = "insert" => Kind[r] \in {"open", "group"}
         /\ stage = "find again" => Kind[r] = "open"
         /\ stage = "write" => Kind[r] = "members"
         /\ stage \in {"store", "touch"} => Kind[r] = "append"
         /\ stage \in {"count", "check", "delete"} => Kind[r] = "delete agent"
         /\ stage \in {"clear", "drop"} => Kind[r] \in {"delete chat", "delete agent"}
  PROVE  StageTypeOK(r)'
<1>1. request'[r].stage = stage
  BY ToEffect
<1>2. QED
  BY <1>1 DEF StageTypeOK

\* A request arrives and reads what it is about.
LEMMA AskKeeps ==
  ASSUME ChatsInv, NEW r \in Requests, Ask(r) PROVE ChatsInv'
<1>1. /\ UNCHANGED <<agents, chats, created, raced>> /\ created \in Nat
      /\ DOMAIN chats \subseteq 1 .. created /\ request \in [Requests -> RequestStates]
      /\ NoChat \in 0 .. created /\ NoChat \notin DOMAIN chats /\ NoChat \in Nat
  <2>1. UNCHANGED <<agents, chats, created, raced>>
    BY DEF Ask
  <2>2. created \in Nat /\ DOMAIN chats \subseteq 1 .. created
    BY DEF ChatsInv, ChatsOK
  <2>3. request \in [Requests -> RequestStates]
    BY DEF ChatsInv
  <2>4. QED
    BY <2>1, <2>2, <2>3 DEF NoChat
<1>2. Kind[r] \in Kinds
  BY AgentChatsRequestsAssumption
<1>3. {"find", "insert", "refused", "write", "store", "clear"} \subseteq RequestStages
  BY DEF RequestStages, Ended
<1>4. CASE Kind[r] = "open"
  <2>1. PICK stage \in {"find", "refused"} :
          To(r, stage, NoChat) /\ (stage = "find" => Of[r] \in agents)
    BY <1>4 DEF Ask
  <2>2. StageTypeOK(r)'
    BY <1>1, <1>3, <1>4, <2>1, StageFits
  <2>3. QED
    BY <1>1, <1>3, <1>4, <2>1, <2>2, ReadStep
<1>5. CASE Kind[r] = "group"
  <2>1. PICK stage \in {"insert", "refused"} : To(r, stage, NoChat)
    BY <1>5 DEF Ask
  <2>2. StageTypeOK(r)'
    BY <1>1, <1>3, <1>5, <2>1, StageFits
  <2>3. QED
    BY <1>1, <1>3, <1>5, <2>1, <2>2, ReadStep
<1>6. CASE Kind[r] = "delete agent"
  <2>1. PICK stage \in {"find", "refused"} : To(r, stage, NoChat)
    BY <1>6 DEF Ask
  <2>2. StageTypeOK(r)'
    BY <1>1, <1>3, <1>6, <2>1, StageFits
  <2>3. QED
    BY <1>1, <1>3, <1>6, <2>1, <2>2, ReadStep
<1>7. CASE Kind[r] = "members"
  <2>1. PICK c \in DOMAIN chats :
          To(r, IF With[r] \subseteq agents /\ (chats[c].members = {}) = (With[r] = {})
                THEN "write" ELSE "refused", c)
    BY <1>7 DEF Ask
  <2>2. PICK stage \in {"write", "refused"} :
          /\ To(r, stage, c)
          /\ stage = "write" => ((chats[c].members = {}) <=> (With[r] = {}))
    BY <2>1
  <2>3. c \in 0 .. created /\ c \in Nat
    BY <1>1
  <2>4. StageTypeOK(r)'
    BY <1>1, <1>3, <1>7, <2>2, <2>3, StageFits
  <2>5. QED
    BY <1>1, <1>3, <1>7, <2>2, <2>3, <2>4, ReadStep
<1>8. CASE Kind[r] = "append"
  <2>1. PICK c \in DOMAIN chats : To(r, "store", c)
    BY <1>8 DEF Ask
  <2>2. c \in 0 .. created /\ c \in Nat
    BY <1>1
  <2>3. StageTypeOK(r)'
    BY <1>1, <1>3, <1>8, <2>1, <2>2, StageFits
  <2>4. QED
    BY <1>1, <1>3, <1>8, <2>1, <2>2, <2>3, ReadStep
<1>9. CASE Kind[r] = "delete chat"
  <2>1. PICK c \in DOMAIN chats : To(r, "clear", c)
    BY <1>9 DEF Ask
  <2>2. c \in 0 .. created /\ c \in Nat
    BY <1>1
  <2>3. StageTypeOK(r)'
    BY <1>1, <1>3, <1>9, <2>1, <2>2, StageFits
  <2>4. QED
    BY <1>1, <1>3, <1>9, <2>1, <2>2, <2>3, ReadStep
<1>10. QED
  BY <1>2, <1>4, <1>5, <1>6, <1>7, <1>8, <1>9 DEF Kinds

\* ensureAgentChat finds the chat, or goes on to create it.
LEMMA OpenFindsKeeps ==
  ASSUME ChatsInv, NEW r \in Requests, OpenFinds(r) PROVE ChatsInv'
<1>1. /\ UNCHANGED <<agents, chats, created, raced>> /\ created \in Nat
      /\ request \in [Requests -> RequestStates] /\ Kind[r] = "open"
      /\ ~request[r].disturbed => Of[r] \in agents
  BY KnownAgents DEF OpenFinds, ChatsInv, StillTrue
<1>2. {"done", "insert"} \subseteq RequestStages
  BY DEF RequestStages, Ended
<1>3. PICK stage \in {"done", "insert"} :
        /\ To(r, stage, OwnOrNone(Of[r]))
        /\ stage = "done" => Own(Of[r]) # {}
  BY DEF OpenFinds
<1>4. /\ OwnOrNone(Of[r]) \in 0 .. created /\ OwnOrNone(Of[r]) \in Nat
      /\ stage = "done" => OwnOrNone(Of[r]) \in Own(Of[r])
  BY <1>1, <1>3, OwnFound, KnownAgents
<1>5. StageTypeOK(r)'
  BY <1>1, <1>2, <1>3, <1>4, StageFits
<1>6. QED
  BY <1>1, <1>2, <1>3, <1>4, <1>5, ReadStep

\* ... and once more after a create that failed.
LEMMA OpenFindsAgainKeeps ==
  ASSUME ChatsInv, NEW r \in Requests, OpenFindsAgain(r) PROVE ChatsInv'
<1>1. /\ UNCHANGED <<agents, chats, created, raced>> /\ created \in Nat
      /\ request \in [Requests -> RequestStates] /\ Kind[r] = "open"
      /\ ~request[r].disturbed => Own(Of[r]) # {}
  BY KnownAgents DEF OpenFindsAgain, ChatsInv, StillTrue, StageTypeOK
<1>2. {"done", "failed"} \subseteq RequestStages
  BY DEF RequestStages, Ended
<1>3. PICK stage \in {"done", "failed"} :
        /\ To(r, stage, OwnOrNone(Of[r]))
        /\ stage = "done" <=> Own(Of[r]) # {}
  BY DEF OpenFindsAgain
<1>4. /\ OwnOrNone(Of[r]) \in 0 .. created /\ OwnOrNone(Of[r]) \in Nat
      /\ stage = "done" => OwnOrNone(Of[r]) \in Own(Of[r])
  BY <1>1, <1>3, OwnFound, KnownAgents
<1>5. StageTypeOK(r)'
  BY <1>1, <1>2, <1>3, <1>4, StageFits
<1>6. QED
  BY <1>1, <1>2, <1>3, <1>4, <1>5, ReadStep

\* The deletion of an agent finds the agent's own chat.
LEMMA DeleteFindsKeeps ==
  ASSUME ChatsInv, NEW r \in Requests, DeleteFinds(r) PROVE ChatsInv'
<1>1. /\ UNCHANGED <<agents, chats, created, raced>> /\ created \in Nat
      /\ request \in [Requests -> RequestStates] /\ Kind[r] = "delete agent"
      /\ "count" \in RequestStages
  BY KnownAgents DEF DeleteFinds, ChatsInv, RequestStages
<1>2. /\ OwnOrNone(Of[r]) \in 0 .. created /\ OwnOrNone(Of[r]) \in Nat
      /\ OwnOrNone(Of[r]) = NoChat \/ OwnOrNone(Of[r]) \in Own(Of[r])
  BY <1>1, OwnFound, KnownAgents, UpTo
<1>3. To(r, "count", OwnOrNone(Of[r]))
  BY DEF DeleteFinds
<1>4. StageTypeOK(r)'
  BY <1>1, <1>2, <1>3, StageFits
<1>5. QED
  BY <1>1, <1>2, <1>3, <1>4, ReadStep

\* The numbers given out are finitely many.
LEMMA FirstNumbers == \A n \in Nat : IsFiniteSet(1 .. n) /\ Cardinality(1 .. n) = n
BY FS_Interval

\* A finite set that has an element and no more than one.
LEMMA OneElement ==
  ASSUME NEW S, IsFiniteSet(S), NEW x \in S, ~(Cardinality(S) > 1) PROVE S = {x}
<1>1. Cardinality(S) \in Nat /\ IsFiniteSet({x}) /\ Cardinality({x}) = 1
  BY FS_CardinalityType, FS_Singleton
<1>2. Cardinality({x}) <= Cardinality(S) /\ (Cardinality(S) = Cardinality({x}) => S = {x})
  BY FS_Subset
<1>3. QED
  BY <1>1, <1>2

\* It counts the chats that the agent is in: no other than its own, or it refuses.
LEMMA DeleteCountsKeeps ==
  ASSUME ChatsInv, NEW r \in Requests, DeleteCounts(r) PROVE ChatsInv'
<1> DEFINE c == request[r].chat
<1>1. /\ UNCHANGED <<agents, chats, created, raced>> /\ created \in Nat
      /\ request \in [Requests -> RequestStates] /\ Kind[r] = "delete agent"
      /\ c \in 0 .. created /\ DOMAIN chats \subseteq 1 .. created
      /\ ~request[r].disturbed => c = NoChat \/ c \in Own(Of[r])
  BY KnownAgents DEF DeleteCounts, ChatsInv, StillTrue, StageTypeOK
<1>2. {"refused", "check", "clear"} \subseteq RequestStages
  BY DEF RequestStages, Ended
<1>3. PICK stage \in {"refused", "check", "clear"} :
        /\ To(r, stage, c)
        /\ stage # "refused" => ~InUse(r) /\ (stage = "check" <=> c = NoChat)
  BY DEF DeleteCounts
<1>4. IsFiniteSet(Naming(Of[r])) /\ Own(Of[r]) \subseteq Naming(Of[r])
  <2>1. IsFiniteSet(1 .. created)
    BY <1>1, FirstNumbers
  <2>2. Naming(Of[r]) \subseteq 1 .. created
    BY <1>1 DEF Naming
  <2>3. QED
    BY <2>1, <2>2, FS_Subset DEF Own, Naming
<1>5. stage = "check" => Naming(Of[r]) = {}
  <2>1. ASSUME stage = "check" PROVE ~(Cardinality(Naming(Of[r])) > 0)
    BY <1>3, <2>1 DEF InUse
  <2>2. QED
    BY <1>4, <2>1, FS_EmptySet, FS_CardinalityType
<1>6. ~request[r].disturbed /\ stage = "clear" => Naming(Of[r]) = {c}
  <2>1. ASSUME stage = "clear" PROVE ~(Cardinality(Naming(Of[r])) > 1) /\ c # NoChat
    BY <1>3, <2>1 DEF InUse
  <2>2. QED
    BY <1>1, <1>4, <2>1, OneElement
<1>7. c \in Nat
  BY <1>1, UpTo
<1>8. StageTypeOK(r)'
  BY <1>1, <1>2, <1>3, <1>7, StageFits
<1> HIDE DEF c
<1>9. QED
  BY <1>1, <1>2, <1>3, <1>5, <1>6, <1>8, ReadStep
\* A create that fails is looked after by an opening and fails a group.
LEMMA InsertFailsKeeps ==
  ASSUME ChatsInv, NEW r \in Requests, request[r].stage = "insert",
         UNCHANGED <<agents, chats, created, raced>>, To(r, AfterFailedInsert(r), NoChat),
         Kind[r] = "open" => ~(Of[r] \in agents /\ Own(Of[r]) = {})
  PROVE  ChatsInv'
<1>1. /\ created \in Nat /\ request \in [Requests -> RequestStates]
      /\ DOMAIN chats \subseteq 1 .. created /\ Kind[r] \in {"open", "group"}
      /\ ~request[r].disturbed /\ Kind[r] = "open" => Of[r] \in agents
  <2>1. request \in [Requests -> RequestStates]
    BY DEF ChatsInv
  <2>2. QED
    BY <2>1, KnownAgents DEF StillTrue, StageTypeOK
<1>2. {"find again", "failed"} \subseteq RequestStages /\ NoChat \in Nat
  BY DEF RequestStages, Ended, NoChat
<1>3. NoChat \in 0 .. created /\ NoChat \notin DOMAIN chats
  BY <1>1 DEF NoChat
<1>4. PICK stage \in {"find again", "failed"} :
        To(r, stage, NoChat) /\ (stage = "find again" <=> Kind[r] = "open")
  BY DEF AfterFailedInsert
<1>5. StageTypeOK(r)'
  BY <1>1, <1>2, <1>4, StageFits
<1>6. QED
  BY <1>1, <1>2, <1>3, <1>4, <1>5, ReadStep

\* Requests that others write beside: their stages fit, and what they hold is what
\* it was, as long as numbers do not come back and a chat keeps its kind.
LEMMA OthersFit ==
  ASSUME ChatsInv, NEW s \in Requests,
         request'[s].stage = request[s].stage, request'[s].chat = request[s].chat,
         created' \in Nat, created <= created',
         \A c \in DOMAIN chats' : c \in 0 .. created => c \in DOMAIN chats,
         \A c \in DOMAIN chats \cap DOMAIN chats' :
           chats'[c].of = chats[c].of /\ (chats'[c].members = {} <=> chats[c].members = {}),
         LastCheck(s)', ~request'[s].disturbed => StillTrue(s)'
  PROVE  RequestFits(s)'
<1>1. StageTypeOK(s)'
  BY KnownAgents DEF StageTypeOK
<1>2. ChatOfRequest(s)'
  <2> DEFINE c == request[s].chat
  <2>1. c \in 0 .. created /\ created \in Nat /\ ChatOfRequest(s)
    BY KnownAgents
  <2>2. c \in 0 .. created'
    BY <2>1
  <2>3. ASSUME c \in DOMAIN chats'
        PROVE  /\ Kind[s] = "open" /\ request[s].stage = "done" => c \in Own(Of[s])'
               /\ request[s].stage = "write" => ((chats'[c].members = {}) <=> (With[s] = {}))
    <3>1. c \in DOMAIN chats /\ chats'[c].of = chats[c].of
          /\ (chats'[c].members = {} <=> chats[c].members = {})
      BY <2>1, <2>3
    <3>2. QED
      BY <2>1, <2>3, <3>1 DEF ChatOfRequest, Own
  <2>4. QED
    BY <2>2, <2>3 DEF ChatOfRequest
<1>3. QED
  BY <1>1, <1>2 DEF RequestFits

\* A deletion that has not ended is disturbed by who writes its agent into a chat.
LEMMA DeletionUnderWay ==
  ASSUME NEW s \in Requests, NEW As, Kind[s] = "delete agent", Of[s] \in As,
         request[s].stage \in {"count", "clear", "drop", "check", "delete"}
  PROVE  s \in Deletions(As) /\ UnderWay(s)
BY DEF Deletions, Requesting, UnderWay, Ended

\* A chat is created: it is in nobody's way who is not disturbed.
LEMMA InsertKeeps ==
  ASSUME ChatsInv, NEW r \in Requests, NEW chat \in Chat, Insertable(chat), Insert(r, chat),
         Kind[r] = "open" => chat.of = Of[r] /\ chat.members = {}
  PROVE  ChatsInv'
<1> DEFINE c == created + 1
           Others == Deletions({chat.of} \cup chat.members)
<1>1. /\ created \in Nat /\ request \in [Requests -> RequestStates] /\ c \in Nat
      /\ DOMAIN chats \subseteq 1 .. created /\ c \notin DOMAIN chats /\ "done" \in RequestStages
  <2>1. /\ created \in Nat /\ request \in [Requests -> RequestStates]
        /\ DOMAIN chats \subseteq 1 .. created
    BY DEF ChatsInv, ChatsOK
  <2>2. QED
    BY <2>1 DEF RequestStages, Ended
<1>2. /\ chats' = [d \in DOMAIN chats \cup {c} |-> IF d = c THEN chat ELSE chats[d]]
      /\ created' = c /\ agents' = agents /\ raced' = Racing(c, chat)
      /\ ToDisturbing(r, "done", c, Others)
  BY DEF Insert
<1> HIDE DEF c
<1>3. /\ DOMAIN chats' = DOMAIN chats \cup {c} /\ chats'[c] = chat
      /\ \A d \in DOMAIN chats : chats'[d] = chats[d]
      /\ chats' = [d \in DOMAIN chats' |-> chats'[d]]
  BY <1>1, <1>2
<1>4. raced \subseteq raced'
  BY <1>2 DEF Racing
<1>5. /\ request' \in [Requests -> RequestStates]
      /\ request'[r].stage = "done" /\ request'[r].chat = c
      /\ Disturbs(r, Others)
  BY <1>1, <1>2, ToDisturbingEffect
<1>6. /\ \A a : Own(a) \subseteq Own(a)'
      /\ \A a : a \notin {chat.of} \cup chat.members => Naming(a)' = Naming(a)
  BY <1>1, <1>3 DEF Own, Naming
<1>7. created' \in Nat /\ created <= created'
  BY <1>1, <1>2 DEF c
<1>8. ASSUME NEW s \in Requests \ {r} PROVE RequestFits(s)'
  <2>1. /\ request'[s].stage = request[s].stage /\ request'[s].chat = request[s].chat
        /\ ~request'[s].disturbed => ~request[s].disturbed /\ (s \in Others => ~UnderWay(s))
    BY <1>5 DEF Disturbs
  <2>2. LastCheck(s)'
    <3>1. SUFFICES ASSUME request[s].stage = "delete", NEW d \in DOMAIN chats',
                          Of[s] \in chats'[d].members
                   PROVE  d \in raced'
      BY <2>1 DEF LastCheck
    <3>2. CASE d = c
      <4>1. Kind[s] = "delete agent"
        BY <3>1, KnownAgents DEF StageTypeOK
      <4>2. s \in Deletions(chat.members)
        BY <1>3, <3>1, <3>2, <4>1 DEF Deletions, Requesting
      <4>3. QED
        BY <1>2, <3>1, <3>2, <4>2 DEF Racing
    <3>3. CASE d # c
      <4>1. d \in DOMAIN chats /\ chats'[d] = chats[d]
        BY <1>3, <3>3
      <4>2. LastCheck(s)
        BY KnownAgents
      <4>3. QED
        BY <1>4, <3>1, <4>1, <4>2 DEF LastCheck
    <3>4. QED
      BY <3>2, <3>3
  <2>3. ASSUME ~request'[s].disturbed PROVE StillTrue(s)'
    <3>1. StillTrue(s) /\ StageTypeOK(s) /\ (s \in Others => ~UnderWay(s))
      BY <2>1, <2>3, KnownAgents
    <3>2. Kind[s] = "delete agent" /\ request[s].stage \in {"clear", "drop", "check", "delete"}
            => Naming(Of[s])' = Naming(Of[s])
      BY <1>6, <3>1, DeletionUnderWay
    <3>3. QED
      BY <1>2, <1>3, <1>4, <1>6, <2>1, <3>1, <3>2 DEF StillTrue, StageTypeOK
  <2>4. \A d \in DOMAIN chats' : d \in 0 .. created => d \in DOMAIN chats
    BY <1>1, <1>3 DEF c
  <2>5. \A d \in DOMAIN chats \cap DOMAIN chats' :
           chats'[d].of = chats[d].of /\ (chats'[d].members = {} <=> chats[d].members = {})
    BY <1>3
  <2>6. QED
    BY <1>7, <2>1, <2>2, <2>3, <2>4, <2>5, OthersFit
<1>9. RequestFits(r)'
  <2>1. StageTypeOK(r)' /\ LastCheck(r)' /\ StillTrue(r)'
    BY <1>5 DEF StageTypeOK, LastCheck, StillTrue
  <2>2. Kind[r] = "open" => c \in Own(Of[r])'
    BY <1>3 DEF Own
  <2>3. c \in 0 .. created'
    BY <1>1, <1>2
  <2>4. ChatOfRequest(r)'
    BY <1>5, <2>2, <2>3 DEF ChatOfRequest
  <2>5. QED
    BY <2>1, <2>4 DEF RequestFits
<1>10. ChatsOK'
  <2>1. DOMAIN chats' \subseteq 1 .. created'
    BY <1>1, <1>2, <1>3 DEF c
  <2>2. \A d \in DOMAIN chats' : chats'[d] \in Chat
    BY <1>3 DEF ChatsInv, ChatsOK
  <2>3. ASSUME NEW d \in DOMAIN chats', NEW e \in DOMAIN chats', chats'[d].members = {},
               chats'[e].members = {}, chats'[d].of = chats'[e].of
        PROVE  d = e
    <3>1. chat.members = {} => Own(chat.of) = {}
      BY DEF Insertable
    <3>2. QED
      BY <1>3, <2>3, <3>1 DEF ChatsInv, ChatsOK, Own
  <2>4. QED
    BY <1>3, <1>7, <2>1, <2>2, <2>3 DEF ChatsOK
<1>11. ChatsNameAgents'
  BY <1>2, <1>3, <1>4 DEF ChatsInv, ChatsNameAgents, Insertable, Guarded
<1>12. QED
  BY <1>5, <1>8, <1>9, <1>10, <1>11 DEF ChatsInv

\* The create, whether it succeeds or not.
LEMMA InsertChatKeeps ==
  ASSUME ChatsInv, NEW r \in Requests, InsertChat(r) PROVE ChatsInv'
<1> DEFINE chat == [of |-> Of[r], members |-> IF Kind[r] = "open" THEN {} ELSE With[r],
                    told |-> FALSE]
<1>1. chat \in Chat
  BY AgentChatsRequestsAssumption DEF Chat
<1>2. Kind[r] = "open" => chat.of = Of[r] /\ chat.members = {}
  OBVIOUS
<1>3. \/ Insertable(chat) /\ Insert(r, chat)
      \/ ~Insertable(chat) /\ To(r, AfterFailedInsert(r), NoChat)
                           /\ UNCHANGED <<agents, chats, created, raced>>
  BY DEF InsertChat
<1>4. ~Insertable(chat) /\ Kind[r] = "open" => ~(Of[r] \in agents /\ Own(Of[r]) = {})
  BY DEF Insertable, Guarded
<1>5. request[r].stage = "insert"
  BY DEF InsertChat
<1> HIDE DEF chat
<1>6. QED
  BY <1>1, <1>2, <1>3, <1>4, <1>5, InsertKeeps, InsertFailsKeeps
\* A step that reads nothing of use, and after which nothing is relied on.
LEMMA EndJobStep ==
  ASSUME ChatsInv, NEW r \in Requests, UNCHANGED <<agents, chats, created, raced>>,
         NEW stage \in Ended, To(r, stage, request[r].chat),
         Kind[r] = "open" => stage = "refused",
         stage = "failed" /\ ~request[r].disturbed =>
           Kind[r] # "delete agent" /\ (Kind[r] = "append" => request[r].chat \in raced)
  PROVE  ChatsInv'
<1> DEFINE c == request[r].chat
<1>1. request \in [Requests -> RequestStates] /\ created \in Nat /\ c \in 0 .. created
  BY KnownAgents DEF ChatsInv
<1>2. stage \in RequestStages /\ c \in Nat
  BY <1>1, UpTo DEF RequestStages
<1> HIDE DEF c
<1>3. StageTypeOK(r)'
  BY <1>1, <1>2, StageFits DEF Ended, c
<1>4. QED
  BY <1>1, <1>2, <1>3, ReadStep DEF Ended, c

\* PATCH: a deletion of an agent that it names is disturbed, or past its last check.
LEMMA MembersWritten ==
  ASSUME ChatsInv, NEW r \in Requests, NEW c \in DOMAIN chats, c = request[r].chat,
         request[r].stage = "write", agents' = agents, created' = created,
         Guarded([chats[c] EXCEPT !.members = With[r]]),
         chats' = [chats EXCEPT ![c] = [chats[c] EXCEPT !.members = With[r]]],
         raced' = Racing(c, [chats[c] EXCEPT !.members = With[r]]),
         ToDisturbing(r, "done", c, Deletions(With[r]))
  PROVE  ChatsInv'
<1> DEFINE Others == Deletions(With[r])
<1>1. /\ created \in Nat /\ request \in [Requests -> RequestStates] /\ c \in Nat
      /\ DOMAIN chats \subseteq 1 .. created /\ "done" \in RequestStages
      /\ chats[c] \in Chat /\ With[r] \subseteq Agents
  <2>1. /\ created \in Nat /\ request \in [Requests -> RequestStates]
        /\ DOMAIN chats \subseteq 1 .. created /\ chats[c] \in Chat
    BY DEF ChatsInv, ChatsOK
  <2>2. QED
    BY <2>1, AgentChatsRequestsAssumption DEF RequestStages, Ended
<1>2. /\ DOMAIN chats' = DOMAIN chats /\ chats' = [d \in DOMAIN chats' |-> chats'[d]]
      /\ chats'[c] \in Chat /\ chats'[c].of = chats[c].of /\ chats'[c].members = With[r]
      /\ \A d \in DOMAIN chats \ {c} : chats'[d] = chats[d]
  BY <1>1 DEF Chat
<1>3. chats[c].members = {} <=> With[r] = {}
  BY KnownAgents DEF ChatOfRequest
<1>4. /\ raced \subseteq raced'
      /\ (\E s \in Deletions(With[r]) : request[s].stage = "delete") => c \in raced'
  BY <1>1 DEF Racing, Chat
<1>5. /\ request' \in [Requests -> RequestStates]
      /\ request'[r].stage = "done" /\ request'[r].chat = c
      /\ Disturbs(r, Others)
  BY <1>1, ToDisturbingEffect
<1>6. ASSUME NEW d \in DOMAIN chats
      PROVE  chats'[d].of = chats[d].of /\ (chats'[d].members = {} <=> chats[d].members = {})
  BY <1>2, <1>3
<1>7. /\ \A a : Own(a)' = Own(a)
      /\ \A a : a \notin With[r] => Naming(a)' \subseteq Naming(a)
  BY <1>2, <1>6 DEF Own, Naming
<1>8. ASSUME NEW s \in Requests \ {r} PROVE RequestFits(s)'
  <2>1. /\ request'[s].stage = request[s].stage /\ request'[s].chat = request[s].chat
        /\ ~request'[s].disturbed => ~request[s].disturbed /\ (s \in Others => ~UnderWay(s))
    BY <1>5 DEF Disturbs
  <2>2. LastCheck(s)'
    <3>1. SUFFICES ASSUME request[s].stage = "delete", NEW d \in DOMAIN chats',
                          Of[s] \in chats'[d].members
                   PROVE  d \in raced'
      BY <2>1 DEF LastCheck
    <3>2. CASE d = c
      <4>1. Kind[s] = "delete agent"
        BY <3>1, KnownAgents DEF StageTypeOK
      <4>2. s \in Deletions(With[r])
        BY <1>2, <3>1, <3>2, <4>1 DEF Deletions, Requesting
      <4>3. QED
        BY <1>4, <3>1, <3>2, <4>2
    <3>3. CASE d # c
      <4>1. d \in DOMAIN chats /\ chats'[d] = chats[d]
        BY <1>2, <3>3
      <4>2. LastCheck(s)
        BY KnownAgents
      <4>3. QED
        BY <1>4, <3>1, <4>1, <4>2 DEF LastCheck
    <3>4. QED
      BY <3>2, <3>3
  <2>3. ASSUME ~request'[s].disturbed PROVE StillTrue(s)'
    <3>1. StillTrue(s) /\ StageTypeOK(s) /\ (s \in Others => ~UnderWay(s))
      BY <2>1, <2>3, KnownAgents
    <3>2. Kind[s] = "delete agent" /\ request[s].stage \in {"clear", "drop", "check", "delete"}
            => Naming(Of[s])' \subseteq Naming(Of[s])
      BY <1>7, <3>1, DeletionUnderWay
    <3>3. QED
      BY <1>2, <1>4, <1>7, <2>1, <3>1, <3>2 DEF StillTrue, StageTypeOK
  <2>4. QED
    BY <1>1, <1>2, <1>6, <2>1, <2>2, <2>3, OthersFit
<1>9. RequestFits(r)'
  <2>1. StageTypeOK(r)' /\ LastCheck(r)' /\ StillTrue(r)'
    BY <1>5 DEF StageTypeOK, LastCheck, StillTrue
  <2>2. Kind[r] = "members"
    BY KnownAgents DEF StageTypeOK
  <2>3. c \in 0 .. created'
    BY <1>1
  <2>4. ChatOfRequest(r)'
    BY <1>5, <2>2, <2>3 DEF ChatOfRequest
  <2>5. QED
    BY <2>1, <2>4 DEF RequestFits
<1>10. ChatsOK'
  <2>1. \A d \in DOMAIN chats' : chats'[d] \in Chat
    BY <1>2 DEF ChatsInv, ChatsOK
  <2>2. ASSUME NEW d \in DOMAIN chats', NEW e \in DOMAIN chats', chats'[d].members = {},
               chats'[e].members = {}, chats'[d].of = chats'[e].of
        PROVE  d = e
    BY <1>2, <1>6, <2>2 DEF ChatsInv, ChatsOK
  <2>3. QED
    BY <1>1, <1>2, <2>1, <2>2 DEF ChatsOK
<1>11. ChatsNameAgents'
  <2>1. ASSUME NEW d \in DOMAIN chats'
        PROVE  chats'[d].of \in agents /\ (d \notin raced' => chats'[d].members \subseteq agents)
    <3>1. CASE d = c
      BY <1>1, <1>2, <3>1 DEF Guarded, Chat
    <3>2. CASE d # c
      BY <1>2, <1>4, <3>2 DEF ChatsInv, ChatsNameAgents
    <3>3. QED
      BY <3>1, <3>2
  <2>2. QED
    BY <2>1 DEF ChatsNameAgents
<1>12. QED
  BY <1>5, <1>8, <1>9, <1>10, <1>11 DEF ChatsInv

LEMMA WriteMembersKeeps ==
  ASSUME ChatsInv, NEW r \in Requests, WriteMembers(r) PROVE ChatsInv'
<1> DEFINE c == request[r].chat
<1>1. Kind[r] = "members" /\ request[r].stage = "write"
  BY KnownAgents DEF WriteMembers, StageTypeOK
<1>2. CASE c \notin DOMAIN chats /\ Refuse(r) /\ UNCHANGED <<chats, raced>>
  BY <1>1, <1>2, EndJobStep DEF WriteMembers, Refuse, Ended
<1>3. CASE c \in DOMAIN chats /\ To(r, "failed", c) /\ UNCHANGED <<chats, raced>>
  BY <1>1, <1>3, EndJobStep DEF WriteMembers, Ended
<1>4. CASE /\ c \in DOMAIN chats /\ Guarded([chats[c] EXCEPT !.members = With[r]])
           /\ chats' = [chats EXCEPT ![c] = [chats[c] EXCEPT !.members = With[r]]]
           /\ raced' = Racing(c, [chats[c] EXCEPT !.members = With[r]])
           /\ ToDisturbing(r, "done", c, Deletions(With[r]))
  BY <1>1, <1>4, MembersWritten DEF WriteMembers
<1>5. QED
  BY <1>2, <1>3, <1>4 DEF WriteMembers

\* A chat that has messages, or none, names whom it named.
LEMMA ToldChanges ==
  ASSUME ChatsInv, NEW c \in DOMAIN chats, NEW told \in BOOLEAN, UNCHANGED <<agents, created, raced>>,
         chats' = [chats EXCEPT ![c].told = told]
  PROVE  SameChats
<1>1. \A d \in DOMAIN chats : chats[d] \in Chat
  BY DEF ChatsInv, ChatsOK
<1>2. QED
  BY <1>1 DEF SameChats, Chat

\* A message is stored.
LEMMA StoreKeeps ==
  ASSUME ChatsInv, NEW r \in Requests, StoreMessage(r) PROVE ChatsInv'
<1> DEFINE c == request[r].chat
<1>1. /\ request[r].stage = "store" /\ Kind[r] = "append" /\ created \in Nat /\ c \in 0 .. created
      /\ UNCHANGED <<agents, created, raced>> /\ request \in [Requests -> RequestStates]
      /\ ~request[r].disturbed => c \in DOMAIN chats
  BY KnownAgents DEF StoreMessage, StageTypeOK, StillTrue, ChatsInv
<1>2. CASE c \notin DOMAIN chats /\ To(r, "failed", c) /\ UNCHANGED chats
  BY <1>1, <1>2, EndJobStep DEF Ended
<1>3. CASE c \in DOMAIN chats /\ chats' = [chats EXCEPT ![c].told = TRUE] /\ To(r, "touch", c)
  <2>1. SameChats
    BY <1>1, <1>3, ToldChanges
  <2>2. "touch" \in RequestStages /\ c \in Nat
    BY <1>1, UpTo DEF RequestStages
  <2>3. /\ request' \in [Requests -> RequestStates]
        /\ request'[r].stage = "touch" /\ request'[r].chat = c
        /\ request'[r].disturbed = request[r].disturbed
        /\ \A s \in Requests \ {r} : request'[s] = request[s]
    BY <1>1, <1>3, <2>2, ToEffect
  <2>4. RequestFits(r)'
    BY <1>1, <1>3, <2>1, <2>3
    DEF RequestFits, StageTypeOK, ChatOfRequest, LastCheck, StillTrue, SameChats
  <2>5. QED
    BY <2>1, <2>3, <2>4, QuietStep
<1>4. QED
  BY <1>2, <1>3 DEF StoreMessage

\* The touch of a chat fails when it is gone, or names an agent that is.
LEMMA TouchKeeps ==
  ASSUME ChatsInv, NEW r \in Requests, Touch(r) PROVE ChatsInv'
<1> DEFINE c == request[r].chat
<1>1. /\ request[r].stage = "touch" /\ Kind[r] = "append"
      /\ UNCHANGED <<agents, chats, created, raced>>
      /\ ~request[r].disturbed => c \in DOMAIN chats
  BY KnownAgents DEF Touch, StageTypeOK, StillTrue
<1>2. PICK stage \in {"done", "failed"} :
        /\ To(r, stage, c)
        /\ stage = "failed" /\ c \in DOMAIN chats => ~Guarded(chats[c])
  BY DEF Touch
<1>3. c \in DOMAIN chats /\ ~Guarded(chats[c]) => c \in raced
  BY DEF ChatsInv, ChatsNameAgents, Guarded
<1>4. stage \in Ended
  BY DEF Ended
<1>5. QED
  BY <1>1, <1>2, <1>3, <1>4, EndJobStep

\* The messages of a chat go first.
LEMMA ClearKeeps ==
  ASSUME ChatsInv, NEW r \in Requests, ClearMessages(r) PROVE ChatsInv'
<1> DEFINE c == request[r].chat
<1>1. /\ request[r].stage = "clear" /\ Kind[r] \in {"delete chat", "delete agent"}
      /\ created \in Nat /\ c \in 0 .. created
      /\ UNCHANGED <<agents, created, raced>> /\ request \in [Requests -> RequestStates]
      /\ ~request[r].disturbed /\ Kind[r] = "delete agent" => Naming(Of[r]) \subseteq {c}
      /\ To(r, "drop", c)
  <2>1. request[r].stage = "clear" /\ UNCHANGED <<agents, created, raced>> /\ To(r, "drop", c)
    BY DEF ClearMessages
  <2>2. request \in [Requests -> RequestStates]
    BY DEF ChatsInv
  <2>3. QED
    BY <2>1, <2>2, KnownAgents DEF StageTypeOK, StillTrue
<1>2. SameChats
  <2>1. CASE c \in DOMAIN chats
    BY <1>1, <2>1, ToldChanges DEF ClearMessages
  <2>2. CASE c \notin DOMAIN chats
    BY <1>1, <2>2, NothingWritten DEF ClearMessages
  <2>3. QED
    BY <2>1, <2>2
<1>3. \A a : Naming(a)' = Naming(a)
  BY <1>2 DEF SameChats, Naming
<1>4. "drop" \in RequestStages /\ c \in Nat
  BY <1>1, UpTo DEF RequestStages
<1>5. /\ request' \in [Requests -> RequestStates]
      /\ request'[r].stage = "drop" /\ request'[r].chat = c
      /\ request'[r].disturbed = request[r].disturbed
      /\ \A s \in Requests \ {r} : request'[s] = request[s]
  BY <1>1, <1>4, ToEffect
<1>6. RequestFits(r)'
  BY <1>1, <1>2, <1>3, <1>5
  DEF RequestFits, StageTypeOK, ChatOfRequest, LastCheck, StillTrue, SameChats
<1>7. QED
  BY <1>2, <1>5, <1>6, QuietStep
\* A chat goes: who used it or opened it is disturbed.
LEMMA DropKeeps ==
  ASSUME ChatsInv, NEW r \in Requests, DropChat(r) PROVE ChatsInv'
<1> DEFINE c == request[r].chat
           Others == UsersOf(c) \cup (IF c \in DOMAIN chats THEN Openings(chats[c].of) ELSE {})
<1>1. /\ request[r].stage = "drop" /\ Kind[r] \in {"delete chat", "delete agent"}
      /\ created \in Nat /\ c \in 0 .. created /\ request \in [Requests -> RequestStates]
      /\ ~request[r].disturbed /\ Kind[r] = "delete agent" => Naming(Of[r]) \subseteq {c}
  <2>1. request[r].stage = "drop" /\ request \in [Requests -> RequestStates]
    BY DEF DropChat, ChatsInv
  <2>2. QED
    BY <2>1, KnownAgents DEF StageTypeOK, StillTrue
<1>2. /\ UNCHANGED <<agents, created, raced>> /\ chats' = [d \in DOMAIN chats \ {c} |-> chats[d]]
  BY DEF DropChat, Restrict
<1>3. PICK stage \in {"check", "done"} :
        /\ ToDisturbing(r, stage, c, Others)
        /\ stage = "check" <=> Kind[r] = "delete agent"
  BY DEF DropChat
<1>4. stage \in RequestStages /\ c \in Nat
  BY <1>1, UpTo DEF RequestStages, Ended
<1>5. /\ request' \in [Requests -> RequestStates]
      /\ request'[r].stage = stage /\ request'[r].chat = c
      /\ request'[r].disturbed = request[r].disturbed /\ Disturbs(r, Others)
  BY <1>1, <1>3, <1>4, ToDisturbingEffect
<1>6. /\ DOMAIN chats' = DOMAIN chats \ {c} /\ \A d \in DOMAIN chats' : chats'[d] = chats[d]
      /\ chats' = [d \in DOMAIN chats' |-> chats'[d]]
  BY <1>2
<1>7. \A a : Own(a)' = Own(a) \ {c} /\ Naming(a)' = Naming(a) \ {c}
  BY <1>6 DEF Own, Naming
<1>8. ASSUME NEW s \in Requests \ {r} PROVE RequestFits(s)'
  <2>1. /\ request'[s].stage = request[s].stage /\ request'[s].chat = request[s].chat
        /\ ~request'[s].disturbed => ~request[s].disturbed /\ (s \in Others => ~UnderWay(s))
    BY <1>5 DEF Disturbs
  <2>2. LastCheck(s)'
    <3>1. LastCheck(s)
      BY KnownAgents
    <3>2. QED
      BY <1>2, <1>6, <2>1, <3>1 DEF LastCheck
  <2>3. ASSUME ~request'[s].disturbed PROVE StillTrue(s)'
    <3>1. StillTrue(s) /\ StageTypeOK(s) /\ (s \in Others => ~UnderWay(s))
      BY <2>1, <2>3, KnownAgents
    <3>2. request[s].stage \in {"store", "touch", "count"} => request[s].chat # c
      BY <3>1 DEF UsersOf, UnderWay, Ended
    <3>3. request[s].stage = "find again" => c \notin Own(Of[s])
      <4>1. ASSUME request[s].stage = "find again", c \in Own(Of[s]) PROVE FALSE
        <5>1. Kind[s] = "open" /\ c \in DOMAIN chats /\ Of[s] = chats[c].of
          BY <3>1, <4>1 DEF StageTypeOK, Own
        <5>2. s \in Others
          BY <5>1 DEF Openings, Requesting
        <5>3. QED
          BY <3>1, <4>1, <5>2 DEF UnderWay, Ended
      <4>2. QED
        BY <4>1
    <3>4. QED
      BY <1>2, <1>6, <1>7, <2>1, <3>1, <3>2, <3>3, ZenonT(30) DEF StillTrue
  <2>4. QED
    <3>0. created' = created
      BY <1>2
    <3>1. created' \in Nat /\ created <= created'
      <4>1. created \in Nat
        BY <1>1
      <4>2. QED
        BY <3>0, <4>1
    <3>2. QED
      BY <1>6, <2>1, <2>2, <2>3, <3>1, OthersFit
<1>9. RequestFits(r)'
  <2>1. StageTypeOK(r)' /\ LastCheck(r)'
    BY <1>1, <1>3, <1>5 DEF StageTypeOK, LastCheck
  <2>2. ChatOfRequest(r)'
    BY <1>1, <1>2, <1>5, <1>6 DEF ChatOfRequest
  <2>3. ~request[r].disturbed => StillTrue(r)'
    BY <1>1, <1>3, <1>5, <1>7 DEF StillTrue
  <2>4. QED
    BY <1>5, <2>1, <2>2, <2>3 DEF RequestFits
<1>10. ChatsOK' /\ ChatsNameAgents'
  BY <1>2, <1>6 DEF ChatsInv, ChatsOK, ChatsNameAgents
<1>11. QED
  BY <1>5, <1>8, <1>9, <1>10 DEF ChatsInv

\* The last look before an agent is deleted.
LEMMA DeleteChecksKeeps ==
  ASSUME ChatsInv, NEW r \in Requests, DeleteChecks(r) PROVE ChatsInv'
<1> DEFINE c == request[r].chat
<1>1. /\ request[r].stage = "check" /\ Kind[r] = "delete agent"
      /\ UNCHANGED <<agents, chats, created, raced>>
      /\ ~request[r].disturbed => Naming(Of[r]) = {}
  BY KnownAgents DEF DeleteChecks, StageTypeOK, StillTrue
<1>2. PICK stage \in {"done", "failed", "delete"} :
        /\ To(r, stage, c)
        /\ stage = "failed" => Naming(Of[r]) # {}
        /\ stage = "delete" => Naming(Of[r]) = {}
  BY DEF DeleteChecks
<1>3. CASE stage \in {"done", "failed"}
  BY <1>1, <1>2, <1>3, EndJobStep DEF Ended
<1>4. CASE stage = "delete"
  <2>1. request \in [Requests -> RequestStates] /\ created \in Nat /\ c \in 0 .. created
    BY KnownAgents DEF ChatsInv
  <2>2. stage \in RequestStages /\ c \in Nat
    BY <1>4, <2>1, UpTo DEF RequestStages
  <2>3. StageTypeOK(r)'
    BY <1>1, <1>2, <1>4, <2>1, <2>2, StageFits
  <2>4. QED
    BY <1>1, <1>2, <1>4, <2>1, <2>2, <2>3, ReadStep
<1>5. QED
  BY <1>3, <1>4

\* An agent goes: no chat is its own, and those it is a member of were written since.
LEMMA DeleteAgentKeeps ==
  ASSUME ChatsInv, NEW r \in Requests, DeleteAgent(r) PROVE ChatsInv'
<1> DEFINE c == request[r].chat
           Others == Openings(Of[r])
<1>1. /\ request[r].stage = "delete" /\ Kind[r] = "delete agent"
      /\ UNCHANGED <<chats, created, raced>> /\ LastCheck(r)
      /\ ~request[r].disturbed => Naming(Of[r]) = {}
  BY KnownAgents DEF DeleteAgent, StageTypeOK, StillTrue
<1>2. CASE Restricted(Of[r]) /\ To(r, "failed", c) /\ UNCHANGED agents
  <2>1. Naming(Of[r]) # {}
    BY <1>2 DEF Restricted, Naming
  <2>2. QED
    BY <1>1, <1>2, <2>1, EndJobStep DEF Ended
<1>3. CASE /\ ~Restricted(Of[r]) /\ agents' = agents \ {Of[r]}
           /\ ToDisturbing(r, "done", c, Others)
  <2>1. request \in [Requests -> RequestStates] /\ created \in Nat /\ c \in 0 .. created
    BY KnownAgents DEF ChatsInv
  <2>2. "done" \in RequestStages /\ c \in Nat
    BY <2>1, UpTo DEF RequestStages, Ended
  <2>3. /\ request' \in [Requests -> RequestStates]
        /\ request'[r].stage = "done" /\ request'[r].chat = c
        /\ Disturbs(r, Others)
    BY <1>3, <2>1, <2>2, ToDisturbingEffect
  <2>4. \A a : Own(a)' = Own(a) /\ Naming(a)' = Naming(a)
    BY <1>1 DEF Own, Naming
  <2>5. ASSUME NEW s \in Requests \ {r} PROVE RequestFits(s)'
    <3>1. /\ request'[s].stage = request[s].stage /\ request'[s].chat = request[s].chat
          /\ ~request'[s].disturbed => ~request[s].disturbed /\ (s \in Others => ~UnderWay(s))
      BY <2>3 DEF Disturbs
    <3>2. LastCheck(s)'
      <4>1. LastCheck(s)
        BY KnownAgents
      <4>2. QED
        BY <1>1, <3>1, <4>1 DEF LastCheck
    <3>3. ASSUME ~request'[s].disturbed PROVE StillTrue(s)'
      <4>1. StillTrue(s) /\ StageTypeOK(s) /\ (s \in Others => ~UnderWay(s))
        BY <3>1, <3>3, KnownAgents
      <4>2. Kind[s] = "open" /\ request[s].stage \in {"find", "insert"} => Of[s] # Of[r]
        BY <4>1 DEF Openings, Requesting, UnderWay, Ended
      <4>3. QED
        BY <1>1, <1>3, <2>4, <3>1, <4>1, <4>2 DEF StillTrue
    <3>4. QED
      <4>0. created' = created
        BY <1>1
      <4>1. created' \in Nat /\ created <= created'
        BY <2>1, <4>0
      <4>2. QED
        BY <1>1, <3>1, <3>2, <3>3, <4>1, OthersFit
  <2>6. RequestFits(r)'
    <3>1. StageTypeOK(r)' /\ LastCheck(r)' /\ StillTrue(r)'
      BY <2>3 DEF StageTypeOK, LastCheck, StillTrue
    <3>2. ChatOfRequest(r)'
      BY <1>1, <2>1, <2>3 DEF ChatOfRequest
    <3>3. QED
      BY <3>1, <3>2 DEF RequestFits
  <2>7. ChatsOK'
    BY <1>1 DEF ChatsInv, ChatsOK
  <2>8. ChatsNameAgents'
    BY <1>1, <1>3 DEF ChatsInv, ChatsNameAgents, Restricted, LastCheck
  <2>9. QED
    BY <2>3, <2>5, <2>6, <2>7, <2>8 DEF ChatsInv
<1>4. QED
  BY <1>2, <1>3 DEF DeleteAgent

-----------------------------------------------------------------------------
\* A request that has not been made relies on nothing.
LEMMA NewRequestFits ==
  ASSUME NEW r \in Requests, request[r].stage = "out", request[r].chat = 0, created \in Nat,
         DOMAIN chats \subseteq 1 .. created
  PROVE  RequestFits(r)
<1>1. 0 \in 0 .. created /\ 0 \notin DOMAIN chats
  OBVIOUS
<1>2. StageTypeOK(r) /\ LastCheck(r) /\ StillTrue(r)
  BY DEF StageTypeOK, LastCheck, StillTrue
<1>3. ChatOfRequest(r)
  BY <1>1 DEF ChatOfRequest
<1>4. QED
  BY <1>2, <1>3 DEF RequestFits

\* At first there is no chat, or an agent's own and a group's, and no request.
LEMMA ChatsStart == AgentChatsInit => ChatsInv
<1> SUFFICES ASSUME AgentChatsInit PROVE ChatsInv
  OBVIOUS
<1>1. request \in [Requests -> RequestStates] /\ \A r \in Requests : request[r].stage = "out"
      /\ request[r].chat = 0
  BY DEF AgentChatsInit, RequestStates, RequestStages, NoChat
<1>2. CASE chats = <<>>
  <2>1. DOMAIN chats = {} /\ created = 0 /\ chats = [c \in DOMAIN chats |-> chats[c]]
    BY <1>2, FS_EmptySet DEF AgentChatsInit
  <2>2. ChatsOK /\ ChatsNameAgents
    BY <2>1 DEF ChatsOK, ChatsNameAgents
  <2>3. \A r \in Requests : RequestFits(r)
    BY <1>1, <2>1, NewRequestFits
  <2>4. QED
    BY <1>1, <2>2, <2>3 DEF ChatsInv
<1>3. ASSUME NEW a \in Agents, NEW b \in Agents, a # b,
             chats = << [of |-> a, members |-> {}, told |-> TRUE],
                        [of |-> a, members |-> {b}, told |-> TRUE] >>
      PROVE  ChatsInv
  <2>1. DOMAIN chats = 1 .. 2 /\ chats = [c \in DOMAIN chats |-> chats[c]]
        /\ chats[1] = [of |-> a, members |-> {}, told |-> TRUE]
        /\ chats[2] = [of |-> a, members |-> {b}, told |-> TRUE]
    BY <1>3
  <2>2. created = 2
    <3>1. Cardinality(1 .. 2) = 2
      BY FirstNumbers
    <3>2. QED
      BY <2>1, <3>1 DEF AgentChatsInit
  <2>3. ChatsOK
    <3>1. \A c \in DOMAIN chats : c = 1 \/ c = 2
      BY <2>1
    <3>2. \A c \in DOMAIN chats : chats[c] \in Chat
      <4>1. chats[1] \in Chat /\ chats[2] \in Chat
        BY <1>3, <2>1 DEF Chat
      <4>2. QED
        BY <3>1, <4>1
    <3>3. \A c \in DOMAIN chats : chats[c].members = {} => c = 1
      BY <2>1, <3>1
    <3>4. created \in Nat /\ DOMAIN chats \subseteq 1 .. created
      BY <2>1, <2>2
    <3>5. QED
      BY <2>1, <3>2, <3>3, <3>4 DEF ChatsOK
  <2>4. ChatsNameAgents
    <3>1. \A c \in DOMAIN chats : chats[c].of = a /\ chats[c].members \subseteq {b}
      <4>1. \A c \in DOMAIN chats : c = 1 \/ c = 2
        BY <2>1
      <4>2. QED
        BY <2>1, <4>1
    <3>2. QED
      BY <3>1 DEF ChatsNameAgents, AgentChatsInit
  <2>5. \A r \in Requests : RequestFits(r)
    <3>1. created \in Nat /\ DOMAIN chats \subseteq 1 .. created
      BY <2>3 DEF ChatsOK
    <3>2. QED
      BY <1>1, <3>1, NewRequestFits
  <2>6. QED
    BY <1>1, <2>3, <2>4, <2>5 DEF ChatsInv
<1>4. QED
  BY <1>2, <1>3 DEF AgentChatsInit

\* Every step keeps the invariant.
LEMMA ChatsStep == ChatsInv /\ [AgentChatsNext]_chatsVars => ChatsInv'
<1> SUFFICES ASSUME ChatsInv, [AgentChatsNext]_chatsVars PROVE ChatsInv'
  OBVIOUS
<1>1. CASE UNCHANGED chatsVars
  <2>1. UNCHANGED <<agents, chats, created, raced>> /\ request' = request
    BY <1>1 DEF chatsVars
  <2>2. \A a : Own(a)' = Own(a) /\ Naming(a)' = Naming(a)
    BY <2>1 DEF Own, Naming
  <2>3. ChatsOK' /\ ChatsNameAgents'
    BY <2>1 DEF ChatsInv, ChatsOK, ChatsNameAgents
  <2>4. ASSUME NEW r \in Requests PROVE RequestFits(r)'
    <3>1. StageTypeOK(r)' /\ LastCheck(r)' /\ ChatOfRequest(r)'
      BY <2>1, <2>2, KnownAgents DEF StageTypeOK, LastCheck, ChatOfRequest
    <3>2. ~request[r].disturbed => StillTrue(r)'
      BY <2>1, <2>2, KnownAgents DEF StillTrue
    <3>3. QED
      BY <2>1, <3>1, <3>2 DEF RequestFits
  <2>5. QED
    BY <2>1, <2>3, <2>4 DEF ChatsInv
<1>2. QED
  BY <1>1, AskKeeps, OpenFindsKeeps, InsertChatKeeps, OpenFindsAgainKeeps, WriteMembersKeeps,
     StoreKeeps, TouchKeeps, DeleteFindsKeeps, DeleteCountsKeeps, ClearKeeps, DropKeeps,
     DeleteChecksKeeps, DeleteAgentKeeps
  DEF AgentChatsNext

\* Whoever opened the chat of an agent, they hold the same one (ensureAgentChat and
\* chats_agent_direct_uidx), however requests overlap.
THEOREM AgentsHaveOneChat == AgentChatsSpec => []OneChatEach
<1>1. ChatsInv => OneChatEach
  <2>1. SUFFICES ASSUME ChatsInv, NEW r \in Requesting("open"), NEW s \in Requesting("open"),
                        Of[r] = Of[s], request[r].stage = "done", request[s].stage = "done",
                        request[r].chat \in DOMAIN chats, request[s].chat \in DOMAIN chats
                 PROVE  request[r].chat = request[s].chat
    BY DEF OneChatEach
  <2>2. request[r].chat \in Own(Of[r]) /\ request[s].chat \in Own(Of[r])
    BY <2>1, KnownAgents DEF ChatOfRequest, Requesting
  <2>3. \A c, d \in Own(Of[r]) : c = d
    BY <2>1 DEF ChatsInv, ChatsOK, Own
  <2>4. QED
    BY <2>2, <2>3
<1>2. QED
  BY <1>1, ChatsStart, ChatsStep, PTL DEF AgentChatsSpec

\* A chat names agents that exist, but for one that was written between the last
\* check and the deletion of a member (agents.delete against chats_same_owner).
THEOREM ChatsNameWhoExists == AgentChatsSpec => []ChatsNameAgents
<1>1. ChatsInv => ChatsNameAgents
  BY DEF ChatsInv
<1>2. QED
  BY <1>1, ChatsStart, ChatsStep, PTL DEF AgentChatsSpec

\* Openings, deletions of agents and messages fail because of a deletion or a write
\* that came between their statements, and for no other reason.
THEOREM FailuresHaveReasons == AgentChatsSpec => []RequestsFailForAReason
<1>1. ChatsInv => RequestsFailForAReason
  <2>1. SUFFICES ASSUME ChatsInv, NEW r \in Requests, request[r].stage = "failed"
                 PROVE  /\ Kind[r] \in {"open", "delete agent"} => request[r].disturbed
                        /\ Kind[r] = "append" => request[r].disturbed \/ request[r].chat \in raced
    BY DEF RequestsFailForAReason
  <2>2. QED
    BY <2>1, KnownAgents DEF StillTrue
<1>2. QED
  BY <1>1, ChatsStart, ChatsStep, PTL DEF AgentChatsSpec

\* Agents and chats stay together, for every set of agents, chats and requests.
THEOREM ChatsHold == AgentChatsSpec => []ChatsStayTogether
BY AgentsHaveOneChat, ChatsNameWhoExists, FailuresHaveReasons, PTL DEF ChatsStayTogether

\* No more chats and agents than there are.
ChatBounds == agents \subseteq Agents /\ created \in 0 .. MaxChats /\ raced \subseteq ChatIds

LEMMA ChatBoundsKept ==
  ASSUME ChatsInv, ChatBounds, [AgentChatsNext]_chatsVars PROVE ChatBounds'
<1>1. created \in Nat /\ MaxChats \in Nat /\ DOMAIN chats \subseteq 1 .. created
  BY AgentChatsBoundsAssumption DEF ChatsInv, ChatsOK
<1>2. ASSUME UNCHANGED <<created, raced>>, agents' \subseteq agents PROVE ChatBounds'
  BY <1>2 DEF ChatBounds
<1>3. ASSUME NEW c \in ChatIds, NEW chat PROVE Racing(c, chat) \subseteq ChatIds
  BY <1>3 DEF Racing, ChatBounds
<1>4. ASSUME NEW r \in Requests, NEW chat, Insert(r, chat) PROVE ChatBounds'
  <2>1. /\ created < MaxChats /\ created' = created + 1 /\ agents' = agents
        /\ raced' = Racing(created + 1, chat)
    BY <1>4 DEF Insert
  <2>2. created' \in 0 .. MaxChats /\ created + 1 \in ChatIds
    BY <1>1, <2>1 DEF ChatIds
  <2>3. QED
    BY <1>3, <2>1, <2>2 DEF ChatBounds
<1>5. ASSUME NEW r \in Requests, InsertChat(r) PROVE ChatBounds'
  BY <1>2, <1>4, <1>5 DEF InsertChat
<1>6. ASSUME NEW r \in Requests, WriteMembers(r) PROVE ChatBounds'
  <2> DEFINE c == request[r].chat
             chat == [chats[c] EXCEPT !.members = With[r]]
  <2>1. UNCHANGED <<agents, created>>
        /\ (raced' = raced \/ (c \in DOMAIN chats /\ raced' = Racing(c, chat)))
    BY <1>6 DEF WriteMembers
  <2>2. c \in DOMAIN chats => c \in ChatIds
    BY <1>1 DEF ChatIds, ChatBounds
  <2> HIDE DEF c, chat
  <2>3. raced' \subseteq ChatIds
    BY <1>3, <2>1, <2>2 DEF ChatBounds
  <2>4. QED
    BY <2>1, <2>3 DEF ChatBounds
<1>7. ASSUME NEW r \in Requests, DeleteAgent(r) PROVE ChatBounds'
  BY <1>2, <1>7 DEF DeleteAgent
<1>8. ASSUME NEW r \in Requests,
             \/ Ask(r) \/ OpenFinds(r) \/ OpenFindsAgain(r) \/ StoreMessage(r) \/ Touch(r)
             \/ DeleteFinds(r) \/ DeleteCounts(r) \/ ClearMessages(r) \/ DropChat(r) \/ DeleteChecks(r)
      PROVE  ChatBounds'
  BY <1>2, <1>8 DEF Ask, OpenFinds, OpenFindsAgain, StoreMessage, Touch, DeleteFinds, DeleteCounts,
                    ClearMessages, DropChat, DeleteChecks
<1>9. CASE UNCHANGED chatsVars
  BY <1>2, <1>9 DEF chatsVars
<1>10. QED
  BY <1>5, <1>6, <1>7, <1>8, <1>9 DEF AgentChatsNext

LEMMA ChatBoundsStart == AgentChatsInit => ChatBounds
<1> SUFFICES ASSUME AgentChatsInit PROVE ChatBounds
  OBVIOUS
<1>1. MaxChats \in Nat /\ MaxChats >= 2
  BY AgentChatsBoundsAssumption
<1>2. created = Cardinality(DOMAIN chats) /\ agents = Agents /\ raced = {}
  BY DEF AgentChatsInit
<1>3. created \in 0 .. 2
  <2>1. CASE chats = <<>>
    <3>1. DOMAIN chats = {}
      BY <2>1
    <3>2. QED
      BY <1>2, <3>1, FS_EmptySet
  <2>2. CASE chats # <<>>
    <3>1. DOMAIN chats = 1 .. 2
      BY <2>2 DEF AgentChatsInit
    <3>2. Cardinality(1 .. 2) = 2
      BY FirstNumbers
    <3>3. QED
      BY <1>2, <3>1, <3>2
  <2>3. QED
    BY <2>1, <2>2
<1>4. QED
  BY <1>1, <1>2, <1>3 DEF ChatBounds

\* Agents, chats and requests are well typed, for every set of agents and requests.
THEOREM ChatTypesHold == AgentChatsSpec => []AgentChatsTypeOK
<1>1. ASSUME ChatsInv, ChatBounds PROVE AgentChatsTypeOK
  <2>1. created \in Nat /\ MaxChats \in Nat /\ created <= MaxChats
    BY <1>1, AgentChatsBoundsAssumption DEF ChatsInv, ChatsOK, ChatBounds
  <2>2. DOMAIN chats \subseteq ChatIds /\ \A c \in DOMAIN chats : chats[c] \in Chat
    BY <1>1, <2>1 DEF ChatsInv, ChatsOK, ChatIds
  <2>3. \A r \in Requests : request[r].chat \in ChatIds \cup {NoChat}
    BY <1>1, <2>1, KnownAgents DEF ChatIds, NoChat
  <2>4. request \in [Requests -> [stage : RequestStages, chat : ChatIds \cup {NoChat},
                                  disturbed : BOOLEAN]]
    BY <1>1, <2>3 DEF ChatsInv, RequestStates
  <2>5. QED
    BY <1>1, <2>2, <2>4 DEF AgentChatsTypeOK, ChatBounds, RequestStages
<1>2. ChatsInv /\ ChatBounds /\ [AgentChatsNext]_chatsVars => ChatBounds'
  BY ChatBoundsKept
<1>3. QED
  BY <1>1, <1>2, ChatBoundsStart, ChatsStart, ChatsStep, PTL DEF AgentChatsSpec

-----------------------------------------------------------------------------
(***************************************************************************)
(* SettingsCache: every process comes to see the last settings, and an     *)
(* update that no other overlapped is not lost.                            *)
(***************************************************************************)

\* What a process has in its cache, or a read is about to put there, is what the rows
\* hold, if it was read after the last step of an update.
CacheOK(p) ==
  cache[p] # Nothing => /\ cache[p].at <= clock
                        /\ cache[p].at > quietSince => cache[p].value = Normalize(settings)
CacheReadOK(c) ==
  call[c].stage \in {"reading", "read"} =>
    /\ call[c].stamp <= clock
    /\ call[c].stage = "read" /\ call[c].stamp > quietSince => call[c].value = Normalize(settings)

\* An update that no other has met will write what it sets and what was kept, and has
\* done so for the keys that are not left.
ToWrite(c) == {call[c].left[i] : i \in DOMAIN call[c].left}
AloneOK(c) ==
  call[c].stage = "writing" /\ call[c].alone =>
    /\ Writing = {c}
    /\ \A k \in Settings :
         /\ k \in DOMAIN Patch[c] => call[c].value[k] = Clamp(Patch[c][k])
         /\ k \notin DOMAIN Patch[c] /\ kept[k] # Anything => call[c].value[k] = kept[k]
         /\ k \notin ToWrite(c) => settings[k] = call[c].value[k]

\* A call that writes has a patch without wrong values.
PatchOK(c) == call[c].stage = "writing" => c \in Updates /\ ~Throws(Patch[c])

SettingsInv ==
  /\ SettingsTypeOK /\ quietSince <= clock
  /\ \A p \in Processes : CacheOK(p)
  /\ \A c \in Calls : CacheReadOK(c) /\ AloneOK(c) /\ PatchOK(c)
  /\ UpdatesAreKept

-----------------------------------------------------------------------------
\* The constants.
LEMMA Bounds ==
  /\ MaxTime \in Nat /\ MaxRestarts \in Nat /\ CacheTime \in Nat
  /\ Lowest \in Nat /\ Highest \in Nat /\ Lowest <= Highest
  /\ Wrong \notin Nat /\ Anything \notin Nat
BY SettingsBoundsAssumption, SettingsValuesAssumption

\* What is clamped is in range; what is in range stays.
LEMMA Clamped ==
  /\ \A v \in Values \ {Wrong} : Clamp(v) \in InRange
  /\ \A v \in InRange : Clamp(v) = v /\ v # Wrong /\ v \in Values /\ v # Anything
BY Bounds DEF Clamp, Values, InRange

LEMMA Normalized ==
  ASSUME settings \in [Settings -> Values]
  PROVE  /\ Normalize(settings) \in Value
         /\ \A k \in Settings : settings[k] \in InRange => Normalize(settings)[k] = settings[k]
<1>1. Defaults \in [Settings -> InRange]
  BY SettingsValuesAssumption
<1>2. \A k \in Settings : settings[k] # Wrong => Clamp(settings[k]) \in InRange
  BY Clamped
<1>3. QED
  BY <1>1, <1>2, Clamped DEF Normalize, Value

\* A call that holds nothing.
LEMMA IdleTyped ==
  ASSUME NEW stage \in {"out", "reading", "read", "writing", "done"}
  PROVE  /\ Idle(stage) \in [stage : {"out", "reading", "read", "writing", "done"},
                             stamp : 0 .. MaxTime, value : Value, left : Seq(Settings),
                             alone : BOOLEAN]
         /\ Idle(stage).stage = stage
BY Bounds, SettingsValuesAssumption DEF Idle, Value

\* At the start nothing is cached and no call is made.
LEMMA SettingsStart == SettingsInit => SettingsInv
<1> SUFFICES ASSUME SettingsInit PROVE SettingsInv
  OBVIOUS
<1>1. SettingsTypeOK
  <2>1. Stored \in [Settings -> Values]
    BY SettingsValuesAssumption
  <2>2. QED
    BY <2>1, Bounds, IdleTyped DEF SettingsInit, SettingsTypeOK
<1>2. \A c \in Calls : call[c].stage = "out"
  BY IdleTyped DEF SettingsInit
<1>3. QED
  BY <1>1, <1>2, Bounds
  DEF SettingsInit, SettingsInv, CacheOK, CacheReadOK, AloneOK, PatchOK, UpdatesAreKept
SettingsCallStates == [stage : {"out", "reading", "read", "writing", "done"},
               stamp : 0 .. MaxTime, value : Value, left : Seq(Settings), alone : BOOLEAN]

\* What the invariant says of types.
LEMMA SettingsTyped ==
  ASSUME SettingsInv
  PROVE  /\ settings \in [Settings -> Values] /\ call \in [Calls -> SettingsCallStates]
         /\ cache \in [Processes -> {Nothing} \cup [at : 0 .. MaxTime, value : Value]]
         /\ clock \in 0 .. MaxTime /\ quietSince \in 0 .. MaxTime /\ quietSince <= clock
         /\ clock \in Nat /\ quietSince \in Nat
         /\ kept \in [Settings -> InRange \cup {Anything}] /\ restarts \in 0 .. MaxRestarts
<1>1. clock \in 0 .. MaxTime /\ quietSince \in 0 .. MaxTime
  BY DEF SettingsInv, SettingsTypeOK
<1>2. clock \in Nat /\ quietSince \in Nat
  BY <1>1, Bounds
<1>3. QED
  BY <1>1, <1>2 DEF SettingsInv, SettingsTypeOK, SettingsCallStates

\* A step of a read: no update is touched.
LEMMA ReadStepKeeps ==
  ASSUME SettingsInv, NEW c \in Reads, NEW became \in SettingsCallStates,
         call[c].stage # "writing", became.stage # "writing",
         call' = [call EXCEPT ![c] = became],
         UNCHANGED <<settings, clock, restarts, quietSince, kept>>,
         cache' \in [Processes -> {Nothing} \cup [at : 0 .. MaxTime, value : Value]],
         \A p \in Processes : CacheOK(p)', CacheReadOK(c)'
  PROVE  SettingsInv'
<1>1. c \in Calls
  BY DEF Reads
<1>2. call' \in [Calls -> SettingsCallStates] /\ call'[c] = became /\ \A d \in Calls \ {c} : call'[d] = call[d]
  BY <1>1, SettingsTyped
<1>3. SettingsTypeOK'
  BY <1>2, SettingsTyped DEF SettingsTypeOK, SettingsCallStates
<1>4. Writing' = Writing
  BY <1>2 DEF Writing, Updates
<1>5. ASSUME NEW d \in Calls PROVE CacheReadOK(d)' /\ AloneOK(d)' /\ PatchOK(d)'
  <2>1. CASE d = c
    BY <1>2, <2>1 DEF AloneOK, PatchOK
  <2>2. CASE d # c
    <3>1. call'[d] = call[d] /\ CacheReadOK(d) /\ AloneOK(d) /\ PatchOK(d)
      BY <1>2, <2>2 DEF SettingsInv
    <3>2. CacheReadOK(d)' /\ PatchOK(d)'
      BY <3>1 DEF CacheReadOK, PatchOK, Normalize
    <3>3. AloneOK(d)'
      BY <1>4, <3>1 DEF AloneOK, ToWrite
    <3>4. QED
      BY <3>2, <3>3
  <2>3. QED
    BY <2>1, <2>2
<1>6. UpdatesAreKept'
  BY <1>4 DEF SettingsInv, UpdatesAreKept
<1>7. QED
  BY <1>3, <1>5, <1>6 DEF SettingsInv

\* A cache that is not touched by a step that writes no row.
LEMMA CacheUntouched ==
  ASSUME SettingsInv, UNCHANGED <<settings, cache, clock, quietSince>>, NEW p \in Processes
  PROVE  CacheOK(p)'
BY DEF SettingsInv, CacheOK, Normalize

LEMMA GetKeeps ==
  ASSUME SettingsInv, NEW c \in Calls, Get(c) PROVE SettingsInv'
<1> DEFINE became == IF Fresh(By[c]) THEN Idle("done") ELSE [Idle("reading") EXCEPT !.stamp = clock]
<1>1. /\ c \in Reads /\ call[c].stage = "out" /\ call' = [call EXCEPT ![c] = became]
      /\ UNCHANGED <<settings, cache, clock, restarts, quietSince, kept>>
  BY DEF Get
<1>2. became \in SettingsCallStates /\ became.stage \in {"done", "reading"}
      /\ (became.stage = "reading" => became.stamp = clock)
  BY SettingsTyped, IdleTyped DEF SettingsCallStates
<1> HIDE DEF became
<1>3. call'[c] = became
  BY <1>1, SettingsTyped
<1>4. CacheReadOK(c)'
  BY <1>1, <1>2, <1>3, SettingsTyped DEF CacheReadOK
<1>5. \A p \in Processes : CacheOK(p)'
  BY <1>1, CacheUntouched
<1>6. QED
  BY <1>1, <1>2, <1>4, <1>5, ReadStepKeeps, SettingsTyped

LEMMA ReadRowsKeeps ==
  ASSUME SettingsInv, NEW c \in Calls, ReadRows(c) PROVE SettingsInv'
<1> DEFINE became == [call[c] EXCEPT !.stage = "read", !.value = Normalize(settings)]
<1>1. /\ c \in Reads /\ call[c].stage = "reading" /\ call' = [call EXCEPT ![c] = became]
      /\ UNCHANGED <<settings, cache, clock, restarts, quietSince, kept>>
  BY DEF ReadRows
<1>2. call[c] \in SettingsCallStates /\ Normalize(settings) \in Value
  BY SettingsTyped, Normalized
<1>3. became \in SettingsCallStates /\ became.stage = "read" /\ became.stamp = call[c].stamp
      /\ became.value = Normalize(settings)
  BY <1>2 DEF SettingsCallStates
<1> HIDE DEF became
<1>4. call'[c] = became
  BY <1>1, SettingsTyped
<1>5. CacheReadOK(c)'
  <2>1. call[c].stamp <= clock
    BY <1>1 DEF SettingsInv, CacheReadOK
  <2>2. Normalize(settings)' = Normalize(settings)
    BY <1>1 DEF Normalize
  <2>3. QED
    BY <1>1, <1>3, <1>4, <2>1, <2>2 DEF CacheReadOK
<1>6. \A p \in Processes : CacheOK(p)'
  BY <1>1, CacheUntouched
<1>7. QED
  BY <1>1, <1>3, <1>5, <1>6, ReadStepKeeps, SettingsTyped

\* The cache gets what was read, with the time before the read.
LEMMA GotRowsKeeps ==
  ASSUME SettingsInv, NEW c \in Calls, GotRows(c) PROVE SettingsInv'
<1>1. /\ c \in Reads /\ call[c].stage = "read" /\ call' = [call EXCEPT ![c] = Idle("done")]
      /\ cache' = [cache EXCEPT ![By[c]] = Cached(c)]
      /\ UNCHANGED <<settings, clock, restarts, quietSince, kept>>
  BY DEF GotRows
<1>2. /\ call[c] \in SettingsCallStates /\ By[c] \in Processes
      /\ Idle("done") \in SettingsCallStates /\ Idle("done").stage = "done"
  BY SettingsTyped, IdleTyped, SettingsCallsAssumption DEF SettingsCallStates
<1>3. /\ Cached(c) \in [at : 0 .. MaxTime, value : Value]
      /\ Cached(c).at = call[c].stamp /\ Cached(c).value = call[c].value
  BY <1>2 DEF Cached, SettingsCallStates
<1>4. cache' \in [Processes -> {Nothing} \cup [at : 0 .. MaxTime, value : Value]]
  BY <1>1, <1>2, <1>3, SettingsTyped
<1>5. ASSUME NEW p \in Processes PROVE CacheOK(p)'
  <2>1. Normalize(settings)' = Normalize(settings)
    BY <1>1 DEF Normalize
  <2>2. CASE p = By[c]
    <3>1. cache'[p] = Cached(c)
      BY <1>1, <1>2, <2>2, SettingsTyped
    <3>2. CacheReadOK(c)
      BY DEF SettingsInv
    <3>3. QED
      BY <1>1, <1>3, <2>1, <3>1, <3>2 DEF CacheOK, CacheReadOK
  <2>3. CASE p # By[c]
    <3>1. cache'[p] = cache[p] /\ CacheOK(p)
      BY <1>1, <2>3, SettingsTyped DEF SettingsInv
    <3>2. QED
      BY <1>1, <2>1, <3>1 DEF CacheOK
  <2>4. QED
    BY <2>2, <2>3
<1>6. CacheReadOK(c)'
  BY <1>1, <1>2, SettingsTyped DEF CacheReadOK
<1>7. QED
  BY <1>1, <1>2, <1>4, <1>5, <1>6, ReadStepKeeps, SettingsTyped

\* A step of an update, or of a process: it is the last one, so that nothing cached or
\* read is newer.
LEMMA UpdateStepKeeps ==
  ASSUME SettingsInv, quietSince' = clock, clock' = clock, SettingsTypeOK',
         \A p \in Processes : cache'[p] # Nothing => cache'[p].at <= clock,
         \A c \in Calls : call'[c].stage \in {"reading", "read"} => call'[c] = call[c],
         \A c \in Calls : AloneOK(c)' /\ PatchOK(c)', UpdatesAreKept'
  PROVE  SettingsInv'
<1>1. \A p \in Processes : CacheOK(p)'
  <2>1. SUFFICES ASSUME NEW p \in Processes, cache'[p] # Nothing
                 PROVE  cache'[p].at <= clock' /\ ~(cache'[p].at > quietSince')
    BY DEF CacheOK
  <2>2. cache' \in [Processes -> {Nothing} \cup [at : 0 .. MaxTime, value : Value]]
    BY DEF SettingsTypeOK
  <2>3. cache'[p].at \in 0 .. MaxTime
    BY <2>1, <2>2
  <2>4. QED
    BY <2>1, <2>3, SettingsTyped, Bounds
<1>2. \A c \in Calls : CacheReadOK(c)'
  <2>1. SUFFICES ASSUME NEW c \in Calls, call'[c].stage \in {"reading", "read"}
                 PROVE  call'[c].stamp <= clock' /\ ~(call'[c].stamp > quietSince')
    BY DEF CacheReadOK
  <2>2. call'[c] = call[c] /\ CacheReadOK(c) /\ call[c] \in SettingsCallStates
    BY <2>1, SettingsTyped DEF SettingsInv
  <2>3. call[c].stamp \in 0 .. MaxTime /\ call[c].stamp <= clock
    BY <2>1, <2>2 DEF SettingsCallStates, CacheReadOK
  <2>4. QED
    BY <2>2, <2>3, SettingsTyped, Bounds
<1>3. quietSince' <= clock'
  BY SettingsTyped
<1>4. QED
  BY <1>1, <1>2, <1>3 DEF SettingsInv

\* What was cached before is not from the future.
LEMMA CachedBefore ==
  ASSUME SettingsInv, NEW p \in Processes, cache[p] # Nothing PROVE cache[p].at <= clock
BY DEF SettingsInv, CacheOK
\* A patch without wrong values sets values in range.
LEMMA PatchInRange ==
  ASSUME NEW c \in Calls, ~Throws(Patch[c]), NEW k \in DOMAIN Patch[c]
  PROVE  Clamp(Patch[c][k]) \in InRange
<1>1. Patch[c][k] \in Range(Patch[c])
  BY DEF Range
<1>2. Patch[c][k] \in Values \ {Wrong}
  BY <1>1, SettingsCallsAssumption DEF Throws
<1>3. QED
  BY <1>2, Clamped

\* An update reads the rows and merges its patch into them.
LEMMA ReadToPatchKeeps ==
  ASSUME SettingsInv, NEW c \in Calls, ReadToPatch(c) PROVE SettingsInv'
<1>1. /\ c \in Updates /\ call[c].stage = "out" /\ quietSince' = clock
      /\ UNCHANGED <<settings, cache, clock, restarts, kept>> /\ c \notin Writing
      /\ call[c] \in SettingsCallStates
  BY SettingsTyped DEF ReadToPatch, Writing
<1>2. CASE Throws(Patch[c])
  <2>1. call' = [call EXCEPT ![c] = Idle("done")]
    BY <1>2 DEF ReadToPatch
  <2>2. /\ call' \in [Calls -> SettingsCallStates] /\ call'[c].stage = "done"
        /\ \A d \in Calls \ {c} : call'[d] = call[d]
    BY <2>1, SettingsTyped, IdleTyped DEF SettingsCallStates
  <2>3. Writing' = Writing
    <3>1. \A d \in Updates : call'[d].stage = "writing" <=> call[d].stage = "writing"
      BY <1>1, <2>2 DEF Updates
    <3>2. QED
      BY <3>1 DEF Writing
  <2>4. SettingsTypeOK'
    BY <1>1, <2>2, SettingsTyped DEF SettingsTypeOK, SettingsCallStates
  <2>5. ASSUME NEW d \in Calls PROVE AloneOK(d)' /\ PatchOK(d)'
    BY <1>1, <2>2, <2>3 DEF SettingsInv, AloneOK, PatchOK, ToWrite
  <2>6. UpdatesAreKept'
    BY <1>1, <2>3 DEF SettingsInv, UpdatesAreKept
  <2>7. QED
    BY <1>1, <2>2, <2>4, <2>5, <2>6, CachedBefore, UpdateStepKeeps
<1>3. CASE ~Throws(Patch[c])
  <2> DEFINE became == [stage |-> "writing", stamp |-> 0, value |-> Merged(Current(c), Patch[c]),
                       left |-> Keys, alone |-> Writing = {}]
  <2>1. call' = [d \in Calls |->
                     CASE d = c -> became
                       [] d \in Writing -> [call[d] EXCEPT !.alone = FALSE]
                       [] OTHER -> call[d]]
    BY <1>3 DEF ReadToPatch
  <2>2. Merged(Current(c), Patch[c]) \in Value
    BY <1>3, PatchInRange, SettingsTyped, Normalized DEF Merged, Current, Value
  <2>3. /\ became \in SettingsCallStates /\ became.stage = "writing" /\ became.value = Merged(Current(c), Patch[c])
        /\ became.left = Keys /\ (became.alone <=> Writing = {})
    <3> DEFINE none == Writing = {}
    <3>1. none \in BOOLEAN /\ 0 \in 0 .. MaxTime /\ Keys \in Seq(Settings)
      BY Bounds, SettingsCallsAssumption
    <3>2. became = [stage |-> "writing", stamp |-> 0, value |-> Merged(Current(c), Patch[c]),
                   left |-> Keys, alone |-> none]
      OBVIOUS
    <3> HIDE DEF none, became
    <3>3. /\ became \in SettingsCallStates /\ became.stage = "writing" /\ became.left = Keys
          /\ became.value = Merged(Current(c), Patch[c]) /\ became.alone = none
      BY <2>2, <3>1, <3>2 DEF SettingsCallStates
    <3>4. QED
      BY <3>3 DEF none
  <2> HIDE DEF became
  <2>4. call'[c] = became
    <3>1. call'[c] = CASE c = c -> became
                       [] c \in Writing -> [call[c] EXCEPT !.alone = FALSE]
                       [] OTHER -> call[c]
      BY <2>1
    <3>2. QED
      BY <1>1, <3>1
  <2>5. ASSUME NEW d \in Calls \ {c}
        PROVE  /\ call'[d] \in SettingsCallStates /\ call'[d].stage = call[d].stage
               /\ d \in Writing => ~call'[d].alone
               /\ d \notin Writing => call'[d] = call[d]
    <3>1. call'[d] = IF d \in Writing THEN [call[d] EXCEPT !.alone = FALSE] ELSE call[d]
      BY <2>1, <2>5
    <3>2. call[d] \in SettingsCallStates
      BY SettingsTyped
    <3>3. QED
      BY <3>1, <3>2 DEF SettingsCallStates
  <2>6. call' \in [Calls -> SettingsCallStates]
    <3>1. \A d \in Calls : call'[d] \in SettingsCallStates
      BY <2>3, <2>4, <2>5
    <3>2. QED
      BY <2>1, <3>1
  <2>7. Writing' = Writing \cup {c}
    <3>1. \A d \in Updates : call'[d].stage = "writing" <=> call[d].stage = "writing" \/ d = c
      BY <2>3, <2>4, <2>5 DEF Updates
    <3>2. QED
      BY <1>1, <3>1 DEF Writing
  <2>8. SettingsTypeOK'
    BY <1>1, <2>6, SettingsTyped DEF SettingsTypeOK, SettingsCallStates
  <2>9. ASSUME NEW d \in Calls PROVE AloneOK(d)' /\ PatchOK(d)'
    <3>1. CASE d = c
      <4>1. PatchOK(d)'
        BY <1>1, <1>3, <3>1 DEF PatchOK
      <4>2. SUFFICES ASSUME Writing = {}, NEW k \in Settings
                     PROVE  /\ k \in DOMAIN Patch[c] => call'[c].value[k] = Clamp(Patch[c][k])
                            /\ k \notin DOMAIN Patch[c] /\ kept'[k] # Anything => call'[c].value[k] = kept'[k]
                            /\ k \in ToWrite(c)'
        BY <2>3, <2>4, <2>7, <3>1, <4>1 DEF AloneOK
      <4>3. call'[c].value[k] = IF k \in DOMAIN Patch[c] THEN Clamp(Patch[c][k])
                                ELSE Normalize(settings)[k]
        BY <2>3, <2>4, <4>2 DEF Merged, Current
      <4>4. kept[k] # Anything => Normalize(settings)[k] = kept[k]
        <5>1. kept[k] # Anything => settings[k] = kept[k] /\ kept[k] \in InRange
          BY <4>2, SettingsTyped DEF SettingsInv, UpdatesAreKept
        <5>2. QED
          BY <5>1, SettingsTyped, Normalized
      <4>5. k \in ToWrite(c)'
        BY <2>3, <2>4 DEF ToWrite, Settings, Range
      <4>6. QED
        BY <1>1, <4>3, <4>4, <4>5
    <3>2. CASE d # c
      <4>1. PatchOK(d)'
        BY <2>5, <3>2 DEF SettingsInv, PatchOK
      <4>2. AloneOK(d)'
        BY <1>1, <2>5, <3>2, <4>1 DEF AloneOK, Writing, PatchOK
      <4>3. QED
        BY <4>1, <4>2
    <3>3. QED
      BY <3>1, <3>2
  <2>10. UpdatesAreKept'
    BY <2>7 DEF UpdatesAreKept
  <2>11. ASSUME NEW d \in Calls, call'[d].stage \in {"reading", "read"} PROVE call'[d] = call[d]
    BY <2>3, <2>4, <2>5, <2>11 DEF Writing
  <2>12. QED
    BY <1>1, <2>8, <2>9, <2>10, <2>11, CachedBefore, UpdateStepKeeps
<1>4. QED
  BY <1>2, <1>3

\* A key that is still to be written is the next one or one of those after it.
LEMMA HeadAndTail ==
  ASSUME NEW S, NEW seq \in Seq(S), seq # <<>>
  PROVE  /\ Tail(seq) \in Seq(S) /\ Head(seq) \in S
         /\ {seq[i] : i \in DOMAIN seq} \subseteq
              {Head(seq)} \cup {Tail(seq)[i] : i \in DOMAIN Tail(seq)}
<1>1. Tail(seq) \in Seq(S) /\ Head(seq) \in S /\ Len(seq) \in Nat /\ Len(seq) > 0
      /\ DOMAIN seq = 1 .. Len(seq) /\ Head(seq) = seq[1]
      /\ DOMAIN Tail(seq) = 1 .. (Len(seq) - 1)
      /\ \A i \in 1 .. (Len(seq) - 1) : Tail(seq)[i] = seq[i + 1]
  OBVIOUS
<1>2. ASSUME NEW i \in DOMAIN seq
      PROVE  seq[i] = Head(seq) \/ \E j \in DOMAIN Tail(seq) : seq[i] = Tail(seq)[j]
  <2>1. CASE i = 1
    BY <1>1, <2>1
  <2>2. CASE i # 1
    <3>1. i - 1 \in DOMAIN Tail(seq) /\ Tail(seq)[i - 1] = seq[i]
      BY <1>1, <2>2
    <3>2. QED
      BY <3>1
  <2>3. QED
    BY <2>1, <2>2
<1>3. QED
  BY <1>1, <1>2

\* One row is written.
LEMMA WriteRowKeeps ==
  ASSUME SettingsInv, NEW c \in Calls, WriteRow(c) PROVE SettingsInv'
<1> DEFINE key == Head(call[c].left)
<1>1. /\ c \in Writing /\ call[c].left # <<>> /\ quietSince' = clock
      /\ call' = [call EXCEPT ![c].left = Tail(@)]
      /\ settings' = [settings EXCEPT ![key] = call[c].value[key]]
      /\ UNCHANGED <<cache, clock, restarts, kept>>
      /\ call[c] \in SettingsCallStates
  BY SettingsTyped DEF WriteRow
<1>2. /\ call[c].left \in Seq(Settings) /\ call[c].value \in Value
  BY <1>1 DEF SettingsCallStates
<1>3. /\ Tail(call[c].left) \in Seq(Settings) /\ key \in Settings
      /\ ToWrite(c) \subseteq {key} \cup {Tail(call[c].left)[i] : i \in DOMAIN Tail(call[c].left)}
  <2> DEFINE left == call[c].left
  <2>1. left \in Seq(Settings) /\ left # <<>>
    BY <1>1, <1>2
  <2> HIDE DEF left
  <2>2. /\ Tail(left) \in Seq(Settings) /\ Head(left) \in Settings
        /\ {left[i] : i \in DOMAIN left} \subseteq
             {Head(left)} \cup {Tail(left)[i] : i \in DOMAIN Tail(left)}
    BY <2>1, HeadAndTail
  <2>3. QED
    BY <2>2 DEF ToWrite, left
<1>4. /\ call' \in [Calls -> SettingsCallStates] /\ call'[c].stage = call[c].stage
      /\ call'[c].value = call[c].value /\ call'[c].alone = call[c].alone
      /\ call'[c].left = Tail(call[c].left)
      /\ \A d \in Calls \ {c} : call'[d] = call[d]
  BY <1>1, <1>3, SettingsTyped DEF SettingsCallStates
<1>5. call[c].value[key] \in Values
  BY <1>2, <1>3, Clamped DEF Value
<1> HIDE DEF key
<1>6. /\ settings' \in [Settings -> Values] /\ settings'[key] = call[c].value[key]
      /\ \A k \in Settings \ {key} : settings'[k] = settings[k]
  BY <1>1, <1>3, <1>5, SettingsTyped
<1>7. SettingsTypeOK'
  BY <1>1, <1>4, <1>6, SettingsTyped DEF SettingsTypeOK, SettingsCallStates
<1>8. Writing' = Writing
  <2>1. \A d \in Updates : call'[d].stage = call[d].stage
    BY <1>4 DEF Updates
  <2>2. QED
    BY <2>1 DEF Writing
<1>9. ASSUME NEW d \in Calls PROVE AloneOK(d)' /\ PatchOK(d)'
  <2>1. AloneOK(d) /\ PatchOK(d)
    BY DEF SettingsInv
  <2>2. CASE d = c
    <3>1. PatchOK(d)'
      BY <1>4, <2>1, <2>2 DEF PatchOK
    <3>2. ToWrite(c) \subseteq {key} \cup ToWrite(c)'
      BY <1>3, <1>4 DEF ToWrite
    <3>3. AloneOK(d)'
      BY <1>1, <1>4, <1>6, <1>8, <2>1, <2>2, <3>2 DEF AloneOK
    <3>4. QED
      BY <3>1, <3>3
  <2>3. CASE d # c
    <3>1. PatchOK(d)'
      BY <1>4, <2>1, <2>3 DEF PatchOK
    <3>2. ~(call[d].stage = "writing" /\ call[d].alone)
      BY <1>1, <2>1, <2>3 DEF AloneOK
    <3>3. QED
      BY <1>4, <2>3, <3>1, <3>2 DEF AloneOK
  <2>4. QED
    BY <2>2, <2>3
<1>10. UpdatesAreKept'
  BY <1>1, <1>8 DEF UpdatesAreKept
<1>11. ASSUME NEW d \in Calls, call'[d].stage \in {"reading", "read"} PROVE call'[d] = call[d]
  BY <1>1, <1>4, <1>11 DEF Writing
<1>12. QED
  BY <1>1, <1>7, <1>9, <1>10, <1>11, CachedBefore, UpdateStepKeeps

\* Where nothing is followed, nothing is lost.
LEMMA NothingFollowed ==
  ASSUME kept' = [k \in Settings |-> Anything] PROVE UpdatesAreKept'
BY DEF UpdatesAreKept

\* An update has written its rows, and its process caches what it wrote.
LEMMA WroteKeeps ==
  ASSUME SettingsInv, NEW c \in Calls, Wrote(c) PROVE SettingsInv'
<1>1. /\ c \in Writing /\ call[c].left = <<>> /\ quietSince' = clock
      /\ cache' = [cache EXCEPT ![By[c]] = [at |-> clock, value |-> call[c].value]]
      /\ call' = [call EXCEPT ![c] = Idle("done")]
      /\ UNCHANGED <<settings, clock, restarts>> /\ call[c] \in SettingsCallStates
      /\ By[c] \in Processes /\ AloneOK(c) /\ PatchOK(c) /\ call[c].stage = "writing"
  BY SettingsTyped, SettingsCallsAssumption DEF Wrote, SettingsInv, Writing
<1>2. kept' = [k \in Settings |->
                CASE ~call[c].alone -> Anything
                  [] call[c].alone /\ k \in DOMAIN Patch[c] -> Clamp(Patch[c][k])
                  [] OTHER -> kept[k]]
  BY DEF Wrote
<1>3. /\ call' \in [Calls -> SettingsCallStates] /\ call'[c].stage = "done"
      /\ \A d \in Calls \ {c} : call'[d] = call[d]
  BY <1>1, SettingsTyped, IdleTyped DEF SettingsCallStates
<1>4. /\ cache' \in [Processes -> {Nothing} \cup [at : 0 .. MaxTime, value : Value]]
      /\ \A p \in Processes : cache'[p] # Nothing => cache'[p].at <= clock
  <2>1. [at |-> clock, value |-> call[c].value] \in [at : 0 .. MaxTime, value : Value]
    BY <1>1, SettingsTyped DEF SettingsCallStates
  <2>2. cache' \in [Processes -> {Nothing} \cup [at : 0 .. MaxTime, value : Value]]
    BY <1>1, <2>1, SettingsTyped
  <2>3. ASSUME NEW p \in Processes, cache'[p] # Nothing PROVE cache'[p].at <= clock
    <3>1. CASE p = By[c]
      <4>1. cache'[p].at = clock
        BY <1>1, <3>1, SettingsTyped
      <4>2. QED
        BY <4>1, SettingsTyped
    <3>2. CASE p # By[c]
      <4>1. cache'[p] = cache[p]
        BY <1>1, <3>2, SettingsTyped
      <4>2. QED
        BY <2>3, <4>1, CachedBefore
    <3>3. QED
      BY <3>1, <3>2
  <2>4. QED
    BY <2>2, <2>3
<1>5. /\ kept' \in [Settings -> InRange \cup {Anything}]
      /\ ~call[c].alone => kept' = [k \in Settings |-> Anything]
      /\ call[c].alone => \A k \in Settings :
           kept'[k] = IF k \in DOMAIN Patch[c] THEN Clamp(Patch[c][k]) ELSE kept[k]
  <2>1. \A k \in DOMAIN Patch[c] : Clamp(Patch[c][k]) \in InRange
    BY <1>1, PatchInRange DEF PatchOK
  <2>2. CASE ~call[c].alone
    <3>1. kept' = [k \in Settings |-> Anything]
      BY <1>2, <2>2
    <3>2. QED
      BY <2>2, <3>1
  <2>3. CASE call[c].alone
    <3>1. kept' = [k \in Settings |-> IF k \in DOMAIN Patch[c] THEN Clamp(Patch[c][k]) ELSE kept[k]]
      BY <1>2, <2>3
    <3>2. QED
      BY <2>1, <2>3, <3>1, SettingsTyped
  <2>4. QED
    BY <2>2, <2>3
<1>6. SettingsTypeOK'
  BY <1>1, <1>3, <1>4, <1>5, SettingsTyped DEF SettingsTypeOK, SettingsCallStates
<1>7. Writing' = Writing \ {c}
  <2>1. \A d \in Updates : call'[d].stage = "writing" <=> call[d].stage = "writing" /\ d # c
    BY <1>3 DEF Updates
  <2>2. QED
    BY <2>1 DEF Writing
<1>8. ASSUME NEW d \in Calls PROVE AloneOK(d)' /\ PatchOK(d)'
  <2>1. CASE d = c
    BY <1>3, <2>1 DEF AloneOK, PatchOK
  <2>2. CASE d # c
    <3>1. AloneOK(d) /\ PatchOK(d) /\ call'[d] = call[d]
      BY <1>3, <2>2 DEF SettingsInv
    <3>2. ~(call[d].stage = "writing" /\ call[d].alone)
      BY <1>1, <2>2, <3>1 DEF AloneOK
    <3>3. QED
      BY <3>1, <3>2 DEF AloneOK, PatchOK
  <2>3. QED
    BY <2>1, <2>2
<1>9. UpdatesAreKept'
  <2>1. CASE ~call[c].alone
    BY <1>5, <2>1, NothingFollowed
  <2>2. CASE call[c].alone
    <3>1. ToWrite(c) = {}
      BY <1>1 DEF ToWrite
    <3>2. ASSUME NEW k \in Settings, kept'[k] # Anything PROVE settings[k] = kept'[k]
      BY <1>1, <1>5, <2>2, <3>1, <3>2 DEF AloneOK
    <3>3. QED
      BY <1>1, <3>2 DEF UpdatesAreKept
  <2>3. QED
    BY <2>1, <2>2
<1>10. ASSUME NEW d \in Calls, call'[d].stage \in {"reading", "read"} PROVE call'[d] = call[d]
  BY <1>3, <1>10
<1>11. QED
  BY <1>1, <1>4, <1>6, <1>8, <1>9, <1>10, UpdateStepKeeps

\* A write throws: of the updates so far nothing is followed.
LEMMA WriteFailsKeeps ==
  ASSUME SettingsInv, NEW c \in Calls, WriteFails(c) PROVE SettingsInv'
<1>1. /\ c \in Writing /\ quietSince' = clock /\ call' = [call EXCEPT ![c] = Idle("done")]
      /\ kept' = [k \in Settings |-> Anything] /\ UNCHANGED <<settings, cache, clock, restarts>>
      /\ AloneOK(c) /\ call[c].stage = "writing"
  BY DEF WriteFails, SettingsInv, Writing
<1>2. /\ call' \in [Calls -> SettingsCallStates] /\ call'[c].stage = "done"
      /\ \A d \in Calls \ {c} : call'[d] = call[d]
  BY <1>1, SettingsTyped, IdleTyped DEF SettingsCallStates
<1>3. SettingsTypeOK'
  BY <1>1, <1>2, SettingsTyped DEF SettingsTypeOK, SettingsCallStates
<1>4. ASSUME NEW d \in Calls PROVE AloneOK(d)' /\ PatchOK(d)'
  <2>1. CASE d = c
    BY <1>2, <2>1 DEF AloneOK, PatchOK
  <2>2. CASE d # c
    <3>1. AloneOK(d) /\ PatchOK(d) /\ call'[d] = call[d]
      BY <1>2, <2>2 DEF SettingsInv
    <3>2. ~(call[d].stage = "writing" /\ call[d].alone)
      BY <1>1, <2>2, <3>1 DEF AloneOK
    <3>3. QED
      BY <3>1, <3>2 DEF AloneOK, PatchOK
  <2>3. QED
    BY <2>1, <2>2
<1>5. UpdatesAreKept'
  BY <1>1, NothingFollowed
<1>6. ASSUME NEW d \in Calls, call'[d].stage \in {"reading", "read"} PROVE call'[d] = call[d]
  BY <1>2, <1>6
<1>7. QED
  BY <1>1, <1>3, <1>4, <1>5, <1>6, CachedBefore, UpdateStepKeeps

\* A process starts again: of an update it was writing nothing is followed.
LEMMA RestartKeeps ==
  ASSUME SettingsInv, NEW p \in Processes, Restart(p) PROVE SettingsInv'
<1>1. /\ quietSince' = clock /\ UNCHANGED <<settings, clock>>
      /\ restarts < MaxRestarts /\ restarts' = restarts + 1
      /\ cache' = [cache EXCEPT ![p] = Nothing]
      /\ kept' = IF \E c \in Writing : By[c] = p THEN [k \in Settings |-> Anything] ELSE kept
  BY DEF Restart
<1>2. ASSUME NEW c \in Calls
      PROVE  /\ call'[c] \in SettingsCallStates
             /\ \/ call'[c] = call[c] /\ (By[c] = p => call[c].stage = "out")
                \/ call'[c].stage = "done" /\ By[c] = p
  <2>1. call'[c] = IF By[c] = p /\ call[c].stage # "out" THEN Idle("done") ELSE call[c]
    BY DEF Restart
  <2>2. Idle("done") \in SettingsCallStates /\ Idle("done").stage = "done"
    BY IdleTyped DEF SettingsCallStates
  <2>3. QED
    BY <2>1, <2>2, SettingsTyped
<1>3. call' \in [Calls -> SettingsCallStates]
  <2>1. call' = [c \in Calls |-> call'[c]]
    BY DEF Restart
  <2>2. QED
    BY <1>2, <2>1
<1>4. /\ cache' \in [Processes -> {Nothing} \cup [at : 0 .. MaxTime, value : Value]]
      /\ \A q \in Processes : cache'[q] # Nothing => cache'[q].at <= clock
  <2>1. \A q \in Processes : cache'[q] = IF q = p THEN Nothing ELSE cache[q]
    BY <1>1, SettingsTyped
  <2>2. QED
    BY <1>1, <2>1, SettingsTyped, CachedBefore
<1>5. /\ restarts' \in 0 .. MaxRestarts /\ kept' \in [Settings -> InRange \cup {Anything}]
  BY <1>1, SettingsTyped, Bounds
<1>6. SettingsTypeOK'
  BY <1>1, <1>3, <1>4, <1>5, SettingsTyped DEF SettingsTypeOK, SettingsCallStates
<1>7. Writing' = {c \in Writing : By[c] # p}
  BY <1>2 DEF Writing, Updates
<1>8. ASSUME NEW c \in Calls PROVE AloneOK(c)' /\ PatchOK(c)'
  <2>1. AloneOK(c) /\ PatchOK(c)
    BY DEF SettingsInv
  <2>2. CASE call'[c].stage # "writing"
    BY <2>2 DEF AloneOK, PatchOK
  <2>3. CASE call'[c].stage = "writing"
    <3>1. call'[c] = call[c] /\ By[c] # p
      BY <1>2, <2>3
    <3>2. PatchOK(c)'
      BY <2>1, <3>1 DEF PatchOK
    <3>3. ASSUME call[c].alone PROVE AloneOK(c)'
      <4>1. Writing = {c}
        BY <2>1, <2>3, <3>1, <3>3 DEF AloneOK
      <4>2. kept' = kept /\ Writing' = {c}
        BY <1>1, <1>7, <3>1, <4>1
      <4>3. QED
        BY <1>1, <2>1, <3>1, <4>2 DEF AloneOK, ToWrite
    <3>4. QED
      BY <3>1, <3>2, <3>3 DEF AloneOK
  <2>4. QED
    BY <2>2, <2>3
<1>9. UpdatesAreKept'
  <2>1. CASE \E c \in Writing : By[c] = p
    BY <1>1, <2>1, NothingFollowed
  <2>2. CASE ~\E c \in Writing : By[c] = p
    <3>1. Writing' = Writing /\ kept' = kept
      BY <1>1, <1>7, <2>2
    <3>2. QED
      BY <1>1, <3>1 DEF SettingsInv, UpdatesAreKept
  <2>3. QED
    BY <2>1, <2>2
<1>10. ASSUME NEW c \in Calls, call'[c].stage \in {"reading", "read"} PROVE call'[c] = call[c]
  BY <1>2, <1>10
<1>11. QED
  BY <1>1, <1>4, <1>6, <1>8, <1>9, <1>10, UpdateStepKeeps

\* Time passes.
LEMMA TickKeeps == ASSUME SettingsInv, Tick PROVE SettingsInv'
<1>1. /\ clock < MaxTime /\ clock' = clock + 1
      /\ UNCHANGED <<settings, cache, call, restarts, quietSince, kept>>
  BY DEF Tick
<1>2. clock' \in 0 .. MaxTime /\ quietSince' <= clock' /\ clock <= clock'
  BY <1>1, SettingsTyped, Bounds
<1>3. SettingsTypeOK'
  BY <1>1, <1>2, SettingsTyped DEF SettingsTypeOK, SettingsCallStates
<1>4. ASSUME NEW p \in Processes PROVE CacheOK(p)'
  <2>1. CacheOK(p) /\ (cache[p] # Nothing => cache[p].at \in 0 .. MaxTime)
    BY SettingsTyped DEF SettingsInv
  <2>2. cache[p] # Nothing => cache[p].at <= clock'
    BY <1>1, <2>1, SettingsTyped, Bounds DEF CacheOK
  <2>3. QED
    BY <1>1, <2>1, <2>2 DEF CacheOK, Normalize
<1>5. ASSUME NEW c \in Calls PROVE CacheReadOK(c)' /\ AloneOK(c)' /\ PatchOK(c)'
  <2>1. CacheReadOK(c) /\ AloneOK(c) /\ PatchOK(c) /\ call[c].stamp \in 0 .. MaxTime
    BY SettingsTyped DEF SettingsInv, SettingsCallStates
  <2>2. call[c].stage \in {"reading", "read"} => call[c].stamp <= clock'
    BY <1>1, <2>1, SettingsTyped, Bounds DEF CacheReadOK
  <2>3. CacheReadOK(c)'
    BY <1>1, <2>1, <2>2 DEF CacheReadOK, Normalize
  <2>4. AloneOK(c)' /\ PatchOK(c)'
    BY <1>1, <2>1 DEF AloneOK, PatchOK, Writing, ToWrite
  <2>5. QED
    BY <2>3, <2>4
<1>6. UpdatesAreKept'
  BY <1>1 DEF SettingsInv, UpdatesAreKept, Writing
<1>7. QED
  BY <1>2, <1>3, <1>4, <1>5, <1>6 DEF SettingsInv

\* Every step keeps the invariant.
LEMMA SettingsStep == SettingsInv /\ [SettingsNext]_settingsVars => SettingsInv'
<1> SUFFICES ASSUME SettingsInv, [SettingsNext]_settingsVars PROVE SettingsInv'
  OBVIOUS
<1>1. CASE UNCHANGED settingsVars
  BY <1>1 DEF settingsVars, SettingsInv, SettingsTypeOK, CacheOK, CacheReadOK, AloneOK, PatchOK,
              UpdatesAreKept, Normalize, Writing, ToWrite
<1>2. QED
  BY <1>1, GetKeeps, ReadRowsKeeps, GotRowsKeeps, ReadToPatchKeeps, WriteRowKeeps, WroteKeeps,
     WriteFailsKeeps, RestartKeeps, TickKeeps
  DEF SettingsNext

\* "A short cache lets a change apply without a restart": for every time of the cache,
\* and however reads and updates of any number of processes overlap.
THEOREM ChangesDoApply == SettingsSpec => []ChangesApply
<1>1. SettingsInv => ChangesApply
  <2>1. SUFFICES ASSUME SettingsInv, clock - quietSince >= CacheTime, NEW p \in Processes, Fresh(p)
                 PROVE  cache[p].value = Normalize(settings)
    BY DEF ChangesApply
  <2>2. cache[p] # Nothing /\ clock - cache[p].at < CacheTime /\ cache[p].at \in 0 .. MaxTime
    BY <2>1, SettingsTyped DEF Fresh
  <2>3. cache[p].at > quietSince
    BY <2>1, <2>2, SettingsTyped, Bounds
  <2>4. CacheOK(p)
    BY <2>1 DEF SettingsInv
  <2>5. QED
    BY <2>2, <2>3, <2>4 DEF CacheOK
<1>2. QED
  BY <1>1, SettingsStart, SettingsStep, PTL DEF SettingsSpec

\* Every process comes to see the last settings, and an update that no other
\* overlapped is not lost (always-on-settings.ts).
THEOREM SettingsHold == SettingsSpec => []SettingsSettle
<1>1. SettingsInv => UpdatesAreKept
  BY DEF SettingsInv
<1>2. QED
  BY <1>1, SettingsStart, SettingsStep, ChangesDoApply, PTL DEF SettingsSpec, SettingsSettle

\* Every reachable state of the settings, their caches and calls is well typed.
THEOREM SettingsTypesHold == SettingsSpec => []SettingsTypeOK
<1>1. SettingsInv => SettingsTypeOK
  BY DEF SettingsInv
<1>2. QED
  BY <1>1, SettingsStart, SettingsStep, PTL DEF SettingsSpec

-----------------------------------------------------------------------------
(***************************************************************************)
(* The components in one instance: a step of one leaves the others alone,  *)
(* so that a behaviour of all is one of each.                              *)
(***************************************************************************)

\* Each component begins as it begins by itself.
LEMMA PartsBegin ==
  Init => /\ ThreadInit /\ SettingsInit /\ LoginInit /\ InstallInit
          /\ McpInit /\ AgentChatsInit /\ DeliveriesInit /\ DictationInit
BY DEF Init

\* Each step is one of a component by itself, or leaves it as it is.
LEMMA PartsStep ==
  [Next]_vars => /\ [ThreadNext]_threadVars /\ [SettingsNext]_settingsVars
                 /\ [LoginNext]_loginVars /\ [InstallNext]_installVars
                 /\ [McpNext]_mcpVars /\ [AgentChatsNext]_chatsVars
                 /\ [DeliveriesNext]_deliveryVars /\ [DictationNext]_dictationVars
BY DEF Next, vars, OnlyThread, OnlySettings, OnlyLogin, OnlyInstall, OnlyMcp, OnlyChats,
       OnlyDeliveries, OnlyDictation

\* What is proved of a component holds of it beside the others.
LEMMA PartsAreThemselves ==
  Spec => /\ ThreadSpec /\ SettingsSpec /\ LoginSpec /\ InstallSpec
          /\ McpSpec /\ AgentChatsSpec /\ DeliveriesSpec /\ DictationSpec
BY PartsBegin, PartsStep, PTL
DEF Spec, ThreadSpec, SettingsSpec, LoginSpec, InstallSpec, McpSpec, AgentChatsSpec,
    DeliveriesSpec, DictationSpec

\* Every component keeps to its types, whichever of them runs.
THEOREM ServicesTypesHold == Spec => []TypesOK
<1>1. McpInv => McpTypeOK
  BY DEF McpInv
<1>2. /\ ThreadTypeOK /\ SettingsTypeOK /\ LoginTypeOK /\ InstallTypeOK
      /\ McpTypeOK /\ AgentChatsTypeOK /\ DeliveriesTypeOK /\ DictationTypeOK
      => TypesOK
  BY DEF TypesOK
<1>3. QED
  BY <1>1, <1>2, PartsAreThemselves, ThreadTypesHold, SettingsTypesHold, LoginTypesHold,
     InstallTypesHold, McpHolds, ChatTypesHold, DeliveryTypesHold, DictationTypesHold, PTL
=============================================================================
