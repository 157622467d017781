------------------------------ MODULE Deliveries ------------------------------
(***************************************************************************)
(* The webhooks of one listener (server/src/routes/listeners.ts,           *)
(* server/src/listeners/limit.ts): what is accepted, and the life of an    *)
(* accepted delivery from its row to the notification that tells of it     *)
(* (server/src/runtime/jobs.ts, db/src/always-on.ts).                      *)
(*                                                                         *)
(* The payload is kept by the process that accepted the delivery, so that  *)
(* no other can execute it; any process may end it as interrupted when it  *)
(* has no lease that lasts.  Times are ages and times left, in units of    *)
(* which a lease lasts Window and is renewed every RenewEvery.  Slots for  *)
(* background turns are those of TurnCoordinator: here a job waits for one *)
(* as long as it likes.                                                    *)
(***************************************************************************)
EXTENDS Naturals, Sequences, FiniteSets

CONSTANTS
  Hosts, Hooks,       \* processes, and webhook requests
  Late,               \* the processes that may miss their renewals
  Window, RenewEvery, \* RUN_LEASE_MS and RUN_LEASE_RENEW_MS
  MaxHits, HitWindow, \* of the limiter
  MaxDeliveryFaults   \* bound on crashes and failing writes

ASSUME DeliveryTimesAssumption ==
  /\ {Window, RenewEvery, MaxHits, HitWindow} \subseteq Nat \ {0} /\ RenewEvery < Window
  /\ Late \subseteq Hosts
ASSUME DeliveryBoundsAssumption == MaxDeliveryFaults \in Nat

VARIABLES
  listener,   \* "enabled", "disabled", or "deleted"
  hits,       \* of each process: the requests whose hits the limiter keeps
  hitAge,     \* how long ago the limiter allowed each request
  allowed,    \* of each process: every request that its limiter allowed
  hook,       \* of each request: [stage, by, to], the status it will store
  delivery,   \* the row of each: [status, owner, left, age]
  job,        \* of each: [stage, outcome, since], since its lease was renewed
  notices,    \* what was told of each
  deliveryFaults

deliveryVars == <<listener, hits, hitAge, allowed, hook, delivery, job, notices,
                  deliveryFaults>>

NoHost == "none"
NoLease == Window + 1
Outcomes == {"succeeded", "failed"}

DeliveriesTypeOK ==
  /\ listener \in {"enabled", "disabled", "deleted"}
  /\ hits \in [Hosts -> SUBSET Hooks] /\ allowed \in [Hosts -> SUBSET Hooks]
  /\ hitAge \in [Hooks -> 0 .. HitWindow]
  /\ hook \in [Hooks -> [stage : {"out", "store", "over"}, by : Hosts \cup {NoHost},
                         to : {"none", "rejected", "ignored", "accepted"}]]
  /\ delivery \in [Hooks -> [status : {"none", "rejected", "ignored", "accepted", "gone"}
                                      \cup Outcomes,
                             owner : Hosts \cup {NoHost}, left : 0 .. NoLease,
                             age : 0 .. Window]]
  /\ job \in [Hooks -> [stage : {"none", "queued", "loaded", "held", "turn", "finish", "tell"},
                        outcome : Outcomes, since : 0 .. Window]]
  /\ notices \in [Hooks -> Seq(Outcomes)]
  /\ deliveryFaults \in 0 .. MaxDeliveryFaults

NoJob == [stage |-> "none", outcome |-> "failed", since |-> 0]
DeliveryRow(status) == [status |-> status, owner |-> NoHost, left |-> NoLease, age |-> 0]

DeliveriesInit ==
  /\ listener = "enabled"
  /\ hits = [p \in Hosts |-> {}] /\ allowed = [p \in Hosts |-> {}]
  /\ hitAge = [h \in Hooks |-> HitWindow]
  /\ hook = [h \in Hooks |-> [stage |-> "out", by |-> NoHost, to |-> "none"]]
  /\ delivery = [h \in Hooks |-> DeliveryRow("none")]
  /\ job = [h \in Hooks |-> NoJob]
  /\ notices = [h \in Hooks |-> <<>>]
  /\ deliveryFaults = 0

\* A mutant of Recent: a hit is forgotten one unit of time early.
RecentOffByOne(p) == {h \in hits[p] : hitAge[h] < HitWindow - 1}
\* SlidingWindowLimiter.allow
Recent(p) == {h \in hits[p] : hitAge[h] < HitWindow}
Allow(p) == Cardinality(Recent(p)) < MaxHits

\* A request: too large, refused by the limiter, wrongly signed, for a disabled
\* listener, of no interest, or accepted.
Settle(h, p, to) == hook' = [hook EXCEPT ![h] = [stage |-> "store", by |-> p, to |-> to]]
Arrive(h, p) ==
  /\ hook[h].stage = "out" /\ listener # "deleted"
  /\ \/ Settle(h, p, "rejected") /\ UNCHANGED <<hits, hitAge, allowed>>
     \/ /\ ~Allow(p) /\ Settle(h, p, "rejected")
        /\ hits' = [hits EXCEPT ![p] = Recent(p)] /\ UNCHANGED <<hitAge, allowed>>
     \/ /\ Allow(p)
        /\ hits' = [hits EXCEPT ![p] = Recent(p) \cup {h}]
        /\ hitAge' = [hitAge EXCEPT ![h] = 0]
        /\ allowed' = [allowed EXCEPT ![p] = @ \cup {h}]
        /\ \/ Settle(h, p, "rejected")
           \/ listener = "enabled" /\ \E to \in {"ignored", "accepted"} : Settle(h, p, to)
  /\ UNCHANGED <<listener, delivery, job, notices, deliveryFaults>>

\* Its row; and the job of an accepted one, which waits for a slot.
Answered(by) == [stage |-> "over", by |-> by, to |-> "none"]
Deliver(h) ==
  /\ hook[h].stage = "store"
  /\ hook' = [hook EXCEPT ![h] = Answered(IF @.to = "accepted" THEN @.by ELSE NoHost)]
  /\ IF listener = "deleted" THEN UNCHANGED <<delivery, job>>
     ELSE /\ delivery' = [delivery EXCEPT ![h] = DeliveryRow(hook[h].to)]
          /\ job' = [job EXCEPT ![h].stage = IF hook[h].to = "accepted" THEN "queued" ELSE "none"]
  /\ UNCHANGED <<listener, hits, hitAge, allowed, notices, deliveryFaults>>

\* PATCH and DELETE of the listener; a deletion takes the rows with it.
PatchListener ==
  /\ listener # "deleted"
  /\ \E to \in {"enabled", "disabled", "deleted"} \ {listener} :
       /\ listener' = to
       /\ delivery' = IF to # "deleted" THEN delivery
                      ELSE [h \in Hooks |-> IF delivery[h].status = "none" THEN delivery[h]
                                            ELSE DeliveryRow("gone")]
  /\ UNCHANGED <<hits, hitAge, allowed, hook, job, notices, deliveryFaults>>

Stage(h, stage) == job' = [job EXCEPT ![h].stage = stage]
JobOver(h) == job' = [job EXCEPT ![h] = NoJob]
OwnerOf(h) == hook[h].by
\* A mutant of Owned: neither status nor owner is looked at again.
OwnedAlways(h) == TRUE
Owned(h) == delivery[h].status = "accepted" /\ delivery[h].owner = OwnerOf(h)

\* executeListenerDelivery, from the slot on: load the row, claim it, take a turn.
LoadDelivery(h) ==
  /\ job[h].stage = "queued"
  /\ IF delivery[h].status = "accepted" THEN Stage(h, "loaded") ELSE JobOver(h)
  /\ UNCHANGED <<listener, hits, hitAge, allowed, hook, delivery, notices, deliveryFaults>>

Lease(h) == [delivery[h] EXCEPT !.owner = OwnerOf(h), !.left = Window]
Claimable(h) ==
  /\ delivery[h].status = "accepted"
  /\ delivery[h].left \in {0, NoLease} \/ delivery[h].owner = OwnerOf(h)
ClaimDelivery(h) ==
  /\ job[h].stage = "loaded"
  /\ \/ Claimable(h) /\ delivery' = [delivery EXCEPT ![h] = Lease(h)] /\ Stage(h, "held")
     \/ ~Claimable(h) /\ JobOver(h) /\ UNCHANGED delivery
  /\ UNCHANGED <<listener, hits, hitAge, allowed, hook, notices, deliveryFaults>>

RenewLease(h) ==
  /\ job[h].stage \in {"held", "turn", "finish", "tell"}
  /\ job[h].since > 0
  /\ job' = [job EXCEPT ![h].since = 0]
  /\ delivery' = IF Owned(h) THEN [delivery EXCEPT ![h] = Lease(h)] ELSE delivery
  /\ UNCHANGED <<listener, hits, hitAge, allowed, hook, notices, deliveryFaults>>

TakeTurn(h) ==
  /\ job[h].stage = "held"
  /\ Stage(h, "turn")
  /\ UNCHANGED <<listener, hits, hitAge, allowed, hook, delivery, notices, deliveryFaults>>

\* The turn ends, with an error or not, or something before it has failed.
TurnOver(h) ==
  /\ job[h].stage \in {"held", "turn"}
  /\ \E outcome \in Outcomes :
       /\ job[h].stage = "held" => outcome = "failed"
       /\ job' = [job EXCEPT ![h].stage = "finish", ![h].outcome = outcome]
  /\ UNCHANGED <<listener, hits, hitAge, allowed, hook, delivery, notices, deliveryFaults>>

\* finishOwned changes the row of its owner only; then the notification.
FinishOwned(h) ==
  /\ job[h].stage = "finish"
  /\ \/ /\ Owned(h) /\ Stage(h, "tell")
        /\ delivery' = [delivery EXCEPT ![h] = DeliveryRow(job[h].outcome)]
     \/ ~Owned(h) /\ JobOver(h) /\ UNCHANGED delivery
  /\ UNCHANGED <<listener, hits, hitAge, allowed, hook, notices, deliveryFaults>>

Tell(h) ==
  /\ job[h].stage = "tell"
  /\ notices' = IF delivery[h].status = "gone" THEN notices
                ELSE [notices EXCEPT ![h] = Append(@, job[h].outcome)]
  /\ JobOver(h)
  /\ UNCHANGED <<listener, hits, hitAge, allowed, hook, delivery, deliveryFaults>>

\* A write throws: after a success it is handled as a failed delivery, which
\* changes nothing if the row has its outcome.
WriteThrows(h) ==
  /\ job[h].stage \in {"finish", "tell"}
  /\ deliveryFaults < MaxDeliveryFaults /\ deliveryFaults' = deliveryFaults + 1
  /\ IF job[h].outcome = "succeeded"
     THEN job' = [job EXCEPT ![h].stage = "finish", ![h].outcome = "failed"]
     ELSE JobOver(h)
  /\ UNCHANGED <<listener, hits, hitAge, allowed, hook, delivery, notices>>

\* Mutants of Reapable: a row is reaped for its age; never one without a lease; and
\* whether or not it has ended.
ReapableByAge(h) == delivery[h].status = "accepted" /\ delivery[h].age >= Window
ReapableByLease(h) == delivery[h].status = "accepted" /\ delivery[h].left = 0
ReapableEnded(h) == /\ delivery[h].status \in {"accepted"} \cup Outcomes
                    /\ delivery[h].left \in {0, NoLease}
\* reapExpired, of the tick of any process.
Reapable(h) ==
  /\ delivery[h].status = "accepted"
  /\ delivery[h].left = 0 \/ (delivery[h].left = NoLease /\ delivery[h].age >= Window)
ReapDeliveries ==
  /\ \E h \in Hooks : Reapable(h)
  /\ delivery' = [h \in Hooks |-> IF Reapable(h) THEN DeliveryRow("failed") ELSE delivery[h]]
  /\ notices' = [h \in Hooks |-> IF Reapable(h) THEN Append(notices[h], "failed") ELSE notices[h]]
  /\ UNCHANGED <<listener, hits, hitAge, allowed, hook, job, deliveryFaults>>

\* A process stops, and another takes its place.
StopHost(p) ==
  /\ deliveryFaults < MaxDeliveryFaults /\ deliveryFaults' = deliveryFaults + 1
  /\ hits' = [hits EXCEPT ![p] = {}] /\ allowed' = [allowed EXCEPT ![p] = {}]
  /\ hook' = [h \in Hooks |-> IF OwnerOf(h) = p THEN Answered(NoHost) ELSE hook[h]]
  /\ job' = [h \in Hooks |-> IF OwnerOf(h) = p THEN NoJob ELSE job[h]]
  /\ UNCHANGED <<listener, hitAge, delivery, notices>>

Older(age, most) == IF age < most THEN age + 1 ELSE age
Renewed(h) == job[h].stage \in {"held", "turn", "finish", "tell"} /\ OwnerOf(h) \notin Late
                => job[h].since < RenewEvery
PassTime ==
  /\ \A h \in Hooks : Renewed(h)
  /\ hitAge' = [h \in Hooks |-> Older(hitAge[h], HitWindow)]
  /\ delivery' = [h \in Hooks |->
       IF delivery[h].status # "accepted" THEN delivery[h]
       ELSE [delivery[h] EXCEPT !.age = Older(@, Window),
                                !.left = IF @ \in {0, NoLease} THEN @ ELSE @ - 1]]
  /\ job' = [h \in Hooks |->
       IF job[h].stage \in {"held", "turn", "finish", "tell"}
       THEN [job[h] EXCEPT !.since = Older(@, Window)] ELSE job[h]]
  /\ UNCHANGED <<listener, hits, allowed, hook, notices, deliveryFaults>>

HeldJobSteps(h) == TakeTurn(h) \/ TurnOver(h) \/ FinishOwned(h) \/ Tell(h)
DeliveriesNext ==
  \/ \E h \in Hooks : \/ Deliver(h) \/ LoadDelivery(h) \/ ClaimDelivery(h) \/ HeldJobSteps(h)
                      \/ RenewLease(h) \/ WriteThrows(h)
                      \/ \E p \in Hosts : Arrive(h, p)
  \/ \E p \in Hosts : StopHost(p)
  \/ PatchListener \/ ReapDeliveries \/ PassTime

DeliveriesSpec == DeliveriesInit /\ [][DeliveriesNext]_deliveryVars

\* Time passes, ticks come, and a job that has begun goes on; one may wait for its
\* slot for ever.
DeliveriesFair ==
  /\ WF_deliveryVars(ReapDeliveries) /\ WF_deliveryVars(PassTime)
  /\ \A h \in Hooks : WF_deliveryVars(HeldJobSteps(h))

-----------------------------------------------------------------------------
\* "Sliding window of hits": in no window are more hits allowed than the limiter
\* may allow, whatever mixture of hits it allowed and refused before.
InWindow(p) == {h \in allowed[p] : hitAge[h] < HitWindow}
WindowHolds == \A p \in Hosts : Cardinality(InWindow(p)) <= MaxHits

\* A delivery is told of at most once, and what is told is how its row ended,
\* whichever of the executing and the reaping processes ends it.
DeliveriesToldOnceAndTruly ==
  \A h \in Hooks : /\ Len(notices[h]) <= 1
                   /\ notices[h] # <<>> /\ delivery[h].status # "gone"
                        => notices[h] = <<delivery[h].status>>

\* A delivery whose process has claimed it and renews in time is left alone by
\* every reaper: it is accepted until its own process ends it, and so is not told
\* of as interrupted while its turn runs.  One that waits for a slot has no lease.
HeldDeliveriesAreLeftAlone ==
  \A h \in Hooks : job[h].stage \in {"held", "turn", "finish"} /\ OwnerOf(h) \notin Late
                     => Owned(h) \/ delivery[h].status \in {"gone", "succeeded"}

\* An ended delivery stays as it ended: a late claim, renewal or result of a process
\* that lost it changes nothing, and neither does a reaper.
EndedDeliveriesStay ==
  [][\A h \in Hooks : delivery[h].status \in Outcomes \cup {"rejected", "ignored"} =>
       delivery'[h].status \in {delivery[h].status, "gone"}]_deliveryVars

\* Every accepted delivery ends, whether or not its process lives to see it.
DeliveriesEnd == \A h \in Hooks : []<>(delivery[h].status # "accepted")

\* A delivery is executed by one process and told of as it ended.
DeliveriesAreTrue == DeliveriesToldOnceAndTruly /\ HeldDeliveriesAreLeftAlone

\* Every accepted delivery ends, and ends for good.
DeliveriesEndForGood == EndedDeliveriesStay /\ DeliveriesEnd
=============================================================================
