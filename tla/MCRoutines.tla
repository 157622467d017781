------------------------------ MODULE MCRoutines -----------------------------
(***************************************************************************)
(* Two instances of RoutineRuns in one run; a behaviour is one of one      *)
(* `part`, chosen at the start.                                            *)
(*                                                                         *)
(* "leases": two processes, a crash, a failing write and renewals that may *)
(* come too late, from the moment when a missed slot may be caught up on.  *)
(*                                                                         *)
(* "slots": one process, without crashes and failing writes, whose ticks   *)
(* race the requests that change the routine, over all of the time.        *)
(***************************************************************************)
EXTENDS MCRoutineRuns

VARIABLE part

allVars == <<vars, part>>

\* The time at which the first part starts: one slot has passed, and the next
\* is after the Horizon.
Late == Horizon - 1

\* Before Late only time passes, and one request, which does not start a run.
LeasesStep == /\ now < Late => now' = now + 1
              /\ requests' # requests => requests' = 1 /\ request' # request

\* A job of which a slot sees nothing: it waits neither for room nor in its turn.
Passing(i) == job[i].stage \in Stages \ {"none", "waiting", "turn"}

\* One process ticks and executes; nothing crashes or fails.  A job that neither
\* waits nor is in its turn goes on before anything else does.
SlotsStep == /\ \A i \in Runs : Passing(i) => job'[i] # job[i]
             /\ UNCHANGED <<alive, faults>>
             /\ tick'[p2] = tick[p2]
             /\ \A i \in Runs : job'[i].by # p2

\* A step of the part that was chosen.
InLeases == part = "leases" /\ UNCHANGED part
InSlots == part = "slots" /\ UNCHANGED part

MCInit == Init /\ part \in {"leases", "slots"}
MCNext == \/ InLeases /\ Next /\ LeasesStep
          \/ InSlots /\ Next /\ SlotsStep

Leases(A) == InLeases /\ A /\ LeasesStep

\* The fairness of FairSpec, as far as the part needs it: the jobs of the one
\* process go on.
MCSpec ==
  /\ MCInit /\ [][MCNext]_allVars
  /\ WF_allVars(Leases(TimePasses))
  /\ \A p \in Procs : WF_allVars(Leases(TickStep(p))) /\ WF_allVars(Leases(Boot(p)))
  /\ \A i \in Runs : WF_allVars(Leases(JobStep(i))) /\ WF_allVars(Leases(Renew(i)))
  /\ WF_allVars(Leases(EndRequest \/ EndDelete))
  /\ WF_allVars(InSlots /\ (\E i \in Runs : JobStep(i)) /\ SlotsStep)
=============================================================================
