------------------------------ MODULE CliLogin ------------------------------
(***************************************************************************)
(* Signing in to a command-line model from the settings page               *)
(* (providers/src/cli/login.ts; server/src/cli-install/service.ts gives    *)
(* one manager to each user).  Each sign-in runs a process of the CLI.  It *)
(* ends when that process does, when a pasted token turns out to work,     *)
(* when it is cancelled or when its time is up.  Handlers wait for files   *)
(* and for processes between reading the state of the sign-in and writing  *)
(* it, so that several of them may be under way for one sign-in, and the   *)
(* handlers of an old one for a CLI that has a new one.                    *)
(*                                                                         *)
(* What the process prints is not modelled beyond what it causes: a code   *)
(* to be pasted, or a token to be stored.                                  *)
(***************************************************************************)
EXTENDS Naturals, Sequences, FiniteSets

CONSTANTS
  Clis, Claude,       \* the CLIs, and the one whose token is pasted
  Inputs,             \* inputs of the user
  MaxSignIns, MaxPrints, MaxCheckFaults  \* bounds

ASSUME LoginClisAssumption == Claude \in Clis
ASSUME LoginBoundsAssumption == {MaxSignIns, MaxPrints, MaxCheckFaults} \subseteq Nat

VARIABLES
  signIns,   \* every sign-in started, by its generation
  session,   \* `sessions`: the current sign-in of each CLI, 0 before the first
  finishing, \* of each sign-in: how far the handler of its exit is
  input,     \* of each input: how far its handler is
  credentials, \* for each CLI, whether it is signed in on disk
  prints, checkFaults

loginVars == <<signIns, session, finishing, input, credentials, prints, checkFaults>>

SignIns == DOMAIN signIns
Active(s) == signIns[s].state \in {"pending", "needs_input"}
IsCurrent(s) == session[signIns[s].cli] = s

\* `links` counts the writes that were chained to `persist`, `ended` those that
\* are over; one that fails, at `broken`, makes every later one fail.
SignIn == [cli : Clis,
           state : {"pending", "needs_input", "done", "failed", "expired", "cancelled"},
           process : {"none", "running", "killed", "gone", "exited"},
           timer : {"set", "clear", "fired"}, asked : BOOLEAN,
           links : Nat, ended : Nat, broken : Nat]
Handler == [stage : {"none", "persist", "check", "stop", "over"}, of : Nat, link : Nat,
            logged : BOOLEAN, ok : BOOLEAN]

LoginTypeOK ==
  /\ signIns \in Seq(SignIn) /\ Len(signIns) <= MaxSignIns
  /\ session \in [Clis -> 0 .. MaxSignIns]
  /\ finishing \in [1 .. MaxSignIns -> Handler]
  /\ input \in [Inputs -> Handler]
  /\ credentials \in [Clis -> BOOLEAN]
  /\ prints \in 0 .. MaxPrints /\ checkFaults \in 0 .. MaxCheckFaults

At(stage, s, link) ==
  [stage |-> stage, of |-> s, link |-> link, logged |-> FALSE, ok |-> TRUE]

LoginInit ==
  /\ signIns = <<>> /\ session = [c \in Clis |-> 0]
  /\ finishing = [s \in 1 .. MaxSignIns |-> At("none", 0, 0)]
  /\ input = [i \in Inputs |-> At("none", 0, 0)]
  /\ credentials = [c \in Clis |-> FALSE]
  /\ prints = 0 /\ checkFaults = 0

\* start: one sign-in at a time for a CLI; without the CLI it fails at once.
NewSignIn(c, installed) ==
  [cli |-> c,
   state |-> IF ~installed THEN "failed" ELSE IF c = Claude THEN "needs_input" ELSE "pending",
   process |-> IF installed THEN "running" ELSE "none",
   timer |-> IF installed THEN "set" ELSE "clear", asked |-> FALSE,
   links |-> 0, ended |-> 0, broken |-> 0]
Waits(c) == IF session[c] = 0 THEN FALSE ELSE Active(session[c])
MayStart(c) == ~Waits(c)
Start(c) ==
  /\ Len(signIns) < MaxSignIns /\ MayStart(c)
  /\ \E installed \in BOOLEAN : signIns' = Append(signIns, NewSignIn(c, installed))
  /\ session' = [session EXCEPT ![c] = Len(signIns) + 1]
  /\ UNCHANGED <<finishing, input, credentials, prints, checkFaults>>

\* A mutant of Stopped: the process is left to itself.
StoppedAlone(signIn, state) ==
  [signIn EXCEPT !.state = state, !.timer = IF @ = "set" THEN "clear" ELSE @]
\* stop: whatever the state is by then.  The process is told to end.
Stopped(signIn, state) ==
  [signIn EXCEPT !.state = state,
                 !.timer = IF @ = "set" THEN "clear" ELSE @,
                 !.process = IF @ = "running" THEN "killed" ELSE @]
Stop(s, state) == signIns' = [signIns EXCEPT ![s] = Stopped(@, state)]

Cancel(c) ==
  /\ Waits(c)
  /\ signIns' = [signIns EXCEPT ![session[c]] = [Stopped(@, "cancelled") EXCEPT !.asked = TRUE]]
  /\ UNCHANGED <<session, finishing, input, credentials, prints, checkFaults>>

\* close, when the server shuts down.
Close ==
  /\ \E c \in Clis : Waits(c)
  /\ signIns' = [s \in SignIns |->
                   IF IsCurrent(s) /\ Active(s)
                   THEN [Stopped(signIns[s], "cancelled") EXCEPT !.asked = TRUE] ELSE signIns[s]]
  /\ UNCHANGED <<session, finishing, input, credentials, prints, checkFaults>>

\* Mutants of Belongs: the sign-in of a CLI is taken for the one of the process;
\* and one that waits for a code is not one any more.
BelongsToCli(s) == Active(session[signIns[s].cli])
BelongsWhilePending(s) == IsCurrent(s) /\ signIns[s].state = "pending"
\* The timer of sign-in s, or another event of its process, looks up the current
\* sign-in of its CLI and goes on only if that is the one it belongs to.
Belongs(s) == IsCurrent(s) /\ Active(s)
Target(s) == session[signIns[s].cli]

Expire(s) ==
  /\ signIns[s].timer = "set"
  /\ LET fired == [signIns EXCEPT ![s].timer = "fired"] IN
     signIns' = IF Belongs(s)
                THEN [fired EXCEPT ![Target(s)] = Stopped(@, "expired")] ELSE fired
  /\ UNCHANGED <<session, finishing, input, credentials, prints, checkFaults>>

\* consume: a prompt for a code; for Claude, a token that is chained to `persist`.
Prompted(signIn) ==
  IF signIn.cli = Claude THEN [signIn EXCEPT !.links = @ + 1]
                         ELSE [signIn EXCEPT !.state = "needs_input"]
Consume(s) ==
  /\ prints < MaxPrints /\ prints' = prints + 1
  /\ signIns[s].process \in {"running", "killed"}
  /\ Belongs(s)
  /\ signIns' = [signIns EXCEPT ![Target(s)] = Prompted(@)]
  /\ UNCHANGED <<session, finishing, input, credentials, checkFaults>>

\* A write of a token, in the order of the chain: none runs after one that failed.
Persist(s) ==
  /\ signIns[s].ended < signIns[s].links
  /\ \E fails \in BOOLEAN :
       LET broken == IF signIns[s].broken # 0 THEN signIns[s].broken
                     ELSE IF fails THEN signIns[s].ended + 1 ELSE 0
       IN /\ signIns' = [signIns EXCEPT ![s].ended = @ + 1, ![s].broken = broken]
          /\ credentials' = [credentials EXCEPT ![signIns[s].cli] = @ \/ broken = 0]
  /\ UNCHANGED <<session, finishing, input, prints, checkFaults>>

Reached(h) == signIns[h.of].ended >= h.link
Rejected(h) == signIns[h.of].broken # 0 /\ signIns[h.of].broken <= h.link

\* A CLI other than Claude stores its credentials itself.
CliSignsIn(s) ==
  /\ signIns[s].process \in {"running", "killed"} /\ signIns[s].cli # Claude
  /\ credentials' = [credentials EXCEPT ![signIns[s].cli] = TRUE]
  /\ UNCHANGED <<signIns, session, finishing, input, prints, checkFaults>>

\* The process ends, by itself or because it was told to.
BeginsFinish(s) == Belongs(s)
Exit(s) ==
  /\ signIns[s].process \in {"running", "killed"}
  /\ signIns' = [signIns EXCEPT ![s].process = IF @ = "running" THEN "exited" ELSE "gone"]
  /\ finishing' = [finishing EXCEPT ![s] =
                     IF BeginsFinish(s)
                     THEN At("persist", Target(s), signIns[Target(s)].links) ELSE At("over", 0, 0)]
  /\ UNCHANGED <<session, input, credentials, prints, checkFaults>>

\* finish waits for `persist`, then for isLoggedIn, and then stops the sign-in.
FinishPersisted(s) ==
  /\ finishing[s].stage = "persist" /\ Reached(finishing[s])
  /\ finishing' = [finishing EXCEPT ![s].stage = "check"]
  /\ UNCHANGED <<signIns, session, input, credentials, prints, checkFaults>>

\* isLoggedIn: what is on disk, or it fails, which counts as not signed in.
Check(h, logged) ==
  \/ logged = credentials[signIns[h.of].cli] /\ UNCHANGED checkFaults
  \/ logged = FALSE /\ checkFaults < MaxCheckFaults /\ checkFaults' = checkFaults + 1

FinishChecks(s) ==
  /\ finishing[s].stage = "check"
  /\ \E logged \in BOOLEAN :
       /\ Check(finishing[s], logged)
       /\ finishing' = [finishing EXCEPT ![s].stage = "stop", ![s].logged = logged]
  /\ UNCHANGED <<signIns, session, input, credentials, prints>>

\* A mutant of Outcome: a process that has ended has signed in.
OutcomeOfExit(h) == "done"
Outcome(h) == IF h.logged THEN "done" ELSE "failed"
FinishStops(s) ==
  /\ finishing[s].stage = "stop"
  /\ Stop(finishing[s].of, Outcome(finishing[s]))
  /\ finishing' = [finishing EXCEPT ![s] = At("over", 0, 0)]
  /\ UNCHANGED <<session, input, credentials, prints, checkFaults>>

\* input: a token for Claude is stored and tried; anything else, or a token that
\* does not work, is written to the process.
Input(i) ==
  /\ input[i].stage = "none"
  /\ \/ /\ Waits(Claude)
        /\ LET s == session[Claude] IN
           /\ signIns' = [signIns EXCEPT ![s].links = @ + 1]
           /\ input' = [input EXCEPT ![i] = At("persist", s, signIns[s].links + 1)]
     \/ /\ \E c \in Clis : Waits(c)
        /\ input' = [input EXCEPT ![i] = At("over", 0, 0)]
        /\ UNCHANGED signIns
  /\ UNCHANGED <<session, finishing, credentials, prints, checkFaults>>

\* A write that failed is an error of the request.
InputPersisted(i) ==
  /\ input[i].stage = "persist" /\ Reached(input[i])
  /\ input' = [input EXCEPT ![i].stage = IF Rejected(input[i]) THEN "over" ELSE "check",
                            ![i].ok = ~Rejected(input[i])]
  /\ UNCHANGED <<signIns, session, finishing, credentials, prints, checkFaults>>

InputChecks(i) ==
  /\ input[i].stage = "check"
  /\ \E logged \in BOOLEAN :
       /\ Check(input[i], logged)
       /\ input' = [input EXCEPT ![i].stage = IF logged THEN "stop" ELSE "over",
                                 ![i].logged = logged]
  /\ UNCHANGED <<signIns, session, finishing, credentials, prints>>

InputStops(i) ==
  /\ input[i].stage = "stop"
  /\ Stop(input[i].of, "done")
  /\ input' = [input EXCEPT ![i].stage = "over", ![i].logged = FALSE]
  /\ UNCHANGED <<session, finishing, credentials, prints, checkFaults>>

LoginNext ==
  \/ \E c \in Clis : Start(c) \/ Cancel(c)
  \/ Close
  \/ \E s \in SignIns : \/ Expire(s) \/ Consume(s) \/ Persist(s) \/ CliSignsIn(s) \/ Exit(s)
                        \/ FinishPersisted(s) \/ FinishChecks(s) \/ FinishStops(s)
  \/ \E i \in Inputs : Input(i) \/ InputPersisted(i) \/ InputChecks(i) \/ InputStops(i)

LoginSpec == LoginInit /\ [][LoginNext]_loginVars

\* Timers fire.
LoginFair == LoginSpec /\ WF_loginVars(\E s \in SignIns : Expire(s))

-----------------------------------------------------------------------------
\* No process of a sign-in outlives it: one that was not told to end is the
\* process of the current sign-in of its CLI, and that still waits for it.
NoProcessOutlivesItsSignIn ==
  \A s \in SignIns : signIns[s].process = "running" => IsCurrent(s) /\ Active(s)

\* Every sign-in ends for a reason of its own, whatever else runs for its CLI:
\* it fails when its own process has ended by itself, expires when its own timer
\* fired, and is cancelled when that was asked while it was the current one.
SignInsEndForTheirOwnReasons ==
  \A s \in SignIns :
    /\ signIns[s].state = "failed" => signIns[s].process \in {"none", "exited"}
    /\ signIns[s].state = "expired" => signIns[s].timer = "fired"
    /\ signIns[s].state = "cancelled" => signIns[s].asked

\* A sign-in and its process belong to each other: neither ends the other's
\* successor, and neither outlives the other.
SignInsKeepToThemselves == NoProcessOutlivesItsSignIn /\ SignInsEndForTheirOwnReasons

\* A sign-in that says done has left credentials, and an input that was answered
\* without an error was stored, however the writes of one sign-in failed.
DoneMeansSignedIn ==
  /\ \A s \in SignIns : signIns[s].state = "done" => credentials[signIns[s].cli]
  /\ \A i \in Inputs : input[i].stage = "over" /\ input[i].link # 0 /\ input[i].ok
                         => credentials[Claude]

\* Every sign-in ends, if only because its time is up: no lost timer leaves one
\* waiting, which would refuse every later one of its CLI (LoginBusyError).
SignInsEnd == \A c \in Clis : []<>~Waits(c)
=============================================================================
