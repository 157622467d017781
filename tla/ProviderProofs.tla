---------------------------- MODULE ProviderProofs ----------------------------
(***************************************************************************)
(* What is proved of the parts that reach a provider or a server of tools: *)
(* CliLogin, CliInstall and McpConnection, for every number of sign-ins,   *)
(* CLIs, versions, installs, tool calls and clients.                       *)
(***************************************************************************)
EXTENDS CliLogin, CliInstall, McpConnection, WellFoundedInduction, TLAPS

-----------------------------------------------------------------------------
(***************************************************************************)
(* CliLogin: the types of its state, that no process outlives its sign-in, *)
(* that sign-ins end for reasons of their own, and that "done" means that  *)
(* there are credentials.                                                  *)
(***************************************************************************)

\* Whether the process of a sign-in is there, and for whom.
ProcessOK(s) ==
  /\ signIns[s].process = "running" => IsCurrent(s) /\ Active(s)
  /\ Active(s) => signIns[s].process \in {"running", "exited"}

\* Why a sign-in is over.
ReasonOK(s) ==
  /\ signIns[s].state = "failed" => signIns[s].process \in {"none", "exited"}
  /\ signIns[s].state = "expired" => signIns[s].timer = "fired"
  /\ signIns[s].state = "cancelled" => signIns[s].asked

\* A chain of writes that did not break at the first one has stored a token.
CredentialsOK(s) ==
  /\ signIns[s].broken <= signIns[s].ended
  /\ signIns[s].ended >= 1 /\ signIns[s].broken # 1 => credentials[signIns[s].cli]
  /\ signIns[s].state = "done" => credentials[signIns[s].cli]

SignInOK(s) == ProcessOK(s) /\ ReasonOK(s) /\ CredentialsOK(s)

\* The handler of an exit goes on only for the sign-in of its own process, and
\* says done only when there are credentials.
FinishingOK(s) ==
  /\ finishing[s].stage \in {"persist", "check", "stop"} =>
       /\ s \in SignIns /\ finishing[s].of = s /\ signIns[s].process = "exited"
  /\ finishing[s].stage = "stop" /\ finishing[s].logged => credentials[signIns[s].cli]

\* So does the handler of an input, whose write comes after the first.
InputOK(i) ==
  /\ input[i].stage \in {"persist", "check", "stop"} =>
       /\ input[i].of \in SignIns /\ signIns[input[i].of].cli = Claude /\ input[i].link >= 1
  /\ \/ input[i].stage \in {"check", "stop"}
     \/ input[i].stage = "over" /\ input[i].link # 0 /\ input[i].ok
     => credentials[Claude]

SessionOK(c) ==
  session[c] # 0 => session[c] \in SignIns /\ signIns[session[c]].cli = c

LoginInv ==
  /\ LoginTypeOK
  /\ \A s \in SignIns : SignInOK(s)
  /\ \A s \in 1 .. MaxSignIns : FinishingOK(s)
  /\ \A i \in Inputs : InputOK(i)
  /\ \A c \in Clis : SessionOK(c)

-----------------------------------------------------------------------------
\* A step that changes one sign-in, and a step that keeps what is known of all.
Only(s) ==
  /\ signIns' \in Seq(SignIn) /\ Len(signIns') = Len(signIns)
  /\ \A t \in SignIns \ {s} : signIns'[t] = signIns[t]

Kept ==
  /\ \A t \in SignIns : /\ t \in SignIns' /\ signIns'[t].cli = signIns[t].cli
                        /\ signIns[t].process = "exited" => signIns'[t].process = "exited"
  /\ \A c \in Clis : credentials[c] => credentials'[c]

States == {"pending", "needs_input", "done", "failed", "expired", "cancelled"}

\* Replacing one sign-in leaves the others alone.
LEMMA ReplacedSignIn ==
  ASSUME signIns \in Seq(SignIn), NEW s \in SignIns, NEW r \in SignIn,
         signIns' = [signIns EXCEPT ![s] = r]
  PROVE  Only(s) /\ signIns'[s] = r
BY DEF Only, SignIns

\* What stop makes of a sign-in.
LEMMA StoppedIs ==
  ASSUME NEW r \in SignIn, NEW verdict \in States
  PROVE  /\ Stopped(r, verdict) \in SignIn
         /\ Stopped(r, verdict).state = verdict /\ Stopped(r, verdict).cli = r.cli
         /\ Stopped(r, verdict).process = IF r.process = "running" THEN "killed" ELSE r.process
         /\ Stopped(r, verdict).timer = IF r.timer = "set" THEN "clear" ELSE r.timer
         /\ Stopped(r, verdict).asked = r.asked /\ Stopped(r, verdict).links = r.links
         /\ Stopped(r, verdict).ended = r.ended /\ Stopped(r, verdict).broken = r.broken
BY DEF Stopped, SignIn, States

\* What output that matters makes of a sign-in.
LEMMA PromptedIs ==
  ASSUME NEW r \in SignIn
  PROVE  /\ Prompted(r) \in SignIn /\ Prompted(r).state \in {r.state, "needs_input"}
         /\ Prompted(r).cli = r.cli /\ Prompted(r).process = r.process
         /\ Prompted(r).ended = r.ended /\ Prompted(r).broken = r.broken
<1>1. [r EXCEPT !.links = @ + 1] \in SignIn
  BY DEF SignIn
<1>2. [r EXCEPT !.state = "needs_input"] \in SignIn
  BY DEF SignIn
<1> QED
  BY <1>1, <1>2 DEF Prompted, SignIn

\* A sign-in has the fields it should have, and the one a CLI points at is there.
LEMMA SignInTyped ==
  ASSUME LoginInv
  PROVE  /\ \A s \in SignIns :
              /\ signIns[s] \in SignIn /\ signIns[s].cli \in Clis
              /\ signIns[s].links \in Nat /\ signIns[s].ended \in Nat /\ signIns[s].broken \in Nat
              /\ s \in 1 .. MaxSignIns
         /\ \A c \in Clis : Waits(c) => /\ session[c] \in SignIns /\ signIns[session[c]].cli = c
                                        /\ Active(session[c]) /\ IsCurrent(session[c])
<1>1. ASSUME NEW s \in SignIns
      PROVE  signIns[s] \in SignIn /\ s \in 1 .. Len(signIns)
  BY DEF LoginInv, LoginTypeOK, SignIns
<1>2. Len(signIns) \in Nat /\ Len(signIns) <= MaxSignIns /\ MaxSignIns \in Nat
  BY LoginBoundsAssumption DEF LoginInv, LoginTypeOK
<1>3. ASSUME NEW s \in SignIns
      PROVE  /\ signIns[s].cli \in Clis /\ signIns[s].links \in Nat
             /\ signIns[s].ended \in Nat /\ signIns[s].broken \in Nat
  BY <1>1 DEF SignIn
<1>4. ASSUME NEW c \in Clis, Waits(c)
      PROVE  /\ session[c] \in SignIns /\ signIns[session[c]].cli = c
             /\ Active(session[c]) /\ IsCurrent(session[c])
  BY <1>4 DEF LoginInv, SessionOK, Waits, IsCurrent
<1> QED
  BY <1>1, <1>2, <1>3, <1>4

\* What is kept is enough for the handler of an exit that does not move.
LEMMA KeptFinishing ==
  ASSUME LoginInv, Kept, NEW s \in 1 .. MaxSignIns, finishing'[s] = finishing[s]
  PROVE  FinishingOK(s)'
BY SignInTyped DEF LoginInv, Kept, FinishingOK

\* The same of the handler of an input,
LEMMA KeptInput ==
  ASSUME LoginInv, Kept, NEW i \in Inputs, input'[i] = input[i]
  PROVE  InputOK(i)'
BY LoginClisAssumption DEF LoginInv, Kept, InputOK

\* of the current sign-in of a CLI,
LEMMA KeptSession ==
  ASSUME LoginInv, Kept, NEW c \in Clis, session'[c] = session[c]
  PROVE  SessionOK(c)'
BY DEF LoginInv, Kept, SessionOK

\* and of a sign-in that nothing touches.
LEMMA KeptSignIn ==
  ASSUME LoginInv, Kept, NEW s \in SignIns, signIns'[s] = signIns[s], UNCHANGED session
  PROVE  SignInOK(s)'
<1>1. SignInOK(s) /\ signIns[s].cli \in Clis
  BY SignInTyped DEF LoginInv
<1> QED
  BY <1>1 DEF Kept, SignInOK, ProcessOK, ReasonOK, CredentialsOK, IsCurrent, Active

\* So a step that changes one sign-in and no handler has only that one to answer for.
LEMMA OneSignInStep ==
  ASSUME LoginInv, NEW s \in SignIns, Only(s), UNCHANGED <<session, finishing, input>>,
         signIns'[s].cli = signIns[s].cli,
         signIns[s].process = "exited" => signIns'[s].process = "exited",
         \A c \in Clis : credentials[c] => credentials'[c], credentials' \in [Clis -> BOOLEAN],
         prints' \in 0 .. MaxPrints, checkFaults' \in 0 .. MaxCheckFaults,
         SignInOK(s)'
  PROVE  LoginInv'
<1>1. SignIns' = SignIns
  BY DEF Only, SignIns, LoginInv, LoginTypeOK
<1>2. Kept
  BY <1>1 DEF Kept, Only
<1>3. \A t \in SignIns' : SignInOK(t)'
  BY <1>1, <1>2, KeptSignIn DEF Only
<1>4. LoginTypeOK'
  BY DEF LoginInv, LoginTypeOK, Only
<1> QED
  BY <1>2, <1>3, <1>4, KeptFinishing, KeptInput, KeptSession DEF LoginInv

-----------------------------------------------------------------------------
\* A sign-in that is stopped, for a reason that holds, is as it should be.
LEMMA StopSignIn ==
  ASSUME LoginInv, NEW s \in SignIns, NEW r \in SignIn, NEW verdict \in {"done", "failed", "expired", "cancelled"},
         signIns' = [signIns EXCEPT ![s] = Stopped(r, verdict)],
         r.cli = signIns[s].cli, r.process = signIns[s].process,
         r.ended = signIns[s].ended, r.broken = signIns[s].broken,
         UNCHANGED <<session, credentials>>,
         verdict = "done" => credentials[signIns[s].cli],
         verdict = "failed" => signIns[s].process = "exited",
         verdict = "expired" => r.timer = "fired",
         verdict = "cancelled" => r.asked
  PROVE  /\ Only(s) /\ Kept /\ SignIns' = SignIns /\ \A t \in SignIns : SignInOK(t)'
         /\ signIns'[s].cli = signIns[s].cli /\ signIns'[s].process = "exited" <=> signIns[s].process = "exited"
<1>1. verdict \in States /\ verdict \notin {"pending", "needs_input"}
  BY DEF States
<1>2. Stopped(r, verdict) \in SignIn
  BY <1>1, StoppedIs
<1>3. signIns \in Seq(SignIn)
  BY DEF LoginInv, LoginTypeOK
<1>4. Only(s) /\ signIns'[s] = Stopped(r, verdict)
  BY <1>2, <1>3, ReplacedSignIn
<1>5. /\ signIns'[s].state = verdict /\ signIns'[s].cli = signIns[s].cli
      /\ signIns'[s].process = IF signIns[s].process = "running" THEN "killed" ELSE signIns[s].process
      /\ signIns'[s].timer = IF r.timer = "set" THEN "clear" ELSE r.timer
      /\ signIns'[s].asked = r.asked
      /\ signIns'[s].ended = signIns[s].ended /\ signIns'[s].broken = signIns[s].broken
  BY <1>1, <1>4, StoppedIs
<1>6. SignInOK(s)'
  <2>1. SignInOK(s)
    BY DEF LoginInv
  <2> QED
    BY <1>1, <1>5, <2>1 DEF SignInOK, ProcessOK, ReasonOK, CredentialsOK, Active
<1>7. SignIns' = SignIns
  BY <1>3, <1>4 DEF Only, SignIns
<1>8. Kept
  BY <1>4, <1>5, <1>7 DEF Kept, Only
<1>9. \A t \in SignIns : SignInOK(t)'
  BY <1>4, <1>6, <1>8, KeptSignIn DEF Only
<1> QED
  BY <1>4, <1>5, <1>7, <1>8, <1>9

\* No handler moves with it when the user cancels or the time is up.
LEMMA StopStep ==
  ASSUME LoginInv, NEW s \in SignIns, NEW r \in SignIn, NEW verdict \in {"expired", "cancelled"},
         signIns' = [signIns EXCEPT ![s] = Stopped(r, verdict)],
         r.cli = signIns[s].cli, r.process = signIns[s].process,
         r.ended = signIns[s].ended, r.broken = signIns[s].broken,
         UNCHANGED <<session, finishing, input, credentials, prints, checkFaults>>,
         verdict = "expired" => r.timer = "fired",
         verdict = "cancelled" => r.asked
  PROVE  LoginInv'
<1>1. Only(s) /\ Kept /\ SignIns' = SignIns /\ \A t \in SignIns : SignInOK(t)'
  BY StopSignIn
<1>2. LoginTypeOK'
  BY <1>1 DEF Only, LoginInv, LoginTypeOK
<1> QED
  BY <1>1, <1>2, KeptFinishing, KeptInput, KeptSession DEF LoginInv

\* A user cancels.
LEMMA CancelStep == ASSUME LoginInv, NEW c \in Clis, Cancel(c) PROVE LoginInv'
<1> DEFINE s == session[c]
           r == [signIns[s] EXCEPT !.asked = TRUE]
<1>1. s \in SignIns /\ signIns[s] \in SignIn
  BY SignInTyped DEF Cancel
<1>2. /\ r \in SignIn /\ r.cli = signIns[s].cli /\ r.process = signIns[s].process
      /\ r.ended = signIns[s].ended /\ r.broken = signIns[s].broken /\ r.asked
  BY <1>1 DEF SignIn
<1>3. [Stopped(signIns[s], "cancelled") EXCEPT !.asked = TRUE] = Stopped(r, "cancelled")
  BY <1>1 DEF Stopped, SignIn
<1>4. signIns' = [signIns EXCEPT ![s] = Stopped(r, "cancelled")]
  BY <1>3 DEF Cancel
<1> HIDE DEF r
<1> QED
  BY <1>1, <1>2, <1>4, StopStep DEF Cancel

\* The time of a sign-in is up.
LEMMA ExpireStep == ASSUME LoginInv, NEW s \in SignIns, Expire(s) PROVE LoginInv'
<1> DEFINE r == [signIns[s] EXCEPT !.timer = "fired"]
<1>1. signIns[s] \in SignIn /\ signIns \in Seq(SignIn)
  BY SignInTyped DEF LoginInv, LoginTypeOK
<1>2. /\ r \in SignIn /\ r.cli = signIns[s].cli /\ r.process = signIns[s].process
      /\ r.ended = signIns[s].ended /\ r.broken = signIns[s].broken /\ r.timer = "fired"
      /\ r.state = signIns[s].state /\ r.asked = signIns[s].asked
  BY <1>1 DEF SignIn
<1>3. [signIns EXCEPT ![s].timer = "fired"] = [signIns EXCEPT ![s] = r]
  OBVIOUS
<1> HIDE DEF r
<1>4. CASE Belongs(s)
  <2>1. Target(s) = s
    BY <1>4 DEF Belongs, IsCurrent, Target
  <2>2. signIns' = [[signIns EXCEPT ![s] = r] EXCEPT ![s] = Stopped(@, "expired")]
    BY <1>3, <1>4, <2>1 DEF Expire
  <2>3. signIns' = [signIns EXCEPT ![s] = Stopped(r, "expired")]
    BY <1>1, <2>2 DEF SignIns
  <2> QED
    BY <1>2, <2>3, StopStep DEF Expire
<1>5. CASE ~Belongs(s)
  <2>1. signIns' = [signIns EXCEPT ![s] = r]
    BY <1>3, <1>5 DEF Expire
  <2>2. Only(s) /\ signIns'[s] = r
    BY <1>1, <1>2, <2>1, ReplacedSignIn
  <2>3. SignInOK(s)'
    <3>1. SignInOK(s)
      BY DEF LoginInv
    <3> QED
      BY <1>2, <2>2, <3>1 DEF SignInOK, ProcessOK, ReasonOK, CredentialsOK, IsCurrent, Active, Expire
  <2> QED
    BY <1>2, <2>2, <2>3, OneSignInStep DEF Expire, LoginInv, LoginTypeOK
<1> QED
  BY <1>4, <1>5

\* The process prints a token or a prompt.
LEMMA ConsumeStep == ASSUME LoginInv, NEW s \in SignIns, Consume(s) PROVE LoginInv'
<1> DEFINE r == Prompted(signIns[s])
<1>1. signIns[s] \in SignIn /\ signIns \in Seq(SignIn)
  BY SignInTyped DEF LoginInv, LoginTypeOK
<1>2. Target(s) = s /\ Active(s)
  BY DEF Consume, Belongs, IsCurrent, Target
<1>3. signIns' = [signIns EXCEPT ![s] = r]
  BY <1>2 DEF Consume
<1>4. /\ r \in SignIn /\ r.cli = signIns[s].cli /\ r.process = signIns[s].process
      /\ r.ended = signIns[s].ended /\ r.broken = signIns[s].broken
      /\ r.state \in {"pending", "needs_input"}
  BY <1>1, <1>2, PromptedIs DEF Active
<1> HIDE DEF r
<1>5. Only(s) /\ signIns'[s] = r
  BY <1>1, <1>3, <1>4, ReplacedSignIn
<1>6. SignInOK(s)'
  <2>1. SignInOK(s)
    BY DEF LoginInv
  <2> QED
    BY <1>2, <1>4, <1>5, <2>1 DEF SignInOK, ProcessOK, ReasonOK, CredentialsOK, IsCurrent, Active, Consume
<1>7. prints' \in 0 .. MaxPrints
  BY LoginBoundsAssumption DEF Consume, LoginInv, LoginTypeOK
<1> QED
  BY <1>4, <1>5, <1>6, <1>7, OneSignInStep DEF Consume, LoginInv, LoginTypeOK

\* A token is written, or not.
LEMMA PersistStep == ASSUME LoginInv, NEW s \in SignIns, Persist(s) PROVE LoginInv'
<1>1. PICK fails \in BOOLEAN :
        LET broken == IF signIns[s].broken # 0 THEN signIns[s].broken
                      ELSE IF fails THEN signIns[s].ended + 1 ELSE 0
        IN /\ signIns' = [signIns EXCEPT ![s].ended = @ + 1, ![s].broken = broken]
           /\ credentials' = [credentials EXCEPT ![signIns[s].cli] = @ \/ broken = 0]
  BY DEF Persist
<1> DEFINE broken == IF signIns[s].broken # 0 THEN signIns[s].broken
                     ELSE IF fails THEN signIns[s].ended + 1 ELSE 0
           ended == signIns[s].ended + 1
           r == [signIns[s] EXCEPT !.ended = ended, !.broken = broken]
<1>2. signIns[s] \in SignIn /\ signIns \in Seq(SignIn) /\ signIns[s].cli \in Clis
      /\ signIns[s].ended \in Nat /\ signIns[s].broken \in Nat
  BY SignInTyped DEF LoginInv, LoginTypeOK
<1>3. signIns' = [signIns EXCEPT ![s] = r]
  BY <1>1, <1>2 DEF SignIns
<1>4. /\ r \in SignIn /\ r.cli = signIns[s].cli /\ r.process = signIns[s].process
      /\ r.ended = signIns[s].ended + 1 /\ r.broken = broken
      /\ r.state = signIns[s].state /\ r.timer = signIns[s].timer /\ r.asked = signIns[s].asked
  <2>1. broken \in Nat /\ ended \in Nat
    BY <1>2
  <2> HIDE DEF broken, ended
  <2>2. /\ r \in SignIn /\ r.cli = signIns[s].cli /\ r.process = signIns[s].process
        /\ r.ended = ended /\ r.broken = broken
        /\ r.state = signIns[s].state /\ r.timer = signIns[s].timer /\ r.asked = signIns[s].asked
    BY <1>2, <2>1 DEF SignIn
  <2> QED
    BY <2>2 DEF ended
<1>5. SignInOK(s) /\ credentials \in [Clis -> BOOLEAN]
  BY DEF LoginInv, LoginTypeOK
<1>6. broken <= signIns[s].ended + 1 /\ (signIns[s].ended = 0 /\ broken # 1 => broken = 0)
      /\ (broken # 1 => signIns[s].broken # 1)
  BY <1>2, <1>5 DEF SignInOK, CredentialsOK
<1>7. credentials' = [credentials EXCEPT ![signIns[s].cli] = @ \/ broken = 0]
  BY <1>1
<1> HIDE DEF r, ended, broken
<1>8. /\ credentials' \in [Clis -> BOOLEAN]
      /\ \A c \in Clis : credentials[c] => credentials'[c]
      /\ broken = 0 => credentials'[signIns[s].cli]
  <2>1. ASSUME NEW c \in Clis
        PROVE  credentials'[c] = IF c = signIns[s].cli THEN credentials[c] \/ broken = 0 ELSE credentials[c]
    BY <1>2, <1>5, <1>7, Zenon
  <2>2. ASSUME NEW c \in Clis PROVE credentials[c] \in BOOLEAN
    BY <1>5
  <2>3. credentials' = [c \in Clis |-> IF c = signIns[s].cli THEN credentials[c] \/ broken = 0 ELSE credentials[c]]
    BY <1>2, <1>5, <1>7, Zenon
  <2> QED
    BY <1>2, <2>1, <2>2, <2>3
<1>9. Only(s) /\ signIns'[s] = r
  BY <1>2, <1>3, <1>4, ReplacedSignIn
<1>10. SignInOK(s)'
  <2>1. ProcessOK(s)' /\ ReasonOK(s)'
    BY <1>4, <1>5, <1>9 DEF SignInOK, ProcessOK, ReasonOK, IsCurrent, Active, Persist
  <2>2. signIns[s].ended = 0 \/ signIns[s].ended >= 1
    BY <1>2
  <2>3. CredentialsOK(s)'
    BY <1>2, <1>4, <1>5, <1>6, <1>8, <1>9, <2>2 DEF SignInOK, CredentialsOK
  <2> QED
    BY <2>1, <2>3 DEF SignInOK
<1> QED
  BY <1>4, <1>8, <1>9, <1>10, OneSignInStep DEF Persist, LoginInv, LoginTypeOK

\* A CLI stores its own credentials.
LEMMA CliSignsInStep == ASSUME LoginInv, NEW s \in SignIns, CliSignsIn(s) PROVE LoginInv'
<1>1. /\ credentials \in [Clis -> BOOLEAN] /\ signIns \in Seq(SignIn)
      /\ signIns[s].cli \in Clis /\ SignInOK(s)
  BY SignInTyped DEF LoginInv, LoginTypeOK
<1>2. /\ credentials' \in [Clis -> BOOLEAN]
      /\ \A c \in Clis : credentials[c] => credentials'[c]
  BY <1>1 DEF CliSignsIn
<1>3. UNCHANGED <<signIns, session, finishing, input, prints, checkFaults>>
  BY DEF CliSignsIn
<1>4. Only(s) /\ signIns'[s] = signIns[s]
  BY <1>1, <1>3 DEF Only
<1>5. SignInOK(s)'
  BY <1>1, <1>2, <1>3 DEF SignInOK, ProcessOK, ReasonOK, CredentialsOK, IsCurrent, Active
<1> QED
  BY <1>2, <1>3, <1>4, <1>5, OneSignInStep DEF LoginInv, LoginTypeOK

\* A sign-in is started: the one before it is over, and its process with it.
LEMMA StartStep == ASSUME LoginInv, NEW c \in Clis, Start(c) PROVE LoginInv'
<1>0. PICK n : n = Len(signIns) + 1
  OBVIOUS
<1>1. PICK installed \in BOOLEAN : signIns' = Append(signIns, NewSignIn(c, installed))
  BY DEF Start
<1> DEFINE r == NewSignIn(c, installed)
<1>2. /\ r \in SignIn /\ r.cli = c /\ r.ended = 0 /\ r.broken = 0
      /\ r.state \in {"failed", "needs_input", "pending"}
      /\ r.process = IF r.state = "failed" THEN "none" ELSE "running"
  BY DEF NewSignIn, SignIn
<1> HIDE DEF r
<1>3. /\ signIns \in Seq(SignIn) /\ Len(signIns) \in Nat /\ n <= MaxSignIns /\ n \in 1 .. MaxSignIns
      /\ session \in [Clis -> 0 .. MaxSignIns]
  BY <1>0, LoginBoundsAssumption DEF LoginInv, LoginTypeOK, Start
<1>4. /\ signIns' \in Seq(SignIn) /\ Len(signIns') = n
      /\ \A t \in SignIns : signIns'[t] = signIns[t] /\ t \in SignIns' /\ t # n
      /\ signIns'[n] = r /\ SignIns' = SignIns \cup {n}
  <2>1. SignIns = 1 .. Len(signIns)
    BY <1>3 DEF SignIns
  <2>2. signIns' \in Seq(SignIn) /\ Len(signIns') = n /\ signIns'[n] = r
    BY <1>0, <1>1, <1>2, <1>3 DEF r
  <2>3. SignIns' = 1 .. n
    BY <1>3, <2>2 DEF SignIns
  <2>4. \A t \in SignIns : signIns'[t] = signIns[t]
    BY <1>1, <1>2, <1>3, <2>1 DEF r
  <2>5. 1 .. n = (1 .. Len(signIns)) \cup {n} /\ n \notin 1 .. Len(signIns)
    BY <1>0, <1>3
  <2> QED
    BY <2>1, <2>2, <2>3, <2>4, <2>5
<1>5. /\ session' = [session EXCEPT ![c] = n]
      /\ UNCHANGED <<finishing, input, credentials, prints, checkFaults>>
  BY <1>0 DEF Start
<1>6. Kept
  BY <1>4, <1>5 DEF Kept
<1>7. LoginTypeOK'
  BY <1>3, <1>4, <1>5 DEF LoginInv, LoginTypeOK
<1>8. ASSUME NEW t \in SignIns PROVE SignInOK(t)'
  <2>1. SignInOK(t) /\ signIns[t].cli \in Clis
    BY SignInTyped DEF LoginInv
  <2>2. signIns[t].process = "running" => signIns[t].cli # c
    <3> SUFFICES ASSUME signIns[t].process = "running", signIns[t].cli = c PROVE FALSE
      OBVIOUS
    <3>1. session[c] = t /\ Active(t)
      BY <2>1 DEF SignInOK, ProcessOK, IsCurrent
    <3>2. t # 0
      BY SignInTyped
    <3> QED
      BY <3>1, <3>2 DEF Start, MayStart, Waits
  <2> QED
    BY <1>3, <1>4, <1>5, <2>1, <2>2
    DEF SignInOK, ProcessOK, ReasonOK, CredentialsOK, IsCurrent, Active
<1>9. SignInOK(n)'
  <2>1. session'[c] = n
    BY <1>3, <1>5
  <2> QED
    BY <1>2, <1>3, <1>4, <2>1 DEF SignInOK, ProcessOK, ReasonOK, CredentialsOK, IsCurrent, Active
<1>10. ASSUME NEW d \in Clis PROVE SessionOK(d)'
  <2>1. CASE d = c
    BY <1>2, <1>3, <1>4, <1>5, <2>1 DEF SessionOK
  <2>2. CASE d # c
    BY <1>3, <1>5, <1>6, <2>2, KeptSession
  <2> QED
    BY <2>1, <2>2
<1>11. \A t \in 1 .. MaxSignIns : FinishingOK(t)'
  BY <1>5, <1>6, KeptFinishing
<1>12. \A i \in Inputs : InputOK(i)'
  BY <1>5, <1>6, KeptInput
<1>13. \A t \in SignIns' : SignInOK(t)'
  BY <1>4, <1>8, <1>9
<1> QED
  BY <1>7, <1>10, <1>11, <1>12, <1>13 DEF LoginInv

\* The server shuts down: every sign-in that waits is stopped.
LEMMA CloseStep == ASSUME LoginInv, Close PROVE LoginInv'
<1> DEFINE stopped(t) == [Stopped(signIns[t], "cancelled") EXCEPT !.asked = TRUE]
           closed(t) == IsCurrent(t) /\ Active(t)
<1>1. /\ UNCHANGED <<session, finishing, input, credentials, prints, checkFaults>>
      /\ signIns' = [t \in SignIns |-> IF closed(t) THEN stopped(t) ELSE signIns[t]]
  BY DEF Close
<1>2. \A t \in SignIns : signIns[t] \in SignIn
  BY SignInTyped
<1>3. ASSUME NEW t \in SignIns
      PROVE  /\ stopped(t) \in SignIn /\ stopped(t).state = "cancelled" /\ stopped(t).asked
             /\ stopped(t).cli = signIns[t].cli
             /\ stopped(t).process = IF signIns[t].process = "running" THEN "killed" ELSE signIns[t].process
             /\ stopped(t).ended = signIns[t].ended /\ stopped(t).broken = signIns[t].broken
  BY <1>2 DEF Stopped, SignIn
<1> HIDE DEF stopped, closed
<1>4. SignIns = 1 .. Len(signIns) /\ Len(signIns) \in Nat
  BY DEF SignIns, LoginInv, LoginTypeOK
<1>5. signIns' \in Seq(SignIn) /\ Len(signIns') = Len(signIns) /\ SignIns' = SignIns
  <2>1. signIns' \in [1 .. Len(signIns) -> SignIn]
    BY <1>1, <1>2, <1>3, <1>4
  <2> QED
    BY <1>4, <2>1 DEF SignIns
<1>6. \A t \in SignIns : signIns'[t] = IF closed(t) THEN stopped(t) ELSE signIns[t]
  BY <1>1
<1>7. Kept
  BY <1>1, <1>3, <1>5, <1>6 DEF Kept
<1>8. ASSUME NEW t \in SignIns PROVE SignInOK(t)'
  <2>1. CASE closed(t)
    <3>1. SignInOK(t)
      BY DEF LoginInv
    <3>2. signIns'[t] = stopped(t)
      BY <1>6, <2>1
    <3> QED
      BY <1>1, <1>3, <3>1, <3>2 DEF SignInOK, ProcessOK, ReasonOK, CredentialsOK, Active
  <2>2. CASE ~closed(t)
    BY <1>1, <1>6, <1>7, <2>2, KeptSignIn
  <2> QED
    BY <2>1, <2>2
<1>9. LoginTypeOK'
  BY <1>1, <1>5 DEF LoginInv, LoginTypeOK
<1> QED
  BY <1>1, <1>5, <1>7, <1>8, <1>9, KeptFinishing, KeptInput, KeptSession DEF LoginInv

-----------------------------------------------------------------------------
\* A step of the handler of one exit, or of one input, leaves the rest as it was.
LEMMA FinishingStep ==
  ASSUME LoginInv, LoginTypeOK', NEW s \in SignIns, NEW h, UNCHANGED <<session, input, credentials>>,
         finishing' = [finishing EXCEPT ![s] = h],
         Kept, SignIns' = SignIns, \A t \in SignIns : SignInOK(t)',
         FinishingOK(s)'
  PROVE  LoginInv'
<1>1. \A t \in 1 .. MaxSignIns : t # s => finishing'[t] = finishing[t]
  BY DEF LoginInv, LoginTypeOK
<1>2. \A t \in 1 .. MaxSignIns : FinishingOK(t)'
  BY <1>1, KeptFinishing
<1> QED
  BY <1>2, KeptInput, KeptSession DEF LoginInv

\* The same of a step of the handler of an input.
LEMMA InputStep ==
  ASSUME LoginInv, LoginTypeOK', NEW i \in Inputs, NEW h, UNCHANGED <<session, finishing, credentials>>,
         input' = [input EXCEPT ![i] = h],
         Kept, SignIns' = SignIns, \A t \in SignIns : SignInOK(t)',
         InputOK(i)'
  PROVE  LoginInv'
<1>1. \A j \in Inputs : j # i => input'[j] = input[j]
  BY DEF LoginInv, LoginTypeOK
<1>2. \A j \in Inputs : InputOK(j)'
  BY <1>1, KeptInput
<1> QED
  BY <1>2, KeptFinishing, KeptSession DEF LoginInv

\* Sign-ins that nobody touches are kept.
LEMMA UntouchedSignIns ==
  ASSUME LoginInv, UNCHANGED <<signIns, session, credentials>>
  PROVE  Kept /\ SignIns' = SignIns /\ \A t \in SignIns : SignInOK(t)'
<1>1. Kept /\ SignIns' = SignIns
  BY DEF Kept, SignIns
<1> QED
  BY <1>1, KeptSignIn

\* What the handlers may be.
LEMMA HandlerTyped ==
  ASSUME LoginInv
  PROVE  /\ \A s \in 1 .. MaxSignIns : finishing[s] \in Handler
         /\ \A i \in Inputs : input[i] \in Handler
         /\ \A stage \in {"none", "persist", "check", "stop", "over"}, of \in Nat, link \in Nat :
              /\ At(stage, of, link) \in Handler /\ At(stage, of, link).stage = stage
              /\ At(stage, of, link).of = of /\ At(stage, of, link).link = link
              /\ At(stage, of, link).ok
BY DEF LoginInv, LoginTypeOK, At, Handler

\* A process ends.
LEMMA ExitStep == ASSUME LoginInv, NEW s \in SignIns, Exit(s) PROVE LoginInv'
<1> DEFINE r == [signIns[s] EXCEPT !.process = IF @ = "running" THEN "exited" ELSE "gone"]
           h == IF BeginsFinish(s) THEN At("persist", Target(s), signIns[Target(s)].links)
                ELSE At("over", 0, 0)
<1>1. signIns[s] \in SignIn /\ signIns \in Seq(SignIn) /\ signIns[s].links \in Nat
      /\ s \in 1 .. MaxSignIns /\ s \in Nat /\ SignInOK(s)
  BY SignInTyped DEF LoginInv, LoginTypeOK
<1>2. /\ r \in SignIn /\ r.cli = signIns[s].cli /\ r.state = signIns[s].state
      /\ r.process = IF signIns[s].process = "running" THEN "exited" ELSE "gone"
      /\ r.ended = signIns[s].ended /\ r.broken = signIns[s].broken
      /\ r.timer = signIns[s].timer /\ r.asked = signIns[s].asked
  BY <1>1 DEF SignIn
<1>3. signIns' = [signIns EXCEPT ![s] = r] /\ finishing' = [finishing EXCEPT ![s] = h]
  BY DEF Exit
<1>4. /\ h \in Handler
      /\ BeginsFinish(s) => h.stage = "persist" /\ h.of = s
      /\ ~BeginsFinish(s) => h.stage = "over"
  <2>1. CASE BeginsFinish(s)
    <3>1. Target(s) = s
      BY <2>1 DEF BeginsFinish, Belongs, IsCurrent, Target
    <3>2. h = At("persist", s, signIns[s].links)
      BY <2>1, <3>1
    <3> HIDE DEF h
    <3> QED
      BY <1>1, <2>1, <3>2, HandlerTyped
  <2>2. CASE ~BeginsFinish(s)
    <3>1. h = At("over", 0, 0)
      BY <2>2
    <3> HIDE DEF h
    <3> QED
      BY <2>2, <3>1, HandlerTyped
  <2> QED
    BY <2>1, <2>2
<1> HIDE DEF r, h
<1>5. Only(s) /\ signIns'[s] = r
  BY <1>1, <1>2, <1>3, ReplacedSignIn
<1>6. SignIns' = SignIns
  BY <1>1, <1>5 DEF Only, SignIns
<1>7. signIns[s].process \in {"running", "killed"}
      /\ UNCHANGED <<session, input, credentials, prints, checkFaults>>
  BY DEF Exit
<1>8. Kept
  BY <1>2, <1>5, <1>6, <1>7 DEF Kept, Only
<1>9. SignInOK(s)'
  BY <1>1, <1>2, <1>5, <1>7 DEF SignInOK, ProcessOK, ReasonOK, CredentialsOK, Active
<1>10. \A t \in SignIns : SignInOK(t)'
  BY <1>5, <1>7, <1>8, <1>9, KeptSignIn DEF Only
<1>11. finishing'[s] = h
  BY <1>1, <1>3 DEF LoginInv, LoginTypeOK
<1>12. FinishingOK(s)'
  <2>1. BeginsFinish(s) => signIns[s].process = "running"
    BY <1>1, <1>7 DEF BeginsFinish, Belongs, SignInOK, ProcessOK
  <2> QED
    BY <1>2, <1>4, <1>5, <1>6, <1>11, <2>1 DEF FinishingOK
<1>13. LoginTypeOK'
  BY <1>1, <1>3, <1>4, <1>5, <1>7 DEF Only, LoginInv, LoginTypeOK
<1> QED
  BY <1>3, <1>6, <1>7, <1>8, <1>10, <1>12, <1>13, FinishingStep

\* The handler of an exit has waited for the writes.
LEMMA FinishPersistedStep == ASSUME LoginInv, NEW s \in SignIns, FinishPersisted(s) PROVE LoginInv'
<1> DEFINE h == [finishing[s] EXCEPT !.stage = "check"]
<1>1. finishing[s] \in Handler /\ s \in 1 .. MaxSignIns /\ FinishingOK(s)
  BY SignInTyped, HandlerTyped DEF LoginInv
<1>2. h \in Handler /\ h.stage = "check" /\ h.of = finishing[s].of
  BY <1>1 DEF Handler
<1>3. finishing' = [finishing EXCEPT ![s] = h] /\ finishing[s].stage = "persist"
      /\ UNCHANGED <<signIns, session, input, credentials, prints, checkFaults>>
  BY DEF FinishPersisted
<1> HIDE DEF h
<1>4. finishing'[s] = h
  BY <1>1, <1>3 DEF LoginInv, LoginTypeOK
<1>5. Kept /\ SignIns' = SignIns /\ \A t \in SignIns : SignInOK(t)'
  BY <1>3, UntouchedSignIns
<1>6. FinishingOK(s)'
  BY <1>1, <1>2, <1>3, <1>4, <1>5 DEF FinishingOK
<1>7. LoginTypeOK'
  BY <1>1, <1>2, <1>3 DEF LoginInv, LoginTypeOK
<1> QED
  BY <1>3, <1>5, <1>6, <1>7, FinishingStep

\* It has asked whether there are credentials.
LEMMA FinishChecksStep == ASSUME LoginInv, NEW s \in SignIns, FinishChecks(s) PROVE LoginInv'
<1>1. PICK logged \in BOOLEAN :
        /\ Check(finishing[s], logged)
        /\ finishing' = [finishing EXCEPT ![s].stage = "stop", ![s].logged = logged]
  BY DEF FinishChecks
<1> DEFINE h == [finishing[s] EXCEPT !.stage = "stop", !.logged = logged]
<1>2. finishing[s] \in Handler /\ s \in 1 .. MaxSignIns /\ FinishingOK(s) /\ signIns[s].cli \in Clis
      /\ finishing \in [1 .. MaxSignIns -> Handler] /\ checkFaults \in 0 .. MaxCheckFaults
  BY SignInTyped, HandlerTyped DEF LoginInv, LoginTypeOK
<1>3. h \in Handler /\ h.stage = "stop" /\ h.of = finishing[s].of /\ h.logged = logged
  BY <1>2 DEF Handler
<1>4. finishing' = [finishing EXCEPT ![s] = h]
  BY <1>1, <1>2
<1>5. finishing[s].stage = "check" /\ UNCHANGED <<signIns, session, input, credentials, prints>>
  BY DEF FinishChecks
<1> HIDE DEF h
<1>6. finishing'[s] = h
  BY <1>2, <1>4
<1>7. Kept /\ SignIns' = SignIns /\ \A t \in SignIns : SignInOK(t)'
  BY <1>5, UntouchedSignIns
<1>8. checkFaults' \in 0 .. MaxCheckFaults /\ (logged => credentials[signIns[s].cli])
  BY <1>1, <1>2, <1>5, LoginBoundsAssumption DEF Check, FinishingOK
<1>9. FinishingOK(s)'
  BY <1>2, <1>3, <1>5, <1>6, <1>7, <1>8 DEF FinishingOK
<1>10. LoginTypeOK'
  BY <1>2, <1>3, <1>4, <1>5, <1>8 DEF LoginInv, LoginTypeOK
<1> QED
  BY <1>4, <1>5, <1>7, <1>9, <1>10, FinishingStep

\* It stops the sign-in, whatever that came to meanwhile.
LEMMA FinishStopsStep == ASSUME LoginInv, NEW s \in SignIns, FinishStops(s) PROVE LoginInv'
<1> DEFINE h == At("over", 0, 0)
           verdict == Outcome(finishing[s])
<1>1. finishing[s].stage = "stop" /\ finishing' = [finishing EXCEPT ![s] = h]
      /\ UNCHANGED <<session, input, credentials, prints, checkFaults>>
  BY DEF FinishStops
<1>2. s \in 1 .. MaxSignIns /\ signIns[s] \in SignIn /\ FinishingOK(s)
  BY SignInTyped DEF LoginInv
<1>3. finishing[s].of = s /\ signIns[s].process = "exited"
  BY <1>1, <1>2 DEF FinishingOK
<1>4. signIns' = [signIns EXCEPT ![s] = Stopped(signIns[s], verdict)]
  BY <1>3 DEF FinishStops, Stop
<1>5. verdict \in {"done", "failed"} /\ (verdict = "done" => credentials[signIns[s].cli])
  BY <1>1, <1>2 DEF Outcome, FinishingOK
<1>6. h \in Handler /\ h.stage = "over"
  BY HandlerTyped
<1> HIDE DEF h, verdict
<1>7. Only(s) /\ Kept /\ SignIns' = SignIns /\ \A t \in SignIns : SignInOK(t)'
  BY <1>1, <1>2, <1>3, <1>4, <1>5, StopSignIn
<1>8. finishing'[s] = h
  BY <1>1, <1>2 DEF LoginInv, LoginTypeOK
<1>9. FinishingOK(s)'
  BY <1>6, <1>8 DEF FinishingOK
<1>10. LoginTypeOK'
  BY <1>1, <1>2, <1>6, <1>7 DEF Only, LoginInv, LoginTypeOK
<1> QED
  BY <1>1, <1>7, <1>9, <1>10, FinishingStep

\* The user sends an input.
LEMMA InputReceivedStep == ASSUME LoginInv, NEW i \in Inputs, Input(i) PROVE LoginInv'
<1>1. UNCHANGED <<session, finishing, credentials, prints, checkFaults>> /\ input[i] \in Handler
      /\ input \in [Inputs -> Handler] /\ signIns \in Seq(SignIn)
  BY HandlerTyped DEF Input, LoginInv, LoginTypeOK
<1>2. ASSUME NEW s, s = session[Claude], Waits(Claude),
             signIns' = [signIns EXCEPT ![s].links = @ + 1],
             input' = [input EXCEPT ![i] = At("persist", s, signIns[s].links + 1)]
      PROVE  LoginInv'
  <2> DEFINE r == [signIns[s] EXCEPT !.links = @ + 1]
             h == At("persist", s, signIns[s].links + 1)
  <2>1. /\ s \in SignIns /\ s \in 1 .. MaxSignIns /\ signIns[s].cli = Claude
        /\ signIns[s] \in SignIn /\ signIns[s].links \in Nat
    BY <1>2, LoginClisAssumption, SignInTyped
  <2>2. /\ r \in SignIn /\ r.cli = signIns[s].cli /\ r.state = signIns[s].state
        /\ r.process = signIns[s].process /\ r.ended = signIns[s].ended /\ r.broken = signIns[s].broken
        /\ r.timer = signIns[s].timer /\ r.asked = signIns[s].asked
    BY <2>1 DEF SignIn
  <2>3. h \in Handler /\ h.stage = "persist" /\ h.of = s /\ h.link >= 1
    BY <2>1, HandlerTyped
  <2>4. signIns' = [signIns EXCEPT ![s] = r] /\ input' = [input EXCEPT ![i] = h]
    BY <1>2
  <2> HIDE DEF r, h
  <2>5. Only(s) /\ signIns'[s] = r
    BY <1>1, <2>1, <2>2, <2>4, ReplacedSignIn
  <2>6. SignIns' = SignIns
    BY <1>1, <2>5 DEF Only, SignIns
  <2>7. Kept
    BY <1>1, <2>2, <2>5, <2>6 DEF Kept, Only
  <2>8. SignInOK(s)'
    <3>1. SignInOK(s)
      BY <2>1 DEF LoginInv
    <3> QED
      BY <1>1, <2>2, <2>5, <3>1 DEF SignInOK, ProcessOK, ReasonOK, CredentialsOK, IsCurrent, Active
  <2>9. \A t \in SignIns : SignInOK(t)'
    BY <1>1, <2>5, <2>7, <2>8, KeptSignIn DEF Only
  <2>10. input'[i] = h
    BY <1>1, <2>4
  <2>11. InputOK(i)'
    BY <2>1, <2>2, <2>3, <2>5, <2>6, <2>10 DEF InputOK
  <2>12. LoginTypeOK'
    BY <1>1, <2>3, <2>4, <2>5 DEF Only, LoginInv, LoginTypeOK
  <2> QED
    BY <1>1, <2>4, <2>6, <2>7, <2>9, <2>11, <2>12, InputStep
<1>3. ASSUME UNCHANGED signIns, input' = [input EXCEPT ![i] = At("over", 0, 0)] PROVE LoginInv'
  <2> DEFINE h == At("over", 0, 0)
  <2>1. h \in Handler /\ h.stage = "over" /\ h.link = 0
    BY HandlerTyped
  <2>2. input' = [input EXCEPT ![i] = h]
    BY <1>3
  <2> HIDE DEF h
  <2>3. input'[i] = h
    BY <1>1, <2>2
  <2>4. Kept /\ SignIns' = SignIns /\ \A t \in SignIns : SignInOK(t)'
    BY <1>1, <1>3, UntouchedSignIns
  <2>5. InputOK(i)'
    BY <2>1, <2>3 DEF InputOK
  <2>6. LoginTypeOK'
    BY <1>1, <1>3, <2>1, <2>2 DEF LoginInv, LoginTypeOK
  <2> QED
    BY <1>1, <2>2, <2>4, <2>5, <2>6, InputStep
<1> QED
  BY <1>2, <1>3 DEF Input

\* Its handler has waited for its write, which is stored unless it was rejected.
LEMMA InputPersistedStep == ASSUME LoginInv, NEW i \in Inputs, InputPersisted(i) PROVE LoginInv'
<1> DEFINE h == [input[i] EXCEPT !.stage = IF Rejected(input[i]) THEN "over" ELSE "check",
                                 !.ok = ~Rejected(input[i])]
           s == input[i].of
<1>1. input[i] \in Handler /\ input \in [Inputs -> Handler] /\ InputOK(i)
  BY HandlerTyped DEF LoginInv, LoginTypeOK
<1>2. input[i].stage = "persist" /\ Reached(input[i]) /\ input' = [input EXCEPT ![i] = h]
      /\ UNCHANGED <<signIns, session, finishing, credentials, prints, checkFaults>>
  BY <1>1 DEF InputPersisted
<1>3. Rejected(input[i]) \in BOOLEAN
  BY DEF Rejected
<1>4. /\ h \in Handler /\ h.of = s /\ h.link = input[i].link
      /\ Rejected(input[i]) => h.stage = "over" /\ ~h.ok
      /\ ~Rejected(input[i]) => h.stage = "check"
  BY <1>1, <1>3 DEF Handler
<1> HIDE DEF h
<1>5. s \in SignIns /\ signIns[s].cli = Claude /\ input[i].link >= 1
  BY <1>1, <1>2 DEF InputOK
<1>6. ~Rejected(input[i]) => credentials[Claude]
  <2>1. /\ signIns[s].ended \in Nat /\ signIns[s].broken \in Nat /\ input[i].link \in Nat
        /\ SignInOK(s)
    BY <1>1, <1>5, SignInTyped DEF LoginInv, Handler
  <2> QED
    BY <1>2, <1>5, <2>1 DEF Reached, Rejected, SignInOK, CredentialsOK
<1>7. input'[i] = h
  BY <1>1, <1>2
<1>8. Kept /\ SignIns' = SignIns /\ \A t \in SignIns : SignInOK(t)'
  BY <1>2, UntouchedSignIns
<1>9. InputOK(i)'
  BY <1>2, <1>4, <1>5, <1>6, <1>7 DEF InputOK, SignIns
<1>10. LoginTypeOK'
  BY <1>1, <1>2, <1>4 DEF LoginInv, LoginTypeOK
<1> QED
  BY <1>2, <1>8, <1>9, <1>10, InputStep

\* It has asked whether the token works.
LEMMA InputChecksStep == ASSUME LoginInv, NEW i \in Inputs, InputChecks(i) PROVE LoginInv'
<1>1. PICK logged \in BOOLEAN :
        /\ Check(input[i], logged)
        /\ input' = [input EXCEPT ![i].stage = IF logged THEN "stop" ELSE "over",
                                  ![i].logged = logged]
  BY DEF InputChecks
<1> DEFINE h == [input[i] EXCEPT !.stage = IF logged THEN "stop" ELSE "over", !.logged = logged]
<1>2. input[i] \in Handler /\ input \in [Inputs -> Handler] /\ InputOK(i)
      /\ checkFaults \in 0 .. MaxCheckFaults
  BY HandlerTyped DEF LoginInv, LoginTypeOK
<1>3. /\ h \in Handler /\ h.of = input[i].of /\ h.link = input[i].link /\ h.ok = input[i].ok
      /\ h.stage \in {"stop", "over"}
  BY <1>2 DEF Handler
<1>4. input' = [input EXCEPT ![i] = h]
  BY <1>1, <1>2
<1>5. input[i].stage = "check" /\ UNCHANGED <<signIns, session, finishing, credentials, prints>>
  BY DEF InputChecks
<1> HIDE DEF h
<1>6. input'[i] = h
  BY <1>2, <1>4
<1>7. Kept /\ SignIns' = SignIns /\ \A t \in SignIns : SignInOK(t)'
  BY <1>5, UntouchedSignIns
<1>8. checkFaults' \in 0 .. MaxCheckFaults
  BY <1>1, <1>2, LoginBoundsAssumption DEF Check
<1>9. InputOK(i)'
  BY <1>2, <1>3, <1>5, <1>6 DEF InputOK, SignIns
<1>10. LoginTypeOK'
  BY <1>2, <1>3, <1>4, <1>5, <1>8 DEF LoginInv, LoginTypeOK
<1> QED
  BY <1>4, <1>5, <1>7, <1>9, <1>10, InputStep

\* It stops the sign-in, which is done.
LEMMA InputStopsStep == ASSUME LoginInv, NEW i \in Inputs, InputStops(i) PROVE LoginInv'
<1> DEFINE h == [input[i] EXCEPT !.stage = "over", !.logged = FALSE]
           s == input[i].of
<1>1. input[i] \in Handler /\ input \in [Inputs -> Handler] /\ InputOK(i)
  BY HandlerTyped DEF LoginInv, LoginTypeOK
<1>2. input[i].stage = "stop" /\ input' = [input EXCEPT ![i] = h]
      /\ signIns' = [signIns EXCEPT ![s] = Stopped(signIns[s], "done")]
      /\ UNCHANGED <<session, finishing, credentials, prints, checkFaults>>
  BY <1>1 DEF InputStops, Stop
<1>3. h \in Handler /\ h.stage = "over"
  BY <1>1 DEF Handler
<1> HIDE DEF h
<1>4. s \in SignIns /\ signIns[s].cli = Claude /\ credentials[Claude] /\ signIns[s] \in SignIn
  BY <1>1, <1>2, SignInTyped DEF InputOK
<1> HIDE DEF s
<1>5. Only(s) /\ Kept /\ SignIns' = SignIns /\ \A t \in SignIns : SignInOK(t)'
  BY <1>2, <1>4, StopSignIn
<1>6. input'[i] = h
  BY <1>1, <1>2
<1>7. InputOK(i)'
  BY <1>2, <1>3, <1>4, <1>6 DEF InputOK
<1>8. LoginTypeOK'
  BY <1>1, <1>2, <1>3, <1>5 DEF Only, LoginInv, LoginTypeOK
<1> QED
  BY <1>2, <1>5, <1>7, <1>8, InputStep

-----------------------------------------------------------------------------
\* Nothing is started at first.
LEMMA LoginInvInit == LoginInit => LoginInv
<1> SUFFICES ASSUME LoginInit PROVE LoginInv
  OBVIOUS
<1>1. /\ signIns \in Seq(SignIn) /\ Len(signIns) = 0 /\ SignIns = {}
  BY DEF LoginInit, SignIns
<1>2. At("none", 0, 0) \in Handler /\ At("none", 0, 0).stage = "none"
  BY DEF At, Handler
<1>3. /\ 0 \in 0 .. MaxSignIns /\ 0 \in 0 .. MaxPrints /\ 0 \in 0 .. MaxCheckFaults /\ 0 <= MaxSignIns
  BY LoginBoundsAssumption
<1>4. LoginTypeOK
  BY <1>1, <1>2, <1>3 DEF LoginInit, LoginTypeOK
<1>5. /\ \A s \in 1 .. MaxSignIns : FinishingOK(s)
      /\ \A i \in Inputs : InputOK(i)
      /\ \A c \in Clis : SessionOK(c)
  BY <1>2 DEF LoginInit, FinishingOK, InputOK, SessionOK
<1> QED
  BY <1>1, <1>4, <1>5 DEF LoginInv

\* Every step keeps the invariant.
LEMMA LoginInvStep == LoginInv /\ [LoginNext]_loginVars => LoginInv'
<1> SUFFICES ASSUME LoginInv, [LoginNext]_loginVars PROVE LoginInv'
  OBVIOUS
<1>1. ASSUME NEW c \in Clis, Start(c) \/ Cancel(c) PROVE LoginInv'
  BY <1>1, StartStep, CancelStep
<1>2. CASE Close
  BY <1>2, CloseStep
<1>3. ASSUME NEW s \in SignIns,
             \/ Expire(s) \/ Consume(s) \/ Persist(s) \/ CliSignsIn(s) \/ Exit(s)
             \/ FinishPersisted(s) \/ FinishChecks(s) \/ FinishStops(s)
      PROVE  LoginInv'
  BY <1>3, ExpireStep, ConsumeStep, PersistStep, CliSignsInStep, ExitStep, FinishPersistedStep,
     FinishChecksStep, FinishStopsStep
<1>4. ASSUME NEW i \in Inputs, Input(i) \/ InputPersisted(i) \/ InputChecks(i) \/ InputStops(i)
      PROVE  LoginInv'
  BY <1>4, InputReceivedStep, InputPersistedStep, InputChecksStep, InputStopsStep
<1>5. CASE UNCHANGED loginVars
  <2>1. UNCHANGED <<signIns, session, finishing, input, credentials, prints, checkFaults>>
    BY <1>5 DEF loginVars
  <2>2. Kept /\ SignIns' = SignIns /\ \A t \in SignIns : SignInOK(t)'
    BY <2>1, UntouchedSignIns
  <2>3. LoginTypeOK'
    BY <2>1 DEF LoginInv, LoginTypeOK
  <2> QED
    BY <2>1, <2>2, <2>3, KeptFinishing, KeptInput, KeptSession DEF LoginInv
<1> QED
  BY <1>1, <1>2, <1>3, <1>4, <1>5 DEF LoginNext

\* The state of the sign-ins is well typed.
THEOREM LoginTypesHold == LoginSpec => []LoginTypeOK
<1>1. LoginInv => LoginTypeOK
  BY DEF LoginInv
<1> QED
  BY <1>1, LoginInvInit, LoginInvStep, PTL DEF LoginSpec

\* A process that was not told to end is the one of the current sign-in of its CLI.
THEOREM ProcessesAreEnded == LoginSpec => []NoProcessOutlivesItsSignIn
<1>1. LoginInv => NoProcessOutlivesItsSignIn
  BY DEF LoginInv, SignInOK, ProcessOK, NoProcessOutlivesItsSignIn
<1> QED
  BY <1>1, LoginInvInit, LoginInvStep, PTL DEF LoginSpec

\* A sign-in fails, expires or is cancelled for its own process, timer or user.
THEOREM OwnReasons == LoginSpec => []SignInsEndForTheirOwnReasons
<1>1. LoginInv => SignInsEndForTheirOwnReasons
  BY DEF LoginInv, SignInOK, ReasonOK, SignInsEndForTheirOwnReasons
<1> QED
  BY <1>1, LoginInvInit, LoginInvStep, PTL DEF LoginSpec

\* A sign-in that is done has credentials, and so has a token that was taken.
THEOREM DoneIsSignedIn == LoginSpec => []DoneMeansSignedIn
<1>1. LoginInv => DoneMeansSignedIn
  BY DEF LoginInv, SignInOK, CredentialsOK, InputOK, DoneMeansSignedIn
<1> QED
  BY <1>1, LoginInvInit, LoginInvStep, PTL DEF LoginSpec

\* Sign-ins keep to themselves (LoginManager, all handlers of a process).
THEOREM SignInsHold == LoginSpec => []SignInsKeepToThemselves
BY ProcessesAreEnded, OwnReasons, PTL DEF SignInsKeepToThemselves

-----------------------------------------------------------------------------
(***************************************************************************)
(* CliInstall: the types of its state, that the binary in place is a whole *)
(* one, and that the manifest and the answers of installs agree with it.   *)
(***************************************************************************)

\* What is staged, from the download or the probe of a cached copy on, is whole.
StagedIsWhole(s) ==
  install[s].stage \in {"write", "writing", "rename", "meta", "place"} => install[s].whole

\* Once its version is resolved, an install of a pinned server is for the pin.
PinIsWanted(s) ==
  install[s].stage \notin {"none", "resolve", "failed"} /\ pin[s] # NoVersion
    => install[s].version = pin[s]

\* Where the manifest, the binary and the install of a server agree.
FilesAgree(s) ==
  /\ install[s].stage = "manifest" => binary[s].version = install[s].version
  /\ s \notin torn /\ install[s].stage # "manifest" => manifest[s] = binary[s].version
  /\ s \notin torn /\ install[s].stage = "ok" => manifest[s] = install[s].version

ServerOK(s) ==
  /\ StagedIsWhole(s) /\ PinIsWanted(s) /\ FilesAgree(s)
  /\ binary[s].version # NoVersion => binary[s].whole

\* The inductive invariant: it speaks of each server alone, since the probe keeps
\* what others do to the cache out of it.
InstallInv == InstallTypeOK /\ \A s \in Servers : ServerOK(s)

-----------------------------------------------------------------------------
\* The files of the cache keep their types: opened, written, abandoned or absent.
LEMMA FilesHaveTypes ==
  /\ NoFile \in File /\ NoEntry \in Entries
  /\ \A file \in File, s \in Servers :
       CacheOpened(file, s) \in File /\ Written(file, s) \in File /\ Abandoned(file, s) \in File
BY DEF NoFile, NoEntry, File, Entries, CacheOpened, Written, Abandoned

\* Replacing the entry that an install is at keeps the cache typed.
LEMMA EntriesHaveTypes ==
  ASSUME InstallTypeOK, NEW s \in Servers, NEW entry, Entry(s, entry),
         install[s].version \in Versions => entry \in Entries
  PROVE  cached' \in [Versions -> Entries]
BY DEF InstallTypeOK, Entry, Entries

\* Every reachable state of the installs is well typed.
LEMMA InstallInitTypes == InstallInit => InstallTypeOK
<1> SUFFICES ASSUME InstallInit PROVE InstallTypeOK
  OBVIOUS
<1>1. latest \in Versions /\ 0 \in 0 .. MaxInstalls
  BY InstallBoundsAssumption DEF InstallInit, Versions
<1>2. cached \in [Versions -> Entries]
  BY FilesHaveTypes DEF InstallInit
<1> QED
  BY <1>1, <1>2 DEF InstallInit, InstallTypeOK, NotInstalling, Installs, Stages

\* A move of the install of s: it is typed, and the others stay where they are.
Moves(s) == install' \in [Servers -> Installs] /\ \A t \in Servers \ {s} : install'[t] = install[t]

\* Where the install of s goes.
GoesTo(s, stage, version, whole) ==
  install'[s].stage = stage /\ install'[s].version = version /\ install'[s].whole = whole

\* What each way of writing the state of an install comes to.
LEMMA InstallMoves ==
  ASSUME InstallTypeOK, NEW s \in Servers, NEW stage \in Stages,
         NEW version \in Versions \cup {NoVersion}, NEW whole \in BOOLEAN,
         InstallIs(s, stage, version, whole)
  PROVE  Moves(s) /\ GoesTo(s, stage, version, whole)
BY DEF InstallTypeOK, InstallIs, Installs, Moves, GoesTo

\* Going on to another stage changes nothing else of the install.
LEMMA InstallMovesOn ==
  ASSUME InstallTypeOK, NEW s \in Servers, NEW stage \in Stages, InstallAt(s, stage)
  PROVE  /\ Moves(s)
         /\ GoesTo(s, stage, install[s].version, install[s].whole)
<1>1. install[s].version \in Versions \cup {NoVersion} /\ install[s].whole \in BOOLEAN
  BY DEF InstallTypeOK, Installs
<1> QED
  BY <1>1, InstallMoves DEF InstallAt

\* A failure forgets what was staged.
LEMMA InstallMovesToFailed ==
  ASSUME InstallTypeOK, NEW s \in Servers, InstallFailed(s)
  PROVE  Moves(s) /\ GoesTo(s, "failed", NoVersion, FALSE)
<1>1. "failed" \in Stages /\ NoVersion \in Versions \cup {NoVersion} /\ FALSE \in BOOLEAN
  BY DEF Stages
<1> QED
  BY <1>1, InstallMoves DEF InstallFailed

\* Every step of an install moves that install alone, and says from where to where.
LEMMA BeginInstallMoves ==
  ASSUME InstallTypeOK, NEW s \in Servers, BeginInstall(s)
  PROVE  /\ Moves(s)
         /\ \/ /\ GoesTo(s, "ok", manifest[s], FALSE)
               /\ pin[s] # NoVersion => manifest[s] = pin[s]
            \/ GoesTo(s, "resolve", NoVersion, FALSE)
<1>1. PICK update \in BOOLEAN :
        IF CanSkip(s, update) THEN InstallIs(s, "ok", manifest[s], FALSE)
                              ELSE InstallIs(s, "resolve", NoVersion, FALSE)
  BY DEF BeginInstall
<1>2. manifest[s] \in Versions \cup {NoVersion} /\ "ok" \in Stages /\ "resolve" \in Stages
  BY DEF InstallTypeOK, Stages
<1>3. CASE CanSkip(s, update)
  BY <1>1, <1>2, <1>3, InstallMoves DEF CanSkip
<1>4. CASE ~CanSkip(s, update)
  BY <1>1, <1>2, <1>4, InstallMoves
<1> QED
  BY <1>3, <1>4

\* Resolving: the version is the wanted one, and nothing is left to do if it is there.
LEMMA ResolveMoves ==
  ASSUME InstallTypeOK, NEW s \in Servers, Resolve(s)
  PROVE  /\ Moves(s)
         /\ \E stage \in {"ok", "cache"} :
              GoesTo(s, stage, Wanted(s), FALSE)
         /\ install'[s].stage = "ok" => manifest[s] = Wanted(s)
<1> DEFINE stage == IF Installed(s) /\ manifest[s] = Wanted(s) THEN "ok" ELSE "cache"
<1>1. Wanted(s) \in Versions \cup {NoVersion} /\ stage \in Stages
  BY DEF InstallTypeOK, Wanted, Stages
<1>2. InstallIs(s, stage, Wanted(s), FALSE)
  BY DEF Resolve
<1>3. Moves(s) /\ GoesTo(s, stage, Wanted(s), FALSE)
  BY <1>1, <1>2, InstallMoves
<1>4. stage \in {"ok", "cache"} /\ (stage = "ok" => manifest[s] = Wanted(s))
  OBVIOUS
<1> HIDE DEF stage
<1>5. install'[s].stage = stage
  BY <1>3 DEF GoesTo
<1> QED
  BY <1>3, <1>4, <1>5

\* A copy from the cache is staged only when it passed the probe.
LEMMA FromCacheMoves ==
  ASSUME InstallTypeOK, NEW s \in Servers, FromCache(s)
  PROVE  /\ Moves(s)
         /\ \/ GoesTo(s, "place", install[s].version, TRUE)
            \/ install'[s].stage = "download" /\ install'[s].version = install[s].version
<1> DEFINE entry == cached[install[s].version]
<1>1. "place" \in Stages /\ "download" \in Stages /\ install[s].version \in Versions \cup {NoVersion}
  BY DEF Stages, InstallTypeOK, Installs
<1>2. CASE Probe(entry.bin) /\ InstallIs(s, "place", install[s].version, entry.bin.open = {})
  <2>1. entry.bin.open = {}
    BY <1>2 DEF Probe
  <2>2. InstallIs(s, "place", install[s].version, TRUE)
    BY <1>2, <2>1
  <2> QED
    BY <1>1, <2>2, InstallMoves
<1>3. CASE InstallAt(s, "download")
  <2>1. Moves(s) /\ GoesTo(s, "download", install[s].version, install[s].whole)
    BY <1>1, <1>3, InstallMovesOn
  <2> QED
    BY <2>1 DEF GoesTo
<1> QED
  BY <1>2, <1>3 DEF FromCache

\* What was downloaded is whole.
LEMMA DownloadMoves ==
  ASSUME InstallTypeOK, NEW s \in Servers, Download(s)
  PROVE  Moves(s) /\ GoesTo(s, "write", install[s].version, TRUE)
<1>1. "write" \in Stages /\ install[s].version \in Versions \cup {NoVersion}
  BY DEF Stages, InstallTypeOK, Installs
<1> QED
  BY <1>1, InstallMoves DEF Download

\* A step that writes to the cache, with the stages it may lead to.
CacheStep(s) ==
  BeginCacheWrite(s) \/ EndCacheWrite(s) \/ RenameInCache(s) \/ WriteMeta(s) \/ CacheFails(s)

\* Writing to the cache keeps what is staged.
LEMMA CacheStepMoves ==
  ASSUME InstallTypeOK, NEW s \in Servers, CacheStep(s)
  PROVE  /\ Moves(s)
         /\ install[s].stage \in {"write", "writing", "rename", "meta"}
         /\ \E stage \in {"writing", "rename", "meta", "place"} :
              GoesTo(s, stage, install[s].version, install[s].whole)
<1>1. PICK stage \in {"writing", "rename", "meta", "place"} : InstallAt(s, stage)
  BY DEF CacheStep, BeginCacheWrite, EndCacheWrite, RenameInCache, WriteMeta, CacheFails
<1>2. stage \in Stages
  BY DEF Stages
<1>3. install[s].stage \in {"write", "writing", "rename", "meta"}
  BY DEF CacheStep, BeginCacheWrite, EndCacheWrite, RenameInCache, WriteMeta, CacheFails
<1> QED
  BY <1>1, <1>2, <1>3, InstallMovesOn

\* The staged binary is put in place.
LEMMA PlaceMoves ==
  ASSUME InstallTypeOK, NEW s \in Servers, Place(s)
  PROVE  /\ Moves(s)
         /\ GoesTo(s, "manifest", install[s].version, install[s].whole)
<1>1. "manifest" \in Stages
  BY DEF Stages
<1> QED
  BY <1>1, InstallMovesOn DEF Place

\* An install that succeeds answers with the version it was for.
LEMMA WriteManifestMoves ==
  ASSUME InstallTypeOK, NEW s \in Servers, WriteManifest(s)
  PROVE  /\ Moves(s) /\ install'[s].stage \in {"ok", "failed"}
         /\ install'[s].stage = "ok" => install'[s].version = install[s].version
<1>1. "ok" \in Stages
  BY DEF Stages
<1>2. CASE InstallAt(s, "ok")
  <2>1. Moves(s) /\ GoesTo(s, "ok", install[s].version, install[s].whole)
    BY <1>1, <1>2, InstallMovesOn
  <2> QED
    BY <2>1 DEF GoesTo
<1>3. CASE InstallFailed(s)
  BY <1>3, InstallMovesToFailed DEF GoesTo
<1> QED
  BY <1>2, <1>3 DEF WriteManifest

\* An install that fails is over.
LEMMA InstallFailsMoves ==
  ASSUME InstallTypeOK, NEW s \in Servers, InstallFails(s)
  PROVE  Moves(s) /\ install'[s].stage = "failed"
BY InstallMovesToFailed DEF InstallFails, GoesTo

\* The cache stays typed, whatever entry a step leaves.
LEMMA CacheStepTypes ==
  ASSUME InstallTypeOK, NEW s \in Servers, CacheStep(s)
  PROVE  cached' \in [Versions -> Entries]
<1> DEFINE entry == cached[install[s].version]
           renamed == [entry EXCEPT !.tmp = NoFile, !.bin = entry.tmp]
<1>1. install[s].version \in Versions => entry \in Entries
  BY DEF InstallTypeOK
<1>2. CASE BeginCacheWrite(s)
  BY <1>1, <1>2, FilesHaveTypes, EntriesHaveTypes DEF BeginCacheWrite, Entries
<1>3. CASE EndCacheWrite(s)
  BY <1>1, <1>3, FilesHaveTypes, EntriesHaveTypes DEF EndCacheWrite, Entries
<1>4. CASE RenameInCache(s)
  <2>1. install[s].version \in Versions => renamed \in Entries
    BY <1>1, FilesHaveTypes DEF Entries
  <2>2. Entry(s, renamed) \/ Entry(s, NoEntry)
    BY <1>4 DEF RenameInCache
  <2> HIDE DEF renamed
  <2> QED
    BY <2>1, <2>2, FilesHaveTypes, EntriesHaveTypes
<1>5. CASE WriteMeta(s)
  BY <1>1, <1>5, FilesHaveTypes, EntriesHaveTypes DEF WriteMeta, Entries
<1>6. CASE CacheFails(s)
  BY <1>6, FilesHaveTypes, EntriesHaveTypes DEF CacheFails
<1> QED
  BY <1>2, <1>3, <1>4, <1>5, <1>6 DEF CacheStep

\* Every step keeps the types.
LEMMA InstallStepTypes == InstallTypeOK /\ [InstallNext]_installVars => InstallTypeOK'
<1> SUFFICES ASSUME InstallTypeOK, [InstallNext]_installVars PROVE InstallTypeOK'
  OBVIOUS
<1>1. CASE Release
  BY <1>1, InstallBoundsAssumption DEF Release, Versions, InstallTypeOK
<1>2. ASSUME NEW s \in Servers,
             BeginInstall(s) \/ Resolve(s) \/ FromCache(s) \/ Download(s) \/ CacheStep(s) \/ Place(s)
               \/ WriteManifest(s) \/ InstallFails(s)
      PROVE  InstallTypeOK'
  <2>1. install' \in [Servers -> Installs]
    <3>1. Moves(s)
      BY <1>2, BeginInstallMoves, ResolveMoves, FromCacheMoves, DownloadMoves, CacheStepMoves,
         PlaceMoves, WriteManifestMoves, InstallFailsMoves
    <3> QED
      BY <3>1 DEF Moves
  <2>2. cached' \in [Versions -> Entries]
    <3>1. CASE FromCache(s)
      BY <3>1, FilesHaveTypes DEF FromCache, InstallTypeOK
    <3>2. CASE CacheStep(s)
      BY <3>2, CacheStepTypes
    <3>3. CASE UNCHANGED cached
      BY <3>3 DEF InstallTypeOK
    <3> QED
      BY <1>2, <3>1, <3>2, <3>3 DEF BeginInstall, Resolve, Download, Place, WriteManifest, InstallFails
  <2>3. UNCHANGED <<latest, pin>>
    BY <1>2 DEF BeginInstall, Resolve, FromCache, Download, CacheStep, BeginCacheWrite, EndCacheWrite,
                RenameInCache, WriteMeta, CacheFails, Place, WriteManifest, InstallFails
  <2>4. torn' \subseteq Servers
    <3>1. torn' \in {torn, torn \cup {s}, torn \ {s}}
      BY <1>2 DEF BeginInstall, Resolve, FromCache, Download, CacheStep, BeginCacheWrite, EndCacheWrite,
                  RenameInCache, WriteMeta, CacheFails, Place, WriteManifest, InstallFails, Torn
    <3> QED
      BY <3>1 DEF InstallTypeOK
  <2>5. installs' \in 0 .. MaxInstalls
    <3>1. installs' = installs \/ (installs < MaxInstalls /\ installs' = installs + 1)
      BY <1>2 DEF BeginInstall, Resolve, FromCache, Download, CacheStep, BeginCacheWrite, EndCacheWrite,
                  RenameInCache, WriteMeta, CacheFails, Place, WriteManifest, InstallFails
    <3> QED
      BY <3>1, InstallBoundsAssumption DEF InstallTypeOK
  <2>6. /\ binary' \in [Servers -> [version : Versions \cup {NoVersion}, whole : BOOLEAN]]
        /\ manifest' \in [Servers -> Versions \cup {NoVersion}]
    <3>1. install[s].version \in Versions \cup {NoVersion} /\ install[s].whole \in BOOLEAN
      BY DEF InstallTypeOK, Installs
    <3>2. CASE Place(s)
      BY <3>1, <3>2 DEF Place, InstallTypeOK
    <3>3. CASE WriteManifest(s)
      BY <3>1, <3>3 DEF WriteManifest, InstallTypeOK
    <3>4. CASE UNCHANGED <<binary, manifest>>
      BY <3>4 DEF InstallTypeOK
    <3> QED
      BY <1>2, <3>2, <3>3, <3>4
      DEF BeginInstall, Resolve, FromCache, Download, CacheStep, BeginCacheWrite, EndCacheWrite,
          RenameInCache, WriteMeta, CacheFails, InstallFails
  <2> QED
    BY <2>1, <2>2, <2>3, <2>4, <2>5, <2>6 DEF InstallTypeOK
<1>3. ASSUME NEW s \in Servers, ServerStops(s) PROVE InstallTypeOK'
  <2>1. cached' \in [Versions -> Entries]
    <3> SUFFICES ASSUME NEW v \in Versions
                 PROVE  [cached[v] EXCEPT !.tmp = Abandoned(@, s), !.bin = Abandoned(@, s)] \in Entries
      BY <1>3 DEF ServerStops
    <3>1. cached[v] \in Entries /\ cached[v].tmp \in File /\ cached[v].bin \in File
      BY DEF InstallTypeOK, Entries
    <3>2. Abandoned(cached[v].tmp, s) \in File /\ Abandoned(cached[v].bin, s) \in File
      BY <3>1, FilesHaveTypes
    <3> QED
      BY <3>1, <3>2 DEF Entries
  <2>2. pin' \in [Servers -> Versions \cup {NoVersion}]
    <3>1. PICK version \in Pins[s] : pin' = [pin EXCEPT ![s] = version]
      BY <1>3 DEF ServerStops
    <3>2. version \in Versions \cup {NoVersion}
      BY <3>1, InstallPinsAssumption
    <3> QED
      BY <3>1, <3>2 DEF InstallTypeOK
  <2>3. /\ install' \in [Servers -> Installs] /\ torn' \subseteq Servers
        /\ UNCHANGED <<latest, binary, manifest, installs>>
    BY <1>3 DEF ServerStops, Torn, NotInstalling, Installs, Stages, InstallTypeOK
  <2> QED
    BY <2>1, <2>2, <2>3 DEF InstallTypeOK
<1>4. CASE UNCHANGED installVars
  BY <1>4 DEF installVars, InstallTypeOK
<1> QED
  BY <1>1, <1>2, <1>3, <1>4 DEF InstallNext, CacheStep

\* The state of the installs is well typed.
THEOREM InstallTypesHold == InstallSpec => []InstallTypeOK
BY InstallInitTypes, InstallStepTypes, PTL DEF InstallSpec

-----------------------------------------------------------------------------
\* A server whose files and install are left alone stays as it should be.
Untouched(s) ==
  /\ install'[s] = install[s] /\ pin'[s] = pin[s]
  /\ binary'[s] = binary[s] /\ manifest'[s] = manifest[s]
  /\ s \in torn' <=> s \in torn

\* Being left alone is enough.
LEMMA UntouchedStaysOK ==
  ASSUME NEW s, ServerOK(s), Untouched(s)
  PROVE  ServerOK(s)'
BY DEF ServerOK, Untouched, StagedIsWhole, PinIsWanted, FilesAgree

\* Nothing is installed, or being installed, at first.
LEMMA InstallInvInit == InstallInit => InstallInv
<1> SUFFICES ASSUME InstallInit PROVE InstallInv
  OBVIOUS
<1>1. ASSUME NEW s \in Servers PROVE ServerOK(s)
  BY DEF InstallInit, ServerOK, StagedIsWhole, PinIsWanted, FilesAgree, NotInstalling
<1> QED
  BY <1>1, InstallInitTypes DEF InstallInv

\* What a step of the install of s does to s, action by action.
LEMMA InstallStepKeepsServer ==
  ASSUME InstallTypeOK, NEW s \in Servers, ServerOK(s),
         BeginInstall(s) \/ Resolve(s) \/ FromCache(s) \/ Download(s) \/ CacheStep(s) \/ Place(s)
           \/ WriteManifest(s) \/ InstallFails(s) \/ ServerStops(s)
  PROVE  ServerOK(s)'
<1> USE DEF ServerOK, StagedIsWhole, PinIsWanted, FilesAgree
<1>1. CASE BeginInstall(s)
  <2>1. UNCHANGED <<pin, binary, manifest, torn>> /\ install[s].stage # "manifest"
    BY <1>1 DEF BeginInstall, Installing
  <2>2. \/ /\ install'[s].stage = "ok" /\ install'[s].version = manifest[s]
           /\ pin[s] # NoVersion => manifest[s] = pin[s]
        \/ install'[s].stage = "resolve"
    BY <1>1, BeginInstallMoves DEF GoesTo
  <2> QED
    BY <2>1, <2>2
<1>2. CASE Resolve(s)
  <2>1. UNCHANGED <<pin, binary, manifest, torn>> /\ install[s].stage = "resolve"
    BY <1>2 DEF Resolve
  <2>2. pin[s] # NoVersion => Wanted(s) = pin[s]
    BY DEF Wanted
  <2>3. /\ install'[s].stage \in {"ok", "cache"} /\ install'[s].version = Wanted(s)
        /\ install'[s].stage = "ok" => manifest[s] = Wanted(s)
    BY <1>2, ResolveMoves DEF GoesTo
  <2> QED
    BY <2>1, <2>2, <2>3
<1>3. CASE FromCache(s)
  <2>1. UNCHANGED <<pin, binary, manifest, torn>> /\ install[s].stage = "cache"
    BY <1>3 DEF FromCache
  <2>2. /\ install'[s].version = install[s].version
        /\ install'[s].stage = "download" \/ (install'[s].stage = "place" /\ install'[s].whole)
    BY <1>3, FromCacheMoves DEF GoesTo
  <2> QED
    BY <2>1, <2>2
<1>4. CASE Download(s)
  <2>1. UNCHANGED <<pin, binary, manifest, torn>> /\ install[s].stage = "download"
    BY <1>4 DEF Download
  <2>2. install'[s].version = install[s].version /\ install'[s].stage = "write" /\ install'[s].whole
    BY <1>4, DownloadMoves DEF GoesTo
  <2> QED
    BY <2>1, <2>2
<1>5. CASE CacheStep(s)
  <2>1. UNCHANGED <<pin, binary, manifest, torn>>
    BY <1>5 DEF CacheStep, BeginCacheWrite, EndCacheWrite, RenameInCache, WriteMeta, CacheFails
  <2>2. /\ install[s].stage \in {"write", "writing", "rename", "meta"}
        /\ install'[s].stage \in {"writing", "rename", "meta", "place"}
        /\ install'[s].version = install[s].version /\ install'[s].whole = install[s].whole
    BY <1>5, CacheStepMoves DEF GoesTo
  <2> QED
    BY <2>1, <2>2
<1>6. CASE Place(s)
  <2>1. UNCHANGED <<pin, manifest, torn>> /\ install[s].stage = "place"
    BY <1>6 DEF Place
  <2>2. binary'[s] = [version |-> install[s].version, whole |-> install[s].whole]
    BY <1>6 DEF Place, InstallTypeOK
  <2>3. install'[s].stage = "manifest" /\ install'[s].version = install[s].version
    BY <1>6, PlaceMoves DEF GoesTo
  <2>4. install[s].whole
    BY <2>1
  <2> QED
    BY <2>1, <2>2, <2>3, <2>4
<1>7. CASE WriteManifest(s)
  <2>1. UNCHANGED <<pin, binary>> /\ s \notin torn' /\ install[s].stage = "manifest"
    BY <1>7 DEF WriteManifest
  <2>2. manifest'[s] = install[s].version
    BY <1>7 DEF WriteManifest, InstallTypeOK
  <2>3. /\ install'[s].stage \in {"ok", "failed"}
        /\ install'[s].stage = "ok" => install'[s].version = install[s].version
    BY <1>7, WriteManifestMoves
  <2> QED
    BY <2>1, <2>2, <2>3
<1>8. CASE InstallFails(s)
  <2>1. UNCHANGED <<pin, binary, manifest>>
    BY <1>8 DEF InstallFails
  <2>2. s \notin torn' => s \notin torn /\ install[s].stage # "manifest"
    BY <1>8 DEF InstallFails, Torn
  <2> QED
    BY <1>8, <2>1, <2>2, InstallFailsMoves
<1>9. CASE ServerStops(s)
  <2>1. UNCHANGED <<binary, manifest>>
    BY <1>9 DEF ServerStops
  <2>2. s \notin torn' => s \notin torn /\ install[s].stage # "manifest"
    BY <1>9 DEF ServerStops, Torn
  <2>3. install'[s].stage = "none"
    BY <1>9 DEF ServerStops, NotInstalling, InstallTypeOK
  <2> QED
    BY <2>1, <2>2, <2>3
<1> QED
  BY <1>1, <1>2, <1>3, <1>4, <1>5, <1>6, <1>7, <1>8, <1>9

\* The others are not touched by it.
LEMMA InstallStepSparesOthers ==
  ASSUME InstallTypeOK, NEW s \in Servers, NEW t \in Servers \ {s},
         BeginInstall(s) \/ Resolve(s) \/ FromCache(s) \/ Download(s) \/ CacheStep(s) \/ Place(s)
           \/ WriteManifest(s) \/ InstallFails(s) \/ ServerStops(s)
  PROVE  Untouched(t)
<1>1. install'[t] = install[t]
  <2>1. CASE ServerStops(s)
    BY <2>1 DEF ServerStops, InstallTypeOK
  <2>2. CASE ~ServerStops(s)
    BY <2>2, BeginInstallMoves, ResolveMoves, FromCacheMoves, DownloadMoves, CacheStepMoves, PlaceMoves,
       WriteManifestMoves, InstallFailsMoves DEF Moves
  <2> QED
    BY <2>1, <2>2
<1>2. pin'[t] = pin[t]
  BY DEF BeginInstall, Resolve, FromCache, Download, CacheStep, BeginCacheWrite, EndCacheWrite,
         RenameInCache, WriteMeta, CacheFails, Place, WriteManifest, InstallFails, ServerStops, InstallTypeOK
<1>3. binary'[t] = binary[t] /\ manifest'[t] = manifest[t]
  BY DEF BeginInstall, Resolve, FromCache, Download, CacheStep, BeginCacheWrite, EndCacheWrite,
         RenameInCache, WriteMeta, CacheFails, Place, WriteManifest, InstallFails, ServerStops, InstallTypeOK
<1>4. torn' \in {torn, torn \cup {s}, torn \ {s}}
  BY DEF BeginInstall, Resolve, FromCache, Download, CacheStep, BeginCacheWrite, EndCacheWrite,
         RenameInCache, WriteMeta, CacheFails, Place, WriteManifest, InstallFails, ServerStops, Torn
<1> QED
  BY <1>1, <1>2, <1>3, <1>4 DEF Untouched

\* The inductive invariant is kept by every step.
LEMMA InstallInvStep == InstallInv /\ [InstallNext]_installVars => InstallInv'
<1> SUFFICES ASSUME InstallInv, [InstallNext]_installVars, NEW t \in Servers
             PROVE  ServerOK(t)'
  BY InstallStepTypes DEF InstallInv
<1>0. InstallTypeOK /\ \A s \in Servers : ServerOK(s)
  BY DEF InstallInv
<1>1. CASE Release \/ UNCHANGED installVars
  <2>1. Untouched(t)
    BY <1>1 DEF Release, installVars, Untouched
  <2> QED
    BY <1>0, <2>1, UntouchedStaysOK
<1>2. ASSUME NEW s \in Servers,
             BeginInstall(s) \/ Resolve(s) \/ FromCache(s) \/ Download(s) \/ CacheStep(s) \/ Place(s)
               \/ WriteManifest(s) \/ InstallFails(s) \/ ServerStops(s)
      PROVE  ServerOK(t)'
  <2>1. CASE t = s
    BY <1>0, <1>2, <2>1, InstallStepKeepsServer
  <2>2. CASE t # s
    BY <1>0, <1>2, <2>2, InstallStepSparesOthers, UntouchedStaysOK
  <2> QED
    BY <2>1, <2>2
<1> QED
  BY <1>1, <1>2 DEF InstallNext, CacheStep

\* The binary that a server runs is a whole one, whatever servers that share the
\* cache do to its files and wherever they stop.
THEOREM WholeBinaries == InstallSpec => []BinariesAreWhole
<1>1. InstallInv => BinariesAreWhole
  BY DEF InstallInv, ServerOK, BinariesAreWhole
<1> QED
  BY <1>1, InstallInvInit, InstallInvStep, PTL DEF InstallSpec

\* An install that answered with a version left that version, the pinned one if
\* there is a pin, and a manifest that names it.
THEOREM AnsweredIsInstalled == InstallSpec => []OkMeansInstalled
<1>1. InstallInv => OkMeansInstalled
  BY DEF InstallInv, ServerOK, PinIsWanted, FilesAgree, OkMeansInstalled
<1> QED
  BY <1>1, InstallInvInit, InstallInvStep, PTL DEF InstallSpec

\* What is installed is what was asked for (CliInstaller.execute and its cache).
THEOREM InstallsHold == InstallSpec => []InstallsAreTrue
BY WholeBinaries, AnsweredIsInstalled, PTL DEF InstallsAreTrue

-----------------------------------------------------------------------------
(***************************************************************************)
(* McpConnection: between two steps the state of a connection agrees with  *)
(* its client and the client's channel, and a server that failed stays     *)
(* failed until somebody asks for it again.                                *)
(***************************************************************************)

\* The client of an attempt to connect is the current one until somebody closes it,
\* and who closed it has yet to say so, or has, or the runtime is shut down.
AttemptOK ==
  /\ opening.stage = "none" <=> opening = Over
  /\ opening.stage # "none" => opening.of \in Clients /\ client \in {None, opening.of}
                               /\ state # "ready"
  /\ opening.stage \in {"fallback", "reset"} =>
       client = None /\ channel[opening.of] \in {"closing", "closed"}
  /\ opening.stage \in {"open", "fallback open"} /\ client # None => channel[client] = "opening"
  /\ opening.stage = "list" /\ client # None => channel[client] \in {"up", "down"}
  /\ opening.stage \in {"open", "fallback open", "list"} /\ client = None =>
       \/ channel[opening.of] = "closed"
       \/ /\ channel[opening.of] = "closing"
          /\ shut \/ \E c \in ToolCalls : calls[c].stage = "reset" /\ calls[c].on = opening.of

\* A call that resets the connection waits for a client that it closed.
ResetsOK ==
  \A c \in ToolCalls : calls[c].stage = "reset" =>
    calls[c].on \in Clients /\ channel[calls[c].on] \in {"closing", "closed"}

\* Without an attempt, a client is there when the connection is ready, or somebody
\* is about to say that it is not.
ReadyOK ==
  opening = Over =>
    /\ state = "ready" /\ client # None => channel[client] \in {"up", "down"}
    /\ state = "ready" /\ client = None => shut \/ \E c \in ToolCalls : calls[c].stage = "reset"
    /\ state # "ready" => client = None

\* Tools of a connection that is not ready are those of a forgotten client.
ToolsOK ==
  (opening = Over /\ state # "ready") \/ opening.stage = "reset" =>
    (tools => Forgotten # {})

McpInv == McpTypeOK /\ AttemptOK /\ ResetsOK /\ ReadyOK /\ ToolsOK

-----------------------------------------------------------------------------
\* What steps make of clients and calls.

CallStates == [stage : {"out", "connect", "call", "reset", "done"},
               on : Clients \cup {None}, again : BOOLEAN]
LinkStates == {"new", "opening", "up", "down", "closing", "closed"}

\* The calls that reset the connection are as they were.
ResetsStay == \A c \in ToolCalls :
  /\ calls'[c].stage = "reset" => calls'[c] = calls[c]
  /\ calls[c].stage = "reset" => calls'[c] = calls[c]

LEMMA McpNone == None \notin Clients /\ Clients \subseteq Nat
BY McpBoundsAssumption DEF None, Clients

LEMMA OverIs == Over.stage = "none" /\ Over.of = None
BY DEF Over

LEMMA AnsweredTypes ==
  ASSUME McpTypeOK, Connected \/ NotConnected
  PROVE  calls' \in [ToolCalls -> CallStates] /\ ResetsStay
<1>1. calls \in [ToolCalls -> CallStates] /\ client \in Clients \cup {None}
  BY DEF McpTypeOK, CallStates
<1>2. CASE Connected
  BY <1>1, <1>2 DEF Connected, CallStates, CallAt, ResetsStay, Waiting
<1>3. CASE NotConnected
  BY <1>1, <1>3 DEF NotConnected, CallStates, CallAt, ResetsStay, Waiting
<1> QED BY <1>2, <1>3

LEMMA NewClientIs ==
  ASSUME McpTypeOK, HasNewClient
  PROVE  NewClient \in Clients /\ channel[NewClient] = "new"
<1> DEFINE S == {k \in Clients : channel[k] = "new"}
           R == OpToRel(<, Nat)
<1>1. S # {} /\ S \in SUBSET Nat
  BY McpNone DEF HasNewClient
<1>2. IsWellFoundedOn(R, Nat)
  BY NatLessThanWellFounded
<1>3. PICK k \in S : \A j \in S : <<j, k>> \notin R
  BY <1>1, <1>2, WFMin
<1>4. \A j \in 1 .. k - 1 : channel[j] # "new"
  <2>1. ASSUME NEW j \in 1 .. k - 1, channel[j] = "new" PROVE FALSE
    <3>0. MaxClients \in Nat /\ k \in 1 .. MaxClients
      BY McpBoundsAssumption DEF Clients
    <3>2. j \in 1 .. MaxClients /\ j < k
      BY <3>0
    <3>1. j \in S /\ j < k
      BY <2>1, <3>2 DEF Clients
    <3> QED BY <1>1, <1>3, <3>1 DEF OpToRel
  <2> QED BY <2>1
<1> QED BY <1>3, <1>4 DEF NewClient

LEMMA ClosingIs ==
  ASSUME McpTypeOK
  PROVE  /\ Closing \in [Clients -> LinkStates]
         /\ \A k \in Clients : Closing[k] = IF k = client THEN "closing" ELSE channel[k]
BY McpNone DEF Closing, McpTypeOK, LinkStates

LEMMA ClosedIs ==
  ASSUME McpTypeOK, NEW k \in Clients
  PROVE  /\ Closed(k) \in [Clients -> LinkStates]
         /\ \A j \in Clients : Closed(k)[j] = IF j = k THEN "closed" ELSE channel[j]
BY DEF Closed, McpTypeOK, LinkStates

\* What a call waits for to end does not come back.
LEMMA ResetsStayOK ==
  ASSUME ResetsOK, ResetsStay,
         \A k \in Clients : channel[k] \in {"closing", "closed"}
                           => channel'[k] \in {"closing", "closed"}
  PROVE  ResetsOK'
BY DEF ResetsOK, ResetsStay

\* A client that was forgotten stays forgotten.
ForgottenStays == Forgotten \subseteq Forgotten'

LEMMA ToolsStayOK ==
  ASSUME ToolsOK, ForgottenStays, UNCHANGED <<state, opening>>, tools' => tools \/ Forgotten # {}
  PROVE  ToolsOK'
BY DEF ToolsOK, ForgottenStays

-----------------------------------------------------------------------------
\* The steps of an attempt.

LEMMA OpenedStep == ASSUME McpInv, Opened PROVE McpInv'
<1> DEFINE o == opening.of
<1>1. /\ opening.stage \in {"open", "fallback open"} /\ o \in Clients
      /\ client \in {None, o} /\ state # "ready" /\ opening # Over
      /\ channel[o] \in {"opening", "closing"}
  BY DEF Opened, McpInv, AttemptOK
<1>2. /\ channel' \in [Clients -> LinkStates]
      /\ channel'[o] = (IF channel[o] = "opening" THEN "up" ELSE channel[o])
      /\ \A k \in Clients \ {o} : channel'[k] = channel[k]
  BY <1>1 DEF Opened, McpInv, McpTypeOK, LinkStates
<1>3. client # None => client = o /\ channel'[o] = "up"
  BY <1>1, <1>2 DEF McpInv, AttemptOK
<1>4. client = None => /\ channel[o] = "closing" /\ channel'[o] = "closing"
                       /\ shut \/ \E c \in ToolCalls : calls[c].stage = "reset" /\ calls[c].on = o
  BY <1>1, <1>2 DEF McpInv, AttemptOK
<1>5. UNCHANGED <<client, shut>>
  BY DEF Opened
<1>6. ASSUME client # None, opening' = [opening EXCEPT !.stage = "list"],
             UNCHANGED <<state, tools, calls>>
      PROVE  McpInv'
  <2>1. opening' \in [stage : {"none", "open", "list", "fallback", "fallback open", "reset"},
                      of : Clients \cup {None}] /\ opening'.stage = "list" /\ opening'.of = o
    BY <1>1, <1>6 DEF McpInv, McpTypeOK
  <2>2. opening' # Over
    BY <2>1, OverIs
  <2>3. McpTypeOK'
    BY <1>2, <1>5, <1>6, <2>1 DEF McpInv, McpTypeOK, LinkStates
  <2>4. AttemptOK'
    BY <1>1, <1>3, <1>5, <1>6, <2>1, <2>2 DEF AttemptOK
  <2>5. ResetsOK'
    BY <1>1, <1>2, <1>6 DEF ResetsOK, McpInv
  <2> QED BY <2>1, <2>2, <2>3, <2>4, <2>5 DEF McpInv, ReadyOK, ToolsOK
<1>7. ASSUME Connected, tools' \in BOOLEAN PROVE McpInv'
  <2>1. calls' \in [ToolCalls -> CallStates] /\ ResetsStay
    BY <1>7, AnsweredTypes DEF McpInv
  <2>2. opening' = Over /\ state' = "ready"
    BY <1>7 DEF Connected
  <2>3. McpTypeOK'
    BY <1>2, <1>5, <1>7, <2>1, <2>2 DEF McpInv, McpTypeOK, LinkStates, CallStates, Over, None
  <2>4. AttemptOK'
    BY <2>2 DEF AttemptOK, Over
  <2>5. ResetsOK'
    BY <1>1, <1>2, <2>1, ResetsStayOK DEF McpInv
  <2>6. ReadyOK'
    BY <1>3, <1>4, <1>5, <2>1, <2>2 DEF ReadyOK, ResetsStay
  <2>7. ToolsOK'
    BY <2>2 DEF ToolsOK, Over
  <2> QED BY <2>3, <2>4, <2>5, <2>6, <2>7 DEF McpInv
<1> QED BY <1>6, <1>7 DEF Opened, McpInv, McpTypeOK

LEMMA ListedStep == ASSUME McpInv, Listed PROVE McpInv'
<1> DEFINE o == opening.of
<1>1. /\ opening.stage = "list" /\ o \in Clients /\ client \in {None, o}
      /\ channel[o] \in {"up", "closing"} /\ Connected /\ tools' = TRUE
      /\ UNCHANGED <<client, channel, shut>>
  BY DEF Listed, McpInv, AttemptOK
<1>2. calls' \in [ToolCalls -> CallStates] /\ ResetsStay /\ opening' = Over /\ state' = "ready"
  BY <1>1, AnsweredTypes DEF McpInv, Connected
<1>3. McpTypeOK'
  BY <1>1, <1>2 DEF McpInv, McpTypeOK, CallStates, Over, None
<1>4. AttemptOK' /\ ToolsOK'
  BY <1>2 DEF AttemptOK, ToolsOK, Over
<1>5. ResetsOK'
  BY <1>1, <1>2 DEF ResetsOK, McpInv, ResetsStay
<1>6. ReadyOK'
  BY <1>1, <1>2 DEF ReadyOK, AttemptOK, McpInv, ResetsStay
<1> QED BY <1>3, <1>4, <1>5, <1>6 DEF McpInv

\* Between attempts and in a failed one, whoever was forgotten explains the tools.
LEMMA OpenFailsStep == ASSUME McpInv, OpenFails PROVE McpInv'
<1> DEFINE o == opening.of
<1>1. /\ opening.stage \in {"open", "fallback open", "list"} /\ o \in Clients
      /\ client \in {None, o} /\ opening # Over
      /\ state' = "error" /\ tools' = FALSE /\ client' = None /\ channel' = Closing /\ shut' = shut
  BY DEF OpenFails, Reset, McpInv, AttemptOK
<1>2. /\ channel' \in [Clients -> LinkStates]
      /\ \A k \in Clients : channel'[k] = IF k = client THEN "closing" ELSE channel[k]
  BY <1>1, ClosingIs DEF McpInv
<1>3. ToolsOK'
  BY <1>1 DEF ToolsOK
<1>4. CASE client = None
  <2>1. NotConnected /\ calls' \in [ToolCalls -> CallStates] /\ ResetsStay /\ opening' = Over
    BY <1>4, AnsweredTypes DEF McpInv, OpenFails, NotConnected
  <2>2. McpTypeOK'
    BY <1>1, <1>2, <2>1 DEF McpInv, McpTypeOK, LinkStates, CallStates, Over, None
  <2>3. AttemptOK' /\ ReadyOK'
    BY <1>1, <2>1 DEF AttemptOK, ReadyOK, Over
  <2>4. ResetsOK'
    BY <1>2, <2>1, ResetsStayOK DEF McpInv
  <2> QED BY <1>3, <2>2, <2>3, <2>4 DEF McpInv
<1>5. CASE client # None
  <2>1. /\ opening' \in [stage : {"none", "open", "list", "fallback", "fallback open", "reset"},
                          of : Clients \cup {None}]
        /\ opening'.stage = "reset" /\ opening'.of = o /\ calls' = calls
    BY <1>1, <1>5 DEF OpenFails, McpInv, McpTypeOK
  <2>2. opening' # Over
    BY <2>1, OverIs
  <2>3. McpTypeOK'
    BY <1>1, <1>2, <2>1 DEF McpInv, McpTypeOK, LinkStates
  <2>4. AttemptOK' /\ ReadyOK'
    BY <1>1, <1>2, <1>5, <2>1, <2>2 DEF AttemptOK, ReadyOK
  <2>5. ResetsOK'
    BY <1>2, <2>1, ResetsStayOK DEF McpInv, ResetsStay
  <2> QED BY <1>3, <2>3, <2>4, <2>5 DEF McpInv
<1> QED BY <1>4, <1>5

LEMMA OpenFailureClosedStep == ASSUME McpInv, OpenFailureClosed PROVE McpInv'
<1> DEFINE o == opening.of
<1>1. /\ opening.stage = "reset" /\ o \in Clients /\ client = None /\ opening # Over
      /\ channel[o] \in {"closing", "closed"} /\ state' = "error" /\ channel' = Closed(o)
      /\ NotConnected /\ UNCHANGED <<client, tools, shut>>
  BY DEF OpenFailureClosed, McpInv, AttemptOK
<1>2. /\ channel' \in [Clients -> LinkStates]
      /\ \A k \in Clients : channel'[k] = IF k = o THEN "closed" ELSE channel[k]
  BY <1>1, ClosedIs DEF McpInv
<1>3. calls' \in [ToolCalls -> CallStates] /\ ResetsStay /\ opening' = Over
  BY <1>1, AnsweredTypes DEF McpInv, NotConnected
<1>4. McpTypeOK'
  BY <1>1, <1>2, <1>3 DEF McpInv, McpTypeOK, LinkStates, CallStates, Over, None
<1>5. AttemptOK' /\ ReadyOK'
  BY <1>1, <1>3 DEF AttemptOK, ReadyOK, Over
<1>6. ResetsOK'
  BY <1>2, <1>3, ResetsStayOK DEF McpInv
<1>7. ToolsOK'
  <2>1. Forgotten \subseteq Forgotten'
    BY <1>1, <1>2 DEF Forgotten
  <2>2. tools => Forgotten # {}
    BY <1>1 DEF McpInv, ToolsOK
  <2> QED BY <1>1, <2>1, <2>2 DEF ToolsOK
<1> QED BY <1>4, <1>5, <1>6, <1>7 DEF McpInv

LEMMA FallBackStep == ASSUME McpInv, FallBack PROVE McpInv'
<1> DEFINE o == opening.of
<1>1. /\ opening.stage = "open" /\ o \in Clients /\ client \in {None, o} /\ opening # Over
      /\ state # "ready" /\ client' = None /\ channel' = Closing
      /\ opening' = [opening EXCEPT !.stage = "fallback"]
      /\ UNCHANGED <<state, tools, calls, shut>>
  BY DEF FallBack, McpInv, AttemptOK
<1>2. /\ channel' \in [Clients -> LinkStates]
      /\ \A k \in Clients : channel'[k] = IF k = client THEN "closing" ELSE channel[k]
  BY <1>1, ClosingIs DEF McpInv
<1>3. /\ opening' \in [stage : {"none", "open", "list", "fallback", "fallback open", "reset"},
                        of : Clients \cup {None}]
      /\ opening'.stage = "fallback" /\ opening'.of = o
  BY <1>1 DEF McpInv, McpTypeOK
<1>4. opening' # Over
  BY <1>3, OverIs
<1>5. McpTypeOK'
  BY <1>1, <1>2, <1>3 DEF McpInv, McpTypeOK, LinkStates
<1>6. AttemptOK' /\ ReadyOK' /\ ToolsOK'
  <2>1. channel'[o] \in {"closing", "closed"}
    BY <1>1, <1>2 DEF McpInv, AttemptOK
  <2> QED BY <1>1, <1>3, <1>4, <2>1 DEF AttemptOK, ReadyOK, ToolsOK
<1>7. ResetsOK'
  BY <1>1, <1>2, ResetsStayOK DEF McpInv, ResetsStay
<1> QED BY <1>5, <1>6, <1>7 DEF McpInv

\* A new client is attached, and its attempt begins.
LEMMA AttachStep ==
  ASSUME McpInv, NEW stage \in {"open", "fallback open"}, NEW links \in [Clients -> LinkStates],
         Attach(stage, links), state' \in {"closed", "error"}, tools' \in BOOLEAN, shut' = shut,
         calls' \in [ToolCalls -> CallStates],
         \A k \in Clients : links[k] = channel[k] \/ links[k] = "closed",
         \A c \in ToolCalls : calls'[c].stage = "reset" => calls'[c] = calls[c]
  PROVE  McpInv'
<1> DEFINE n == NewClient
<1>1. n \in Clients /\ channel[n] = "new"
  BY NewClientIs DEF Attach, McpInv
<1> HIDE DEF n
<1>2. /\ client' = n /\ opening' = [stage |-> stage, of |-> n]
      /\ channel' = [links EXCEPT ![n] = "opening"]
  BY DEF Attach, n
<1>3. /\ opening'.stage = stage /\ opening'.of = n /\ n # None
      /\ channel' \in [Clients -> LinkStates] /\ channel'[n] = "opening"
      /\ \A k \in Clients \ {n} : channel'[k] = links[k]
  BY <1>1, <1>2, McpNone DEF LinkStates
<1>4. opening' # Over
  BY <1>3, OverIs
<1>5. McpTypeOK'
  BY <1>1, <1>2, <1>3 DEF McpInv, McpTypeOK, LinkStates, CallStates
<1>6. AttemptOK' /\ ReadyOK' /\ ToolsOK'
  BY <1>1, <1>2, <1>3, <1>4 DEF AttemptOK, ReadyOK, ToolsOK
<1>7. ResetsOK'
  <2>1. ASSUME NEW c \in ToolCalls, calls'[c].stage = "reset"
        PROVE  calls'[c].on \in Clients /\ channel'[calls'[c].on] \in {"closing", "closed"}
    <3>1. calls'[c] = calls[c] /\ calls[c].stage = "reset"
      BY <2>1
    <3>2. calls[c].on \in Clients /\ channel[calls[c].on] \in {"closing", "closed"}
      BY <3>1 DEF McpInv, ResetsOK
    <3>3. calls[c].on # n
      BY <1>1, <3>2
    <3> QED BY <1>3, <3>1, <3>2, <3>3
  <2> QED BY <2>1 DEF ResetsOK
<1> QED BY <1>5, <1>6, <1>7 DEF McpInv

LEMMA OpenFallbackStep == ASSUME McpInv, OpenFallback PROVE McpInv'
<1>1. /\ opening.of \in Clients /\ state \in {"closed", "error"} /\ tools \in BOOLEAN
      /\ calls \in [ToolCalls -> CallStates] /\ UNCHANGED <<state, tools, calls, shut>>
  BY DEF OpenFallback, McpInv, AttemptOK, McpTypeOK, CallStates
<1>2. /\ Closed(opening.of) \in [Clients -> LinkStates]
      /\ \A k \in Clients : Closed(opening.of)[k] = IF k = opening.of THEN "closed" ELSE channel[k]
  BY <1>1, ClosedIs DEF McpInv
<1> QED BY <1>1, <1>2, AttachStep DEF OpenFallback

-----------------------------------------------------------------------------
\* The steps of calls, of clients and of the runtime.

\* A call asks for the connection; one that reset it has seen its client end.
LEMMA ConnectStep ==
  ASSUME McpInv, NEW c \in ToolCalls, NEW again \in BOOLEAN, NEW links,
         links = (IF calls[c].stage = "reset" THEN Closed(calls[c].on) ELSE channel),
         Connect(c, again, links), state' \in {"closed", "error"}, tools' => tools,
         tools' \in BOOLEAN, shut' = shut
  PROVE  McpInv'
<1>1. /\ calls \in [ToolCalls -> CallStates] /\ channel \in [Clients -> LinkStates]
      /\ calls' = [calls EXCEPT ![c] = CallAt("connect", None, again)]
  BY DEF Connect, McpInv, McpTypeOK, CallStates, LinkStates
<1>2. /\ calls' \in [ToolCalls -> CallStates] /\ calls'[c].stage = "connect"
      /\ \A d \in ToolCalls \ {c} : calls'[d] = calls[d]
  BY <1>1 DEF CallStates, CallAt
<1>3. calls[c].stage = "reset" =>
        calls[c].on \in Clients /\ channel[calls[c].on] \in {"closing", "closed"}
  BY DEF McpInv, ResetsOK
<1>4. /\ links \in [Clients -> LinkStates]
      /\ \A k \in Clients : links[k] = IF calls[c].stage = "reset" /\ k = calls[c].on
                                       THEN "closed" ELSE channel[k]
  BY <1>1, <1>3, ClosedIs DEF McpInv
<1>5. CASE opening = Over
  BY <1>2, <1>4, <1>5, AttachStep DEF Connect
<1>6. CASE opening # Over
  <2>1. client' = client /\ channel' = links /\ opening' = opening
    BY <1>6 DEF Connect
  <2>2. McpTypeOK'
    BY <1>2, <1>4, <2>1 DEF McpInv, McpTypeOK, LinkStates, CallStates
  <2>3. ResetsOK'
    BY <1>2, <1>4, <2>1 DEF ResetsOK, McpInv
  <2>4. ReadyOK'
    BY <1>6, <2>1 DEF ReadyOK
  <2>5. ToolsOK'
    <3>1. Forgotten \subseteq Forgotten'
      BY <1>3, <1>4, <2>1 DEF Forgotten
    <3>2. opening.stage = "reset" /\ tools => Forgotten # {}
      BY DEF McpInv, ToolsOK
    <3> QED BY <1>6, <2>1, <3>1, <3>2 DEF ToolsOK
  <2>6. AttemptOK'
    <3> DEFINE o == opening.of
    <3>1. o \in Clients /\ client \in {None, o} /\ opening.stage # "none"
      BY <1>6 DEF McpInv, AttemptOK
    <3>2. /\ opening.stage \in {"fallback", "reset"}
                => client = None /\ channel'[o] \in {"closing", "closed"}
          /\ opening.stage \in {"open", "fallback open"} /\ client # None
                => channel'[client] = "opening"
          /\ opening.stage = "list" /\ client # None => channel'[client] \in {"up", "down"}
      BY <1>3, <1>4, <2>1, <3>1 DEF McpInv, AttemptOK
    <3>3. ASSUME opening.stage \in {"open", "fallback open", "list"}, client = None,
                 channel'[o] # "closed"
          PROVE  /\ channel'[o] = "closing"
                 /\ shut \/ \E d \in ToolCalls : calls'[d].stage = "reset" /\ calls'[d].on = o
      <4>1. channel'[o] = channel[o] /\ ~(calls[c].stage = "reset" /\ calls[c].on = o)
        BY <1>4, <2>1, <3>1, <3>3
      <4>2. /\ channel[o] = "closing"
            /\ shut \/ \E d \in ToolCalls : calls[d].stage = "reset" /\ calls[d].on = o
        BY <3>3, <4>1 DEF McpInv, AttemptOK
      <4> QED BY <1>2, <4>1, <4>2
    <3> QED BY <1>6, <2>1, <3>1, <3>2, <3>3 DEF AttemptOK, McpInv
  <2> QED BY <2>2, <2>3, <2>4, <2>5, <2>6 DEF McpInv
<1> QED BY <1>5, <1>6

\* A call goes on without a word about the connection.
LEMMA CallAloneStep ==
  ASSUME McpInv, NEW c \in ToolCalls, calls[c].stage # "reset", NEW r \in CallStates,
         r.stage # "reset", calls' = [calls EXCEPT ![c] = r],
         UNCHANGED <<state, client, channel, tools, opening, shut>>
  PROVE  McpInv'
<1>1. /\ calls' \in [ToolCalls -> CallStates] /\ ResetsStay
      /\ \A d \in ToolCalls : calls'[d] = (IF d = c THEN r ELSE calls[d])
  BY DEF McpInv, McpTypeOK, CallStates, ResetsStay
<1>2. McpTypeOK'
  BY <1>1 DEF McpInv, McpTypeOK, CallStates
<1>3. AttemptOK' /\ ReadyOK'
  BY <1>1 DEF McpInv, AttemptOK, ReadyOK, ResetsStay
<1>4. ResetsOK'
  BY <1>1, ResetsStayOK DEF McpInv
<1>5. ToolsOK'
  BY DEF McpInv, ToolsOK, Forgotten
<1> QED BY <1>2, <1>3, <1>4, <1>5 DEF McpInv

LEMMA CallAtIs ==
  ASSUME NEW stage \in {"out", "connect", "call", "reset", "done"}, NEW k \in Clients \cup {None},
         NEW again \in BOOLEAN
  PROVE  CallAt(stage, k, again) \in CallStates /\ CallAt(stage, k, again).stage = stage
         /\ CallAt(stage, k, again).on = k
BY DEF CallAt, CallStates

LEMMA StartCallStep == ASSUME McpInv, NEW c \in ToolCalls, StartCall(c) PROVE McpInv'
<1>1. calls[c].stage = "out" /\ UNCHANGED <<state, tools, shut>>
  BY DEF StartCall
<1>2. /\ tools \in BOOLEAN /\ state \in {"closed", "ready", "error"}
      /\ client \in Clients \cup {None}
  BY DEF McpInv, McpTypeOK
<1>3. CASE ~Knows(c) \/ state = "ready"
  <2> DEFINE r == IF Knows(c) /\ client # None THEN CallAt("call", client, FALSE)
                                               ELSE CallAt("done", None, FALSE)
  <2>1. calls' = [calls EXCEPT ![c] = r] /\ UNCHANGED <<client, channel, opening>>
    BY <1>3 DEF StartCall
  <2>2. r \in CallStates /\ r.stage # "reset"
    BY <1>2, CallAtIs
  <2> HIDE DEF r
  <2> QED BY <1>1, <2>1, <2>2, CallAloneStep
<1>4. CASE Knows(c) /\ state # "ready"
  <2>1. Connect(c, FALSE, channel)
    BY <1>4 DEF StartCall
  <2> QED BY <1>1, <1>2, <1>4, <2>1, ConnectStep
<1> QED BY <1>3, <1>4

LEMMA CallEndsStep == ASSUME McpInv, NEW c \in ToolCalls, CallEnds(c) PROVE McpInv'
<1>1. CallAt("done", None, FALSE) \in CallStates /\ CallAt("done", None, FALSE).stage # "reset"
  BY CallAtIs
<1> QED BY <1>1, CallAloneStep DEF CallEnds

LEMMA CallFailsStep == ASSUME McpInv, NEW c \in ToolCalls, CallFails(c) PROVE McpInv'
<1>1. /\ calls[c].stage = "call" /\ state' = "error" /\ tools' = FALSE /\ shut' = shut
      /\ client \in Clients \cup {None}
  BY DEF CallFails, McpInv, McpTypeOK
<1>2. CASE client = None
  BY <1>1, <1>2, ConnectStep DEF CallFails
<1>3. CASE client # None
  <2> DEFINE r == CallAt("reset", client, FALSE)
  <2>1. /\ client' = None /\ channel' = Closing /\ calls' = [calls EXCEPT ![c] = r]
        /\ opening' = opening
    BY <1>3 DEF CallFails
  <2>2. /\ channel' \in [Clients -> LinkStates]
        /\ \A k \in Clients : channel'[k] = IF k = client THEN "closing" ELSE channel[k]
    BY <2>1, ClosingIs DEF McpInv
  <2>3. r \in CallStates /\ r.stage = "reset" /\ r.on = client
    BY <1>1, CallAtIs
  <2> HIDE DEF r
  <2>4. /\ calls' \in [ToolCalls -> CallStates]
        /\ \A d \in ToolCalls : calls'[d] = (IF d = c THEN r ELSE calls[d])
    BY <2>1, <2>3 DEF McpInv, McpTypeOK, CallStates
  <2>5. McpTypeOK'
    BY <1>1, <2>1, <2>2, <2>4 DEF McpInv, McpTypeOK, CallStates, LinkStates
  <2>6. AttemptOK'
    <3>1. CASE opening = Over
      BY <2>1, <3>1, OverIs DEF AttemptOK
    <3>2. CASE opening # Over
      <4>1. /\ client = opening.of /\ opening.stage \in {"open", "fallback open", "list"}
            /\ opening.stage # "none"
        BY <1>3, <3>2 DEF McpInv, AttemptOK, McpTypeOK
      <4>2. channel'[opening.of] = "closing" /\ calls'[c].stage = "reset" /\ calls'[c].on = opening.of
        BY <1>1, <1>3, <2>2, <2>3, <2>4, <4>1
      <4> QED BY <1>1, <1>3, <2>1, <3>2, <4>1, <4>2 DEF AttemptOK
    <3> QED BY <3>1, <3>2
  <2>7. ResetsOK'
    BY <1>1, <1>3, <2>2, <2>3, <2>4 DEF McpInv, ResetsOK
  <2>8. ReadyOK' /\ ToolsOK'
    BY <1>1, <2>1 DEF ReadyOK, ToolsOK
  <2> QED BY <2>5, <2>6, <2>7, <2>8 DEF McpInv
<1> QED BY <1>2, <1>3

LEMMA CallFailureClosedStep ==
  ASSUME McpInv, NEW c \in ToolCalls, CallFailureClosed(c) PROVE McpInv'
<1>1. tools \in BOOLEAN
  BY DEF McpInv, McpTypeOK
<1> QED BY <1>1, ConnectStep DEF CallFailureClosed

LEMMA DownStep == ASSUME McpInv, NEW k \in Clients, Down(k) PROVE McpInv'
<1>1. /\ channel[k] = "up" /\ channel' \in [Clients -> LinkStates] /\ channel'[k] = "down"
      /\ \A j \in Clients \ {k} : channel'[j] = channel[j]
      /\ UNCHANGED <<state, client, tools, opening, calls, shut>>
  BY DEF Down, McpInv, McpTypeOK, LinkStates
<1>2. McpTypeOK'
  BY <1>1 DEF McpInv, McpTypeOK, LinkStates
<1>3. AttemptOK'
  <2>1. CASE opening = Over
    BY <1>1, <2>1, OverIs DEF AttemptOK
  <2>2. CASE opening # Over
    BY <1>1, <2>2 DEF McpInv, AttemptOK
  <2> QED BY <2>1, <2>2
<1>4. ResetsOK'
  BY <1>1, ResetsStayOK DEF McpInv, ResetsStay
<1>5. ReadyOK'
  BY <1>1 DEF McpInv, ReadyOK, McpTypeOK
<1>6. ToolsOK'
  <2>1. Forgotten \subseteq Forgotten'
    BY <1>1 DEF Forgotten
  <2> QED BY <1>1, <2>1 DEF McpInv, ToolsOK
<1> QED BY <1>2, <1>3, <1>4, <1>5, <1>6 DEF McpInv

LEMMA ToolsChangedStep == ASSUME McpInv, NEW k \in Clients, ToolsChanged(k) PROVE McpInv'
<1>1. channel[k] = "up" /\ tools' = TRUE /\ UNCHANGED <<state, client, channel, opening, calls, shut>>
  BY DEF ToolsChanged
<1>2. McpTypeOK' /\ AttemptOK' /\ ResetsOK' /\ ReadyOK'
  BY <1>1 DEF McpInv, McpTypeOK, AttemptOK, ResetsOK, ReadyOK
<1>3. ToolsOK'
  <2>1. ASSUME (opening = Over /\ state # "ready") \/ opening.stage = "reset"
        PROVE  k \in Forgotten
    <3>1. client = None
      BY <2>1 DEF McpInv, AttemptOK, ReadyOK
    <3> QED BY <1>1, <3>1, McpNone DEF Forgotten
  <2>2. Forgotten' = Forgotten
    BY <1>1 DEF Forgotten
  <2> QED BY <1>1, <2>1, <2>2 DEF ToolsOK
<1> QED BY <1>2, <1>3 DEF McpInv

LEMMA CloseRuntimeStep == ASSUME McpInv, CloseRuntime PROVE McpInv'
<1>1. /\ shut' = TRUE /\ client' = None /\ channel' = Closing /\ tools' = FALSE
      /\ state' \in {"closed", "error"} /\ UNCHANGED <<opening, calls>>
  <2>1. state \in {"closed", "ready", "error"}
    BY DEF McpInv, McpTypeOK
  <2> QED BY <2>1 DEF CloseRuntime
<1>2. /\ channel' \in [Clients -> LinkStates]
      /\ \A k \in Clients : channel'[k] = IF k = client THEN "closing" ELSE channel[k]
  BY <1>1, ClosingIs DEF McpInv
<1>3. McpTypeOK'
  BY <1>1, <1>2 DEF McpInv, McpTypeOK, LinkStates
<1>4. AttemptOK'
  <2>1. CASE opening = Over
    BY <1>1, <2>1, OverIs DEF AttemptOK
  <2>2. CASE opening # Over
    <3>1. opening.of \in Clients /\ client \in {None, opening.of} /\ opening.stage # "none"
      BY <2>2 DEF McpInv, AttemptOK
    <3>2. opening.stage \in {"fallback", "reset"} =>
            channel'[opening.of] \in {"closing", "closed"}
      BY <1>2, <3>1 DEF McpInv, AttemptOK
    <3>3. opening.stage \in {"open", "fallback open", "list"} =>
            channel'[opening.of] \in {"closing", "closed"}
      BY <1>2, <3>1 DEF McpInv, AttemptOK
    <3> QED BY <1>1, <2>2, <3>1, <3>2, <3>3 DEF AttemptOK
  <2> QED BY <2>1, <2>2
<1>5. ResetsOK'
  BY <1>1, <1>2, ResetsStayOK DEF McpInv, ResetsStay
<1>6. ReadyOK' /\ ToolsOK'
  BY <1>1 DEF ReadyOK, ToolsOK
<1> QED BY <1>3, <1>4, <1>5, <1>6 DEF McpInv

LEMMA McpInvStep == McpInv /\ [McpNext]_mcpVars => McpInv'
<1> SUFFICES ASSUME McpInv, [McpNext]_mcpVars PROVE McpInv'
  OBVIOUS
<1>1. CASE UNCHANGED mcpVars
  BY <1>1 DEF mcpVars, McpInv, McpTypeOK, AttemptOK, ResetsOK, ReadyOK, ToolsOK, Forgotten
<1>2. CASE Attempt
  BY <1>2, OpenedStep, ListedStep, OpenFailsStep, OpenFailureClosedStep, FallBackStep,
     OpenFallbackStep DEF Attempt
<1>3. ASSUME NEW c \in ToolCalls,
             StartCall(c) \/ CallEnds(c) \/ CallFails(c) \/ CallFailureClosed(c)
      PROVE  McpInv'
  BY <1>3, StartCallStep, CallEndsStep, CallFailsStep, CallFailureClosedStep
<1>4. ASSUME NEW k \in Clients, Down(k) \/ ToolsChanged(k) PROVE McpInv'
  BY <1>4, DownStep, ToolsChangedStep
<1>5. CASE CloseRuntime
  BY <1>5, CloseRuntimeStep
<1> QED BY <1>1, <1>2, <1>3, <1>4, <1>5 DEF McpNext

\* The parts of a connection fit each other between any two steps of its handlers
\* (connect, runConnect, resetConnection, callTool).
THEOREM McpHolds == McpSpec => []McpInv
<1>1. McpInit => McpInv
  <2> SUFFICES ASSUME McpInit PROVE McpInv
    OBVIOUS
  <2>1. 1 \in Clients /\ None \notin Clients
    BY McpBoundsAssumption DEF Clients, None
  <2>2. opening.stage = "open" /\ opening.of = 1 /\ opening # Over
    BY OverIs DEF McpInit
  <2>3. \A c \in ToolCalls : calls[c] \in CallStates /\ calls[c].stage = "out"
    <3>1. /\ CallAt("out", None, FALSE) \in CallStates
          /\ CallAt("out", None, FALSE).stage = "out"
      BY DEF CallAt, CallStates
    <3>2. \A c \in ToolCalls : calls[c] = CallAt("out", None, FALSE)
      BY DEF McpInit
    <3> QED BY <3>1, <3>2
  <2>4. McpTypeOK
    BY <2>1, <2>3 DEF McpInit, McpTypeOK, CallStates
  <2>5. AttemptOK
    BY <2>1, <2>2 DEF McpInit, AttemptOK
  <2>6. ResetsOK /\ ReadyOK /\ ToolsOK
    BY <2>2, <2>3 DEF ResetsOK, ReadyOK, ToolsOK
  <2> QED BY <2>4, <2>5, <2>6 DEF McpInv
<1>2. McpInv /\ [McpNext]_mcpVars => McpInv'
  BY McpInvStep
<1> QED BY <1>1, <1>2, PTL DEF McpSpec

\* When no handler is under way, state, client and tools of an MCP server agree, in
\* whatever order calls, attempts and the server reset, reopened and lost the
\* connection, however many calls share it.
THEOREM QuietConnections == McpSpec => []QuietConnectionAgrees
<1>1. McpInv => QuietConnectionAgrees
  BY DEF McpInv, McpTypeOK, ReadyOK, ToolsOK, QuietConnectionAgrees, McpIdle
<1> QED BY <1>1, McpHolds, PTL

\* And one in error stays there: no later call finds a tool that it could ask for.
THEOREM ServersStayFailed == McpSpec => FailedServersStay
<1>1. ASSUME McpInv, [McpNext]_mcpVars, McpIdle, state = "error", Forgotten = {}
      PROVE  state' = "error" /\ opening' = Over
  <2>1. opening = Over /\ ~tools /\ \A c \in ToolCalls : calls[c].stage \in {"out", "done"}
    BY <1>1 DEF McpInv, ToolsOK, McpIdle
  <2>2. ~Attempt
    BY <2>1, OverIs DEF Attempt, Opened, Listed, OpenFails, OpenFailureClosed, FallBack, OpenFallback
  <2>3. \A c \in ToolCalls : ~(CallEnds(c) \/ CallFails(c) \/ CallFailureClosed(c))
    BY <2>1 DEF CallEnds, CallFails, CallFailureClosed
  <2>4. ASSUME NEW c \in ToolCalls, StartCall(c) PROVE UNCHANGED <<state, opening>>
    BY <1>1, <2>1, <2>4 DEF StartCall, Knows
  <2>5. ASSUME NEW k \in Clients, Down(k) \/ ToolsChanged(k) PROVE UNCHANGED <<state, opening>>
    BY <2>5 DEF Down, ToolsChanged
  <2>6. CASE CloseRuntime
    BY <1>1, <2>1, <2>6 DEF CloseRuntime
  <2>7. CASE UNCHANGED mcpVars
    BY <1>1, <2>1, <2>7 DEF mcpVars
  <2> QED BY <1>1, <2>1, <2>2, <2>3, <2>4, <2>5, <2>6, <2>7 DEF McpNext
<1>2. McpInv /\ [McpNext]_mcpVars
        => [McpIdle /\ state = "error" /\ Forgotten = {} => state' = "error" /\ opening' = Over]_mcpVars
  BY <1>1
<1> QED BY <1>2, McpHolds, PTL DEF McpSpec, FailedServersStay
=============================================================================
