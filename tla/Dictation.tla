------------------------------ MODULE Dictation ------------------------------
(***************************************************************************)
(* The microphone button of the composer (web/src/components/chat/         *)
(* use-dictation.ts), which records for the server to transcribe or has    *)
(* the browser recognize speech.                                           *)
(*                                                                         *)
(* What the browser does takes its time: asking for the microphone, ending *)
(* a recorder, an upload.  Clicks, Escape, the composer that is blocked or *)
(* goes away, the time limit and the ends of older recordings come in      *)
(* between, and all of them write the same few references.  What a         *)
(* recording holds is not modelled beyond whether there is text.           *)
(***************************************************************************)
EXTENDS Naturals, FiniteSets

CONSTANT MaxDictations  \* bound on dictations begun
ASSUME DictationBoundAssumption == MaxDictations \in Nat

VARIABLES
  plan,      \* who turns speech into text: the "server" or the "browser"
  phase,     \* phaseRef
  mounted, blocked, arming,  \* mountedRef, blockedRef, armingRef
  recording, \* sessionRef, 0 for none
  dictation, \* of each: [stage, cancelled, stopping, timer, live], `live` while it listens
  inserted,  \* the dictations whose text was inserted
  crossed    \* whether an upload ended while another dictation was recording

dictationVars == <<plan, phase, mounted, blocked, arming, recording, dictation, inserted, crossed>>

Dictations == 1 .. MaxDictations
NoDictation == 0

DictationStates == [stage : {"out", "asking", "on", "ending", "uploading", "over"},
                    cancelled : BOOLEAN, stopping : BOOLEAN,
                    timer : {"none", "set", "fired"}, live : BOOLEAN]

DictationTypeOK ==
  /\ plan \in {"server", "browser"} /\ phase \in {"idle", "recording", "transcribing"}
  /\ mounted \in BOOLEAN /\ blocked \in BOOLEAN /\ arming \in BOOLEAN /\ crossed \in BOOLEAN
  /\ recording \in Dictations \cup {NoDictation}
  /\ dictation \in [Dictations -> DictationStates]
  /\ inserted \subseteq Dictations

DictationInit ==
  /\ plan \in {"server", "browser"} /\ phase = "idle"
  /\ mounted = TRUE /\ blocked \in BOOLEAN /\ arming = FALSE
  /\ recording = NoDictation /\ inserted = {} /\ crossed = FALSE
  /\ dictation = [d \in Dictations |-> [stage |-> "out", cancelled |-> FALSE, stopping |-> FALSE,
                                        timer |-> "none", live |-> FALSE]]

NewDictation == CHOOSE d \in Dictations : dictation[d].stage = "out"
CanBegin == \E d \in Dictations : dictation[d].stage = "out"

\* A mutant of FinishIdle: what is transcribing stays so.
FinishRecording == /\ phase' = IF phase = "transcribing" THEN phase ELSE "idle"
                   /\ arming' = (arming /\ ~mounted)
FinishIdle == phase' = "idle" /\ arming' = (arming /\ ~mounted)
Cleared(timer) == IF timer = "set" THEN "none" ELSE timer
Released(d) == [d EXCEPT !.timer = Cleared(@), !.live = FALSE]
DictationOver(d) == [Released(d) EXCEPT !.stage = "over"]
\* A mutant of Forget: the current dictation is forgotten, whichever it is.
ForgetAny(d) == recording' = NoDictation
Forget(d) == recording' = IF recording = d THEN NoDictation ELSE recording

\* beginSession
Begun(d) == [d EXCEPT !.stage = "on", !.timer = "set", !.live = TRUE]
Begin(d) ==
  /\ dictation' = [dictation EXCEPT ![d] = Begun(@)]
  /\ recording' = d /\ arming' = FALSE /\ phase' = "recording"

\* stop: the recorder or the recognition is told to end, and ends later; or it
\* throws, and the dictation is over.
CanStop == recording # NoDictation /\ phase = "recording" /\ ~dictation[recording].stopping
Told(d) == [d EXCEPT !.stopping = TRUE, !.timer = Cleared(@)]
Ending(d) == [Told(d) EXCEPT !.stage = "ending"]
StopRecording(fired) ==
  \/ /\ dictation' = [fired EXCEPT ![recording] = Ending(@)]
     /\ UNCHANGED <<phase, arming, recording>>
  \/ /\ dictation' = [fired EXCEPT ![recording] = DictationOver(Told(@))]
     /\ recording' = NoDictation /\ FinishIdle

\* toggle, while it records ...
ToggleOff ==
  /\ mounted /\ CanStop
  /\ StopRecording(dictation)
  /\ UNCHANGED <<plan, mounted, blocked, inserted, crossed>>

\* ... and otherwise: recognition begins at once, the microphone is asked for.
MayToggleOn == phase = "idle" /\ ~arming /\ ~blocked
ToggleOn ==
  /\ mounted /\ MayToggleOn /\ CanBegin
  /\ \/ plan = "browser" /\ Begin(NewDictation)
     \/ /\ plan = "server" /\ arming' = TRUE
        /\ dictation' = [dictation EXCEPT ![NewDictation].stage = "asking"]
        /\ UNCHANGED <<phase, recording>>
  /\ UNCHANGED <<plan, mounted, blocked, inserted, crossed>>

\* A mutant of Usable: the phase is not looked at again.
UsableInAnyPhase == mounted /\ ~blocked
\* getUserMedia returns: it was refused, or it comes too late, or there is no
\* recorder for it; or the recorder starts.
Usable == mounted /\ ~blocked /\ phase = "idle"
Granted(d) ==
  /\ dictation[d].stage = "asking"
  /\ \/ Usable /\ Begin(d)
     \/ /\ dictation' = [dictation EXCEPT ![d] = DictationOver(@)] /\ arming' = FALSE
        /\ UNCHANGED <<phase, recording>>
  /\ UNCHANGED <<plan, mounted, blocked, inserted, crossed>>

Uploading(d) == [Released(d) EXCEPT !.stage = "uploading"]
\* handleServerStop, when the recorder ends, because it was told to or by itself.
ServerStop(d) ==
  /\ plan = "server" /\ dictation[d].stage \in {"on", "ending"}
  /\ Forget(d)
  /\ \/ /\ dictation[d].cancelled \/ ~mounted
        /\ dictation' = [dictation EXCEPT ![d] = DictationOver(@)] /\ UNCHANGED <<phase, arming>>
     \/ /\ ~dictation[d].cancelled /\ mounted   \* nothing was recorded, or too much
        /\ dictation' = [dictation EXCEPT ![d] = DictationOver(@)] /\ FinishIdle
     \/ /\ ~dictation[d].cancelled /\ mounted
        /\ dictation' = [dictation EXCEPT ![d] = Uploading(@)]
        /\ phase' = "transcribing" /\ UNCHANGED arming
  /\ UNCHANGED <<plan, mounted, blocked, inserted, crossed>>

\* The upload ends, with text or without.  A dictation that is uploaded is not
\* the current one, so that a cancellation does not reach it.
UploadEnds(d) ==
  /\ dictation[d].stage = "uploading"
  /\ dictation' = [dictation EXCEPT ![d].stage = "over"]
  /\ inserted' \in {inserted, IF mounted THEN inserted \cup {d} ELSE inserted}
  /\ FinishIdle
  /\ crossed' = (crossed \/ recording # NoDictation)
  /\ UNCHANGED <<plan, mounted, blocked, recording>>

\* The recorder fails.
RecorderFails(d) ==
  /\ plan = "server" /\ dictation[d].stage = "on"
  /\ dictation' = [dictation EXCEPT ![d] = DictationOver([@ EXCEPT !.cancelled = TRUE])]
  /\ Forget(d) /\ FinishIdle
  /\ UNCHANGED <<plan, mounted, blocked, inserted, crossed>>

\* Recognition brings text, and ends.
Recognized(d) ==
  /\ plan = "browser" /\ dictation[d].stage \in {"on", "ending"} /\ ~dictation[d].cancelled
  /\ inserted' = inserted \cup {d}
  /\ UNCHANGED <<plan, phase, mounted, blocked, arming, recording, dictation, crossed>>

RecognitionEnds(d) ==
  /\ plan = "browser" /\ dictation[d].stage \in {"on", "ending"}
  /\ dictation' = [dictation EXCEPT ![d] = DictationOver(@)]
  /\ Forget(d)
  /\ IF dictation[d].cancelled \/ ~mounted THEN UNCHANGED <<phase, arming>> ELSE FinishIdle
  /\ UNCHANGED <<plan, mounted, blocked, inserted, crossed>>

\* What cancel and the end of the composer do to the current dictation: one that
\* is ending already only gives up its microphone.
Dropped(d) ==
  LET cancelled == [d EXCEPT !.cancelled = TRUE] IN
  IF d.stage = "on" THEN Ending(cancelled) ELSE Released(Told(cancelled))
DropCurrent == dictation' = IF recording = NoDictation THEN dictation
                            ELSE [dictation EXCEPT ![recording] = Dropped(@)]
CancelDictation ==
  IF recording = NoDictation /\ phase = "idle" /\ ~arming
  THEN UNCHANGED <<phase, arming, recording, dictation>>
  ELSE DropCurrent /\ recording' = NoDictation /\ FinishIdle

\* The button that cancels and Escape are there while it records ...
CancelByUser ==
  /\ mounted /\ phase = "recording" /\ CancelDictation
  /\ UNCHANGED <<plan, mounted, blocked, inserted, crossed>>

\* ... and the composer that is blocked cancels whatever there is.
Block ==
  /\ mounted /\ blocked' = ~blocked
  /\ IF blocked' THEN CancelDictation ELSE UNCHANGED <<phase, arming, recording, dictation>>
  /\ UNCHANGED <<plan, mounted, inserted, crossed>>

Unmount ==
  /\ mounted /\ mounted' = FALSE
  /\ DropCurrent
  /\ UNCHANGED <<plan, phase, blocked, arming, recording, inserted, crossed>>

\* The timer of a dictation stops whichever is the current one.
TimeLimit(d) ==
  /\ dictation[d].timer = "set"
  /\ LET fired == [dictation EXCEPT ![d].timer = "fired"] IN
     IF CanStop THEN StopRecording(fired)
     ELSE dictation' = fired /\ UNCHANGED <<phase, arming, recording>>
  /\ UNCHANGED <<plan, mounted, blocked, inserted, crossed>>

BrowserSteps(d) == \/ dictation[d].stage = "ending" /\ (ServerStop(d) \/ RecognitionEnds(d))
                   \/ UploadEnds(d) \/ TimeLimit(d)
DictationNext ==
  \/ ToggleOn \/ ToggleOff \/ CancelByUser \/ Block \/ Unmount
  \/ \E d \in Dictations : \/ Granted(d) \/ ServerStop(d) \/ UploadEnds(d) \/ RecorderFails(d)
                           \/ Recognized(d) \/ RecognitionEnds(d) \/ TimeLimit(d)

DictationSpec == DictationInit /\ [][DictationNext]_dictationVars

\* Timers fire; recorders that were told to end do, and requests have an answer.
DictationFair == \A d \in Dictations : WF_dictationVars(BrowserSteps(d))

-----------------------------------------------------------------------------
\* The microphone listens only for the dictation that the composer shows as
\* recording, or for one that has been told to end and is about to: in whatever
\* order permissions, cancellations, errors, ends and limits come in, nobody
\* listens behind an idle button.  Except: blocking the composer does not reach a
\* dictation that is being uploaded, and its end makes the button of the next one
\* idle while that one records.
LiveMicrophoneIsShown ==
  ~crossed => \A d \in Dictations : dictation[d].live =>
                \/ dictation[d].stage = "ending"
                \/ d = recording /\ dictation[d].stage = "on" /\ mounted /\ phase = "recording"

\* Whoever listens, and was not told to end, has a time limit to come, which is
\* heard: with the same exception, of a recording during which an older upload ends.
RecordingsAreLimited ==
  ~crossed => \A d \in Dictations : dictation[d].stage = "on" =>
                dictation[d].timer = "set" /\ d = recording /\ CanStop

\* "The browser stops recording at the duration limit" (DEPLOY.md:237), without an
\* exception: no recording goes on when its limit has passed.  One does: the end of
\* an older upload made the button idle, and the limit then finds nothing to stop.
RecordingsStopAtTheLimit ==
  \A d \in Dictations : dictation[d].timer = "fired" => dictation[d].stage # "on"

\* Nobody is recorded without knowing it, nor without end, unless the end of an
\* older upload crosses the recording.
NobodyIsOverheard == LiveMicrophoneIsShown /\ RecordingsAreLimited

\* The button comes back: no dictation leaves it recording or transcribing for ever.
DictationEnds == []<>(phase = "idle" \/ ~mounted)
=============================================================================
