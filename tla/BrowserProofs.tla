----------------------------- MODULE BrowserProofs -----------------------------
(***************************************************************************)
(* What is proved of the browser's side: of Dictation, that the microphone  *)
(* listens only while the composer shows it and that a recording has a time *)
(* limit that is heard, but for the end of an older upload that crosses it; *)
(* of ThreadSync, that the thread of a tab is true.                         *)
(*                                                                          *)
(* The invariant of a thread says what its tab cannot know: of every row it *)
(* shows that differs from the stored one, that the change which made the   *)
(* difference is still to be heard, and of every bubble, that the row it    *)
(* waits for is.                                                            *)
(***************************************************************************)
EXTENDS Dictation, ThreadSync, FilterProofs, FiniteSetTheorems, SequenceTheorems,
        WellFoundedInduction, TLAPS

\* Where the flags of a dictation may stand, by its stage.  One that was told to
\* end is the current one until it has, unless it was cancelled.
StageOK(d) ==
  /\ dictation[d].live => dictation[d].stage \in {"on", "ending"}
  /\ dictation[d].stage \in {"out", "asking"} => ~dictation[d].stopping
  /\ dictation[d].stage = "on" =>
       d = recording /\ mounted /\ dictation[d].timer = "set" /\ ~dictation[d].stopping
  /\ dictation[d].stage = "ending" /\ ~dictation[d].cancelled => d = recording

\* The button shows the current dictation, which records or is about to end.
ShownOK ==
  recording # NoDictation =>
    phase = "recording" /\ dictation[recording].stage \in {"on", "ending"}

DictationInv ==
  /\ DictationTypeOK
  /\ ~crossed => ShownOK /\ \A d \in Dictations : StageOK(d)

-----------------------------------------------------------------------------
\* What each of the writes makes of a dictation: it starts,
LEMMA StartedIs ==
  ASSUME NEW r \in DictationStates
  PROVE  /\ Begun(r) \in DictationStates /\ Begun(r).stage = "on" /\ Begun(r).timer = "set"
         /\ Begun(r).stopping = r.stopping
BY DEF Begun, DictationStates

\* One that is told to end keeps its stage until it does,
LEMMA ToldIs ==
  ASSUME NEW r \in DictationStates
  PROVE  /\ Told(r) \in DictationStates /\ Told(r).stage = r.stage
         /\ Told(r).cancelled = r.cancelled /\ Told(r).live = r.live /\ Told(r).stopping
BY DEF Told, Cleared, DictationStates

\* or is ending from then on.
LEMMA EndingIs ==
  ASSUME NEW r \in DictationStates
  PROVE  /\ Ending(r) \in DictationStates /\ Ending(r).stage = "ending"
         /\ Ending(r).cancelled = r.cancelled
<1>1. Told(r) \in DictationStates /\ Told(r).cancelled = r.cancelled
  BY ToldIs
<1> QED
  BY <1>1 DEF Ending, DictationStates

\* One that is released does not listen.
LEMMA ReleasedIs ==
  ASSUME NEW r \in DictationStates
  PROVE  /\ Released(r) \in DictationStates /\ Released(r).stage = r.stage
         /\ Released(r).cancelled = r.cancelled /\ ~Released(r).live
BY DEF Released, Cleared, DictationStates

\* One that is over does not listen either,
LEMMA RecordingOver ==
  ASSUME NEW r \in DictationStates
  PROVE  /\ DictationOver(r) \in DictationStates
         /\ DictationOver(r).stage = "over" /\ ~DictationOver(r).live
<1>1. Released(r) \in DictationStates /\ ~Released(r).live
  BY ReleasedIs
<1> QED
  BY <1>1 DEF DictationOver, DictationStates

\* nor does one that is uploaded.
LEMMA UploadingIs ==
  ASSUME NEW r \in DictationStates
  PROVE  /\ Uploading(r) \in DictationStates
         /\ Uploading(r).stage = "uploading" /\ ~Uploading(r).live
<1>1. Released(r) \in DictationStates /\ ~Released(r).live
  BY ReleasedIs
<1> QED
  BY <1>1 DEF Uploading, DictationStates

\* A cancellation is noted before anything else.
LEMMA CancelledIs ==
  ASSUME NEW r \in DictationStates
  PROVE  /\ [r EXCEPT !.cancelled = TRUE] \in DictationStates
         /\ [r EXCEPT !.cancelled = TRUE].stage = r.stage /\ [r EXCEPT !.cancelled = TRUE].cancelled
BY DEF DictationStates

\* One that is dropped is cancelled, and ends if it was recording.
LEMMA DroppedIs ==
  ASSUME NEW r \in DictationStates
  PROVE  /\ Dropped(r) \in DictationStates /\ Dropped(r).cancelled
         /\ Dropped(r).stage = IF r.stage = "on" THEN "ending" ELSE r.stage
         /\ Dropped(r).live => Dropped(r).stage = "ending"
<1> DEFINE c == [r EXCEPT !.cancelled = TRUE]
<1>1. c \in DictationStates /\ c.stage = r.stage /\ c.cancelled
  BY CancelledIs
<1>2. Dropped(r) = IF r.stage = "on" THEN Ending(c) ELSE Released(Told(c))
  BY DEF Dropped
<1> HIDE DEF c
<1>3. Told(c) \in DictationStates /\ Told(c).stage = c.stage /\ Told(c).cancelled = c.cancelled
  BY <1>1, ToldIs
<1>4. CASE r.stage = "on"
  <2>1. Dropped(r) = Ending(c)
    BY <1>2, <1>4
  <2>2. Ending(c) \in DictationStates /\ Ending(c).stage = "ending" /\ Ending(c).cancelled = c.cancelled
    BY <1>1, EndingIs
  <2> QED
    BY <1>1, <1>4, <2>1, <2>2
<1>5. CASE r.stage # "on"
  <2> DEFINE t == Told(c)
  <2>1. Dropped(r) = Released(t)
    BY <1>2, <1>5
  <2>2. t \in DictationStates /\ t.stage = c.stage /\ t.cancelled = c.cancelled
    BY <1>3
  <2> HIDE DEF t
  <2>3. /\ Released(t) \in DictationStates /\ Released(t).stage = t.stage
        /\ Released(t).cancelled = t.cancelled /\ ~Released(t).live
    BY <2>2, ReleasedIs
  <2> QED
    BY <1>1, <1>5, <2>1, <2>2, <2>3
<1> QED
  BY <1>4, <1>5

\* Writing one dictation leaves the others alone.
OnlyThisDictation(d) == /\ dictation' \in [Dictations -> DictationStates]
                    /\ \A e \in Dictations \ {d} : dictation'[e] = dictation[e]

\* So a write to one dictation has the type and the value it should.
LEMMA WrittenIs ==
  ASSUME DictationInv, NEW d \in Dictations, NEW r \in DictationStates,
         dictation' = [dictation EXCEPT ![d] = r]
  PROVE  OnlyThisDictation(d) /\ dictation'[d] = r
BY DEF DictationInv, DictationTypeOK, OnlyThisDictation

\* What is known of a dictation in the state before.
LEMMA Known ==
  ASSUME DictationInv
  PROVE  /\ \A d \in Dictations : dictation[d] \in DictationStates /\ d # NoDictation
         /\ recording # NoDictation => recording \in Dictations
         /\ ~crossed => ShownOK /\ \A d \in Dictations : StageOK(d)
BY DEF DictationInv, DictationTypeOK, Dictations, NoDictation

-----------------------------------------------------------------------------
\* A step that changes one dictation has only that one to answer for, as long as
\* the others do not depend on what it does to the current one.
LEMMA OneDictationStep ==
  ASSUME DictationInv, NEW d \in Dictations, OnlyThisDictation(d),
         UNCHANGED <<plan, inserted>>, mounted' \in BOOLEAN, blocked' \in BOOLEAN, arming' \in BOOLEAN,
         phase' \in {"idle", "recording", "transcribing"}, crossed' \in BOOLEAN,
         recording' \in Dictations \cup {NoDictation},
         ~crossed' => /\ ~crossed /\ ShownOK' /\ StageOK(d)'
                      /\ \A e \in Dictations \ {d} : StageOK(e)'
  PROVE  DictationInv'
BY DEF DictationInv, DictationTypeOK, OnlyThisDictation

\* The current dictation is stopped, whether or not a timer has fired before.
LEMMA StopRecordingStep ==
  ASSUME DictationInv, CanStop, NEW fired \in [Dictations -> DictationStates],
         \A d \in Dictations : /\ fired[d].stage = dictation[d].stage /\ fired[d].live = dictation[d].live
                               /\ fired[d].stopping = dictation[d].stopping
                               /\ fired[d].cancelled = dictation[d].cancelled,
         StopRecording(fired), UNCHANGED <<plan, mounted, blocked, inserted, crossed>>
  PROVE  DictationInv'
<1>1. PICK c \in Dictations : c = recording /\ c # NoDictation
  BY Known DEF CanStop
<1>2. fired[c] \in DictationStates /\ Told(fired[c]) \in DictationStates
  BY ToldIs
<1>3. \A e \in Dictations \ {c} : ~crossed => StageOK(e) /\ dictation[e].stage # "on"
  BY <1>1, Known DEF StageOK
<1>4. DictationTypeOK
  BY DEF DictationInv
<1>5. CASE /\ dictation' = [fired EXCEPT ![recording] = Ending(@)]
           /\ UNCHANGED <<phase, arming, recording>>
  <2>1. dictation' = [fired EXCEPT ![c] = Ending(fired[c])]
    BY <1>1, <1>5
  <2>2. Ending(fired[c]) \in DictationStates /\ Ending(fired[c]).stage = "ending"
    BY <1>2, EndingIs
  <2>3. /\ dictation' \in [Dictations -> DictationStates] /\ dictation'[c].stage = "ending"
        /\ \A e \in Dictations \ {c} : dictation'[e] = fired[e]
    BY <2>1, <2>2
  <2>4. DictationTypeOK'
    BY <1>4, <1>5, <2>3 DEF DictationTypeOK
  <2>5. ASSUME ~crossed PROVE ShownOK' /\ \A e \in Dictations : StageOK(e)'
    <3>1. ShownOK'
      BY <1>1, <1>5, <2>3, <2>5, Known DEF ShownOK
    <3>2. StageOK(c)'
      BY <1>1, <1>5, <2>3 DEF StageOK
    <3>3. ASSUME NEW e \in Dictations \ {c} PROVE StageOK(e)'
      BY <1>1, <1>3, <1>5, <2>3, <2>5 DEF StageOK
    <3> QED
      BY <3>1, <3>2, <3>3
  <2> QED
    BY <2>4, <2>5 DEF DictationInv
<1>6. CASE /\ dictation' = [fired EXCEPT ![recording] = DictationOver(Told(@))]
           /\ recording' = NoDictation /\ FinishIdle
  <2>1. dictation' = [fired EXCEPT ![c] = DictationOver(Told(fired[c]))]
    BY <1>1, <1>6
  <2>2. /\ DictationOver(Told(fired[c])) \in DictationStates
        /\ DictationOver(Told(fired[c])).stage = "over" /\ ~DictationOver(Told(fired[c])).live
    BY <1>2, RecordingOver
  <2>3. /\ dictation' \in [Dictations -> DictationStates]
        /\ dictation'[c].stage = "over" /\ ~dictation'[c].live
        /\ \A e \in Dictations \ {c} : dictation'[e] = fired[e]
    BY <2>1, <2>2
  <2>4. DictationTypeOK'
    BY <1>4, <1>6, <2>3 DEF DictationTypeOK, FinishIdle
  <2>5. ASSUME ~crossed PROVE ShownOK' /\ \A e \in Dictations : StageOK(e)'
    <3>1. ShownOK'
      BY <1>6 DEF ShownOK
    <3>2. StageOK(c)'
      BY <2>3 DEF StageOK
    <3>3. ASSUME NEW e \in Dictations \ {c} PROVE StageOK(e)'
      BY <1>1, <1>3, <1>6, <2>3, <2>5 DEF StageOK
    <3> QED
      BY <3>1, <3>2, <3>3
  <2> QED
    BY <2>4, <2>5 DEF DictationInv
<1> QED
  BY <1>5, <1>6 DEF StopRecording

\* A dictation begins to record behind an idle button.
LEMMA BeginStep ==
  ASSUME DictationInv, NEW d \in Dictations, Begin(d), dictation[d].stage \in {"out", "asking"},
         mounted, phase = "idle", UNCHANGED <<plan, mounted, blocked, inserted, crossed>>
  PROVE  DictationInv'
<1>1. dictation[d] \in DictationStates /\ d # NoDictation
  BY Known
<1>2. OnlyThisDictation(d) /\ dictation'[d] = Begun(dictation[d])
  BY <1>1, StartedIs, WrittenIs DEF Begin
<1>3. /\ dictation'[d].stage = "on" /\ dictation'[d].timer = "set"
      /\ dictation'[d].stopping = dictation[d].stopping
  BY <1>1, <1>2, StartedIs
<1>4. recording' = d /\ phase' = "recording" /\ arming' = FALSE
  BY DEF Begin
<1>5. ASSUME ~crossed
      PROVE  ShownOK' /\ StageOK(d)' /\ \A e \in Dictations \ {d} : StageOK(e)'
  <2>1. recording = NoDictation
    BY <1>5, Known DEF ShownOK
  <2>2. ASSUME NEW e \in Dictations \ {d} PROVE StageOK(e)'
    <3>1. StageOK(e) /\ e # NoDictation /\ dictation'[e] = dictation[e]
      BY <1>2, <1>5, Known DEF OnlyThisDictation
    <3> QED
      BY <2>1, <3>1 DEF StageOK
  <2>3. ~dictation[d].stopping
    BY <1>5, Known DEF StageOK
  <2> QED
    BY <1>3, <1>4, <2>2, <2>3 DEF ShownOK, StageOK
<1> QED
  BY <1>2, <1>4, <1>5, OneDictationStep DEF DictationInv, DictationTypeOK

\* A recording ends: it is forgotten if it is the current one, and only then does
\* the phase change.
LEMMA EndStep ==
  ASSUME DictationInv, NEW d \in Dictations, NEW r \in DictationStates,
         dictation' = [dictation EXCEPT ![d] = r], r.stage \in {"over", "uploading"}, ~r.live,
         dictation[d].stage \in {"on", "ending"}, Forget(d),
         phase' \in {"idle", "recording", "transcribing"}, arming' \in BOOLEAN,
         phase' = phase \/ (~crossed => d = recording),
         UNCHANGED <<plan, mounted, blocked, inserted, crossed>>
  PROVE  DictationInv'
<1>1. OnlyThisDictation(d) /\ dictation'[d] = r
  BY WrittenIs
<1>2. recording' = IF recording = d THEN NoDictation ELSE recording
  BY DEF Forget
<1>3. ASSUME ~crossed
      PROVE  ShownOK' /\ StageOK(d)' /\ \A e \in Dictations \ {d} : StageOK(e)'
  <2>1. ShownOK'
    BY <1>1, <1>2, <1>3, Known DEF ShownOK, OnlyThisDictation
  <2>2. StageOK(d)'
    BY <1>1 DEF StageOK
  <2>3. ASSUME NEW e \in Dictations \ {d} PROVE StageOK(e)'
    <3>1. StageOK(e) /\ dictation'[e] = dictation[e]
      BY <1>1, <1>3, Known DEF OnlyThisDictation
    <3> QED
      BY <1>2, <3>1 DEF StageOK
  <2> QED
    BY <2>1, <2>2, <2>3
<1>4. recording' \in Dictations \cup {NoDictation}
  BY <1>2 DEF DictationInv, DictationTypeOK
<1> QED
  BY <1>1, <1>3, <1>4, OneDictationStep DEF DictationInv, DictationTypeOK

\* Nothing is the current dictation after a cancellation.
LEMMA CancelDictationStep ==
  ASSUME DictationInv, CancelDictation, blocked' \in BOOLEAN, UNCHANGED <<plan, mounted, inserted, crossed>>
  PROVE  DictationInv'
<1> USE DEF DictationInv
<1>1. DictationTypeOK
  OBVIOUS
<1>2. recording' = NoDictation
  BY DEF CancelDictation
<1>3. CASE dictation' = dictation
  <2>1. DictationTypeOK'
    BY <1>1, <1>2, <1>3 DEF DictationTypeOK, CancelDictation, FinishIdle
  <2>2. recording = NoDictation \/ recording \in Dictations
    BY <1>1 DEF DictationTypeOK
  <2>3. CASE recording = NoDictation
    <3>1. ASSUME ~crossed, NEW e \in Dictations PROVE StageOK(e)'
      BY <1>2, <1>3, <2>3, <3>1 DEF StageOK
    <3> QED
      BY <1>2, <2>1, <3>1 DEF ShownOK
  <2>4. CASE recording \in Dictations
    <3>1. recording # NoDictation
      BY <2>4 DEF Dictations, NoDictation
    <3>2. dictation' = [dictation EXCEPT ![recording] = Dropped(@)]
      BY <3>1 DEF CancelDictation, DropCurrent
    <3>3. dictation[recording] \in DictationStates
      BY <2>4, Known
    <3>4. dictation'[recording] = Dropped(dictation[recording])
      BY <1>1, <2>4, <3>2 DEF DictationTypeOK
    <3>5. /\ dictation[recording].cancelled /\ dictation[recording].stage # "on"
      BY <1>3, <3>3, <3>4, DroppedIs
    <3>6. ASSUME ~crossed, NEW e \in Dictations PROVE StageOK(e)'
      BY <1>2, <1>3, <3>5, <3>6 DEF StageOK
    <3> QED
      BY <1>2, <2>1, <3>6 DEF ShownOK
  <2> QED
    BY <2>2, <2>3, <2>4
<1>4. CASE dictation' # dictation
  <2>1. PICK c \in Dictations : c = recording
    BY <1>1, <1>4 DEF CancelDictation, DropCurrent, DictationTypeOK
  <2>2. FinishIdle /\ dictation' = [dictation EXCEPT ![c] = Dropped(dictation[c])]
    BY <1>4, <2>1, Known DEF CancelDictation, DropCurrent
  <2>3. dictation[c] \in DictationStates
    BY Known
  <2>4. OnlyThisDictation(c) /\ dictation'[c] = Dropped(dictation[c])
    BY <2>2, <2>3, DroppedIs, WrittenIs
  <2>5. /\ dictation'[c].cancelled /\ (dictation'[c].live => dictation'[c].stage = "ending")
        /\ dictation'[c].stage = IF dictation[c].stage = "on" THEN "ending" ELSE dictation[c].stage
    BY <2>3, <2>4, DroppedIs
  <2>6. ASSUME ~crossed
        PROVE  ShownOK' /\ StageOK(c)' /\ \A e \in Dictations \ {c} : StageOK(e)'
    <3>1. dictation[c].stage \in {"on", "ending"}
      BY <2>1, <2>6, Known DEF ShownOK
    <3>2. ASSUME NEW e \in Dictations \ {c} PROVE StageOK(e)'
      <4>1. StageOK(e) /\ dictation'[e] = dictation[e]
        BY <2>4, <2>6, Known DEF OnlyThisDictation
      <4> QED
        BY <1>2, <2>1, <4>1 DEF StageOK
    <3> QED
      BY <1>2, <2>5, <3>1, <3>2 DEF ShownOK, StageOK
  <2> QED
    BY <1>1, <1>2, <2>2, <2>4, <2>6, OneDictationStep DEF DictationTypeOK, FinishIdle
<1> QED
  BY <1>3, <1>4

-----------------------------------------------------------------------------
\* The steps, one by one.  The button is pressed while it records.
LEMMA ToggleOffStep == ASSUME DictationInv, ToggleOff PROVE DictationInv'
BY StopRecordingStep DEF ToggleOff, DictationInv, DictationTypeOK

\* Either begins at once, or asks for the microphone.
LEMMA ToggleOnStep == ASSUME DictationInv, ToggleOn PROVE DictationInv'
<1> DEFINE d == NewDictation
<1>1. d \in Dictations /\ dictation[d].stage = "out"
  BY DEF ToggleOn, CanBegin, NewDictation
<1>2. mounted /\ phase = "idle" /\ UNCHANGED <<plan, mounted, blocked, inserted, crossed>>
  BY DEF ToggleOn, MayToggleOn
<1>3. CASE Begin(d)
  <2> HIDE DEF d
  <2>1. PICK c \in Dictations : c = d
    BY <1>1
  <2> QED
    BY <1>1, <1>2, <1>3, <2>1, BeginStep
<1>4. CASE arming' = TRUE /\ dictation' = [dictation EXCEPT ![d].stage = "asking"]
           /\ UNCHANGED <<phase, recording>>
  <2> HIDE DEF d
  <2>1. PICK c \in Dictations : c = d
    BY <1>1
  <2> DEFINE r == [dictation[c] EXCEPT !.stage = "asking"]
  <2>2. dictation[c] \in DictationStates
    BY Known
  <2>3. /\ r \in DictationStates /\ r.stage = "asking" /\ r.live = dictation[c].live
        /\ r.stopping = dictation[c].stopping
    BY <2>2 DEF DictationStates
  <2>4. dictation' = [dictation EXCEPT ![c] = r]
    BY <1>4, <2>1
  <2> HIDE DEF r
  <2>5. OnlyThisDictation(c) /\ dictation'[c] = r
    BY <2>3, <2>4, WrittenIs
  <2>6. ASSUME ~crossed
        PROVE  ShownOK' /\ StageOK(c)' /\ \A e \in Dictations \ {c} : StageOK(e)'
    <3>1. recording = NoDictation /\ recording' = NoDictation
      BY <1>2, <1>4, <2>6, Known DEF ShownOK
    <3>2. StageOK(c) /\ dictation[c].stage = "out"
      BY <1>1, <2>1, <2>6, Known
    <3>3. ASSUME NEW e \in Dictations \ {c} PROVE StageOK(e)'
      <4>1. StageOK(e) /\ dictation'[e] = dictation[e]
        BY <2>5, <2>6, Known DEF OnlyThisDictation
      <4> QED
        BY <1>2, <1>4, <4>1 DEF StageOK
    <3> QED
      BY <2>3, <2>5, <3>1, <3>2, <3>3 DEF ShownOK, StageOK
  <2> QED
    BY <1>2, <1>4, <2>5, <2>6, OneDictationStep DEF DictationInv, DictationTypeOK
<1> QED
  BY <1>3, <1>4 DEF ToggleOn

\* The microphone is granted to an idle button only.
LEMMA GrantedStep == ASSUME DictationInv, NEW d \in Dictations, Granted(d) PROVE DictationInv'
<1>1. dictation[d].stage = "asking" /\ UNCHANGED <<plan, mounted, blocked, inserted, crossed>>
  BY DEF Granted
<1>2. CASE Usable /\ Begin(d)
  BY <1>1, <1>2, BeginStep DEF Usable
<1>3. CASE /\ dictation' = [dictation EXCEPT ![d] = DictationOver(@)]
           /\ arming' = FALSE /\ UNCHANGED <<phase, recording>>
  <2>1. OnlyThisDictation(d) /\ dictation'[d].stage = "over" /\ ~dictation'[d].live
    BY <1>3, Known, RecordingOver, WrittenIs, ZenonT(30)
  <2>2. ASSUME ~crossed
        PROVE  ShownOK' /\ StageOK(d)' /\ \A e \in Dictations \ {d} : StageOK(e)'
    <3>1. recording # d
      BY <1>1, <2>2, Known DEF ShownOK
    <3>2. ASSUME NEW e \in Dictations \ {d} PROVE StageOK(e)'
      <4>1. StageOK(e) /\ dictation'[e] = dictation[e]
        BY <2>1, <2>2, Known DEF OnlyThisDictation
      <4> QED
        BY <1>1, <1>3, <4>1 DEF StageOK
    <3>3. ShownOK'
      BY <1>3, <2>1, <2>2, <3>1, Known DEF ShownOK, OnlyThisDictation
    <3> QED
      BY <2>1, <3>2, <3>3 DEF StageOK
  <2> QED
    BY <1>1, <1>3, <2>1, <2>2, OneDictationStep DEF DictationInv, DictationTypeOK
<1> QED
  BY <1>2, <1>3 DEF Granted

\* A recorder ends: its phase changes only if it is the current one.
LEMMA ServerStopStep == ASSUME DictationInv, NEW d \in Dictations, ServerStop(d) PROVE DictationInv'
<1> DEFINE over == DictationOver(dictation[d])
           up == Uploading(dictation[d])
<1>1. dictation[d].stage \in {"on", "ending"} /\ Forget(d)
      /\ UNCHANGED <<plan, mounted, blocked, inserted, crossed>>
  BY DEF ServerStop
<1>2. /\ over \in DictationStates /\ over.stage = "over" /\ ~over.live
      /\ up \in DictationStates /\ up.stage = "uploading" /\ ~up.live
  BY Known, RecordingOver, UploadingIs
<1>3. ~crossed /\ ~dictation[d].cancelled => d = recording
  BY <1>1, Known DEF StageOK
<1>4. phase \in {"idle", "recording", "transcribing"} /\ arming \in BOOLEAN /\ mounted \in BOOLEAN
  BY DEF DictationInv, DictationTypeOK
<1>5. \/ dictation' = [dictation EXCEPT ![d] = over] /\ UNCHANGED <<phase, arming>>
      \/ ~dictation[d].cancelled /\ dictation' = [dictation EXCEPT ![d] = over] /\ FinishIdle
      \/ /\ ~dictation[d].cancelled /\ dictation' = [dictation EXCEPT ![d] = up]
         /\ phase' = "transcribing" /\ UNCHANGED arming
  BY DEF ServerStop
<1>6. FinishIdle => phase' = "idle" /\ arming' \in BOOLEAN
  BY <1>4 DEF FinishIdle
<1> HIDE DEF over, up
<1> QED
  BY <1>1, <1>2, <1>3, <1>4, <1>5, <1>6, EndStep

\* An upload that ends while nothing records makes the button idle.
LEMMA UploadEndsStep == ASSUME DictationInv, NEW d \in Dictations, UploadEnds(d) PROVE DictationInv'
<1> DEFINE r == [dictation[d] EXCEPT !.stage = "over"]
<1>1. dictation[d] \in DictationStates
  BY Known
<1>2. r \in DictationStates /\ r.stage = "over" /\ r.live = dictation[d].live
  BY <1>1 DEF DictationStates
<1>3. dictation' = [dictation EXCEPT ![d] = r]
  BY DEF UploadEnds
<1> HIDE DEF r
<1>4. OnlyThisDictation(d) /\ dictation'[d] = r
  BY <1>2, <1>3, WrittenIs
<1>5. /\ dictation[d].stage = "uploading" /\ FinishIdle
      /\ crossed' = (crossed \/ recording # NoDictation)
      /\ UNCHANGED <<plan, mounted, blocked, recording>>
      /\ inserted' \subseteq Dictations
  BY DEF UploadEnds, DictationInv, DictationTypeOK
<1>6. DictationTypeOK'
  BY <1>4, <1>5 DEF OnlyThisDictation, FinishIdle, DictationInv, DictationTypeOK
<1>7. ASSUME ~crossed' PROVE ShownOK' /\ \A e \in Dictations : StageOK(e)'
  <2>1. ~crossed /\ recording = NoDictation
    BY <1>5, <1>7
  <2>2. ShownOK'
    BY <1>5, <2>1 DEF ShownOK
  <2>3. StageOK(d)'
    BY <1>2, <1>4, <1>5, <2>1, Known DEF StageOK
  <2>4. ASSUME NEW e \in Dictations \ {d} PROVE StageOK(e)'
    <3>1. StageOK(e) /\ dictation'[e] = dictation[e]
      BY <1>4, <2>1, Known DEF OnlyThisDictation
    <3> QED
      BY <1>5, <3>1 DEF StageOK
  <2> QED
    BY <2>2, <2>3, <2>4
<1> QED
  BY <1>6, <1>7 DEF DictationInv

\* A recorder that fails is the current one.
LEMMA RecorderFailsStep == ASSUME DictationInv, NEW d \in Dictations, RecorderFails(d) PROVE DictationInv'
<1> DEFINE c == [dictation[d] EXCEPT !.cancelled = TRUE]
           over == DictationOver(c)
<1>1. c \in DictationStates
  BY Known, CancelledIs
<1>2. over \in DictationStates /\ over.stage = "over" /\ ~over.live
  BY <1>1, RecordingOver
<1>3. dictation' = [dictation EXCEPT ![d] = over] /\ dictation[d].stage = "on" /\ Forget(d)
      /\ FinishIdle /\ UNCHANGED <<plan, mounted, blocked, inserted, crossed>>
  BY DEF RecorderFails
<1>4. ~crossed => d = recording
  BY <1>3, Known DEF StageOK
<1>5. phase' = "idle" /\ arming' \in BOOLEAN
  BY <1>3 DEF FinishIdle, DictationInv, DictationTypeOK
<1> HIDE DEF over
<1> QED
  BY <1>2, <1>3, <1>4, <1>5, EndStep

\* Recognition ends, like a recorder.
LEMMA RecognitionEndsStep ==
  ASSUME DictationInv, NEW d \in Dictations, RecognitionEnds(d) PROVE DictationInv'
<1> DEFINE over == DictationOver(dictation[d])
<1>1. over \in DictationStates /\ over.stage = "over" /\ ~over.live
  BY Known, RecordingOver
<1>2. dictation' = [dictation EXCEPT ![d] = over] /\ dictation[d].stage \in {"on", "ending"} /\ Forget(d)
      /\ UNCHANGED <<plan, mounted, blocked, inserted, crossed>>
  BY DEF RecognitionEnds
<1>3. ~crossed /\ ~dictation[d].cancelled => d = recording
  BY <1>2, Known DEF StageOK
<1>4. \/ UNCHANGED <<phase, arming>>
      \/ ~dictation[d].cancelled /\ phase' = "idle" /\ arming' \in BOOLEAN
  BY DEF RecognitionEnds, FinishIdle, DictationInv, DictationTypeOK
<1>5. phase \in {"idle", "recording", "transcribing"} /\ arming \in BOOLEAN
  BY DEF DictationInv, DictationTypeOK
<1> HIDE DEF over
<1> QED
  BY <1>1, <1>2, <1>3, <1>4, <1>5, EndStep

\* The composer goes away, and drops what it records.
LEMMA UnmountStep == ASSUME DictationInv, Unmount PROVE DictationInv'
<1> USE DEF DictationInv
<1>1. mounted' = FALSE /\ DropCurrent /\ UNCHANGED <<plan, phase, blocked, arming, recording, inserted, crossed>>
  BY DEF Unmount
<1>2. CASE recording = NoDictation
  <2>1. dictation' = dictation
    BY <1>1, <1>2 DEF DropCurrent
  <2>2. DictationTypeOK'
    BY <1>1, <2>1 DEF DictationTypeOK
  <2>3. ASSUME ~crossed, NEW e \in Dictations PROVE StageOK(e)'
    <3>1. StageOK(e) /\ e # NoDictation
      BY <2>3, Known
    <3> QED
      BY <1>1, <1>2, <2>1, <3>1 DEF StageOK
  <2> QED
    BY <1>1, <1>2, <2>2, <2>3 DEF ShownOK
<1>3. CASE recording # NoDictation
  <2>1. PICK c \in Dictations : c = recording
    BY <1>3, Known
  <2>2. dictation' = [dictation EXCEPT ![c] = Dropped(dictation[c])]
    BY <1>1, <1>3, <2>1 DEF DropCurrent
  <2>3. dictation[c] \in DictationStates
    BY Known
  <2>4. OnlyThisDictation(c) /\ dictation'[c] = Dropped(dictation[c])
    BY <2>2, <2>3, DroppedIs, WrittenIs
  <2>5. /\ dictation'[c].cancelled /\ (dictation'[c].live => dictation'[c].stage = "ending")
        /\ dictation'[c].stage = IF dictation[c].stage = "on" THEN "ending" ELSE dictation[c].stage
    BY <2>3, <2>4, DroppedIs
  <2>6. ASSUME ~crossed
        PROVE  ShownOK' /\ StageOK(c)' /\ \A e \in Dictations \ {c} : StageOK(e)'
    <3>1. ShownOK /\ dictation[c].stage \in {"on", "ending"} /\ phase = "recording"
      BY <1>3, <2>1, <2>6, Known DEF ShownOK
    <3>2. dictation'[c].stage = "ending"
      BY <2>5, <3>1
    <3>3. ShownOK'
      BY <1>1, <2>1, <3>1, <3>2 DEF ShownOK
    <3>4. StageOK(c)'
      BY <2>5, <3>2 DEF StageOK
    <3>5. ASSUME NEW e \in Dictations \ {c} PROVE StageOK(e)'
      <4>1. StageOK(e) /\ dictation'[e] = dictation[e]
        BY <2>4, <2>6, Known DEF OnlyThisDictation
      <4> QED
        BY <1>1, <2>1, <4>1 DEF StageOK
    <3> QED
      BY <3>3, <3>4, <3>5
  <2> QED
    BY <1>1, <2>4, <2>6, OneDictationStep DEF DictationTypeOK
<1> QED
  BY <1>2, <1>3

\* A timer that fires stops the current dictation, if one records.
LEMMA TimeLimitStep == ASSUME DictationInv, NEW d \in Dictations, TimeLimit(d) PROVE DictationInv'
<1> DEFINE r == [dictation[d] EXCEPT !.timer = "fired"]
           fired == [dictation EXCEPT ![d] = r]
<1>1. dictation \in [Dictations -> DictationStates] /\ dictation[d] \in DictationStates
  BY Known DEF DictationInv, DictationTypeOK
<1>2. /\ r \in DictationStates /\ r.stage = dictation[d].stage /\ r.live = dictation[d].live
      /\ r.stopping = dictation[d].stopping /\ r.cancelled = dictation[d].cancelled
  BY <1>1 DEF DictationStates
<1>3. /\ IF CanStop THEN StopRecording(fired)
         ELSE dictation' = fired /\ UNCHANGED <<phase, arming, recording>>
      /\ UNCHANGED <<plan, mounted, blocked, inserted, crossed>>
  BY DEF TimeLimit
<1> HIDE DEF r
<1>4. /\ fired \in [Dictations -> DictationStates]
      /\ \A e \in Dictations : fired[e] = IF e = d THEN r ELSE dictation[e]
  BY <1>1, <1>2
<1>5. CASE CanStop
  <2>1. \A e \in Dictations : /\ fired[e].stage = dictation[e].stage /\ fired[e].live = dictation[e].live
                              /\ fired[e].stopping = dictation[e].stopping
                              /\ fired[e].cancelled = dictation[e].cancelled
    BY <1>2, <1>4
  <2> HIDE DEF fired
  <2> QED
    BY <1>3, <1>4, <1>5, <2>1, StopRecordingStep
<1>6. CASE ~CanStop
  <2>1. dictation' = [dictation EXCEPT ![d] = r] /\ UNCHANGED <<phase, arming, recording>>
    BY <1>3, <1>6
  <2>2. OnlyThisDictation(d) /\ dictation'[d] = r
    BY <1>2, <2>1, WrittenIs
  <2>3. ASSUME ~crossed
        PROVE  ShownOK' /\ StageOK(d)' /\ \A e \in Dictations \ {d} : StageOK(e)'
    <3>1. ShownOK /\ \A e \in Dictations : StageOK(e) /\ e # NoDictation
      BY <2>3, Known
    <3>2. dictation[d].stage # "on"
      BY <1>6, <3>1 DEF CanStop, StageOK, ShownOK
    <3>3. StageOK(d)'
      BY <1>2, <1>3, <2>1, <2>2, <3>1, <3>2 DEF StageOK
    <3>4. ASSUME NEW e \in Dictations \ {d} PROVE StageOK(e)'
      BY <1>3, <2>1, <2>2, <3>1 DEF StageOK, OnlyThisDictation
    <3>5. ShownOK'
      BY <1>2, <2>1, <2>2, <3>1, Known DEF ShownOK, OnlyThisDictation
    <3> QED
      BY <3>3, <3>4, <3>5
  <2> QED
    BY <1>3, <2>1, <2>2, <2>3, OneDictationStep DEF DictationInv, DictationTypeOK
<1> QED
  BY <1>5, <1>6

\* Nothing records at first.
LEMMA DictationInvInit == DictationInit => DictationInv
<1> SUFFICES ASSUME DictationInit PROVE DictationInv
  OBVIOUS
<1>1. DictationTypeOK
  BY DEF DictationInit, DictationTypeOK, DictationStates
<1>2. \A d \in Dictations : StageOK(d)
  BY DEF DictationInit, StageOK
<1> QED
  BY <1>1, <1>2 DEF DictationInv, DictationInit, ShownOK

\* Every step keeps the invariant.
LEMMA DictationInvStep == DictationInv /\ [DictationNext]_dictationVars => DictationInv'
<1> SUFFICES ASSUME DictationInv, [DictationNext]_dictationVars PROVE DictationInv'
  OBVIOUS
<1>1. CASE ToggleOn \/ ToggleOff \/ Unmount
  BY <1>1, ToggleOnStep, ToggleOffStep, UnmountStep
<1>2. CASE CancelByUser
  BY <1>2, CancelDictationStep DEF CancelByUser, DictationInv, DictationTypeOK
<1>3. CASE Block
  <2>1. blocked' \in BOOLEAN /\ UNCHANGED <<plan, mounted, inserted, crossed>>
    BY <1>3 DEF Block
  <2>2. CASE CancelDictation
    BY <2>1, <2>2, CancelDictationStep
  <2>3. CASE UNCHANGED <<phase, arming, recording, dictation>>
    BY <2>1, <2>3 DEF DictationInv, DictationTypeOK, ShownOK, StageOK
  <2> QED
    BY <1>3, <2>2, <2>3 DEF Block
<1>4. ASSUME NEW d \in Dictations,
             Granted(d) \/ ServerStop(d) \/ UploadEnds(d) \/ RecorderFails(d) \/ RecognitionEnds(d) \/ TimeLimit(d)
      PROVE  DictationInv'
  BY <1>4, GrantedStep, ServerStopStep, UploadEndsStep, RecorderFailsStep, RecognitionEndsStep, TimeLimitStep
<1>5. ASSUME NEW d \in Dictations, Recognized(d) PROVE DictationInv'
  BY <1>5 DEF Recognized, DictationInv, DictationTypeOK, ShownOK, StageOK
<1>6. CASE UNCHANGED dictationVars
  BY <1>6 DEF dictationVars, DictationInv, DictationTypeOK, ShownOK, StageOK
<1> QED
  BY <1>1, <1>2, <1>3, <1>4, <1>5, <1>6 DEF DictationNext

\* The state of dictation is well typed.
THEOREM DictationTypesHold == DictationSpec => []DictationTypeOK
<1>1. DictationInv => DictationTypeOK
  BY DEF DictationInv
<1> QED
  BY <1>1, DictationInvInit, DictationInvStep, PTL DEF DictationSpec

\* Nobody listens behind an idle button, unless an older upload ended while the
\* dictation recorded.
THEOREM MicrophoneIsShown == DictationSpec => []LiveMicrophoneIsShown
<1>1. DictationInv => LiveMicrophoneIsShown
  BY Known DEF DictationInv, StageOK, ShownOK, LiveMicrophoneIsShown
<1> QED
  BY <1>1, DictationInvInit, DictationInvStep, PTL DEF DictationSpec

\* Whoever listens, and was not told to end, has a time limit that is heard, unless
\* an older upload ended while it recorded: then RecordingsStopAtTheLimit fails.
THEOREM LimitsAreHeard == DictationSpec => []RecordingsAreLimited
<1>1. DictationInv => RecordingsAreLimited
  BY Known DEF DictationInv, StageOK, ShownOK, RecordingsAreLimited, CanStop
<1> QED
  BY <1>1, DictationInvInit, DictationInvStep, PTL DEF DictationSpec

\* Nobody is overheard (useDictation, all its callbacks), unless an older upload
\* ended while another dictation recorded.
THEOREM NobodyIsOverheardEver == DictationSpec => []NobodyIsOverheard
BY MicrophoneIsShown, LimitsAreHeard, PTL DEF NobodyIsOverheard

-----------------------------------------------------------------------------
\* Some are taken out.
LEMMA WithoutIs ==
  ASSUME NEW S, NEW seq \in Seq(S), NEW ids
  PROVE  /\ Without(seq, ids) \in Seq(S)
         /\ Range(Without(seq, ids)) = {r \in Range(seq) : r.id \notin ids}
         /\ Ids(Without(seq, ids)) = Ids(seq) \ ids
         /\ Sorted(seq) => Sorted(Without(seq, ids))
         /\ ListedOnce(seq) => ListedOnce(Without(seq, ids))
<1> DEFINE places == {i \in DOMAIN seq : seq[i].id \notin ids}
<1>1. places \in SUBSET (DOMAIN seq) /\ Without(seq, ids) = FilterAt(seq, places)
  BY DEF Without
<1>2. Range(Without(seq, ids)) = {seq[i] : i \in places}
  BY <1>1, AtIs
<1>3. Range(Without(seq, ids)) = {r \in Range(seq) : r.id \notin ids}
  BY <1>2 DEF Range
<1>4. \A s : Ids(s) = {r.id : r \in Range(s)}
  BY DEF Ids, Range
<1>5. Ids(Without(seq, ids)) = Ids(seq) \ ids
  BY <1>3, <1>4
<1>6. QED
  BY <1>1, <1>3, <1>5, AtIs, AtKeeps

-----------------------------------------------------------------------------
(* The types of what the model's operators make of lists.                   *)

LEMMA MaxOfTwo ==
  ASSUME NEW a \in Nat, NEW b \in Nat
  PROVE  Max({a, b}) \in {a, b} /\ Max({a, b}) >= a /\ Max({a, b}) >= b
<1>1. \E x \in {a, b} : \A y \in {a, b} : x >= y
  <2>1. CASE a >= b
    BY <2>1
  <2>2. CASE b >= a
    BY <2>2
  <2>3. QED
    BY <2>1, <2>2
<1>2. QED
  BY <1>1 DEF Max

LEMMA MaxOfSome ==
  ASSUME NEW bound \in Nat, NEW S \in SUBSET (0 .. bound), S # {}
  PROVE  Max(S) \in S /\ \A y \in S : Max(S) >= y
<1> DEFINE R == OpToRel(<, Nat)
           above == {k \in Nat : \A y \in S : y <= k}
<1>1. above # {} /\ above \in SUBSET Nat /\ S \subseteq Nat
  <2>1. \A y \in S : y <= bound /\ y \in Nat
    OBVIOUS
  <2>2. bound \in above
    BY <2>1
  <2>3. QED
    BY <2>1, <2>2
<1>2. IsWellFoundedOn(R, Nat)
  BY NatLessThanWellFounded
<1>3. PICK k \in above : \A j \in above : <<j, k>> \notin R
  BY <1>1, <1>2, WFMin
<1>4. k \in Nat /\ (\A y \in S : y <= k) /\ \A j \in above : ~(j < k)
  BY <1>1, <1>3 DEF OpToRel
<1>5. k \in S
  <2>1. SUFFICES ASSUME k \notin S PROVE FALSE
    OBVIOUS
  <2>2. \A y \in S : y \in Nat /\ y < k
    BY <1>1, <1>4, <2>1
  <2>3. PICK y \in S : TRUE
    OBVIOUS
  <2>4. k - 1 \in Nat /\ \A z \in S : z <= k - 1
    BY <1>4, <2>2, <2>3
  <2>5. k - 1 \in above
    BY <2>4
  <2>6. QED
    BY <1>4, <2>5
<1>6. \E x \in S : \A y \in S : x >= y
  BY <1>1, <1>4, <1>5
<1>7. QED
  BY <1>6 DEF Max

LEMMA RemoveAtIs ==
  ASSUME NEW S, NEW seq \in Seq(S), NEW i \in DOMAIN seq
  PROVE  /\ RemoveAt(seq, i) \in Seq(S)
         /\ \A k \in DOMAIN RemoveAt(seq, i) :
              /\ k \in Nat
              /\ k < i => RemoveAt(seq, i)[k] = seq[k] /\ k \in DOMAIN seq
              /\ k >= i => RemoveAt(seq, i)[k] = seq[k + 1] /\ k + 1 \in DOMAIN seq
<1> DEFINE head == SubSeq(seq, 1, i - 1)
           tail == SubSeq(seq, i + 1, Len(seq))
<1>0. Len(seq) \in Nat /\ i \in 1 .. Len(seq)
  OBVIOUS
<1>1. /\ head \in Seq(S) /\ Len(head) = i - 1
      /\ \A k \in 1 .. i - 1 : head[k] = seq[k]
  OBVIOUS
<1>2. /\ tail \in Seq(S) /\ Len(tail) = Len(seq) - i
      /\ \A k \in 1 .. Len(seq) - i : tail[k] = seq[k + i]
  OBVIOUS
<1> HIDE DEF head, tail
<1>3. RemoveAt(seq, i) = head \o tail
  BY DEF RemoveAt, head, tail
<1>4. /\ head \o tail \in Seq(S) /\ DOMAIN (head \o tail) = 1 .. Len(seq) - 1
      /\ \A k \in 1 .. Len(seq) - 1 :
           (head \o tail)[k] = IF k <= i - 1 THEN head[k] ELSE tail[k - (i - 1)]
  BY <1>0, <1>1, <1>2
<1>5. ASSUME NEW k \in 1 .. Len(seq) - 1, k < i
      PROVE  (head \o tail)[k] = seq[k] /\ k \in DOMAIN seq
  <2>1. k \in 1 .. i - 1 /\ k <= i - 1 /\ k \in 1 .. Len(seq)
    BY <1>0, <1>5
  <2>2. QED
    BY <1>1, <1>4, <2>1
<1>6. ASSUME NEW k \in 1 .. Len(seq) - 1, k >= i
      PROVE  (head \o tail)[k] = seq[k + 1] /\ k + 1 \in DOMAIN seq
  <2>1. /\ ~(k <= i - 1) /\ k - (i - 1) \in 1 .. Len(seq) - i /\ (k - (i - 1)) + i = k + 1
        /\ k + 1 \in 1 .. Len(seq)
    BY <1>0, <1>6
  <2>2. QED
    BY <1>2, <1>4, <2>1
<1>7. \A k \in 1 .. Len(seq) - 1 : k \in Nat
  BY <1>0
<1>8. QED
  BY <1>3, <1>4, <1>5, <1>6, <1>7

LEMMA RemoveAtRange ==
  ASSUME NEW S, NEW seq \in Seq(S), NEW i \in DOMAIN seq
  PROVE  Range(RemoveAt(seq, i)) \subseteq Range(seq)
<1>1. \A k \in DOMAIN RemoveAt(seq, i) :
        \E j \in DOMAIN seq : RemoveAt(seq, i)[k] = seq[j]
  <2>1. ASSUME NEW k \in DOMAIN RemoveAt(seq, i)
        PROVE  \E j \in DOMAIN seq : RemoveAt(seq, i)[k] = seq[j]
    <3>1. i \in Nat /\ k \in Nat
      BY RemoveAtIs
    <3>2. CASE k < i
      BY <3>2, RemoveAtIs
    <3>3. CASE k >= i
      BY <3>3, RemoveAtIs
    <3>4. QED
      BY <3>1, <3>2, <3>3
  <2>2. QED
    BY <2>1
<1>2. QED
  BY <1>1 DEF Range

LEMMA UnseenIs ==
  ASSUME NEW pending \in Seq(Bubble), NEW queued \in Seq(Posts)
  PROVE  /\ Unseen(pending, queued) \in Seq(Posts)
         /\ Range(Unseen(pending, queued)) = Range(queued) \ Ids(pending)
         /\ (\A k, l \in DOMAIN queued : queued[k] = queued[l] => k = l) =>
              \A k, l \in DOMAIN Unseen(pending, queued) :
                 Unseen(pending, queued)[k] = Unseen(pending, queued)[l] => k = l
<1> DEFINE places == {i \in DOMAIN queued : queued[i] \notin Ids(pending)}
           new == FilterAt(queued, places)
           at(r) == PlaceOf(places, r)
<1>1. places \in SUBSET (DOMAIN queued) /\ Unseen(pending, queued) = new
  BY DEF Unseen
<1> HIDE DEF places
<1>2. /\ new \in Seq(Posts) /\ Range(new) = {queued[i] : i \in places}
      /\ \A r \in DOMAIN new : at(r) \in places /\ new[r] = queued[at(r)]
      /\ \A r, q \in DOMAIN new : r < q => at(r) < at(q)
  BY <1>1, AtIs
<1>3. Range(new) = Range(queued) \ Ids(pending)
  BY <1>2 DEF Range, places
<1>4. \A r \in DOMAIN new : at(r) \in DOMAIN queued /\ at(r) \in Nat /\ r \in Nat
  BY <1>1, <1>2
<1>5. ASSUME \A k, l \in DOMAIN queued : queued[k] = queued[l] => k = l,
             NEW k \in DOMAIN new, NEW l \in DOMAIN new, new[k] = new[l]
      PROVE  k = l
  <2>1. at(k) = at(l)
    BY <1>2, <1>4, <1>5
  <2>2. ~(k < l) /\ ~(l < k)
    BY <1>2, <1>4, <2>1
  <2>3. QED
    BY <1>4, <2>2
<1>6. QED
  BY <1>1, <1>2, <1>3, <1>5

\* What the lists of the tab are after each of its handlers.
LEMMA RowTypes ==
  ASSUME NEW list \in Seq(Row), NEW c \in Changes
  PROVE  /\ MergeMessage(list, c.row) \in Seq(Row)
         /\ ReplaceMessage(list, c.row) \in Seq(Row)
         /\ RemoveMessages(list, c.ids) \in Seq(Row)
         /\ c.type \in {"message", "updated", "deleted"}
<1>1. c.row \in Row
  BY DEF Changes
<1>2. MergeMessage(list, c.row) \in Seq(Row)
  BY <1>1 DEF MergeMessage
<1>3. ReplaceMessage(list, c.row) \in Seq(Row)
  <2>1. \A i \in DOMAIN list : list[i] \in Row
    OBVIOUS
  <2>2. \A i \in DOMAIN list : (IF list[i].id = c.row.id THEN c.row ELSE list[i]) \in Row
    BY <1>1, <2>1
  <2>3. DOMAIN list = 1 .. Len(list) /\ Len(list) \in Nat
    OBVIOUS
  <2>4. QED
    BY <2>2, <2>3 DEF ReplaceMessage
<1>4. QED
  BY <1>2, <1>3, WithoutIs DEF RemoveMessages, Changes

LEMMA BubbleTypes ==
  ASSUME NEW pending \in Seq(Bubble)
  PROVE  /\ \A of : SettlePending(pending, of) \in Seq(Bubble)
         /\ \A p : MarkAccepted(pending, p) \in Seq(Bubble)
         /\ \A running, queued : queued \in Seq(Posts) =>
              ApplyQueueStatus(pending, running, queued) \in Seq(Bubble)
<1>1. \A of : SettlePending(pending, of) \in Seq(Bubble)
  BY WithoutIs DEF SettlePending
<1>2. ASSUME NEW p PROVE MarkAccepted(pending, p) \in Seq(Bubble)
  <2>0. ASSUME NEW b \in Bubble PROVE [b EXCEPT !.posting = FALSE] \in Bubble
    BY <2>0 DEF Bubble
  <2>1. \A i \in DOMAIN pending :
          pending[i] \in Bubble /\ [pending[i] EXCEPT !.posting = FALSE] \in Bubble
    BY <2>0
  <2>3. DOMAIN pending = 1 .. Len(pending) /\ Len(pending) \in Nat
    OBVIOUS
  <2>4. \A i \in DOMAIN pending :
          (IF pending[i].id = p THEN [pending[i] EXCEPT !.posting = FALSE] ELSE pending[i]) \in Bubble
    BY <2>1
  <2>5. QED
    BY <2>3, <2>4 DEF MarkAccepted
<1>3. ASSUME NEW running, NEW queued \in Seq(Posts)
      PROVE  ApplyQueueStatus(pending, running, queued) \in Seq(Bubble)
  <2> DEFINE new == Unseen(pending, queued)
             added == [i \in DOMAIN new |-> [id |-> new[i], posting |-> FALSE]]
             all == pending \o added
  <2>1. new \in Seq(Posts)
    BY UnseenIs
  <2>2. added \in Seq(Bubble)
    <3>1. \A i \in DOMAIN new : [id |-> new[i], posting |-> FALSE] \in Bubble
      BY <2>1 DEF Bubble
    <3>2. DOMAIN new = 1 .. Len(new) /\ Len(new) \in Nat
      BY <2>1
    <3>3. QED
      BY <3>1, <3>2
  <2>3. all \in Seq(Bubble)
    BY <2>2
  <2>4. {i \in DOMAIN all : all[i].posting} \in SUBSET (DOMAIN all)
    OBVIOUS
  <2>5. FilterAt(all, {i \in DOMAIN all : all[i].posting}) \in Seq(Bubble)
    BY <2>3, <2>4, AtIs
  <2>6. QED
    BY <2>3, <2>5 DEF ApplyQueueStatus
<1>4. QED
  BY <1>1, <1>2, <1>3

-----------------------------------------------------------------------------
(* The types hold: the server, ...                                          *)

\* The parts of the state, by who keeps them.
ServerTypes ==
  /\ rows \in Seq(Row) /\ stored \in 0 .. MaxChanges
  /\ waiting \in Seq(Posts) /\ batch \in Seq(Posts)
  /\ turn \in {"idle", "between", "turn"}
  /\ Len(untold) <= 1 /\ untold \in Seq([change : Changes, own : BOOLEAN])
  /\ asked \in 0 .. MaxEdits
  /\ asks \subseteq [kind : EditKinds, own : BOOLEAN, at : RowIds]
TabTypes ==
  /\ view \in Seq(Row) /\ bubbles \in Seq(Bubble) /\ working \in BOOLEAN
  /\ current \in 0 .. MaxChanges /\ loaded \in BOOLEAN /\ outOfTurn \in BOOLEAN
Read == [kind : {"load", "resync", "gap"}, done : BOOLEAN, rows : Seq(Row), n : 0 .. MaxChanges]
PostStates == {"out", "sent", "accepted", "answered"}
NetTypes ==
  /\ link \in {"connecting", "open", "backoff", "refetching"}
  /\ wire \in Seq(Changes \cup Statuses)
  /\ reads \in Seq(Read) /\ replies \in Seq(Changes)
  /\ post \in [Posts -> PostStates]
  /\ lost \in 0 .. MaxChanges /\ missed \in BOOLEAN /\ faults \in 0 .. MaxFaults

LEMMA TypeParts == ThreadTypeOK <=> ServerTypes /\ TabTypes /\ NetTypes
BY DEF ThreadTypeOK, ServerTypes, TabTypes, NetTypes, Read, PostStates

LEMMA TypePartsNext ==
  ASSUME ServerTypes', TabTypes', NetTypes' PROVE ThreadTypeOK'
BY DEF ThreadTypeOK, ServerTypes, TabTypes, NetTypes, Read, PostStates

\* A status is published to whom listens.
LEMMA StatusTypes ==
  ASSUME wire \in Seq(Changes \cup Statuses), NEW running \in BOOLEAN, NEW queued \in Seq(Posts),
         PublishStatus(running, queued)
  PROVE  wire' \in Seq(Changes \cup Statuses)
<1>1. [type |-> "status", running |-> running, queued |-> queued] \in Statuses
  BY DEF Statuses
<1>2. QED
  BY <1>1 DEF PublishStatus

LEMMA ServerTypesStay ==
  ASSUME ServerTypes, UNCHANGED serverVars PROVE ServerTypes'
BY DEF ServerTypes, serverVars
LEMMA TabTypesStay ==
  ASSUME TabTypes, UNCHANGED tabVars PROVE TabTypes'
BY DEF TabTypes, tabVars
LEMMA NetTypesStay ==
  ASSUME NetTypes, UNCHANGED netVars PROVE NetTypes'
BY DEF NetTypes, netVars

LEMMA EnqueueTypes ==
  ASSUME ThreadTypeOK, NEW p \in Posts, Enqueue(p) PROVE ThreadTypeOK'
<1>1. ServerTypes /\ TabTypes /\ NetTypes
  BY TypeParts
<1>2. ServerTypes'
  BY <1>1 DEF ServerTypes, Enqueue
<1>3. TabTypes'
  BY <1>1, TabTypesStay DEF Enqueue
<1>4. wire' \in Seq(Changes \cup Statuses)
  BY <1>1, <1>2, StatusTypes DEF NetTypes, ServerTypes, Enqueue
<1>5. NetTypes'
  BY <1>1, <1>4 DEF NetTypes, Enqueue, PostStates
<1>6. QED
  BY <1>2, <1>3, <1>5, TypePartsNext

LEMMA TakePostsTypes ==
  ASSUME ThreadTypeOK, NEW k \in 1 .. Len(waiting), TakePosts(k) PROVE ThreadTypeOK'
<1>1. ServerTypes /\ TabTypes /\ NetTypes
  BY TypeParts
<1>2. waiting' \in Seq(Posts) /\ batch' \in Seq(Posts)
  BY <1>1 DEF ServerTypes, TakePosts
<1>3. ServerTypes'
  BY <1>1, <1>2 DEF ServerTypes, TakePosts
<1>4. TabTypes'
  BY <1>1, TabTypesStay DEF TakePosts
<1>5. wire' \in Seq(Changes \cup Statuses)
  BY <1>1, <1>2, StatusTypes DEF NetTypes, TakePosts
<1>6. NetTypes'
  BY <1>1, <1>5 DEF NetTypes, TakePosts
<1>7. QED
  BY <1>3, <1>4, <1>6, TypePartsNext

LEMMA EndOfTurnTypes ==
  ASSUME ThreadTypeOK, EndOfTurn PROVE ThreadTypeOK'
<1>1. ServerTypes /\ TabTypes /\ NetTypes
  BY TypeParts
<1>2. ServerTypes'
  BY <1>1 DEF ServerTypes, EndOfTurn
<1>3. TabTypes'
  BY <1>1, TabTypesStay DEF EndOfTurn
<1>4. wire' \in Seq(Changes \cup Statuses)
  BY <1>1, StatusTypes DEF NetTypes, ServerTypes, EndOfTurn
<1>5. NetTypes'
  BY <1>1, <1>4 DEF NetTypes, EndOfTurn
<1>6. QED
  BY <1>2, <1>3, <1>5, TypePartsNext

\* What is stored and published is of the form of its event.
LEMMA ChangeTypes ==
  ASSUME ServerTypes, stored < MaxChanges
  PROVE  /\ NewRow \in Row /\ stored + 1 \in RowIds
         /\ \A of \in Posts \cup {NoPost} : Message(NewRow, of) \in Changes
         /\ \A row \in Row : Updated(row) \in Changes
         /\ \A ids \in SUBSET RowIds : Deleted(ids) \in Changes
<1>1. stored + 1 \in RowIds /\ 1 \in RowIds
  BY ThreadBoundsAssumption DEF ServerTypes, RowIds
<1>2. NewRow \in Row /\ NoRow \in Row
  BY <1>1 DEF NewRow, NoRow, Row
<1>3. ASSUME NEW of \in Posts \cup {NoPost} PROVE Message(NewRow, of) \in Changes
  BY <1>1, <1>2, <1>3 DEF Message, Changes, RowIds
<1>4. ASSUME NEW row \in Row PROVE Updated(row) \in Changes
  BY <1>1, <1>4 DEF Updated, Changes, RowIds
<1>5. ASSUME NEW ids \in SUBSET RowIds PROVE Deleted(ids) \in Changes
  BY <1>1, <1>2, <1>5 DEF Deleted, Changes, RowIds
<1>6. QED
  BY <1>1, <1>2, <1>3, <1>4, <1>5

LEMMA StoreTypes ==
  ASSUME ServerTypes, NEW newRows \in Seq(Row), NEW change \in Changes, NEW own \in BOOLEAN,
         Store(newRows, change, own)
  PROVE  /\ rows' \in Seq(Row) /\ stored' \in 0 .. MaxChanges
         /\ Len(untold') <= 1 /\ untold' \in Seq([change : Changes, own : BOOLEAN])
<1>1. stored' \in 0 .. MaxChanges
  BY ThreadBoundsAssumption DEF ServerTypes, Store
<1>2. [change |-> change, own |-> own] \in [change : Changes, own : BOOLEAN]
  OBVIOUS
<1>3. QED
  BY <1>1, <1>2 DEF Store

LEMMA StorePostTypes ==
  ASSUME ThreadTypeOK, StorePost PROVE ThreadTypeOK'
<1>1. ServerTypes /\ TabTypes /\ NetTypes
  BY TypeParts
<1>2. Head(batch) \in Posts /\ batch' \in Seq(Posts)
  BY <1>1 DEF ServerTypes, StorePost
<1>3. stored < MaxChanges
  BY DEF StorePost, Store
<1>4. NewRow \in Row /\ Message(NewRow, Head(batch)) \in Changes
  BY <1>1, <1>2, <1>3, ChangeTypes
<1>5. Append(rows, NewRow) \in Seq(Row)
  BY <1>1, <1>4 DEF ServerTypes
<1>6. /\ rows' \in Seq(Row) /\ stored' \in 0 .. MaxChanges
      /\ Len(untold') <= 1 /\ untold' \in Seq([change : Changes, own : BOOLEAN])
  BY <1>1, <1>4, <1>5, StoreTypes DEF StorePost
<1>7. ServerTypes'
  BY <1>1, <1>2, <1>6 DEF ServerTypes, StorePost
<1>8. QED
  BY <1>1, <1>7, TypePartsNext, TabTypesStay, NetTypesStay DEF StorePost

LEMMA StoreReplyTypes ==
  ASSUME ThreadTypeOK, StoreReply PROVE ThreadTypeOK'
<1>1. ServerTypes /\ TabTypes /\ NetTypes
  BY TypeParts
<1>3. stored < MaxChanges
  BY DEF StoreReply, Store
<1>4. NewRow \in Row /\ Message(NewRow, NoPost) \in Changes
  BY <1>1, <1>3, ChangeTypes
<1>5. Append(rows, NewRow) \in Seq(Row)
  BY <1>1, <1>4 DEF ServerTypes
<1>6. /\ rows' \in Seq(Row) /\ stored' \in 0 .. MaxChanges
      /\ Len(untold') <= 1 /\ untold' \in Seq([change : Changes, own : BOOLEAN])
  BY <1>1, <1>4, <1>5, StoreTypes DEF StoreReply
<1>7. ServerTypes'
  BY <1>1, <1>6 DEF ServerTypes, StoreReply
<1>8. QED
  BY <1>1, <1>7, TypePartsNext, TabTypesStay, NetTypesStay DEF StoreReply

\* The row of an edit.
LEMMA IndexIs ==
  ASSUME NEW id \in Ids(rows)
  PROVE  IndexOf(id) \in DOMAIN rows /\ rows[IndexOf(id)].id = id
BY DEF Ids, IndexOf

LEMMA IdTypes ==
  ASSUME NEW list \in Seq(Row) PROVE Ids(list) \subseteq RowIds
<1>1. \A i \in DOMAIN list : list[i] \in Row
  OBVIOUS
<1>2. \A r \in Row : r.id \in RowIds
  BY DEF Row
<1>3. QED
  BY <1>1, <1>2 DEF Ids

LEMMA DoomedIs ==
  ASSUME ServerTypes, NEW ask \in asks, ask.kind \in {"delete", "rewind", "clear"},
         ask.kind # "clear" => ask.at \in Ids(rows)
  PROVE  Doomed(ask) \subseteq Ids(rows) /\ Doomed(ask) \in SUBSET RowIds
<1>1. Ids(rows) \subseteq RowIds
  BY IdTypes DEF ServerTypes
<1>2. CASE ask.kind = "delete"
  BY <1>1, <1>2 DEF Doomed
<1>3. CASE ask.kind = "rewind"
  <2>1. IndexOf(ask.at) \in 1 .. Len(rows)
    BY <1>3, IndexIs DEF ServerTypes
  <2>2. IndexOf(ask.at) .. Len(rows) \subseteq DOMAIN rows
    BY <2>1 DEF ServerTypes
  <2>3. Doomed(ask) = {rows[i].id : i \in IndexOf(ask.at) .. Len(rows)}
    BY <1>3 DEF Doomed
  <2>4. QED
    BY <1>1, <2>2, <2>3 DEF Ids
<1>4. CASE ask.kind = "clear"
  BY <1>1, <1>4 DEF Doomed
<1>5. QED
  BY <1>2, <1>3, <1>4

LEMMA PutTypes ==
  ASSUME NEW S, NEW seq \in Seq(S), NEW x \in S, NEW i \in DOMAIN seq
  PROVE  [seq EXCEPT ![i] = x] \in Seq(S)
OBVIOUS

\* What an edit does: it stores a summary, an edited row, or a list without some
\* of the rows; or it is refused.
EditStores(ask, newRows, change) ==
  \/ /\ ask.kind = "compact" /\ newRows = Append(rows, NewRow)
     /\ change = Message(NewRow, NoPost)
  \/ /\ ask.kind = "update" /\ ask.at \in Ids(rows)
     /\ newRows = [rows EXCEPT ![IndexOf(ask.at)] = [id |-> ask.at, text |-> "edited"]]
     /\ change = Updated([id |-> ask.at, text |-> "edited"])
  \/ /\ ask.kind \in {"delete", "rewind", "clear"}
     /\ ask.kind # "clear" => ask.at \in Ids(rows)
     /\ newRows = Without(rows, Doomed(ask)) /\ change = Deleted(Doomed(ask))

LEMMA EditIs ==
  ASSUME ServerTypes, NEW ask \in asks, RunEdit(ask)
  PROVE  \/ UNCHANGED <<rows, stored, untold>>
         \/ \E newRows, change : EditStores(ask, newRows, change) /\ Store(newRows, change, ask.own)
<1>1. ask.kind \in EditKinds
  BY DEF ServerTypes
<1>2. CASE ask.kind = "compact"
  <2>1. Store(Append(rows, NewRow), Message(NewRow, NoPost), ask.own)
    BY <1>2 DEF RunEdit
  <2>2. EditStores(ask, Append(rows, NewRow), Message(NewRow, NoPost))
    BY <1>2 DEF EditStores
  <2>3. QED
    BY <2>1, <2>2
<1>3. CASE ask.kind # "compact" /\ ask.kind # "clear" /\ ask.at \notin Ids(rows)
  BY <1>3 DEF RunEdit
<1>4. CASE ask.kind = "update" /\ ask.at \in Ids(rows)
  <2> DEFINE row == [id |-> ask.at, text |-> "edited"]
  <2>1. Store([rows EXCEPT ![IndexOf(ask.at)] = row], Updated(row), ask.own)
    BY <1>4 DEF RunEdit
  <2>2. EditStores(ask, [rows EXCEPT ![IndexOf(ask.at)] = row], Updated(row))
    BY <1>4 DEF EditStores
  <2>3. QED
    BY <2>1, <2>2
<1>5. CASE /\ ask.kind \in {"delete", "rewind", "clear"}
           /\ ask.kind # "clear" => ask.at \in Ids(rows)
  <2>1. Store(Without(rows, Doomed(ask)), Deleted(Doomed(ask)), ask.own)
    BY <1>5 DEF RunEdit
  <2>2. EditStores(ask, Without(rows, Doomed(ask)), Deleted(Doomed(ask)))
    BY <1>5 DEF EditStores
  <2>3. QED
    BY <2>1, <2>2
<1>6. QED
  BY <1>1, <1>2, <1>3, <1>4, <1>5 DEF EditKinds

LEMMA RunEditTypes ==
  ASSUME ThreadTypeOK, NEW ask \in asks, RunEdit(ask) PROVE ThreadTypeOK'
<1>1. ServerTypes /\ TabTypes /\ NetTypes
  BY TypeParts
<1>2. ask \in [kind : EditKinds, own : BOOLEAN, at : RowIds]
  BY <1>1 DEF ServerTypes
<1>3. ASSUME NEW newRows, NEW change, EditStores(ask, newRows, change),
             Store(newRows, change, ask.own)
      PROVE  newRows \in Seq(Row) /\ change \in Changes
  <2>0. stored < MaxChanges /\ rows \in Seq(Row)
    BY <1>1, <1>3 DEF Store, ServerTypes
  <2>1. CASE newRows = Append(rows, NewRow) /\ change = Message(NewRow, NoPost)
    BY <1>1, <2>0, <2>1, ChangeTypes
  <2>2. CASE /\ ask.at \in Ids(rows)
             /\ newRows = [rows EXCEPT ![IndexOf(ask.at)] = [id |-> ask.at, text |-> "edited"]]
             /\ change = Updated([id |-> ask.at, text |-> "edited"])
    <3>1. [id |-> ask.at, text |-> "edited"] \in Row
      BY <1>2 DEF Row
    <3>2. newRows \in Seq(Row)
      BY <2>0, <2>2, <3>1, IndexIs, PutTypes
    <3>3. QED
      BY <1>1, <2>0, <2>2, <3>1, <3>2, ChangeTypes
  <2>3. CASE /\ ask.kind \in {"delete", "rewind", "clear"}
             /\ ask.kind # "clear" => ask.at \in Ids(rows)
             /\ newRows = Without(rows, Doomed(ask)) /\ change = Deleted(Doomed(ask))
    <3>1. Doomed(ask) \in SUBSET RowIds
      BY <1>1, <2>3, DoomedIs
    <3>2. QED
      BY <1>1, <2>0, <2>3, <3>1, ChangeTypes, WithoutIs
  <2>4. QED
    BY <1>3, <2>1, <2>2, <2>3 DEF EditStores
<1>4. /\ rows' \in Seq(Row) /\ stored' \in 0 .. MaxChanges
      /\ Len(untold') <= 1 /\ untold' \in Seq([change : Changes, own : BOOLEAN])
  <2>1. CASE UNCHANGED <<rows, stored, untold>>
    BY <1>1, <2>1 DEF ServerTypes
  <2>2. CASE \E newRows, change : EditStores(ask, newRows, change)
                                  /\ Store(newRows, change, ask.own)
    <3>1. PICK newRows, change : EditStores(ask, newRows, change)
                                 /\ Store(newRows, change, ask.own)
      BY <2>2
    <3>2. newRows \in Seq(Row) /\ change \in Changes /\ ask.own \in BOOLEAN
      BY <1>2, <1>3, <3>1
    <3>3. QED
      BY <1>1, <3>1, <3>2, StoreTypes
  <2>3. QED
    BY <1>1, <2>1, <2>2, EditIs
<1>5. /\ asks' = asks \ {ask} /\ UNCHANGED <<waiting, batch, turn, asked>>
      /\ UNCHANGED <<tabVars, netVars>>
  BY DEF RunEdit
<1>6. ServerTypes'
  BY <1>1, <1>4, <1>5 DEF ServerTypes
<1>7. QED
  BY <1>1, <1>5, <1>6, TypePartsNext, TabTypesStay, NetTypesStay

-----------------------------------------------------------------------------
(* ... and the tab.                                                         *)

LEMMA FirstIs ==
  ASSUME NEW S, NEW seq \in Seq(S), seq # <<>>
  PROVE  1 \in DOMAIN seq /\ seq[1] \in S /\ Head(seq) = seq[1]
<1>1. Len(seq) \in Nat /\ Len(seq) # 0
  BY EmptySeq
<1>2. 1 \in DOMAIN seq
  BY <1>1
<1>3. QED
  BY <1>2

LEMMA PublishTypes ==
  ASSUME ThreadTypeOK, Publish PROVE ThreadTypeOK'
<1>1. ServerTypes /\ TabTypes /\ NetTypes
  BY TypeParts
<1>2. untold[1] \in [change : Changes, own : BOOLEAN]
  <2>1. untold # <<>> /\ untold \in Seq([change : Changes, own : BOOLEAN])
    BY <1>1 DEF ServerTypes, Publish
  <2>2. QED
    BY <2>1, FirstIs
<1>3. untold[1].change \in Changes /\ untold[1].change.n \in 1 .. MaxChanges
  BY <1>2 DEF Changes
<1>4. /\ wire' \in Seq(Changes \cup Statuses) /\ lost' \in 0 .. MaxChanges
      /\ missed' \in BOOLEAN /\ replies' \in Seq(Changes)
  BY <1>1, <1>3 DEF NetTypes, Publish
<1>5. NetTypes'
  BY <1>1, <1>4 DEF NetTypes, Publish
<1>6. untold' \in Seq([change : Changes, own : BOOLEAN]) /\ Len(untold') <= 1
  BY DEF Publish
<1>7. ServerTypes'
  BY <1>1, <1>6 DEF ServerTypes, Publish
<1>8. QED
  BY <1>1, <1>5, <1>7, TypePartsNext, TabTypesStay DEF Publish

LEMMA AnswerTypes ==
  ASSUME ThreadTypeOK, NEW i \in DOMAIN reads, Answer(i) PROVE ThreadTypeOK'
<1>1. ServerTypes /\ TabTypes /\ NetTypes
  BY TypeParts
<1>2. reads[i] \in Read /\ rows \in Seq(Row) /\ stored \in 0 .. MaxChanges
  BY <1>1 DEF NetTypes, ServerTypes
<1>3. [reads[i] EXCEPT !.done = TRUE, !.rows = rows, !.n = stored] \in Read
  BY <1>2 DEF Read
<1>4. reads' \in Seq(Read)
  BY <1>1, <1>3, PutTypes DEF NetTypes, Answer
<1>5. NetTypes'
  BY <1>1, <1>4 DEF NetTypes, Answer
<1>6. QED
  BY <1>1, <1>5, TypePartsNext, TabTypesStay, ServerTypesStay DEF Answer

LEMMA ApplyChangeTypes ==
  ASSUME TabTypes, NEW c \in Changes PROVE ApplyChange(c) \in Seq(Row)
BY RowTypes DEF TabTypes, ApplyChange

LEMMA HandleChangeTypes ==
  ASSUME ThreadTypeOK, HandleChange PROVE ThreadTypeOK'
<1>1. ServerTypes /\ TabTypes /\ NetTypes
  BY TypeParts
<1>2. Head(wire) \in Changes /\ wire' \in Seq(Changes \cup Statuses)
  BY <1>1 DEF NetTypes, HandleChange, Statuses
<1>3. Head(wire).n \in 0 .. MaxChanges /\ Head(wire).n \in Nat /\ current \in Nat
  BY <1>1, <1>2 DEF Changes, TabTypes
<1>4. current' \in 0 .. MaxChanges
  BY <1>1, <1>3, MaxOfTwo DEF HandleChange, TabTypes
<1>5. view' \in Seq(Row) /\ bubbles' \in Seq(Bubble)
  BY <1>1, <1>2, ApplyChangeTypes, BubbleTypes DEF HandleChange, TabTypes
<1>6. TabTypes'
  BY <1>1, <1>4, <1>5 DEF TabTypes, HandleChange
<1>7. NetTypes'
  BY <1>1, <1>2 DEF NetTypes, HandleChange
<1>8. QED
  BY <1>1, <1>6, <1>7, TypePartsNext, ServerTypesStay DEF HandleChange

LEMMA NewReadTypes ==
  ASSUME NEW kind \in {"load", "resync", "gap"} PROVE NewRead(kind) \in Read
<1>1. <<>> \in Seq(Row) /\ 0 \in 0 .. MaxChanges
  BY ThreadBoundsAssumption
<1>2. QED
  BY <1>1 DEF NewRead, Read

LEMMA HandleStatusTypes ==
  ASSUME ThreadTypeOK, HandleStatus PROVE ThreadTypeOK'
<1>1. ServerTypes /\ TabTypes /\ NetTypes
  BY TypeParts
<1>2. Head(wire) \in Statuses /\ wire' \in Seq(Changes \cup Statuses)
  <2>1. wire # <<>> /\ wire \in Seq(Changes \cup Statuses) /\ Head(wire).type = "status"
    BY <1>1 DEF NetTypes, HandleStatus
  <2>2. \A c \in Changes : c.type # "status"
    BY DEF Changes
  <2>3. Head(wire) \in Changes \cup Statuses
    BY <2>1
  <2>4. QED
    BY <2>1, <2>2, <2>3 DEF HandleStatus
<1>3. Head(wire).running \in BOOLEAN /\ Head(wire).queued \in Seq(Posts)
  BY <1>2 DEF Statuses
<1>4. bubbles' \in Seq(Bubble)
  BY <1>1, <1>3, BubbleTypes DEF HandleStatus, TabTypes
<1>5. reads' \in Seq(Read)
  BY <1>1, NewReadTypes DEF HandleStatus, NetTypes
<1>6. TabTypes'
  BY <1>1, <1>3, <1>4 DEF TabTypes, HandleStatus
<1>7. NetTypes'
  BY <1>1, <1>2, <1>5 DEF NetTypes, HandleStatus
<1>8. QED
  BY <1>1, <1>6, <1>7, TypePartsNext, ServerTypesStay DEF HandleStatus

LEMMA AfterReadTypes ==
  ASSUME NetTypes, NEW i \in DOMAIN reads
  PROVE  AfterRead(i) \in {"connecting", "open", "backoff", "refetching"}
BY DEF NetTypes, AfterRead

LEMMA ApplyReadTypes ==
  ASSUME ThreadTypeOK, NEW i \in DOMAIN reads, ApplyRead(i) PROVE ThreadTypeOK'
<1>1. ServerTypes /\ TabTypes /\ NetTypes
  BY TypeParts
<1>2. reads[i] \in Read
  BY <1>1 DEF NetTypes
<1>3. /\ reads[i].rows \in Seq(Row) /\ reads[i].n \in 0 .. MaxChanges
      /\ reads[i].n \in Nat /\ current \in Nat /\ lost \in Nat
  BY <1>1, <1>2 DEF Read, TabTypes, NetTypes
<1>4. current' \in 0 .. MaxChanges
  BY <1>1, <1>3, MaxOfTwo DEF ApplyRead, TabTypes
<1>5. TabTypes'
  BY <1>1, <1>3, <1>4 DEF TabTypes, ApplyRead
<1>6. reads' \in Seq(Read)
  BY <1>1, RemoveAtIs DEF NetTypes, ApplyRead
<1>7. missed' \in BOOLEAN
  BY <1>1 DEF NetTypes, ApplyRead
<1>8. NetTypes'
  BY <1>1, <1>6, <1>7, AfterReadTypes DEF NetTypes, ApplyRead
<1>9. QED
  BY <1>1, <1>5, <1>8, TypePartsNext, ServerTypesStay DEF ApplyRead

LEMMA ReadFailsTypes ==
  ASSUME ThreadTypeOK, NEW i \in DOMAIN reads, ReadFails(i) PROVE ThreadTypeOK'
<1>1. ServerTypes /\ TabTypes /\ NetTypes
  BY TypeParts
<1>2. reads' \in Seq(Read)
  BY <1>1, RemoveAtIs DEF NetTypes, ReadFails
<1>3. faults' \in 0 .. MaxFaults
  BY <1>1, ThreadBoundsAssumption DEF NetTypes, ReadFails
<1>4. NetTypes'
  BY <1>1, <1>2, <1>3, AfterReadTypes DEF NetTypes, ReadFails
<1>5. QED
  BY <1>1, <1>4, TypePartsNext, TabTypesStay, ServerTypesStay DEF ReadFails

LEMMA SubscribeTypes ==
  ASSUME ThreadTypeOK, Subscribe PROVE ThreadTypeOK'
<1>1. ServerTypes /\ TabTypes /\ NetTypes
  BY TypeParts
<1>2. [type |-> "status", running |-> turn # "idle", queued |-> waiting] \in Statuses
  BY <1>1 DEF Statuses, ServerTypes
<1>3. NetTypes'
  BY <1>1, <1>2 DEF NetTypes, Subscribe
<1>4. QED
  BY <1>1, <1>3, TypePartsNext, TabTypesStay, ServerTypesStay DEF Subscribe

\* What is on the wire and not a status is a change.
LEMMA OnTheWireIs ==
  ASSUME NetTypes
  PROVE  /\ OnTheWire \subseteq Changes
         /\ OnTheWire = {wire[i] : i \in {j \in DOMAIN wire : wire[j].type # "status"}}
<1>1. \A i \in DOMAIN wire : wire[i] \in Changes \cup Statuses
  BY DEF NetTypes
<1>2. \A c \in Statuses : c.type = "status"
  BY DEF Statuses
<1>3. QED
  BY <1>1, <1>2 DEF OnTheWire, Range

\* The last of what is lost.
LEMMA LostIs ==
  ASSUME NetTypes, NEW last, last = Max({lost} \cup {c.n : c \in OnTheWire})
  PROVE  /\ last \in {lost} \cup {c.n : c \in OnTheWire} /\ last \in 0 .. MaxChanges
         /\ last >= lost /\ \A c \in OnTheWire : last >= c.n
<1> DEFINE S == {lost} \cup {c.n : c \in OnTheWire}
<1>1. MaxChanges \in Nat
  BY ThreadBoundsAssumption
<1>2. \A c \in OnTheWire : c.n \in 0 .. MaxChanges
  BY OnTheWireIs DEF Changes
<1>3. S \in SUBSET (0 .. MaxChanges) /\ S # {}
  BY <1>2 DEF NetTypes
<1>4. Max(S) \in S /\ \A y \in S : Max(S) >= y
  BY <1>1, <1>3, MaxOfSome
<1>5. QED
  BY <1>3, <1>4

LEMMA BreakTypes ==
  ASSUME ThreadTypeOK, Break PROVE ThreadTypeOK'
<1>1. ServerTypes /\ TabTypes /\ NetTypes
  BY TypeParts
<1>2. lost' \in 0 .. MaxChanges
  BY <1>1, LostIs DEF Break
<1>3. faults' \in 0 .. MaxFaults
  BY <1>1, ThreadBoundsAssumption DEF NetTypes, Break
<1>4. missed' \in BOOLEAN /\ wire' \in Seq(Changes \cup Statuses)
  BY <1>1 DEF NetTypes, Break
<1>5. NetTypes'
  BY <1>1, <1>2, <1>3, <1>4 DEF NetTypes, Break
<1>6. QED
  BY <1>1, <1>5, TypePartsNext, TabTypesStay, ServerTypesStay DEF Break

LEMMA RefetchTypes ==
  ASSUME ThreadTypeOK, Refetch PROVE ThreadTypeOK'
<1>1. ServerTypes /\ TabTypes /\ NetTypes
  BY TypeParts
<1>2. reads' \in Seq(Read)
  BY <1>1, NewReadTypes DEF NetTypes, Refetch
<1>3. NetTypes'
  BY <1>1, <1>2 DEF NetTypes, Refetch
<1>4. QED
  BY <1>1, <1>3, TypePartsNext, TabTypesStay, ServerTypesStay DEF Refetch

LEMMA PostTypes ==
  ASSUME ThreadTypeOK, NEW p \in Posts, SendPost(p) \/ PostAnswered(p) \/ PostFails(p)
  PROVE  ThreadTypeOK'
<1>1. ServerTypes /\ TabTypes /\ NetTypes
  BY TypeParts
<1>2. ServerTypes'
  BY <1>1, ServerTypesStay DEF SendPost, PostAnswered, PostFails
<1>3. post' \in [Posts -> PostStates]
  BY <1>1 DEF NetTypes, PostStates, SendPost, PostAnswered, PostFails
<1>4. bubbles' \in Seq(Bubble)
  <2>1. [id |-> p, posting |-> TRUE] \in Bubble
    BY DEF Bubble
  <2>2. bubbles \in Seq(Bubble)
    BY <1>1 DEF TabTypes
  <2>3. \/ bubbles' = Append(bubbles, [id |-> p, posting |-> TRUE])
        \/ bubbles' = MarkAccepted(bubbles, p) \/ bubbles' = SettlePending(bubbles, p)
    BY DEF SendPost, PostAnswered, PostFails
  <2>4. MarkAccepted(bubbles, p) \in Seq(Bubble) /\ SettlePending(bubbles, p) \in Seq(Bubble)
    BY <2>2, BubbleTypes
  <2>5. \A b \in Bubble : Append(bubbles, b) \in Seq(Bubble)
    BY <2>2
  <2>6. QED
    BY <2>1, <2>3, <2>4, <2>5
<1>5. faults' \in 0 .. MaxFaults
  BY <1>1, ThreadBoundsAssumption DEF NetTypes, SendPost, PostAnswered, PostFails
<1>6. TabTypes'
  BY <1>1, <1>4 DEF TabTypes, SendPost, PostAnswered, PostFails
<1>7. NetTypes'
  BY <1>1, <1>3, <1>5 DEF NetTypes, SendPost, PostAnswered, PostFails
<1>8. QED
  BY <1>2, <1>6, <1>7, TypePartsNext

LEMMA AskEditTypes ==
  ASSUME ThreadTypeOK, NEW e \in Edits, AskEdit(e) PROVE ThreadTypeOK'
<1>1. ServerTypes /\ TabTypes /\ NetTypes
  BY TypeParts
<1>2. e[1] \in EditKinds /\ e[2] \in BOOLEAN
  BY ThreadEditsAssumption DEF Edits
<1>3. PICK at \in Ids(IF e[2] THEN view ELSE rows) :
        asks' = asks \cup {[kind |-> e[1], own |-> e[2], at |-> at]}
  BY DEF AskEdit
<1>4. at \in RowIds
  <2>1. CASE e[2]
    BY <1>1, <1>3, <2>1, IdTypes DEF TabTypes
  <2>2. CASE ~e[2]
    BY <1>1, <1>3, <2>2, IdTypes DEF ServerTypes
  <2>3. QED
    BY <2>1, <2>2
<1>5. asks' \subseteq [kind : EditKinds, own : BOOLEAN, at : RowIds]
  BY <1>1, <1>2, <1>3, <1>4 DEF ServerTypes
<1>6. asked' \in 0 .. MaxEdits
  BY <1>1, ThreadBoundsAssumption DEF ServerTypes, AskEdit
<1>7. ServerTypes'
  BY <1>1, <1>5, <1>6 DEF ServerTypes, AskEdit
<1>8. QED
  BY <1>1, <1>7, TypePartsNext, TabTypesStay, NetTypesStay DEF AskEdit

LEMMA ApplyReplyTypes ==
  ASSUME ThreadTypeOK, ApplyReply PROVE ThreadTypeOK'
<1>1. ServerTypes /\ TabTypes /\ NetTypes
  BY TypeParts
<1>2. Head(replies) \in Changes /\ replies' \in Seq(Changes)
  BY <1>1 DEF NetTypes, ApplyReply
<1>3. view' \in Seq(Row)
  BY <1>1, <1>2, ApplyChangeTypes DEF ApplyReply
<1>4. outOfTurn' \in BOOLEAN
  BY <1>1 DEF ApplyReply, ReplyIsOutOfTurn, TabTypes
<1>5. TabTypes'
  BY <1>1, <1>3, <1>4 DEF TabTypes, ApplyReply
<1>6. NetTypes'
  BY <1>1, <1>2 DEF NetTypes, ApplyReply
<1>7. QED
  BY <1>1, <1>5, <1>6, TypePartsNext, ServerTypesStay DEF ApplyReply

LEMMA InitTypes ==
  ASSUME ThreadInit PROVE ThreadTypeOK
<1>1. NewRead("load") \in Read
  BY NewReadTypes
<1>2. MaxChanges \in Nat /\ MaxChanges >= 1 /\ MaxEdits \in Nat /\ MaxFaults \in Nat
  BY ThreadBoundsAssumption
<1>3. NoRow \in Row
  BY <1>2 DEF NoRow, Row, RowIds
<1>4. ServerTypes
  BY <1>2, <1>3 DEF ThreadInit, ServerTypes
<1>5. TabTypes
  <2>1. view \in Seq(Row) /\ bubbles \in Seq(Bubble)
    BY DEF ThreadInit
  <2>2. current \in 0 .. MaxChanges
    BY <1>2 DEF ThreadInit
  <2>3. QED
    BY <2>1, <2>2 DEF ThreadInit, TabTypes
<1>6. NetTypes
  BY <1>1, <1>2 DEF ThreadInit, NetTypes, PostStates
<1>7. QED
  BY <1>4, <1>5, <1>6, TypeParts

LEMMA NextTypes ==
  ASSUME ThreadTypeOK, [ThreadNext]_threadVars PROVE ThreadTypeOK'
<1>1. CASE UNCHANGED threadVars
  BY <1>1 DEF threadVars, serverVars, tabVars, netVars, ThreadTypeOK
<1>2. CASE ThreadNext
  BY <1>2, EnqueueTypes, PostTypes, TakePostsTypes, StorePostTypes, StoreReplyTypes,
     EndOfTurnTypes, PublishTypes, RunEditTypes, AskEditTypes, AnswerTypes, ApplyReadTypes,
     ReadFailsTypes, HandleChangeTypes, HandleStatusTypes, ApplyReplyTypes, SubscribeTypes,
     BreakTypes, RefetchTypes
     DEF ThreadNext
<1>3. QED
  BY <1>1, <1>2

-----------------------------------------------------------------------------
(* The tab mirrors the transcript, but for the changes it will still hear of.*)

\* The changes that the tab will still hear of while its stream holds.
Pending == OnTheWire \cup {untold[i].change : i \in DOMAIN untold}

\* A change is one of the transcript as it was then; none of them is undone.
ChangeOK(c) ==
  /\ c.n \in 2 .. stored
  /\ c.type = "message" => c.row.id = c.n /\ c.row.text = "first"
  /\ c.type # "message" => c.of = NoPost /\ c.n \notin Ids(rows)
  /\ c.type = "updated" =>
       /\ c.row.text = "edited" /\ c.row.id <= stored
       /\ \A q \in Range(rows) : q.id = c.row.id => q = c.row
  /\ c.type = "deleted" =>
       /\ \A k \in c.ids : k <= stored
       /\ \A q \in Range(rows) : q.id \notin c.ids

Kills(c, k) == c.type = "deleted" /\ k \in c.ids
EditsRow(c, k) == c.type = "updated" /\ c.row.id = k
KilledAfter(n, k) == \E c \in Pending : c.n > n /\ Kills(c, k)
EditedAfter(n, k) == \E c \in Pending : c.n > n /\ EditsRow(c, k)

\* A row that was stored as of change n, or what became of it since is pending.
RowOK(r, n) ==
  /\ r.id <= stored
  /\ r.id \notin Ids(rows) => KilledAfter(n, r.id)
  /\ \A q \in Range(rows) : q.id = r.id /\ q # r =>
       r.text = "first" /\ q.text = "edited" /\ EditedAfter(n, r.id)

\* Changes that followed change n went past the tab, or it heard of one.
Passed(n) == lost > n \/ current > n

TranscriptOK ==
  /\ Sorted(rows) /\ \A q \in Range(rows) : q.id <= stored
  /\ stored >= 1 /\ current <= stored /\ lost <= stored

\* What is published arrives in its order, and what is not is newer.
WireInOrder ==
  \A i, j \in DOMAIN wire :
    i < j /\ wire[i].type # "status" /\ wire[j].type # "status" => wire[i].n < wire[j].n
LinesOK ==
  /\ link # "open" => wire = <<>>
  /\ Len(untold) <= 1
  /\ \A i \in DOMAIN untold : untold[i].change.n = stored
  /\ WireInOrder
  /\ untold # <<>> => \A c \in OnTheWire : c.n < stored

\* Every change is pending or went past the tab.
HearsOK ==
  /\ \A c \in Pending \cup Range(replies) : ChangeOK(c)
  /\ \A n \in 2 .. stored : Passed(n - 1) \/ \E c \in Pending : c.n = n
  /\ \A c \in Pending : c.type = "message" => RowOK(c.row, c.n)
  /\ \A c \in Range(replies) : c.type = "message" => Passed(c.n) \/ RowOK(c.row, c.n)

ReadOK(read) ==
  read.done =>
    /\ read.n \in 1 .. stored /\ Sorted(read.rows)
    /\ \A r \in Range(read.rows) : r.id <= read.n
    /\ \A q \in Range(rows) : q.id <= read.n => q.id \in Ids(read.rows)
    /\ Passed(read.n) \/ \A r \in Range(read.rows) : RowOK(r, read.n)
ReadsOK == \A read \in Range(reads) : ReadOK(read)

\* The rows of a list that are still stored stand in their order.
InOrder(list) ==
  \A i, j \in DOMAIN list :
    i < j /\ list[i].id \in Ids(rows) /\ list[j].id \in Ids(rows) => list[i].id < list[j].id
\* The tab shows the transcript as of the change it knows, but for what is pending.
Faithful(list) ==
  /\ \A r \in Range(list) : r.id <= current + 1 /\ RowOK(r, 0)
  /\ \A q \in Range(rows) : q.id <= current => q.id \in Ids(list)
  /\ InOrder(list)
ViewOK ==
  /\ ListedOnce(view)
  /\ ~missed => current >= 1 /\ lost <= current
  /\ ~outOfTurn /\ ~missed => Faithful(view)

\* The stream is opened again after the one read that it waits for.
GapsOK ==
  /\ \A i, j \in DOMAIN reads : reads[i].kind = "gap" /\ reads[j].kind = "gap" => i = j
  /\ \A i \in DOMAIN reads : reads[i].kind = "gap" => link = "refetching"

MirrorInv == TranscriptOK /\ LinesOK /\ HearsOK /\ ReadsOK /\ ViewOK /\ GapsOK

Arrived(p) == post[p] \in {"accepted", "answered"}
\* A row for the message is still to come.
Coming(p) == p \in Range(waiting) \cup Range(batch) \/ \E c \in Pending : c.of = p
ComingAfter(p, i) ==
  \/ p \in Range(waiting) \cup Range(batch)
  \/ \E j \in DOMAIN untold : untold[j].change.of = p
  \/ \E j \in DOMAIN wire : j > i /\ wire[j].type # "status" /\ wire[j].of = p

PostsOK ==
  /\ turn = "idle" => waiting = <<>>
  /\ turn # "turn" => batch = <<>>
  /\ \A i, j \in DOMAIN waiting : waiting[i] = waiting[j] => i = j
  /\ \A p \in Range(waiting) \cup Range(batch) : Arrived(p)

StatusesOK ==
  \A i \in DOMAIN wire : wire[i].type = "status" =>
    /\ \A k, l \in DOMAIN wire[i].queued : wire[i].queued[k] = wire[i].queued[l] => k = l
    /\ \A p \in Range(wire[i].queued) : Arrived(p) /\ (lost > 0 \/ ComingAfter(p, i))

BubblesOK ==
  /\ ListedOnce(bubbles)
  /\ \A b \in Range(bubbles) : \/ b.id \in PagePosts /\ post[b.id] = "sent"
                               \/ Arrived(b.id) /\ (lost > 0 \/ Coming(b.id))

PostsInv == PostsOK /\ StatusesOK /\ BubblesOK
ThreadInv == ThreadTypeOK /\ MirrorInv /\ PostsInv

-----------------------------------------------------------------------------
LEMMA ElementIs ==
  ASSUME NEW S, NEW seq \in Seq(S), NEW i \in DOMAIN seq PROVE seq[i] \in S
OBVIOUS

\* The numbers of the model.
LEMMA Numbers ==
  ASSUME ThreadTypeOK
  PROVE  /\ stored \in Nat /\ lost \in Nat /\ current \in Nat
         /\ \A q \in Range(rows) : q \in Row
         /\ \A q \in Range(view) : q \in Row
         /\ \A c \in Pending \cup Range(replies) : c \in Changes
         /\ \A read \in Range(reads) : read \in Read
         /\ \A r \in Row : r.id \in Nat /\ r.id >= 1 /\ r.text \in {"first", "edited"}
         /\ \A c \in Changes : c.n \in Nat /\ c.row \in Row /\ c.ids \subseteq Nat
<1>1. ServerTypes /\ TabTypes /\ NetTypes
  BY TypeParts
<1>2. MaxChanges \in Nat
  BY ThreadBoundsAssumption
<1>3. stored \in Nat /\ lost \in Nat /\ current \in Nat
  BY <1>1, <1>2 DEF ServerTypes, TabTypes, NetTypes
<1>4. (\A q \in Range(rows) : q \in Row) /\ \A q \in Range(view) : q \in Row
  BY <1>1 DEF ServerTypes, TabTypes, Range
<1>5. \A c \in Range(replies) : c \in Changes
  BY <1>1 DEF NetTypes, Range
<1>6. \A i \in DOMAIN untold : untold[i].change \in Changes
  <2>1. \A i \in DOMAIN untold : untold[i] \in [change : Changes, own : BOOLEAN]
    BY <1>1, ElementIs DEF ServerTypes
  <2>2. QED
    BY <2>1
<1>7. \A c \in Pending : c \in Changes
  BY <1>1, <1>6, OnTheWireIs DEF Pending
<1>8. \A read \in Range(reads) : read \in Read
  BY <1>1 DEF NetTypes, Range
<1>9. \A r \in Row : r.id \in Nat /\ r.id >= 1 /\ r.text \in {"first", "edited"}
  BY <1>2 DEF Row, RowIds
<1>10. \A c \in Changes : c.n \in Nat /\ c.row \in Row /\ c.ids \subseteq Nat
  BY <1>2 DEF Changes, RowIds
<1>11. QED
  BY <1>3, <1>4, <1>5, <1>7, <1>8, <1>9, <1>10

LEMMA IdsAre ==
  ASSUME NEW list PROVE Ids(list) = {r.id : r \in Range(list)}
BY DEF Ids, Range

\* What holds of a row as of a change holds as of an earlier one.
LEMMA RowEarlier ==
  ASSUME ThreadTypeOK, NEW r, NEW n \in Nat, NEW m \in Nat, m <= n, RowOK(r, n)
  PROVE  RowOK(r, m)
<1>1. \A c \in Pending : c.n \in Nat
  BY Numbers
<1>2. \A c \in Pending : c.n > n => c.n > m
  BY <1>1
<1>3. QED
  BY <1>2 DEF RowOK, KilledAfter, EditedAfter

\* It goes on while what became of the row is pending.
LEMMA RowStays ==
  ASSUME NEW r, NEW n, RowOK(r, n), UNCHANGED <<rows, stored>>,
         \A c \in Pending : c.n > n /\ (Kills(c, r.id) \/ EditsRow(c, r.id)) => c \in Pending'
  PROVE  RowOK(r, n)'
<1>1. KilledAfter(n, r.id) => KilledAfter(n, r.id)'
  BY DEF KilledAfter, Kills
<1>2. EditedAfter(n, r.id) => EditedAfter(n, r.id)'
  BY DEF EditedAfter, EditsRow
<1>3. QED
  BY <1>1, <1>2 DEF RowOK

\* Some of what is pending went past the tab, in its order.
Hearing ==
  /\ UNCHANGED <<rows, stored>>
  /\ \A c \in Pending' : c \in Pending
  /\ \A c \in Pending', d \in Pending : d.n > c.n => d \in Pending'
  /\ \A d \in Pending : d \in Pending' \/ d.n <= lost' \/ d.n <= current'
  /\ lost' \in Nat /\ lost' >= lost /\ current' \in Nat /\ current' >= current
  /\ \A c \in Range(replies)' : c \in Range(replies) \/ c \in Pending

LEMMA PassedStays ==
  ASSUME ThreadTypeOK, Hearing, NEW n \in Nat, Passed(n) PROVE Passed(n)'
<1>1. lost \in Nat /\ current \in Nat
  BY Numbers
<1>2. QED
  BY <1>1 DEF Passed, Hearing

LEMMA RowOrPassed ==
  ASSUME ThreadTypeOK, Hearing, NEW r, NEW n \in Nat, RowOK(r, n)
  PROVE  RowOK(r, n)' \/ Passed(n)'
<1>1. CASE \A c \in Pending : c.n > n => c \in Pending'
  BY <1>1, RowStays DEF Hearing
<1>2. CASE \E c \in Pending : c.n > n /\ c \notin Pending'
  <2>1. PICK c \in Pending : c.n > n /\ c \notin Pending'
    BY <1>2
  <2>2. c.n \in Nat
    BY Numbers
  <2>3. c.n <= lost' \/ c.n <= current'
    BY <2>1 DEF Hearing
  <2>4. lost' \in Nat /\ current' \in Nat
    BY DEF Hearing
  <2>5. QED
    BY <2>1, <2>2, <2>3, <2>4 DEF Passed
<1>3. QED
  BY <1>1, <1>2

LEMMA HearsStay ==
  ASSUME ThreadTypeOK, HearsOK, Hearing
  PROVE  HearsOK'
<1>0. /\ stored \in Nat /\ stored' = stored
      /\ \A c \in Pending \cup Range(replies) : c.n \in Nat
  BY Numbers DEF Hearing
<1>1. ASSUME NEW c \in Pending \cup Range(replies) PROVE ChangeOK(c)'
  <2>1. ChangeOK(c)
    BY DEF HearsOK
  <2>2. QED
    BY <2>1 DEF ChangeOK, Hearing
<1>2. ASSUME NEW n \in 2 .. stored PROVE Passed(n - 1)' \/ \E c \in Pending' : c.n = n
  <2>0. n \in Nat /\ n - 1 \in Nat
    BY <1>0
  <2>1. CASE Passed(n - 1)
    BY <2>0, <2>1, PassedStays
  <2>2. CASE \E c \in Pending : c.n = n
    <3>1. PICK c \in Pending : c.n = n
      BY <2>2
    <3>2. CASE c \in Pending'
      BY <3>1, <3>2
    <3>3. CASE n <= lost' \/ n <= current'
      <4>1. lost' \in Nat /\ current' \in Nat
        BY DEF Hearing
      <4>2. QED
        BY <2>0, <3>3, <4>1 DEF Passed
    <3>4. QED
      BY <3>1, <3>2, <3>3 DEF Hearing
  <2>3. QED
    BY <2>1, <2>2 DEF HearsOK
<1>3. ASSUME NEW c \in Pending', c.type = "message" PROVE RowOK(c.row, c.n)'
  <2>1. c \in Pending /\ RowOK(c.row, c.n)
    BY <1>3 DEF Hearing, HearsOK
  <2>2. \A d \in Pending : d.n > c.n => d \in Pending'
    BY <1>3 DEF Hearing
  <2>3. QED
    BY <2>1, <2>2, RowStays DEF Hearing
<1>4. ASSUME NEW c \in Range(replies)', c.type = "message" PROVE Passed(c.n)' \/ RowOK(c.row, c.n)'
  <2>1. c \in Pending \cup Range(replies)
    BY DEF Hearing
  <2>2. Passed(c.n) \/ RowOK(c.row, c.n)
    BY <1>4, <2>1 DEF HearsOK
  <2>3. c.n \in Nat
    BY <1>0, <2>1
  <2>4. QED
    BY <2>2, <2>3, PassedStays, RowOrPassed
<1>5. \A c \in Pending' \cup Range(replies)' : c \in Pending \cup Range(replies)
  BY DEF Hearing
<1>6. \A c \in Pending' \cup Range(replies)' : ChangeOK(c)'
  BY <1>1, <1>5
<1>7. \A n \in 2 .. stored' : Passed(n - 1)' \/ \E c \in Pending' : c.n = n
  BY <1>0, <1>2
<1>8. QED
  BY <1>3, <1>4, <1>6, <1>7 DEF HearsOK

LEMMA ReadStays ==
  ASSUME ThreadTypeOK, TranscriptOK, Hearing, NEW read \in Read, ReadOK(read)
  PROVE  ReadOK(read)'
<1>1. SUFFICES ASSUME read.done
               PROVE  ReadOK(read)'
  BY DEF ReadOK
<1>2. read.n \in Nat /\ UNCHANGED <<rows, stored>>
  BY ThreadBoundsAssumption DEF Read, Hearing
<1>3. Passed(read.n) => Passed(read.n)'
  BY <1>2, PassedStays
<1>4. \A r : RowOK(r, read.n) => RowOK(r, read.n)' \/ Passed(read.n)'
  BY <1>2, RowOrPassed
<1>5. Passed(read.n)' \/ \A r \in Range(read.rows) : RowOK(r, read.n)'
  BY <1>1, <1>3, <1>4 DEF ReadOK
<1>6. QED
  BY <1>1, <1>2, <1>5 DEF ReadOK

\* Nothing the tab shows or may hear changes.
LEMMA ViewStays ==
  ASSUME ViewOK, UNCHANGED <<rows, stored, view, current, outOfTurn>>,
         \A c : c \in Pending' <=> c \in Pending,
         missed' \/ (missed' = missed /\ lost' = lost)
  PROVE  ViewOK'
<1>1. \A r : RowOK(r, 0) => RowOK(r, 0)'
  BY RowStays
<1>2. Faithful(view) => Faithful(view)'
  BY <1>1 DEF Faithful, InOrder
<1>3. CASE missed'
  BY <1>3 DEF ViewOK
<1>4. CASE missed' = missed /\ lost' = lost
  BY <1>2, <1>4 DEF ViewOK
<1>5. QED
  BY <1>3, <1>4

-----------------------------------------------------------------------------
(* The steps that store nothing: turns and statuses, ...                    *)

LEMMA GapsStay ==
  ASSUME GapsOK, UNCHANGED <<link, reads>> PROVE GapsOK'
BY DEF GapsOK

\* A read that no stream waits for is begun.
LEMMA GapsAdd ==
  ASSUME GapsOK, reads \in Seq(Read), reads' = Append(reads, NewRead("resync")), link' = link
  PROVE  GapsOK'
<1>1. /\ DOMAIN reads' = 1 .. Len(reads) + 1 /\ DOMAIN reads = 1 .. Len(reads)
      /\ Len(reads) \in Nat /\ reads'[Len(reads) + 1] = NewRead("resync")
      /\ \A i \in DOMAIN reads : reads'[i] = reads[i]
  OBVIOUS
<1>2. NewRead("resync").kind # "gap"
  BY DEF NewRead
<1>3. \A i \in DOMAIN reads' : reads'[i].kind = "gap" => i \in DOMAIN reads
  BY <1>1, <1>2
<1>4. QED
  BY <1>1, <1>3 DEF GapsOK

\* A read is over.
LEMMA GapsRemoved ==
  ASSUME GapsOK, reads \in Seq(Read), NEW i \in DOMAIN reads, reads' = RemoveAt(reads, i),
         link' = AfterRead(i)
  PROVE  /\ GapsOK'
         /\ link' = link \/ (link = "refetching" /\ link' = "connecting")
<1>1. i \in Nat
  OBVIOUS
<1>2. link' = link \/ (link = "refetching" /\ link' = "connecting")
  BY DEF AfterRead, GapsOK
<1>3. \A k \in DOMAIN reads' :
        /\ k \in Nat
        /\ k < i => reads'[k] = reads[k] /\ k \in DOMAIN reads
        /\ k >= i => reads'[k] = reads[k + 1] /\ k + 1 \in DOMAIN reads
  BY RemoveAtIs
<1>4. ASSUME NEW k \in DOMAIN reads', reads'[k].kind = "gap"
      PROVE  reads[i].kind # "gap"
  <2>1. CASE k < i
    BY <1>1, <1>3, <1>4, <2>1 DEF GapsOK
  <2>2. CASE k >= i
    <3>1. k + 1 # i /\ k + 1 \in DOMAIN reads /\ reads[k + 1].kind = "gap"
      BY <1>1, <1>3, <1>4, <2>2
    <3>2. QED
      BY <3>1 DEF GapsOK
  <2>3. QED
    BY <1>1, <1>3, <2>1, <2>2
<1>5. ASSUME NEW k \in DOMAIN reads', reads'[k].kind = "gap" PROVE link' = "refetching"
  <2>1. link' = link
    BY <1>4, <1>5 DEF AfterRead
  <2>2. CASE k < i
    BY <1>3, <1>5, <2>1, <2>2 DEF GapsOK
  <2>3. CASE k >= i
    BY <1>3, <1>5, <2>1, <2>3 DEF GapsOK
  <2>4. QED
    BY <1>1, <1>3, <2>2, <2>3
<1>6. ASSUME NEW k \in DOMAIN reads', NEW l \in DOMAIN reads', k < l,
             reads'[k].kind = "gap", reads'[l].kind = "gap"
      PROVE  FALSE
  <2>0. k \in Nat /\ l \in Nat
    BY <1>3
  <2>1. CASE l < i
    BY <1>1, <1>3, <1>6, <2>0, <2>1 DEF GapsOK
  <2>2. CASE k < i /\ l >= i
    <3>1. k # l + 1 /\ k \in DOMAIN reads /\ l + 1 \in DOMAIN reads
      BY <1>1, <1>3, <2>0, <2>2
    <3>2. QED
      BY <1>3, <1>6, <2>2, <3>1 DEF GapsOK
  <2>3. CASE k >= i
    <3>1. k + 1 # l + 1 /\ l >= i /\ k + 1 \in DOMAIN reads /\ l + 1 \in DOMAIN reads
      BY <1>1, <1>3, <1>6, <2>0, <2>3
    <3>2. QED
      BY <1>3, <1>6, <2>3, <3>1 DEF GapsOK
  <2>4. QED
    BY <1>1, <1>6, <2>0, <2>1, <2>2, <2>3
<1>7. \A k, l \in DOMAIN reads' : reads'[k].kind = "gap" /\ reads'[l].kind = "gap" => k = l
  <2>1. \A k \in DOMAIN reads' : k \in Nat
    BY <1>3
  <2>2. ASSUME NEW k \in DOMAIN reads', NEW l \in DOMAIN reads',
               reads'[k].kind = "gap", reads'[l].kind = "gap"
        PROVE  k = l
    <3>1. ~(k < l) /\ ~(l < k)
      BY <1>6, <2>2
    <3>2. QED
      BY <2>1, <3>1
  <2>3. QED
    BY <2>2
<1>8. QED
  BY <1>2, <1>5, <1>7 DEF GapsOK

\* What is pending stays so, and nothing the tab shows changes.
Still ==
  /\ UNCHANGED <<rows, stored, view, current, outOfTurn, lost, missed, replies>>
  /\ \A c : c \in Pending' <=> c \in Pending
  /\ \A read \in Range(reads)' : read \in Range(reads) \/ ~read.done

LEMMA ReadsStay ==
  ASSUME ThreadTypeOK, TranscriptOK, ReadsOK, Hearing,
         \A read \in Range(reads)' : read \in Range(reads) \/ ~read.done
  PROVE  ReadsOK'
<1>1. ASSUME NEW read \in Range(reads)' PROVE ReadOK(read)'
  <2>1. CASE read \in Range(reads)
    <3>1. read \in Read /\ ReadOK(read)
      BY <2>1, Numbers DEF ReadsOK
    <3>2. QED
      BY <3>1, ReadStays
  <2>2. CASE ~read.done
    BY <2>2 DEF ReadOK
  <2>3. QED
    BY <1>1, <2>1, <2>2
<1>2. QED
  BY <1>1 DEF ReadsOK

LEMMA StillMirror ==
  ASSUME ThreadTypeOK, MirrorInv, Still, LinesOK', GapsOK'
  PROVE  MirrorInv'
<1>1. lost \in Nat /\ current \in Nat
  BY Numbers
<1>2. Hearing
  BY <1>1 DEF Still, Hearing
<1>3. HearsOK' /\ ReadsOK'
  BY <1>2, HearsStay, ReadsStay DEF MirrorInv, Still
<1>4. ViewOK'
  BY ViewStays DEF MirrorInv, Still
<1>5. TranscriptOK'
  BY DEF MirrorInv, Still, TranscriptOK
<1>6. QED
  BY <1>3, <1>4, <1>5 DEF MirrorInv

\* A status that is published is no change.
LEMMA StatusIsNoChange ==
  ASSUME ThreadTypeOK, LinesOK, NEW running, NEW queued, PublishStatus(running, queued) \/ wire' = wire,
         UNCHANGED <<link, stored, untold>>
  PROVE  LinesOK' /\ \A c : c \in Pending' <=> c \in Pending
<1>1. wire \in Seq(Changes \cup Statuses)
  BY DEF ThreadTypeOK
<1>2. CASE wire' = wire
  BY <1>2 DEF LinesOK, WireInOrder, Pending, OnTheWire
<1>3. CASE link = "open" /\ wire' = Append(wire, [type |-> "status", running |-> running, queued |-> queued])
  <2> DEFINE s == [type |-> "status", running |-> running, queued |-> queued]
  <2>1. /\ DOMAIN wire' = 1 .. Len(wire) + 1 /\ DOMAIN wire = 1 .. Len(wire) /\ Len(wire) \in Nat
        /\ \A i \in DOMAIN wire : wire'[i] = wire[i]
        /\ wire'[Len(wire) + 1] = s /\ s.type = "status"
    BY <1>1, <1>3
  <2> HIDE DEF s
  <2>2. \A i \in DOMAIN wire' : i \in DOMAIN wire \/ wire'[i].type = "status"
    BY <2>1
  <2>3. \A i \in DOMAIN wire : i \in DOMAIN wire'
    BY <2>1
  <2>4. WireInOrder'
    BY <2>1, <2>2 DEF LinesOK, WireInOrder
  <2>5. \A c : c \in OnTheWire' <=> c \in OnTheWire
    <3>1. ASSUME NEW c \in OnTheWire PROVE c \in OnTheWire'
      BY <2>1, <2>3 DEF OnTheWire, Range
    <3>2. ASSUME NEW c \in OnTheWire' PROVE c \in OnTheWire
      BY <2>1, <2>2 DEF OnTheWire, Range
    <3>3. QED
      BY <3>1, <3>2
  <2>6. \A c : c \in Pending' <=> c \in Pending
    BY <2>5 DEF Pending
  <2>7. LinesOK'
    BY <1>3, <2>4, <2>5 DEF LinesOK
  <2>8. QED
    BY <2>6, <2>7
<1>4. QED
  BY <1>2, <1>3 DEF PublishStatus

LEMMA ServerTurnsMirror ==
  ASSUME ThreadTypeOK, MirrorInv,
         \/ \E p \in Posts : Enqueue(p) \/ SendPost(p) \/ PostAnswered(p) \/ PostFails(p)
         \/ \E k \in 1 .. Len(waiting) : TakePosts(k)
         \/ EndOfTurn \/ \E e \in Edits : AskEdit(e)
  PROVE  MirrorInv'
<1>1. /\ UNCHANGED <<link, stored, untold, rows, view, current, outOfTurn, lost, missed, replies, reads>>
      /\ wire' = wire \/ \E running, queued : PublishStatus(running, queued)
  <2>1. CASE \E p \in Posts : Enqueue(p)
    BY <2>1 DEF Enqueue, tabVars
  <2>2. CASE \E p \in Posts : SendPost(p)
    BY <2>2 DEF SendPost, serverVars
  <2>3. CASE \E p \in Posts : PostAnswered(p)
    BY <2>3 DEF PostAnswered, serverVars
  <2>4. CASE \E p \in Posts : PostFails(p)
    BY <2>4 DEF PostFails, serverVars
  <2>5. CASE \E k \in 1 .. Len(waiting) : TakePosts(k)
    BY <2>5 DEF TakePosts, tabVars
  <2>6. CASE EndOfTurn
    BY <2>6 DEF EndOfTurn, tabVars
  <2>7. CASE \E e \in Edits : AskEdit(e)
    BY <2>7 DEF AskEdit, tabVars, netVars
  <2>8. QED
    BY <2>1, <2>2, <2>3, <2>4, <2>5, <2>6, <2>7
<1>2. LinesOK' /\ \A c : c \in Pending' <=> c \in Pending
  BY <1>1, StatusIsNoChange DEF MirrorInv
<1>3. Still
  BY <1>1, <1>2 DEF Still
<1>4. GapsOK'
  BY <1>1, GapsStay DEF MirrorInv
<1>5. QED
  BY <1>2, <1>3, <1>4, StillMirror

\* The first of what is on the wire.
LEMMA TailIs ==
  ASSUME NEW S, NEW seq \in Seq(S), seq # <<>>
  PROVE  /\ Tail(seq) \in Seq(S) /\ 1 \in DOMAIN seq /\ Head(seq) = seq[1]
         /\ \A i \in DOMAIN Tail(seq) : Tail(seq)[i] = seq[i + 1] /\ i + 1 \in DOMAIN seq /\ i \in Nat
         /\ \A i \in DOMAIN seq : i # 1 => i - 1 \in DOMAIN Tail(seq) /\ Tail(seq)[i - 1] = seq[i]
         /\ \A i \in DOMAIN seq : i \in Nat
         /\ Range(Tail(seq)) \subseteq Range(seq)
         /\ \A x \in Range(seq) : x = Head(seq) \/ x \in Range(Tail(seq))
<1>1. Len(seq) \in Nat /\ Len(seq) # 0
  BY EmptySeq
<1>2. /\ Tail(seq) \in Seq(S) /\ 1 \in DOMAIN seq /\ Head(seq) = seq[1]
      /\ DOMAIN Tail(seq) = 1 .. Len(seq) - 1 /\ DOMAIN seq = 1 .. Len(seq)
      /\ \A i \in 1 .. Len(seq) - 1 : Tail(seq)[i] = seq[i + 1]
  BY <1>1
<1>3. \A i \in DOMAIN Tail(seq) : Tail(seq)[i] = seq[i + 1] /\ i + 1 \in DOMAIN seq /\ i \in Nat
  BY <1>1, <1>2
<1>4. \A i \in DOMAIN seq : i # 1 => i - 1 \in DOMAIN Tail(seq) /\ Tail(seq)[i - 1] = seq[i]
  <2>1. ASSUME NEW i \in DOMAIN seq, i # 1
        PROVE  i - 1 \in DOMAIN Tail(seq) /\ Tail(seq)[i - 1] = seq[i]
    <3>1. i - 1 \in 1 .. Len(seq) - 1 /\ (i - 1) + 1 = i
      BY <1>1, <1>2, <2>1
    <3>2. Tail(seq)[i - 1] = seq[(i - 1) + 1]
      BY <1>2, <3>1
    <3>3. QED
      BY <1>2, <3>1, <3>2
  <2>2. QED
    BY <2>1
<1>5. \A i \in DOMAIN seq : i \in Nat
  BY <1>1, <1>2
<1>6. Range(Tail(seq)) \subseteq Range(seq)
  BY <1>3 DEF Range
<1>7. \A x \in Range(seq) : x = Head(seq) \/ x \in Range(Tail(seq))
  <2>1. SUFFICES ASSUME NEW x \in Range(seq), x # Head(seq) PROVE x \in Range(Tail(seq))
    OBVIOUS
  <2>2. PICK i \in DOMAIN seq : seq[i] = x
    BY DEF Range
  <2>3. i # 1
    BY <1>2, <2>1, <2>2
  <2>4. i - 1 \in DOMAIN Tail(seq) /\ Tail(seq)[i - 1] = x
    BY <1>4, <2>2, <2>3
  <2>5. QED
    BY <2>4 DEF Range
<1>8. QED
  BY <1>2, <1>3, <1>4, <1>5, <1>6, <1>7

LEMMA TailInOrder ==
  ASSUME ThreadTypeOK, LinesOK, wire # <<>>, wire' = Tail(wire), UNCHANGED <<link, stored, untold>>
  PROVE  /\ LinesOK'
         /\ \A c \in OnTheWire' : c \in OnTheWire
         /\ \A c \in OnTheWire : c \in OnTheWire' \/ c = Head(wire)
         /\ Head(wire).type # "status" => \A c \in OnTheWire' : c.n > Head(wire).n
         /\ Head(wire).type # "status" => Head(wire) \in OnTheWire
<1>1. wire \in Seq(Changes \cup Statuses)
  BY DEF ThreadTypeOK
<1>2. /\ 1 \in DOMAIN wire /\ Head(wire) = wire[1]
      /\ \A i \in DOMAIN wire' : wire'[i] = wire[i + 1] /\ i + 1 \in DOMAIN wire /\ i \in Nat
      /\ \A i \in DOMAIN wire : i # 1 => i - 1 \in DOMAIN wire' /\ wire'[i - 1] = wire[i]
      /\ \A i \in DOMAIN wire : i \in Nat
      /\ Range(wire)' \subseteq Range(wire)
      /\ \A x \in Range(wire) : x = Head(wire) \/ x \in Range(wire)'
  BY <1>1, TailIs
<1>3. (\A c \in OnTheWire' : c \in OnTheWire) /\ \A c \in OnTheWire : c \in OnTheWire' \/ c = Head(wire)
  BY <1>2 DEF OnTheWire
<1>4. WireInOrder'
  <2>1. SUFFICES ASSUME NEW i \in DOMAIN wire', NEW j \in DOMAIN wire', i < j,
                        wire'[i].type # "status", wire'[j].type # "status"
                 PROVE  wire'[i].n < wire'[j].n
    BY DEF WireInOrder
  <2>2. i + 1 < j + 1 /\ i + 1 \in DOMAIN wire /\ j + 1 \in DOMAIN wire
    BY <1>2, <2>1
  <2>3. QED
    BY <1>2, <2>1, <2>2 DEF LinesOK, WireInOrder
<1>5. ASSUME Head(wire).type # "status", NEW c \in OnTheWire' PROVE c.n > Head(wire).n
  <2>1. PICK i \in DOMAIN wire' : wire'[i] = c /\ c.type # "status"
    BY <1>5 DEF OnTheWire, Range
  <2>2. i + 1 \in DOMAIN wire /\ 1 < i + 1 /\ wire[i + 1] = c
    <3>1. i \in 1 .. Len(wire')
      BY <1>1
    <3>2. QED
      BY <1>2, <2>1, <3>1
  <2>3. wire[1].n < wire[i + 1].n
    BY <1>2, <1>5, <2>1, <2>2 DEF LinesOK, WireInOrder
  <2>4. wire[1].n \in Nat /\ c.n \in Nat
    <3>1. wire[1] \in OnTheWire /\ c \in OnTheWire
      BY <1>2, <1>3, <1>5 DEF OnTheWire, Range
    <3>2. wire[1] \in Pending /\ c \in Pending
      BY <3>1 DEF Pending
    <3>3. QED
      BY <3>2, Numbers
  <2>5. QED
    BY <1>2, <2>2, <2>3, <2>4
<1>6. LinesOK'
  <2>1. link' # "open" => wire' = <<>>
    BY DEF LinesOK
  <2>2. QED
    BY <1>3, <1>4, <2>1 DEF LinesOK
<1>7. Head(wire).type # "status" => Head(wire) \in OnTheWire
  BY <1>2 DEF OnTheWire, Range
<1>8. QED
  BY <1>3, <1>5, <1>6, <1>7

LEMMA HandleStatusMirror ==
  ASSUME ThreadTypeOK, MirrorInv, HandleStatus PROVE MirrorInv'
<1>1. /\ wire # <<>> /\ wire' = Tail(wire) /\ Head(wire).type = "status"
      /\ UNCHANGED <<link, stored, untold, rows, view, current, outOfTurn, lost, missed, replies>>
      /\ reads' = reads \/ reads' = Append(reads, NewRead("resync"))
  BY DEF HandleStatus, serverVars
<1>2. LinesOK' /\ \A c : c \in OnTheWire' <=> c \in OnTheWire
  <2>1. \A c \in OnTheWire : c # Head(wire)
    BY <1>1 DEF OnTheWire
  <2>2. QED
    BY <1>1, <2>1, TailInOrder DEF MirrorInv
<1>3. \A c : c \in Pending' <=> c \in Pending
  BY <1>1, <1>2 DEF Pending
<1>4. \A read \in Range(reads)' : read \in Range(reads) \/ ~read.done
  <2>1. reads \in Seq(Read)
    BY DEF ThreadTypeOK, Read
  <2>2. ~NewRead("resync").done
    BY DEF NewRead
  <2>3. QED
    BY <1>1, <2>1, <2>2 DEF Range
<1>5. Still
  BY <1>1, <1>3, <1>4 DEF Still
<1>6. GapsOK'
  <2>1. reads \in Seq(Read)
    BY DEF ThreadTypeOK, Read
  <2>2. QED
    BY <1>1, <2>1, GapsStay, GapsAdd DEF MirrorInv
<1>7. QED
  BY <1>2, <1>5, <1>6, StillMirror

-----------------------------------------------------------------------------
(* ... reads that begin, are answered or fail, and the stream, ...          *)

LEMMA ReadsSame ==
  ASSUME ThreadTypeOK, NEW i \in DOMAIN reads, reads' = RemoveAt(reads, i)
  PROVE  \A read \in Range(reads)' : read \in Range(reads)
<1>1. reads \in Seq(Read)
  BY DEF ThreadTypeOK, Read
<1>2. Range(RemoveAt(reads, i)) \subseteq Range(reads)
  BY <1>1, RemoveAtRange
<1>3. QED
  BY <1>2

LEMMA ReadAdded ==
  ASSUME ThreadTypeOK, NEW kind, reads' = Append(reads, NewRead(kind))
  PROVE  \A read \in Range(reads)' : read \in Range(reads) \/ ~read.done
<1>1. reads \in Seq(Read)
  BY DEF ThreadTypeOK, Read
<1>2. ~NewRead(kind).done
  BY DEF NewRead
<1>3. QED
  BY <1>1, <1>2 DEF Range

\* An empty wire carries nothing.
LEMMA EmptyWire ==
  ASSUME wire = <<>> PROVE OnTheWire = {} /\ WireInOrder
BY DEF OnTheWire, Range, WireInOrder

LEMMA ReadFailsMirror ==
  ASSUME ThreadTypeOK, MirrorInv, NEW i \in DOMAIN reads, ReadFails(i) PROVE MirrorInv'
<1>1. /\ UNCHANGED <<stored, untold, rows, view, current, outOfTurn, lost, missed, replies, wire>>
      /\ reads' = RemoveAt(reads, i) /\ link' = AfterRead(i)
  BY DEF ReadFails, serverVars, tabVars
<1>2. \A c : c \in Pending' <=> c \in Pending
  BY <1>1 DEF Pending, OnTheWire
<1>3. Still
  BY <1>1, <1>2, ReadsSame DEF Still
<1>4. reads \in Seq(Read)
  BY DEF ThreadTypeOK, Read
<1>5. GapsOK' /\ (link' = link \/ (link = "refetching" /\ link' = "connecting"))
  BY <1>1, <1>4, GapsRemoved DEF MirrorInv
<1>6. LinesOK'
  BY <1>1, <1>5 DEF MirrorInv, LinesOK, WireInOrder, OnTheWire
<1>7. QED
  BY <1>3, <1>5, <1>6, StillMirror

LEMMA SubscribeMirror ==
  ASSUME ThreadTypeOK, MirrorInv, Subscribe PROVE MirrorInv'
<1> DEFINE s == [type |-> "status", running |-> turn # "idle", queued |-> waiting]
<1>1. /\ UNCHANGED <<stored, untold, rows, view, current, outOfTurn, lost, missed, replies, reads>>
      /\ link = "connecting" /\ link' = "open" /\ wire' = <<s>>
  BY DEF Subscribe, serverVars, tabVars
<1>2. wire = <<>> /\ OnTheWire = {}
  BY <1>1, EmptyWire DEF MirrorInv, LinesOK
<1>3. OnTheWire' = {} /\ WireInOrder'
  <2>1. s.type = "status"
    OBVIOUS
  <2> HIDE DEF s
  <2>2. DOMAIN wire' = {1} /\ wire'[1] = s
    BY <1>1
  <2>3. QED
    BY <2>1, <2>2 DEF OnTheWire, Range, WireInOrder
<1>4. \A c : c \in Pending' <=> c \in Pending
  BY <1>1, <1>2, <1>3 DEF Pending
<1>5. Still
  BY <1>1, <1>4 DEF Still
<1>6. GapsOK'
  BY <1>1 DEF MirrorInv, GapsOK
<1>7. LinesOK'
  BY <1>1, <1>3 DEF MirrorInv, LinesOK
<1>8. QED
  BY <1>5, <1>6, <1>7, StillMirror

LEMMA RefetchMirror ==
  ASSUME ThreadTypeOK, MirrorInv, Refetch PROVE MirrorInv'
<1>1. /\ UNCHANGED <<stored, untold, rows, view, current, outOfTurn, lost, missed, replies, wire>>
      /\ link = "backoff" /\ link' = "refetching" /\ reads' = Append(reads, NewRead("gap"))
  BY DEF Refetch, serverVars, tabVars
<1>2. \A c : c \in Pending' <=> c \in Pending
  BY <1>1 DEF Pending, OnTheWire
<1>3. Still
  BY <1>1, <1>2, ReadAdded DEF Still
<1>4. GapsOK'
  <2>1. reads \in Seq(Read) /\ \A i \in DOMAIN reads : reads[i].kind # "gap"
    BY <1>1 DEF ThreadTypeOK, Read, MirrorInv, GapsOK
  <2>2. \A i \in DOMAIN reads' : i = Len(reads) + 1 \/ (i \in DOMAIN reads /\ reads'[i] = reads[i])
    BY <1>1, <2>1
  <2>3. QED
    BY <1>1, <2>1, <2>2 DEF GapsOK
<1>5. LinesOK'
  BY <1>1 DEF MirrorInv, LinesOK, WireInOrder, OnTheWire
<1>6. QED
  BY <1>3, <1>4, <1>5, StillMirror

LEMMA RefusedMirror ==
  ASSUME ThreadTypeOK, MirrorInv, NEW ask \in asks, RunEdit(ask),
         UNCHANGED <<rows, stored, untold>>
  PROVE  MirrorInv'
<1>1. UNCHANGED <<view, current, outOfTurn, lost, missed, replies, reads, link, wire>>
  BY DEF RunEdit, tabVars, netVars
<1>2. LinesOK' /\ \A c : c \in Pending' <=> c \in Pending
  BY <1>1, StatusIsNoChange DEF MirrorInv
<1>3. Still
  BY <1>1, <1>2 DEF Still
<1>4. GapsOK'
  BY <1>1, GapsStay DEF MirrorInv
<1>5. QED
  BY <1>2, <1>3, <1>4, StillMirror

LEMMA StutterMirror ==
  ASSUME ThreadTypeOK, MirrorInv, UNCHANGED threadVars PROVE MirrorInv'
<1>1. /\ UNCHANGED <<view, current, outOfTurn, lost, missed, replies, reads, link, wire>>
      /\ UNCHANGED <<rows, stored, untold>>
  BY DEF threadVars, serverVars, tabVars, netVars
<1>2. LinesOK' /\ \A c : c \in Pending' <=> c \in Pending
  BY <1>1, StatusIsNoChange DEF MirrorInv
<1>3. Still
  BY <1>1, <1>2 DEF Still
<1>4. GapsOK'
  BY <1>1, GapsStay DEF MirrorInv
<1>5. QED
  BY <1>2, <1>3, <1>4, StillMirror

\* A read is answered with the transcript as it is.
LEMMA AnswerMirror ==
  ASSUME ThreadTypeOK, MirrorInv, NEW i \in DOMAIN reads, Answer(i) PROVE MirrorInv'
<1>0. PICK answer : answer = [reads[i] EXCEPT !.done = TRUE, !.rows = rows, !.n = stored]
  OBVIOUS
<1>1. /\ UNCHANGED <<view, current, outOfTurn, lost, missed, replies, link, wire>>
      /\ UNCHANGED <<rows, stored, untold>> /\ reads' = [reads EXCEPT ![i] = answer]
  BY <1>0 DEF Answer, serverVars, tabVars
<1>2. LinesOK' /\ \A c : c \in Pending' <=> c \in Pending
  BY <1>1, StatusIsNoChange DEF MirrorInv
<1>3. reads \in Seq(Read) /\ reads[i] \in Read
  BY ElementIs DEF ThreadTypeOK, Read
<1>4. /\ answer.done /\ answer.n = stored /\ answer.rows = rows /\ answer.kind = reads[i].kind
      /\ answer \in Read
  BY <1>0, <1>3 DEF Read, ThreadTypeOK
<1>5. DOMAIN reads' = DOMAIN reads /\ \A k \in DOMAIN reads : reads'[k] = IF k = i THEN answer ELSE reads[k]
  BY <1>1, <1>3
<1>6. GapsOK'
  BY <1>1, <1>4, <1>5 DEF MirrorInv, GapsOK
<1>7. lost \in Nat /\ current \in Nat /\ stored \in Nat
  BY Numbers
<1>8. Hearing
  BY <1>1, <1>2, <1>7 DEF Hearing
<1>9. HearsOK' /\ TranscriptOK' /\ ViewOK'
  BY <1>1, <1>2, <1>8, HearsStay, ViewStays DEF MirrorInv, TranscriptOK
<1>10. ReadOK(answer)'
  <2>1. stored \in 1 .. stored /\ Sorted(rows) /\ \A q \in Range(rows) : q.id <= stored
    BY <1>7 DEF MirrorInv, TranscriptOK
  <2>2. \A q \in Range(rows) : q.id \in Ids(rows)
    BY IdsAre
  <2>3. ASSUME NEW r \in Range(rows) PROVE RowOK(r, stored)
    <3>1. \A q \in Range(rows) : q.id = r.id => q = r
      <4>0. rows \in Seq(Row)
        BY DEF ThreadTypeOK
      <4>1. \A k \in DOMAIN rows : k \in Nat /\ rows[k].id \in Nat
        BY <4>0, ElementIs, Numbers
      <4>2. \A k, l \in DOMAIN rows : rows[k].id = rows[l].id => k = l
        BY <2>1, <4>1 DEF Sorted
      <4>3. QED
        BY <4>2 DEF Range
    <3>2. QED
      BY <2>1, <2>2, <3>1 DEF RowOK
  <2>4. \A r \in Range(rows) : RowOK(r, stored)'
    BY <1>1, <1>2, <2>3, RowStays
  <2>5. QED
    BY <1>1, <1>4, <2>1, <2>2, <2>4 DEF ReadOK
<1>11. ReadsOK'
  <2>1. \A read \in Range(reads)' : read = answer \/ read \in Range(reads)
    BY <1>5 DEF Range
  <2>2. \A read \in Range(reads) : ReadOK(read)'
    BY <1>8, ReadStays, Numbers DEF ReadsOK, MirrorInv
  <2>3. QED
    BY <1>10, <2>1, <2>2 DEF ReadsOK
<1>12. QED
  BY <1>2, <1>6, <1>9, <1>11 DEF MirrorInv

-----------------------------------------------------------------------------
(* ... a change that is published or lost, and a read that is applied.      *)

LEMMA ViewMissed ==
  ASSUME ViewOK, view' = view, missed' PROVE ViewOK'
BY DEF ViewOK

\* The change that is told next.
LEMMA UntoldIs ==
  ASSUME ThreadTypeOK, untold # <<>>
  PROVE  /\ untold[1].change \in Changes /\ untold[1].change \in Pending
         /\ 1 \in DOMAIN untold /\ \A i \in DOMAIN untold : i = 1
<1>1. untold \in Seq([change : Changes, own : BOOLEAN]) /\ Len(untold) <= 1
  BY DEF ThreadTypeOK
<1>2. 1 \in DOMAIN untold /\ untold[1] \in [change : Changes, own : BOOLEAN]
  BY <1>1, FirstIs
<1>3. \A i \in DOMAIN untold : i = 1
  BY <1>1
<1>4. QED
  BY <1>2, <1>3 DEF Pending

LEMMA PublishMirror ==
  ASSUME ThreadTypeOK, MirrorInv, Publish PROVE MirrorInv'
<1>0. PICK c : c = untold[1].change
  OBVIOUS
<1>1. /\ UNCHANGED <<rows, stored, view, current, outOfTurn, link, reads>>
      /\ untold # <<>> /\ untold' = <<>>
      /\ wire' = IF link = "open" THEN Append(wire, c) ELSE wire
      /\ lost' = IF link = "open" THEN lost ELSE c.n
      /\ missed' = (link # "open" \/ missed)
      /\ replies' = replies \/ replies' = Append(replies, c)
  BY <1>0 DEF Publish, tabVars
<1>2. c \in Changes /\ c \in Pending /\ c.n = stored /\ \A i \in DOMAIN untold : untold[i].change = c
  BY <1>0, <1>1, UntoldIs DEF MirrorInv, LinesOK
<1>3. /\ lost \in Nat /\ current \in Nat /\ stored \in Nat
      /\ wire \in Seq(Changes \cup Statuses) /\ replies \in Seq(Changes) /\ missed \in BOOLEAN
  BY Numbers DEF ThreadTypeOK
<1>4. \A d \in Range(replies)' : d \in Range(replies) \/ d \in Pending
  BY <1>1, <1>2, <1>3 DEF Range
<1>5. \A d : d \in Pending <=> d \in OnTheWire \/ d = c
  <2>1. 1 \in DOMAIN untold
    BY <1>1, UntoldIs
  <2>2. QED
    BY <1>2, <2>1 DEF Pending
<1>6. \A d : d \in Pending' <=> d \in OnTheWire'
  BY <1>1 DEF Pending
<1>7. c.type # "status"
  BY <1>2 DEF Changes
<1>8. GapsOK'
  BY <1>1, GapsStay DEF MirrorInv
<1>9. lost <= stored /\ current <= stored /\ TranscriptOK
  BY DEF MirrorInv, TranscriptOK
<1>10. CASE link = "open"
  <2>1. /\ DOMAIN wire' = 1 .. Len(wire) + 1 /\ DOMAIN wire = 1 .. Len(wire) /\ Len(wire) \in Nat
        /\ wire'[Len(wire) + 1] = c /\ \A i \in DOMAIN wire : wire'[i] = wire[i]
    BY <1>1, <1>3, <1>10
  <2>2. \A i \in DOMAIN wire' : i \in DOMAIN wire \/ wire'[i] = c
    BY <2>1
  <2>3. \A d : d \in OnTheWire' <=> d \in OnTheWire \/ d = c
    <3>1. ASSUME NEW d \in OnTheWire' PROVE d \in OnTheWire \/ d = c
      BY <2>1, <2>2 DEF OnTheWire, Range
    <3>2. ASSUME NEW d, d \in OnTheWire \/ d = c PROVE d \in OnTheWire'
      <4>1. \A i \in DOMAIN wire : i \in DOMAIN wire'
        BY <2>1
      <4>2. c \in Range(wire)'
        BY <2>1 DEF Range
      <4>3. QED
        BY <1>7, <2>1, <3>2, <4>1, <4>2 DEF OnTheWire, Range
    <3>3. QED
      BY <3>1, <3>2
  <2>4. \A d : d \in Pending' <=> d \in Pending
    BY <1>5, <1>6, <2>3
  <2>5. WireInOrder'
    <3>1. SUFFICES ASSUME NEW i \in DOMAIN wire', NEW j \in DOMAIN wire', i < j,
                          wire'[i].type # "status", wire'[j].type # "status"
                   PROVE  wire'[i].n < wire'[j].n
      BY DEF WireInOrder
    <3>2. i \in DOMAIN wire
      BY <2>1, <3>1
    <3>3. CASE j \in DOMAIN wire
      BY <2>1, <3>1, <3>2, <3>3 DEF MirrorInv, LinesOK, WireInOrder
    <3>4. CASE wire'[j] = c
      <4>1. wire[i] \in OnTheWire
        BY <2>1, <3>1, <3>2 DEF OnTheWire, Range
      <4>2. wire[i].n < stored
        BY <1>1, <4>1 DEF MirrorInv, LinesOK
      <4>3. QED
        BY <1>2, <2>1, <3>2, <3>4, <4>2
    <3>5. QED
      BY <2>2, <3>3, <3>4
  <2>6. LinesOK'
    BY <1>1, <1>10, <2>5 DEF MirrorInv, LinesOK
  <2>7. lost' = lost /\ missed' = missed
    BY <1>1, <1>3, <1>10
  <2>8. Hearing
    BY <1>1, <1>3, <1>4, <2>4, <2>7 DEF Hearing
  <2>9. ViewOK'
    BY <1>1, <2>4, <2>7, ViewStays DEF MirrorInv
  <2>10. TranscriptOK'
    BY <1>1, <2>7 DEF MirrorInv, TranscriptOK
  <2>11. QED
    BY <1>1, <1>8, <2>6, <2>8, <2>9, <2>10, HearsStay, ReadsStay DEF MirrorInv
<1>11. CASE link # "open"
  <2>1. wire = <<>> /\ wire' = <<>> /\ lost' = stored /\ missed'
    BY <1>1, <1>2, <1>11 DEF MirrorInv, LinesOK
  <2>2. OnTheWire = {} /\ OnTheWire' = {} /\ WireInOrder'
    <3>1. OnTheWire = {}
      BY <2>1, EmptyWire
    <3>2. OnTheWire' = {} /\ WireInOrder'
      BY <2>1 DEF OnTheWire, Range, WireInOrder
    <3>3. QED
      BY <3>1, <3>2
  <2>3. LinesOK'
    BY <1>1, <2>1, <2>2 DEF MirrorInv, LinesOK
  <2>4. Hearing
    BY <1>1, <1>2, <1>3, <1>4, <1>5, <1>6, <1>9, <2>1, <2>2 DEF Hearing
  <2>5. ViewOK'
    BY <1>1, <2>1, ViewMissed DEF MirrorInv
  <2>6. TranscriptOK'
    BY <1>1, <1>3, <2>1 DEF MirrorInv, TranscriptOK
  <2>7. QED
    BY <1>1, <1>8, <2>3, <2>4, <2>5, <2>6, HearsStay, ReadsStay DEF MirrorInv
<1>12. QED
  BY <1>10, <1>11

LEMMA BreakMirror ==
  ASSUME ThreadTypeOK, MirrorInv, Break PROVE MirrorInv'
<1>1. /\ UNCHANGED <<rows, stored, view, current, outOfTurn, reads, untold, replies>>
      /\ link \in {"connecting", "open"} /\ link' = "backoff" /\ wire' = <<>>
      /\ lost' = Max({lost} \cup {c.n : c \in OnTheWire})
      /\ missed' = (OnTheWire # {} \/ missed)
  BY DEF Break, serverVars, tabVars
<1>2. /\ lost \in Nat /\ current \in Nat /\ stored \in Nat /\ missed \in BOOLEAN
      /\ \A c \in Pending : c.n \in Nat
  BY Numbers DEF ThreadTypeOK
<1>3. /\ lost' \in {lost} \cup {c.n : c \in OnTheWire} /\ lost' \in Nat
      /\ lost' >= lost /\ \A c \in OnTheWire : lost' >= c.n
  <2>1. MaxChanges \in Nat /\ NetTypes
    BY ThreadBoundsAssumption, TypeParts
  <2>2. /\ lost' \in {lost} \cup {c.n : c \in OnTheWire} /\ lost' \in 0 .. MaxChanges
        /\ lost' >= lost /\ \A c \in OnTheWire : lost' >= c.n
    BY <1>1, <2>1, LostIs, Zenon
  <2>3. QED
    BY <2>1, <2>2
<1>4. OnTheWire' = {} /\ WireInOrder'
  BY <1>1 DEF OnTheWire, Range, WireInOrder
<1>5. \A c \in Pending : c.n <= stored
  BY DEF MirrorInv, HearsOK, ChangeOK
<1>6. \A c \in Pending' : c \in Pending /\ c.n = stored
  BY <1>1, <1>4 DEF Pending, MirrorInv, LinesOK
<1>7. \A c \in Pending : c \in Pending' \/ c.n <= lost'
  BY <1>1, <1>2, <1>3 DEF Pending
<1>8. Hearing
  <2>1. \A c \in Pending', d \in Pending : d.n > c.n => d \in Pending'
    BY <1>2, <1>5, <1>6
  <2>2. QED
    BY <1>1, <1>2, <1>3, <1>6, <1>7, <2>1 DEF Hearing
<1>9. ViewOK'
  <2>1. CASE OnTheWire # {}
    BY <1>1, <2>1, ViewMissed DEF MirrorInv
  <2>2. CASE OnTheWire = {}
    <3>1. lost' = lost /\ missed' = missed
      BY <1>1, <1>2, <1>3, <2>2
    <3>2. \A c : c \in Pending' <=> c \in Pending
      BY <1>1, <1>4, <2>2 DEF Pending
    <3>3. QED
      BY <1>1, <3>1, <3>2, ViewStays DEF MirrorInv
  <2>3. QED
    BY <2>1, <2>2
<1>10. TranscriptOK'
  <2>1. \A c \in OnTheWire : c.n <= stored
    BY <1>5 DEF Pending
  <2>2. lost' <= stored
    BY <1>2, <1>3, <2>1 DEF MirrorInv, TranscriptOK
  <2>3. QED
    BY <1>1, <2>2 DEF MirrorInv, TranscriptOK
<1>11. GapsOK'
  BY <1>1 DEF MirrorInv, GapsOK
<1>12. LinesOK'
  BY <1>1, <1>4 DEF MirrorInv, LinesOK
<1>13. QED
  BY <1>1, <1>8, <1>9, <1>10, <1>11, <1>12, HearsStay, ReadsStay DEF MirrorInv

LEMMA SortedOnce ==
  ASSUME NEW list \in Seq(Row), Sorted(list) PROVE ListedOnce(list)
<1>1. \A i \in DOMAIN list : i \in Nat /\ list[i].id \in Nat
  <2>1. \A r \in Row : r.id \in Nat
    BY ThreadBoundsAssumption DEF Row, RowIds
  <2>2. QED
    BY <2>1, ElementIs
<1>2. QED
  BY <1>1 DEF Sorted, ListedOnce

LEMMA ApplyReadMirror ==
  ASSUME ThreadTypeOK, MirrorInv, NEW i \in DOMAIN reads, ApplyRead(i) PROVE MirrorInv'
<1>0. PICK read : read = reads[i]
  OBVIOUS
<1>1. /\ UNCHANGED <<rows, stored, untold, wire, replies, lost>>
      /\ read.done /\ view' = read.rows /\ outOfTurn' = (read.n < current)
      /\ current' = Max({current, read.n}) /\ missed' = (missed /\ read.n < lost)
      /\ link' = AfterRead(i) /\ reads' = RemoveAt(reads, i)
  BY <1>0 DEF ApplyRead, serverVars
<1>2. reads \in Seq(Read) /\ read \in Range(reads) /\ read \in Read
  BY <1>0, ElementIs DEF ThreadTypeOK, Read, Range
<1>3. /\ lost \in Nat /\ current \in Nat /\ stored \in Nat /\ missed \in BOOLEAN
      /\ read.n \in Nat /\ read.rows \in Seq(Row)
  BY <1>2, Numbers, ThreadBoundsAssumption DEF ThreadTypeOK, Read
<1>4. current' \in {current, read.n} /\ current' >= current /\ current' >= read.n
  BY <1>1, <1>3, MaxOfTwo
<1>5. \A c : c \in Pending' <=> c \in Pending
  BY <1>1 DEF Pending, OnTheWire
<1>6. Hearing
  BY <1>1, <1>3, <1>4, <1>5 DEF Hearing
<1>7. HearsOK' /\ ReadsOK'
  BY <1>1, <1>6, HearsStay, ReadsStay, ReadsSame DEF MirrorInv
<1>8. /\ read.n \in 1 .. stored /\ Sorted(read.rows)
      /\ \A r \in Range(read.rows) : r.id <= read.n
      /\ \A q \in Range(rows) : q.id <= read.n => q.id \in Ids(read.rows)
      /\ Passed(read.n) \/ \A r \in Range(read.rows) : RowOK(r, read.n)
  BY <1>1, <1>2 DEF MirrorInv, ReadsOK, ReadOK
<1>9. TranscriptOK'
  BY <1>1, <1>3, <1>4, <1>8 DEF MirrorInv, TranscriptOK
<1>10. GapsOK' /\ (link' = link \/ (link = "refetching" /\ link' = "connecting"))
  BY <1>1, <1>2, GapsRemoved DEF MirrorInv
<1>11. LinesOK'
  BY <1>1, <1>10 DEF MirrorInv, LinesOK, WireInOrder, OnTheWire
<1>12. ListedOnce(view)'
  BY <1>1, <1>3, <1>8, SortedOnce
<1>13. ASSUME ~missed' PROVE current' >= 1 /\ lost' <= current'
  <2>1. CASE ~missed
    BY <1>1, <1>3, <1>4, <1>8, <2>1 DEF MirrorInv, ViewOK
  <2>2. CASE ~(read.n < lost)
    BY <1>1, <1>3, <1>4, <1>8, <2>2
  <2>3. QED
    BY <1>1, <1>13, <2>1, <2>2
<1>14. ASSUME ~missed', ~outOfTurn' PROVE Faithful(view)'
  <2>1. current' = read.n /\ current <= read.n /\ lost <= read.n
    <3>1. ~(read.n < current) /\ lost' <= current' /\ lost' = lost
      BY <1>1, <1>13, <1>14
    <3>2. current' = read.n
      BY <1>3, <1>4, <3>1
    <3>3. QED
      BY <1>3, <3>1, <3>2
  <2>2. ~Passed(read.n)
    BY <1>3, <2>1 DEF Passed
  <2>3. ASSUME NEW r \in Range(read.rows) PROVE r.id <= current' + 1 /\ RowOK(r, 0)'
    <3>1. RowOK(r, read.n)
      BY <1>8, <2>2, <2>3
    <3>2. RowOK(r, 0)
      BY <1>3, <3>1, RowEarlier
    <3>3. r.id \in Nat
      <4>1. r \in Row
        BY <1>3, <2>3, ElementIs DEF Range
      <4>2. QED
        BY <4>1, Numbers
    <3>4. r.id <= read.n
      BY <1>8
    <3>5. RowOK(r, 0)'
      BY <1>1, <1>5, <3>2, RowStays
    <3>6. QED
      BY <1>3, <2>1, <3>3, <3>4, <3>5
  <2>4. \A q \in Range(rows) : q.id <= current' => q.id \in Ids(read.rows)
    BY <1>8, <2>1
  <2>5. InOrder(view)'
    BY <1>1, <1>8 DEF InOrder, Sorted
  <2>6. QED
    BY <1>1, <2>3, <2>4, <2>5 DEF Faithful
<1>15. ViewOK'
  BY <1>12, <1>13, <1>14 DEF ViewOK
<1>16. QED
  BY <1>7, <1>9, <1>10, <1>11, <1>15 DEF MirrorInv

-----------------------------------------------------------------------------
(* What the tab shows after a change.                                       *)

\* What the tab makes of its list: a row comes last, unless it is listed,
LEMMA MergeIs ==
  ASSUME NEW list \in Seq(Row), NEW row \in Row, row.id \notin Ids(list)
  PROVE  /\ Range(MergeMessage(list, row)) = Range(list) \cup {row}
         /\ ListedOnce(list) => ListedOnce(MergeMessage(list, row))
         /\ DOMAIN MergeMessage(list, row) = 1 .. Len(list) + 1 /\ DOMAIN list = 1 .. Len(list)
         /\ Len(list) \in Nat
         /\ \A i \in DOMAIN list : MergeMessage(list, row)[i] = list[i]
         /\ MergeMessage(list, row)[Len(list) + 1] = row
<1> DEFINE new == MergeMessage(list, row)
<1>1. new = Append(list, row)
  BY DEF MergeMessage
<1>2. /\ DOMAIN new = 1 .. Len(list) + 1 /\ DOMAIN list = 1 .. Len(list) /\ Len(list) \in Nat
      /\ \A i \in DOMAIN list : new[i] = list[i]
      /\ new[Len(list) + 1] = row
  BY <1>1
<1> HIDE DEF new
<1>3. \A i \in DOMAIN new : i \in DOMAIN list \/ i = Len(list) + 1
  BY <1>2
<1>4. \A i \in DOMAIN list : i \in DOMAIN new /\ i # Len(list) + 1
  BY <1>2
<1>5. Len(list) + 1 \in DOMAIN new
  BY <1>2
<1>6. Range(new) = Range(list) \cup {row}
  BY <1>2, <1>3, <1>4, <1>5 DEF Range
<1>7. \A i \in DOMAIN list : list[i].id # row.id
  BY DEF Ids
<1>8. ListedOnce(list) => ListedOnce(new)
  BY <1>2, <1>3, <1>4, <1>7 DEF ListedOnce
<1>9. QED
  BY <1>2, <1>6, <1>8 DEF new

\* a row takes the place of the one with its id.
LEMMA ReplaceIs ==
  ASSUME NEW list \in Seq(Row), NEW row \in Row
  PROVE  /\ \A r \in Range(ReplaceMessage(list, row)) :
              (r \in Range(list) /\ r.id # row.id) \/ (r = row /\ row.id \in Ids(list))
         /\ Ids(ReplaceMessage(list, row)) = Ids(list)
         /\ ListedOnce(list) => ListedOnce(ReplaceMessage(list, row))
         /\ DOMAIN ReplaceMessage(list, row) = DOMAIN list
         /\ \A i \in DOMAIN list : ReplaceMessage(list, row)[i].id = list[i].id
<1> DEFINE new == ReplaceMessage(list, row)
<1>1. /\ DOMAIN new = DOMAIN list
      /\ \A i \in DOMAIN list : new[i] = IF list[i].id = row.id THEN row ELSE list[i]
  BY DEF ReplaceMessage
<1> HIDE DEF new
<1>2. \A i \in DOMAIN list : new[i].id = list[i].id
  BY <1>1
<1>3. Ids(new) = Ids(list)
  BY <1>1, <1>2 DEF Ids
<1>4. \A r \in Range(new) : (r \in Range(list) /\ r.id # row.id) \/ (r = row /\ row.id \in Ids(list))
  BY <1>1 DEF Range, Ids
<1>5. ListedOnce(list) => ListedOnce(new)
  BY <1>1, <1>2 DEF ListedOnce
<1>6. QED
  BY <1>1, <1>2, <1>3, <1>4, <1>5 DEF new

\* Whatever arrives, nothing is listed twice.
LEMMA ChangeListsOnce ==
  ASSUME ThreadTypeOK, ListedOnce(view), NEW c \in Changes
  PROVE  ListedOnce(ApplyChange(c))
<1>1. view \in Seq(Row) /\ c.row \in Row /\ c.type \in {"message", "updated", "deleted"}
  BY DEF ThreadTypeOK, Changes
<1>2. CASE c.type = "message"
  <2>1. ListedOnce(MergeMessage(view, c.row))
    <3>1. CASE c.row.id \in Ids(view)
      BY <3>1 DEF MergeMessage
    <3>2. CASE c.row.id \notin Ids(view)
      BY <1>1, <3>2, MergeIs
    <3>3. QED
      BY <3>1, <3>2
  <2>2. QED
    BY <1>2, <2>1 DEF ApplyChange
<1>3. CASE c.type = "updated"
  <2>1. ListedOnce(ReplaceMessage(view, c.row))
    BY <1>1, ReplaceIs
  <2>2. QED
    BY <1>3, <2>1 DEF ApplyChange
<1>4. CASE c.type = "deleted"
  <2>1. ListedOnce(RemoveMessages(view, c.ids))
    BY <1>1, WithoutIs DEF RemoveMessages
  <2>2. QED
    BY <1>4, <2>1 DEF ApplyChange
<1>5. QED
  BY <1>1, <1>2, <1>3, <1>4

\* What is taken out leaves the others in their order.
LEMMA WithoutInOrder ==
  ASSUME NEW list \in Seq(Row), NEW ids, InOrder(list)
  PROVE  InOrder(Without(list, ids))
<1> DEFINE places == {i \in DOMAIN list : list[i].id \notin ids}
           new == FilterAt(list, places)
           at(r) == PlaceOf(places, r)
<1>1. places \in SUBSET (DOMAIN list) /\ Without(list, ids) = new
  BY DEF Without
<1> HIDE DEF places
<1>2. /\ \A r \in DOMAIN new : at(r) \in places /\ new[r] = list[at(r)]
      /\ \A r, q \in DOMAIN new : r < q => at(r) < at(q)
  BY <1>1, AtIs
<1>3. \A r \in DOMAIN new : at(r) \in DOMAIN list
  BY <1>1, <1>2
<1> HIDE DEF new, at
<1>4. InOrder(new)
  BY <1>2, <1>3 DEF InOrder
<1>5. QED
  BY <1>1, <1>4

\* A change that is applied to a faithful list: what it says is shown.
Shows(c) ==
  /\ \A r \in Range(ApplyChange(c)) :
       /\ r.id <= current + 1 /\ RowOK(r, 0) /\ ~Kills(c, r.id)
       /\ EditsRow(c, r.id) => r = c.row
  /\ \A q \in Range(rows) :
       q.id <= current \/ (c.type = "message" /\ q.id = c.n) => q.id \in Ids(ApplyChange(c))
  /\ InOrder(ApplyChange(c))

LEMMA ChangeShows ==
  ASSUME ThreadTypeOK, Faithful(view), NEW c \in Changes, ChangeOK(c),
         c.type = "message" => c.n <= current + 1 /\ RowOK(c.row, 0)
  PROVE  Shows(c)
<1>1. /\ view \in Seq(Row) /\ c.row \in Row /\ c.type \in {"message", "updated", "deleted"}
      /\ current \in Nat /\ stored \in Nat /\ c.n \in Nat
      /\ \A r \in Row : r.id \in Nat /\ r.text \in {"first", "edited"}
      /\ \A q \in Range(rows) \cup Range(view) : q.id \in Nat
  BY Numbers DEF ThreadTypeOK, Changes
<1>2. /\ \A r \in Range(view) : r.id <= current + 1 /\ RowOK(r, 0)
      /\ \A q \in Range(rows) : q.id <= current => q.id \in Ids(view)
      /\ InOrder(view)
  BY DEF Faithful
<1>3. CASE c.type = "message"
  <2>1. ApplyChange(c) = MergeMessage(view, c.row) /\ c.row.id = c.n
    BY <1>3 DEF ApplyChange, ChangeOK
  <2>2. CASE c.row.id \in Ids(view)
    <3>1. ApplyChange(c) = view
      BY <2>1, <2>2 DEF MergeMessage
    <3>2. QED
      BY <1>2, <1>3, <2>1, <2>2, <3>1 DEF Shows, Kills, EditsRow
  <2>3. CASE c.row.id \notin Ids(view)
    <3> DEFINE new == MergeMessage(view, c.row)
    <3>1. /\ Range(new) = Range(view) \cup {c.row}
          /\ DOMAIN new = 1 .. Len(view) + 1 /\ DOMAIN view = 1 .. Len(view) /\ Len(view) \in Nat
          /\ \A i \in DOMAIN view : new[i] = view[i]
          /\ new[Len(view) + 1] = c.row
      BY <1>1, <2>3, MergeIs
    <3> HIDE DEF new
    <3>2. \A r \in Range(new) : r.id <= current + 1 /\ RowOK(r, 0)
      BY <1>2, <1>3, <2>1, <3>1
    <3>3. Ids(new) = Ids(view) \cup {c.n}
      <4>1. Ids(new) = {r.id : r \in Range(new)} /\ Ids(view) = {r.id : r \in Range(view)}
        BY IdsAre
      <4>2. QED
        BY <2>1, <3>1, <4>1
    <3>4. InOrder(new)
      <4>1. SUFFICES ASSUME NEW i \in DOMAIN new, NEW j \in DOMAIN new, i < j,
                            new[i].id \in Ids(rows), new[j].id \in Ids(rows)
                     PROVE  new[i].id < new[j].id
        BY DEF InOrder
      <4>2. i \in DOMAIN view
        BY <3>1, <4>1
      <4>3. CASE j \in DOMAIN view
        BY <1>2, <3>1, <4>1, <4>2, <4>3 DEF InOrder
      <4>4. CASE j = Len(view) + 1
        <5>1. c.n \in Ids(rows) /\ c.n \notin Ids(view)
          BY <2>1, <2>3, <3>1, <4>1, <4>4
        <5>2. c.n > current
          <6>1. PICK q \in Range(rows) : q.id = c.n
            BY <5>1, IdsAre
          <6>2. QED
            BY <1>1, <1>2, <5>1, <6>1
        <5>3. view[i] \in Range(view) /\ view[i].id \in Ids(view)
          BY <4>2 DEF Range, Ids
        <5>4. view[i].id <= current + 1 /\ view[i].id # c.n /\ view[i].id \in Nat
          BY <1>1, <1>2, <5>1, <5>3
        <5>5. view[i].id < c.n
          BY <1>1, <1>3, <5>2, <5>4
        <5>6. QED
          BY <2>1, <3>1, <4>2, <4>4, <5>5
      <4>5. QED
        BY <3>1, <4>3, <4>4
    <3>5. ApplyChange(c) = new
      BY <2>1 DEF new
    <3>6. QED
      BY <1>2, <1>3, <3>2, <3>3, <3>4, <3>5 DEF Shows, Kills, EditsRow
  <2>4. QED
    BY <2>2, <2>3
<1>4. CASE c.type = "updated"
  <2> DEFINE new == ReplaceMessage(view, c.row)
  <2>1. /\ \A r \in Range(new) :
             (r \in Range(view) /\ r.id # c.row.id) \/ (r = c.row /\ c.row.id \in Ids(view))
        /\ Ids(new) = Ids(view)
        /\ DOMAIN new = DOMAIN view /\ \A i \in DOMAIN view : new[i].id = view[i].id
    BY <1>1, ReplaceIs
  <2>2. ApplyChange(c) = new
    BY <1>4 DEF ApplyChange
  <2> HIDE DEF new
  <2>3. ASSUME c.row.id \in Ids(view) PROVE c.row.id <= current + 1 /\ RowOK(c.row, 0)
    <3>1. PICK r \in Range(view) : r.id = c.row.id
      BY <2>3, IdsAre
    <3>2. r.id <= current + 1 /\ RowOK(r, 0)
      BY <1>2
    <3>3. \A q \in Range(rows) : q.id = c.row.id => q = c.row
      BY <1>4 DEF ChangeOK
    <3>4. QED
      BY <3>1, <3>2, <3>3 DEF RowOK
  <2>4. \A r \in Range(new) : r.id <= current + 1 /\ RowOK(r, 0) /\ (r.id = c.row.id => r = c.row)
    BY <1>2, <2>1, <2>3
  <2>5. InOrder(new)
    BY <1>2, <2>1 DEF InOrder
  <2>6. QED
    BY <1>2, <1>4, <2>1, <2>2, <2>4, <2>5 DEF Shows, Kills, EditsRow
<1>5. CASE c.type = "deleted"
  <2> DEFINE new == Without(view, c.ids)
  <2>1. /\ Range(new) = {r \in Range(view) : r.id \notin c.ids}
        /\ Ids(new) = Ids(view) \ c.ids
    BY <1>1, WithoutIs
  <2>2. ApplyChange(c) = new
    BY <1>5 DEF ApplyChange, RemoveMessages
  <2>3. InOrder(new)
    BY <1>1, <1>2, WithoutInOrder
  <2> HIDE DEF new
  <2>4. \A q \in Range(rows) : q.id \notin c.ids
    BY <1>5 DEF ChangeOK
  <2>5. QED
    BY <1>2, <1>5, <2>1, <2>2, <2>3, <2>4 DEF Shows, Kills, EditsRow
<1>6. QED
  BY <1>1, <1>3, <1>4, <1>5

-----------------------------------------------------------------------------
(* The changes that the tab hears of.                                       *)

\* A tab that missed nothing hears of the changes one after the other.
LEMMA NextIsHeard ==
  ASSUME ThreadTypeOK, MirrorInv, ~missed, wire # <<>>, Head(wire).type # "status",
         Head(wire) \in OnTheWire,
         \A d \in OnTheWire : d = Head(wire) \/ d.n > Head(wire).n
  PROVE  Head(wire).n <= current + 1
<1>0. PICK c : c = Head(wire)
  OBVIOUS
<1>1. /\ current \in Nat /\ lost \in Nat /\ stored \in Nat /\ current >= 1 /\ lost <= current
      /\ c \in Pending /\ c.n \in 2 .. stored
      /\ \A d \in Pending : d.n \in Nat
  <2>1. c \in Pending
    BY <1>0 DEF Pending
  <2>2. QED
    BY <2>1, Numbers DEF MirrorInv, ViewOK, HearsOK, ChangeOK
<1>2. SUFFICES ASSUME c.n > current + 1 PROVE FALSE
  BY <1>0, <1>1
<1>3. current + 1 \in 2 .. stored /\ (current + 1) - 1 = current
  BY <1>1, <1>2
<1>4. ~Passed(current)
  BY <1>1 DEF Passed
<1>5. PICK d \in Pending : d.n = current + 1
  BY <1>3, <1>4 DEF MirrorInv, HearsOK
<1>6. CASE d \in OnTheWire
  BY <1>0, <1>1, <1>2, <1>5, <1>6
<1>7. CASE d \notin OnTheWire
  <2>1. d.n = stored
    BY <1>5, <1>7 DEF Pending, MirrorInv, LinesOK
  <2>2. QED
    BY <1>1, <1>2, <1>5, <2>1
<1>8. QED
  BY <1>6, <1>7

LEMMA HandleChangeMirror ==
  ASSUME ThreadTypeOK, MirrorInv, HandleChange PROVE MirrorInv'
<1>0. PICK c : c = Head(wire)
  OBVIOUS
<1>1. /\ UNCHANGED <<rows, stored, untold, link, reads, replies, lost, missed, outOfTurn>>
      /\ wire # <<>> /\ c.type # "status" /\ wire' = Tail(wire)
      /\ view' = ApplyChange(c) /\ current' = Max({current, c.n})
  BY <1>0 DEF HandleChange, serverVars
<1>2. /\ LinesOK' /\ c \in OnTheWire
      /\ \A d \in OnTheWire' : d \in OnTheWire /\ d.n > c.n
      /\ \A d \in OnTheWire : d \in OnTheWire' \/ d = c
  BY <1>0, <1>1, TailInOrder DEF MirrorInv
<1>3. c \in Pending /\ c \in Changes /\ ChangeOK(c)
  <2>1. c \in Pending
    BY <1>2 DEF Pending
  <2>2. QED
    BY <2>1, Numbers DEF MirrorInv, HearsOK
<1>4. /\ lost \in Nat /\ current \in Nat /\ stored \in Nat /\ c.n \in Nat /\ c.n <= stored
      /\ \A d \in Pending : d.n \in Nat /\ d.n <= stored
  BY <1>3, Numbers DEF MirrorInv, HearsOK, ChangeOK
<1>5. current' \in {current, c.n} /\ current' >= current /\ current' >= c.n
  BY <1>1, <1>4, MaxOfTwo
<1>6. (\A d \in Pending' : d \in Pending) /\ \A d \in Pending : d \in Pending' \/ d = c
  BY <1>1, <1>2 DEF Pending
<1>7. \A d \in Pending' : d.n > c.n \/ d.n = stored
  <2>1. \A j \in DOMAIN untold : untold[j].change.n = stored
    BY DEF MirrorInv, LinesOK
  <2>2. QED
    BY <1>1, <1>2, <2>1 DEF Pending
<1>8. Hearing
  <2>1. \A e \in Pending', d \in Pending : d.n > e.n => d \in Pending'
    BY <1>4, <1>6, <1>7
  <2>2. QED
    BY <1>1, <1>4, <1>5, <1>6, <2>1 DEF Hearing
<1>9. HearsOK' /\ ReadsOK'
  BY <1>1, <1>8, HearsStay, ReadsStay DEF MirrorInv
<1>10. TranscriptOK'
  BY <1>1, <1>4, <1>5 DEF MirrorInv, TranscriptOK
<1>11. GapsOK'
  BY <1>1, GapsStay DEF MirrorInv
<1>12. ListedOnce(view)'
  BY <1>1, <1>3, ChangeListsOnce DEF MirrorInv, ViewOK
<1>13. ~missed' => current' >= 1 /\ lost' <= current'
  BY <1>1, <1>4, <1>5 DEF MirrorInv, ViewOK
<1>14. ASSUME ~missed', ~outOfTurn' PROVE Faithful(view)'
  <2>1. ~missed /\ ~outOfTurn /\ Faithful(view)
    BY <1>1, <1>14 DEF MirrorInv, ViewOK
  <2>2. c.n <= current + 1
    BY <1>0, <1>1, <1>2, <2>1, NextIsHeard
  <2>3. c.type = "message" => RowOK(c.row, 0)
    BY <1>3, <1>4, RowEarlier DEF MirrorInv, HearsOK
  <2>4. Shows(c)
    BY <1>3, <2>1, <2>2, <2>3, ChangeShows
  <2>5. ASSUME NEW r \in Range(ApplyChange(c)) PROVE RowOK(r, 0)'
    <3>1. RowOK(r, 0) /\ ~Kills(c, r.id) /\ (EditsRow(c, r.id) => r = c.row)
      BY <2>4 DEF Shows
    <3>2. CASE ~EditsRow(c, r.id)
      BY <1>1, <1>6, <3>1, <3>2, RowStays
    <3>3. CASE EditsRow(c, r.id)
      <4>1. r = c.row /\ \A q \in Range(rows) : q.id = r.id => q = r
        BY <1>3, <3>1, <3>3 DEF ChangeOK, EditsRow
      <4>2. r.id <= stored
        BY <3>1 DEF RowOK
      <4>3. KilledAfter(0, r.id) => KilledAfter(0, r.id)'
        <5>1. \A d \in Pending : Kills(d, r.id) => d \in Pending'
          BY <1>6, <3>1
        <5>2. QED
          BY <5>1 DEF KilledAfter, Kills
      <4>4. r.id \notin Ids(rows) => KilledAfter(0, r.id)'
        BY <3>1, <4>3 DEF RowOK
      <4>5. QED
        BY <1>1, <4>1, <4>2, <4>4 DEF RowOK
    <3>4. QED
      BY <3>2, <3>3
  <2>6. ASSUME NEW r \in Range(ApplyChange(c)) PROVE r.id <= current' + 1
    <3>1. ApplyChange(c) \in Seq(Row)
      BY <1>3, ApplyChangeTypes, TypeParts
    <3>2. r \in Row
      BY <2>6, <3>1, ElementIs DEF Range
    <3>3. r.id \in Nat /\ r.id <= current + 1
      BY <2>4, <2>6, <3>2, Numbers DEF Shows
    <3>4. current' \in Nat
      BY <1>4, <1>5
    <3>5. QED
      BY <1>4, <1>5, <3>3, <3>4
  <2>7. ASSUME NEW q \in Range(rows), q.id <= current' PROVE q.id \in Ids(ApplyChange(c))
    <3>1. q.id \in Nat
      BY Numbers
    <3>2. CASE q.id <= current
      BY <2>4, <3>2 DEF Shows
    <3>3. CASE q.id > current
      <4>1. q.id = c.n
        BY <1>4, <1>5, <2>2, <2>7, <3>1, <3>3
      <4>2. c.n \in Ids(rows)
        BY <4>1, IdsAre
      <4>3. c.type = "message"
        BY <1>3, <4>2 DEF ChangeOK
      <4>4. QED
        BY <2>4, <4>1, <4>3 DEF Shows
    <3>4. QED
      BY <1>4, <3>1, <3>2, <3>3
  <2>8. InOrder(view)'
    BY <1>1, <2>4 DEF Shows, InOrder
  <2>9. QED
    BY <1>1, <2>5, <2>6, <2>7, <2>8 DEF Faithful
<1>15. ViewOK'
  BY <1>12, <1>13, <1>14 DEF ViewOK
<1>16. QED
  BY <1>2, <1>9, <1>10, <1>11, <1>15 DEF MirrorInv

LEMMA ApplyReplyMirror ==
  ASSUME ThreadTypeOK, MirrorInv, ApplyReply PROVE MirrorInv'
<1>0. PICK c : c = Head(replies)
  OBVIOUS
<1>1. /\ UNCHANGED <<rows, stored, untold, link, wire, reads, lost, missed, current>>
      /\ replies # <<>> /\ replies' = Tail(replies)
      /\ view' = ApplyChange(c) /\ outOfTurn' = (outOfTurn \/ ReplyIsOutOfTurn(c))
  BY <1>0 DEF ApplyReply, serverVars
<1>2. replies \in Seq(Changes) /\ outOfTurn \in BOOLEAN
  BY DEF ThreadTypeOK
<1>3. /\ c \in Range(replies) /\ c \in Changes
      /\ \A d \in Range(replies)' : d \in Range(replies)
  <2>1. c = replies[1] /\ 1 \in DOMAIN replies /\ Range(Tail(replies)) \subseteq Range(replies)
    BY <1>0, <1>1, <1>2, TailIs
  <2>2. c \in Range(replies)
    BY <2>1 DEF Range
  <2>3. QED
    BY <1>1, <2>1, <2>2, Numbers
<1>4. ChangeOK(c) /\ (c.type = "message" => Passed(c.n) \/ RowOK(c.row, c.n))
  BY <1>3 DEF MirrorInv, HearsOK
<1>5. lost \in Nat /\ current \in Nat /\ stored \in Nat /\ c.n \in Nat
  BY <1>3, Numbers
<1>6. \A d : d \in Pending' <=> d \in Pending
  BY <1>1 DEF Pending, OnTheWire
<1>7. Hearing
  BY <1>1, <1>3, <1>5, <1>6 DEF Hearing
<1>8. HearsOK' /\ ReadsOK'
  BY <1>1, <1>7, HearsStay, ReadsStay DEF MirrorInv
<1>9. TranscriptOK' /\ GapsOK'
  BY <1>1, GapsStay DEF MirrorInv, TranscriptOK
<1>10. LinesOK'
  BY <1>1 DEF MirrorInv, LinesOK, WireInOrder, OnTheWire
<1>11. ListedOnce(view)'
  BY <1>1, <1>3, ChangeListsOnce DEF MirrorInv, ViewOK
<1>12. ~missed' => current' >= 1 /\ lost' <= current'
  BY <1>1 DEF MirrorInv, ViewOK
<1>13. ASSUME ~missed', ~outOfTurn' PROVE Faithful(view)'
  <2>1. ~missed /\ ~outOfTurn /\ ~ReplyIsOutOfTurn(c) /\ Faithful(view) /\ lost <= current
    BY <1>1, <1>2, <1>13 DEF MirrorInv, ViewOK
  <2>2. ASSUME c.type = "message" PROVE c.n <= current + 1 /\ RowOK(c.row, 0)
    <3>1. ~(c.n < current) /\ ~(c.n > current + 1)
      BY <2>1, <2>2 DEF ReplyIsOutOfTurn
    <3>2. ~Passed(c.n)
      BY <1>5, <2>1, <3>1 DEF Passed
    <3>3. RowOK(c.row, c.n)
      BY <1>4, <2>2, <3>2
    <3>4. QED
      BY <1>5, <3>1, <3>3, RowEarlier
  <2>3. Shows(c)
    BY <1>3, <1>4, <2>1, <2>2, ChangeShows
  <2>4. \A r \in Range(ApplyChange(c)) : r.id <= current + 1 /\ RowOK(r, 0)'
    BY <1>1, <1>6, <2>3, RowStays DEF Shows
  <2>5. \A q \in Range(rows) : q.id <= current => q.id \in Ids(ApplyChange(c))
    BY <2>3 DEF Shows
  <2>6. InOrder(view)'
    BY <1>1, <2>3 DEF Shows, InOrder
  <2>7. QED
    BY <1>1, <2>4, <2>5, <2>6 DEF Faithful
<1>14. ViewOK'
  BY <1>11, <1>12, <1>13 DEF ViewOK
<1>15. QED
  BY <1>8, <1>9, <1>10, <1>14 DEF MirrorInv

-----------------------------------------------------------------------------
(* What a stored change leaves true.                                        *)

\* A change is stored: a row comes last, one takes the place of another, or some
\* are taken out.
StoredAs(c) ==
  /\ stored' = stored + 1 /\ c \in Changes /\ c.n = stored + 1
  /\ untold = <<>> /\ \E own : untold' = <<[change |-> c, own |-> own]>>
  /\ UNCHANGED <<view, current, outOfTurn, link, wire, reads, replies, lost, missed>>
  /\ rows' \in Seq(Row) /\ Sorted(rows)'
  /\ c.type # "message" => c.of = NoPost
  /\ c.type = "message" =>
       /\ c.row = NewRow
       /\ \A q : q \in Range(rows)' <=> q \in Range(rows) \/ q = NewRow
  /\ c.type = "updated" =>
       /\ c.row.text = "edited" /\ c.row.id \in Ids(rows)
       /\ \A q : q \in Range(rows)' <=> (q \in Range(rows) /\ q.id # c.row.id) \/ q = c.row
  /\ c.type = "deleted" =>
       /\ \A k \in c.ids : k \in Ids(rows)
       /\ \A q : q \in Range(rows)' <=> q \in Range(rows) /\ q.id \notin c.ids

LEMMA StoredFacts ==
  ASSUME ThreadTypeOK, MirrorInv, NEW c, StoredAs(c)
  PROVE  /\ \A d : d \in Pending' <=> d \in Pending \/ d = c
         /\ OnTheWire' = OnTheWire /\ \A d : d \in Pending <=> d \in OnTheWire
         /\ c.type \in {"message", "updated", "deleted"} /\ c.row \in Row
         /\ \A q \in Range(rows) : q \in Row /\ q.id \in Nat /\ q.id <= stored
         /\ stored \in Nat /\ stored >= 1 /\ lost \in Nat /\ current \in Nat
         /\ NewRow.id = stored + 1 /\ NewRow.text = "first"
         /\ \A q \in Range(rows)' : q.id \in Nat /\ q.id <= stored + 1
<1>1. OnTheWire' = OnTheWire
  BY DEF StoredAs, OnTheWire
<1>2. \A d : d \in Pending <=> d \in OnTheWire
  BY DEF StoredAs, Pending
<1>3. \A d : d \in Pending' <=> d \in OnTheWire \/ d = c
  <2>1. PICK own : untold' = <<[change |-> c, own |-> own]>>
    BY DEF StoredAs
  <2>2. DOMAIN untold' = {1} /\ untold'[1].change = c
    BY <2>1
  <2>3. QED
    BY <1>1, <2>2 DEF Pending
<1>4. c.type \in {"message", "updated", "deleted"} /\ c.row \in Row
  BY DEF StoredAs, Changes
<1>5. /\ \A q \in Range(rows) : q \in Row /\ q.id \in Nat /\ q.id <= stored
      /\ stored \in Nat /\ stored >= 1 /\ lost \in Nat /\ current \in Nat
  BY Numbers DEF MirrorInv, TranscriptOK
<1>6. NewRow.id = stored + 1 /\ NewRow.text = "first"
  BY DEF NewRow
<1>7. ASSUME NEW q \in Range(rows)' PROVE q.id \in Nat /\ q.id <= stored + 1
  <2>1. CASE q \in Range(rows)
    BY <1>5, <2>1
  <2>2. CASE q = NewRow
    BY <1>5, <1>6, <2>2
  <2>3. CASE q = c.row /\ c.row.id \in Ids(rows)
    <3>1. PICK p \in Range(rows) : p.id = c.row.id
      BY <2>3, IdsAre
    <3>2. QED
      BY <1>5, <2>3, <3>1
  <2>4. QED
    BY <1>4, <2>1, <2>2, <2>3 DEF StoredAs
<1>8. QED
  BY <1>1, <1>2, <1>3, <1>4, <1>5, <1>6, <1>7

LEMMA RowStored ==
  ASSUME ThreadTypeOK, MirrorInv, NEW c, StoredAs(c), NEW r \in Row, NEW n \in Nat, n <= stored,
         RowOK(r, n)
  PROVE  RowOK(r, n)'
<1>1. /\ \A d : d \in Pending' <=> d \in Pending \/ d = c
      /\ c.type \in {"message", "updated", "deleted"} /\ c.row \in Row
      /\ stored \in Nat /\ NewRow.id = stored + 1
      /\ \A q \in Range(rows) : q \in Row /\ q.id \in Nat /\ q.id <= stored
  BY StoredFacts
<1>2. r.id \in Nat /\ r.id <= stored /\ r.text \in {"first", "edited"}
  BY Numbers DEF RowOK
<1>3. stored' = stored + 1 /\ c.n = stored + 1 /\ c.n > n /\ c \in Pending'
  BY <1>1 DEF StoredAs
<1>4. KilledAfter(n, r.id) => KilledAfter(n, r.id)'
  BY <1>1 DEF KilledAfter, Kills
<1>5. EditedAfter(n, r.id) => EditedAfter(n, r.id)'
  BY <1>1 DEF EditedAfter, EditsRow
<1>6. r.id <= stored'
  BY <1>1, <1>2, <1>3
<1>7. ASSUME r.id \notin Ids(rows)' PROVE KilledAfter(n, r.id)'
  <2>1. CASE r.id \notin Ids(rows)
    BY <1>4, <2>1 DEF RowOK
  <2>2. CASE r.id \in Ids(rows)
    <3>1. PICK q \in Range(rows) : q.id = r.id
      BY <2>2, IdsAre
    <3>2. \A p \in Range(rows)' : p.id # r.id
      BY <1>7 DEF Ids, Range
    <3>3. c.type = "deleted" /\ r.id \in c.ids
      BY <1>1, <3>1, <3>2 DEF StoredAs
    <3>4. QED
      BY <1>3, <3>3 DEF KilledAfter, Kills
  <2>3. QED
    BY <2>1, <2>2
<1>8. ASSUME NEW q \in Range(rows)', q.id = r.id, q # r
      PROVE  r.text = "first" /\ q.text = "edited" /\ EditedAfter(n, r.id)'
  <2>1. CASE q \in Range(rows)
    BY <1>5, <1>8, <2>1 DEF RowOK
  <2>2. CASE q = c.row /\ c.type = "updated"
    <3>1. q.text = "edited" /\ r.text # "edited"
      BY <1>1, <1>8, <2>2 DEF StoredAs, Row
    <3>2. EditedAfter(n, r.id)'
      BY <1>3, <1>8, <2>2 DEF EditedAfter, EditsRow
    <3>3. QED
      BY <1>2, <3>1, <3>2
  <2>3. CASE q = NewRow
    BY <1>1, <1>2, <1>8, <2>3
  <2>4. QED
    BY <1>1, <2>1, <2>2, <2>3 DEF StoredAs
<1>9. QED
  BY <1>6, <1>7, <1>8 DEF RowOK

LEMMA ChangeStored ==
  ASSUME ThreadTypeOK, MirrorInv, NEW c, StoredAs(c), NEW d \in Changes, ChangeOK(d) \/ d = c
  PROVE  ChangeOK(d)'
<1>1. /\ c.type \in {"message", "updated", "deleted"} /\ c.row \in Row
      /\ stored \in Nat /\ stored >= 1 /\ NewRow.id = stored + 1 /\ NewRow.text = "first"
      /\ \A q \in Range(rows) : q \in Row /\ q.id \in Nat /\ q.id <= stored
      /\ \A q \in Range(rows)' : q.id \in Nat /\ q.id <= stored + 1
  BY StoredFacts
<1>2. stored' = stored + 1 /\ c.n = stored + 1
  BY DEF StoredAs
<1>3. d.n \in Nat /\ d.row.id \in Nat /\ \A k \in d.ids : k \in Nat
  BY Numbers
<1>4. Ids(rows) = {q.id : q \in Range(rows)} /\ Ids(rows)' = {q.id : q \in Range(rows)'}
  BY DEF Ids, Range
<1>5. \A q \in Range(rows)' : (q = NewRow /\ c.type = "message")
        \/ (q = c.row /\ c.type = "updated" /\ c.row.id \in Ids(rows)) \/ q \in Range(rows)
  BY <1>1 DEF StoredAs
<1>6. \A q \in Range(rows)' : q.id \in Ids(rows) \/ (c.type = "message" /\ q.id = stored + 1)
  BY <1>1, <1>4, <1>5
<1>7. CASE ChangeOK(d)
  <2>1. d.n \in 2 .. stored' /\ d.n <= stored
    BY <1>1, <1>2, <1>7 DEF ChangeOK
  <2>2. d.type = "message" => d.row.id = d.n /\ d.row.text = "first"
    BY <1>7 DEF ChangeOK
  <2>3. ASSUME d.type # "message" PROVE d.of = NoPost /\ d.n \notin Ids(rows)'
    BY <1>1, <1>3, <1>4, <1>6, <1>7, <2>1, <2>3 DEF ChangeOK
  <2>4. ASSUME d.type = "updated"
        PROVE  /\ d.row.text = "edited" /\ d.row.id <= stored'
               /\ \A q \in Range(rows)' : q.id = d.row.id => q = d.row
    <3>1. d.row.text = "edited" /\ d.row.id <= stored /\ d.row \in Row
      BY <1>7, <2>4 DEF ChangeOK, Changes
    <3>2. ASSUME NEW q \in Range(rows)', q.id = d.row.id PROVE q = d.row
      <4>1. CASE q \in Range(rows)
        BY <1>7, <2>4, <3>2, <4>1 DEF ChangeOK
      <4>2. CASE q = NewRow
        BY <1>1, <1>3, <3>1, <3>2, <4>2
      <4>3. CASE q = c.row /\ c.type = "updated"
        <5>1. q \in Row /\ q.text = "edited"
          BY <1>1, <4>3 DEF StoredAs
        <5>2. QED
          BY <3>1, <3>2, <5>1 DEF Row
      <4>4. QED
        BY <1>5, <4>1, <4>2, <4>3
    <3>3. QED
      BY <1>1, <1>2, <1>3, <3>1, <3>2
  <2>5. ASSUME d.type = "deleted"
        PROVE  (\A k \in d.ids : k <= stored') /\ \A q \in Range(rows)' : q.id \notin d.ids
    <3>1. (\A k \in d.ids : k <= stored /\ k \in Nat) /\ \A q \in Range(rows) : q.id \notin d.ids
      BY <1>3, <1>7, <2>5 DEF ChangeOK
    <3>2. \A k \in d.ids : k <= stored' /\ k # stored + 1
      BY <1>1, <1>2, <3>1
    <3>3. QED
      BY <1>4, <1>6, <3>1, <3>2
  <2>6. QED
    BY <2>1, <2>2, <2>3, <2>4, <2>5 DEF ChangeOK
<1>8. CASE d = c
  <2>1. c.n \in 2 .. stored'
    BY <1>1, <1>2
  <2>2. c.type = "message" => c.row.id = c.n /\ c.row.text = "first"
    BY <1>1, <1>2 DEF StoredAs
  <2>3. ASSUME c.type # "message" PROVE c.of = NoPost /\ c.n \notin Ids(rows)'
    <3>1. \A q \in Range(rows) : q.id # stored + 1
      BY <1>1
    <3>2. QED
      BY <1>2, <1>4, <1>6, <2>3, <3>1 DEF StoredAs
  <2>4. ASSUME c.type = "updated"
        PROVE  /\ c.row.text = "edited" /\ c.row.id <= stored'
               /\ \A q \in Range(rows)' : q.id = c.row.id => q = c.row
    <3>1. c.row \in Range(rows)'
      BY <2>4 DEF StoredAs
    <3>2. QED
      BY <1>1, <1>2, <2>4, <3>1 DEF StoredAs
  <2>5. ASSUME c.type = "deleted"
        PROVE  (\A k \in c.ids : k <= stored') /\ \A q \in Range(rows)' : q.id \notin c.ids
    <3>1. \A k \in c.ids : k \in Nat /\ k <= stored
      BY <1>1, <1>4, <2>5 DEF StoredAs
    <3>2. QED
      BY <1>1, <1>2, <2>5, <3>1 DEF StoredAs
  <2>6. QED
    BY <1>8, <2>1, <2>2, <2>3, <2>4, <2>5 DEF ChangeOK
<1>9. QED
  BY <1>7, <1>8

LEMMA StoredMirror ==
  ASSUME ThreadTypeOK, MirrorInv, NEW c, StoredAs(c)
  PROVE  MirrorInv'
<1>1. /\ \A d : d \in Pending' <=> d \in Pending \/ d = c
      /\ OnTheWire' = OnTheWire /\ \A d : d \in Pending <=> d \in OnTheWire
      /\ c.type \in {"message", "updated", "deleted"} /\ c.row \in Row
      /\ \A q \in Range(rows) : q \in Row /\ q.id \in Nat /\ q.id <= stored
      /\ stored \in Nat /\ stored >= 1 /\ lost \in Nat /\ current \in Nat
      /\ NewRow.id = stored + 1 /\ NewRow.text = "first"
      /\ \A q \in Range(rows)' : q.id \in Nat /\ q.id <= stored + 1
  BY StoredFacts
<1>2. /\ UNCHANGED <<view, current, outOfTurn, link, wire, reads, replies, lost, missed>>
      /\ stored' = stored + 1 /\ c \in Changes /\ c.n = stored + 1 /\ Sorted(rows)' /\ untold = <<>>
  BY DEF StoredAs
<1>3. Ids(rows) = {q.id : q \in Range(rows)} /\ Ids(rows)' = {q.id : q \in Range(rows)'}
  BY DEF Ids, Range
<1>4. \A q \in Range(rows)' : q.id \in Ids(rows) \/ q.id = stored + 1
  BY <1>1, <1>3 DEF StoredAs
<1>5. \A n : Passed(n)' <=> Passed(n)
  BY <1>2 DEF Passed
<1>6. \A d \in Pending \cup Range(replies) : d \in Changes /\ ChangeOK(d) /\ d.n \in Nat
        /\ d.n <= stored /\ d.row \in Row
  BY Numbers DEF MirrorInv, HearsOK, ChangeOK
<1>7. TranscriptOK'
  BY <1>1, <1>2 DEF MirrorInv, TranscriptOK
<1>8. GapsOK'
  BY <1>2, GapsStay DEF MirrorInv
<1>9. LinesOK'
  <2>1. PICK own : untold' = <<[change |-> c, own |-> own]>>
    BY DEF StoredAs
  <2>2. Len(untold') = 1 /\ DOMAIN untold' = {1} /\ untold'[1].change = c
    BY <2>1
  <2>3. WireInOrder'
    BY <1>2 DEF MirrorInv, LinesOK, WireInOrder
  <2>4. \A d \in OnTheWire' : d.n < stored'
    BY <1>1, <1>2, <1>6
  <2>5. QED
    BY <1>2, <2>2, <2>3, <2>4 DEF MirrorInv, LinesOK
<1>10. HearsOK'
  <2>1. \A d \in Pending' \cup Range(replies)' : ChangeOK(d)'
    BY <1>1, <1>2, <1>6, ChangeStored
  <2>2. ASSUME NEW n \in 2 .. stored' PROVE Passed(n - 1)' \/ \E d \in Pending' : d.n = n
    <3>1. CASE n = stored + 1
      BY <1>1, <1>2, <3>1
    <3>2. CASE n \in 2 .. stored
      <4>1. Passed(n - 1) \/ \E d \in Pending : d.n = n
        BY <3>2 DEF MirrorInv, HearsOK
      <4>2. QED
        BY <1>1, <1>5, <4>1
    <3>3. QED
      BY <1>1, <1>2, <3>1, <3>2
  <2>3. ASSUME NEW d \in Pending', d.type = "message" PROVE RowOK(d.row, d.n)'
    <3>1. CASE d \in Pending
      BY <1>6, <2>3, <3>1, RowStored DEF MirrorInv, HearsOK
    <3>2. CASE d = c
      <4>1. c.row = NewRow /\ NewRow \in Range(rows)' /\ NewRow.id \in Ids(rows)'
        BY <1>3, <2>3, <3>2 DEF StoredAs
      <4>2. \A q \in Range(rows)' : q.id = stored + 1 => q = NewRow
        <5>1. \A q \in Range(rows) : q.id # stored + 1
          BY <1>1
        <5>2. QED
          BY <2>3, <3>2, <5>1 DEF StoredAs
      <4>3. NewRow.id <= stored'
        BY <1>1, <1>2
      <4>4. PICK r : r = NewRow
        OBVIOUS
      <4>5. RowOK(r, c.n)'
        BY <1>1, <4>1, <4>2, <4>3, <4>4 DEF RowOK
      <4>6. d.row = r
        BY <3>2, <4>1, <4>4
      <4>7. QED
        BY <3>2, <4>5, <4>6
    <3>3. QED
      BY <1>1, <2>3, <3>1, <3>2
  <2>4. ASSUME NEW d \in Range(replies)', d.type = "message" PROVE Passed(d.n)' \/ RowOK(d.row, d.n)'
    BY <1>2, <1>5, <1>6, <2>4, RowStored DEF MirrorInv, HearsOK
  <2>5. QED
    BY <2>1, <2>2, <2>3, <2>4 DEF HearsOK
<1>11. ReadsOK'
  <2>1. SUFFICES ASSUME NEW read \in Range(reads)', read.done PROVE ReadOK(read)'
    BY DEF ReadsOK, ReadOK
  <2>2. read \in Range(reads) /\ read \in Read
    BY <1>2, <2>1, Numbers
  <2>3. read.rows \in Seq(Row) /\ read.n \in Nat /\ \A r \in Range(read.rows) : r \in Row
    <3>1. read.rows \in Seq(Row) /\ read.n \in Nat
      BY <2>2, ThreadBoundsAssumption DEF Read
    <3>2. QED
      BY <3>1, ElementIs DEF Range
  <2>4. ReadOK(read)
    BY <2>2 DEF MirrorInv, ReadsOK
  <2>5. read.n \in 1 .. stored' /\ read.n <= stored
    BY <1>1, <1>2, <2>1, <2>4 DEF ReadOK
  <2>6. \A q \in Range(rows)' : q.id <= read.n => q.id \in Ids(read.rows)
    <3>1. ASSUME NEW q \in Range(rows)', q.id <= read.n PROVE q.id \in Ids(read.rows)
      <4>1. q.id \in Ids(rows)
        BY <1>1, <1>4, <2>3, <2>5, <3>1
      <4>2. PICK p \in Range(rows) : p.id = q.id
        BY <1>3, <4>1
      <4>3. QED
        BY <2>1, <2>4, <3>1, <4>2 DEF ReadOK
    <3>2. QED
      BY <3>1
  <2>7. Passed(read.n)' \/ \A r \in Range(read.rows) : RowOK(r, read.n)'
    BY <1>5, <2>1, <2>3, <2>4, <2>5, RowStored DEF ReadOK
  <2>8. QED
    BY <2>1, <2>4, <2>5, <2>6, <2>7 DEF ReadOK
<1>12. ViewOK'
  <2>1. ASSUME ~outOfTurn, ~missed PROVE Faithful(view)'
    <3>1. Faithful(view) /\ current <= stored
      BY <2>1 DEF MirrorInv, ViewOK, TranscriptOK
    <3>2. ASSUME NEW r \in Range(view) PROVE RowOK(r, 0)'
      <4>1. r \in Row /\ RowOK(r, 0) /\ 0 <= stored
        BY <1>1, <3>1, Numbers DEF Faithful
      <4>2. QED
        BY <4>1, RowStored
    <3>3. ASSUME NEW q \in Range(rows)', q.id <= current PROVE q.id \in Ids(view)
      <4>1. q.id \in Ids(rows)
        BY <1>1, <1>4, <3>1, <3>3
      <4>2. PICK p \in Range(rows) : p.id = q.id
        BY <1>3, <4>1
      <4>3. QED
        BY <3>1, <3>3, <4>2 DEF Faithful
    <3>4. ASSUME NEW i \in DOMAIN view, view[i].id \in Ids(rows)' PROVE view[i].id \in Ids(rows)
      <4>1. view[i] \in Range(view)
        BY DEF Range
      <4>2. view[i].id <= stored /\ view[i].id \in Nat
        BY <3>1, <4>1, Numbers DEF Faithful, RowOK
      <4>3. PICK q \in Range(rows)' : q.id = view[i].id
        BY <1>3, <3>4
      <4>4. QED
        BY <1>1, <1>4, <4>2, <4>3
    <3>5. InOrder(view)'
      BY <1>2, <3>1, <3>4 DEF Faithful, InOrder
    <3>6. QED
      BY <1>2, <3>1, <3>2, <3>3, <3>5 DEF Faithful
  <2>2. QED
    BY <1>2, <2>1 DEF MirrorInv, ViewOK
<1>13. QED
  BY <1>7, <1>8, <1>9, <1>10, <1>11, <1>12 DEF MirrorInv

-----------------------------------------------------------------------------
(* The steps that store a change, and all steps.                            *)

\* A row that is put last is the newest.
LEMMA AppendSorted ==
  ASSUME NEW list \in Seq(Row), Sorted(list), NEW row \in Row,
         \A q \in Range(list) : q.id < row.id
  PROVE  /\ Append(list, row) \in Seq(Row) /\ Sorted(Append(list, row))
         /\ \A q : q \in Range(Append(list, row)) <=> q \in Range(list) \/ q = row
<1> DEFINE new == Append(list, row)
<1>1. /\ DOMAIN new = 1 .. Len(list) + 1 /\ DOMAIN list = 1 .. Len(list) /\ Len(list) \in Nat
      /\ \A i \in DOMAIN list : new[i] = list[i]
      /\ new[Len(list) + 1] = row /\ new \in Seq(Row)
  OBVIOUS
<1> HIDE DEF new
<1>2. \A i \in DOMAIN new : i \in DOMAIN list \/ i = Len(list) + 1
  BY <1>1
<1>3. \A i \in DOMAIN list : i \in DOMAIN new
  BY <1>1
<1>4. Len(list) + 1 \in DOMAIN new
  BY <1>1
<1>5. \A q : q \in Range(new) <=> q \in Range(list) \/ q = row
  BY <1>1, <1>2, <1>3, <1>4 DEF Range
<1>6. Sorted(new)
  <2>1. SUFFICES ASSUME NEW i \in DOMAIN new, NEW j \in DOMAIN new, i < j
                 PROVE  new[i].id < new[j].id
    BY DEF Sorted
  <2>2. i \in DOMAIN list
    BY <1>1, <2>1
  <2>3. CASE j \in DOMAIN list
    BY <1>1, <2>1, <2>2, <2>3 DEF Sorted
  <2>4. CASE j = Len(list) + 1
    BY <1>1, <2>2, <2>4 DEF Range
  <2>5. QED
    BY <1>2, <2>3, <2>4
<1>7. QED
  BY <1>1, <1>5, <1>6 DEF new

\* A row that is put in the place of the one with its id stands where it stood.
LEMMA PutSorted ==
  ASSUME NEW list \in Seq(Row), Sorted(list), NEW k \in DOMAIN list, NEW row \in Row,
         row.id = list[k].id
  PROVE  /\ [list EXCEPT ![k] = row] \in Seq(Row) /\ Sorted([list EXCEPT ![k] = row])
         /\ \A q : q \in Range([list EXCEPT ![k] = row]) <=>
                     (q \in Range(list) /\ q.id # row.id) \/ q = row
<1> DEFINE new == [list EXCEPT ![k] = row]
<1>1. new \in Seq(Row) /\ DOMAIN new = DOMAIN list
      /\ \A i \in DOMAIN list : new[i] = IF i = k THEN row ELSE list[i]
  BY PutTypes
<1>2. ListedOnce(list)
  BY SortedOnce
<1> HIDE DEF new
<1>3. \A i \in DOMAIN list : new[i].id = list[i].id
  BY <1>1
<1>4. Sorted(new)
  BY <1>1, <1>3 DEF Sorted
<1>5. \A i \in DOMAIN list : list[i].id = row.id => i = k
  BY <1>2 DEF ListedOnce
<1>6. ASSUME NEW q \in Range(new) PROVE (q \in Range(list) /\ q.id # row.id) \/ q = row
  BY <1>1, <1>5 DEF Range
<1>7. ASSUME NEW q \in Range(list), q.id # row.id PROVE q \in Range(new)
  BY <1>1, <1>7 DEF Range
<1>8. row \in Range(new)
  BY <1>1 DEF Range
<1>9. QED
  BY <1>1, <1>4, <1>6, <1>7, <1>8 DEF new

LEMMA NewRowStored ==
  ASSUME ThreadTypeOK, MirrorInv, NEW of \in Posts \cup {NoPost}, NEW own,
         Store(Append(rows, NewRow), Message(NewRow, of), own),
         UNCHANGED <<view, current, outOfTurn, link, wire, reads, replies, lost, missed>>
  PROVE  StoredAs(Message(NewRow, of))
<1>1. /\ stored < MaxChanges /\ untold = <<>> /\ stored' = stored + 1
      /\ rows' = Append(rows, NewRow)
      /\ untold' = <<[change |-> Message(NewRow, of), own |-> own]>>
  BY DEF Store
<1>2. Message(NewRow, of) \in Changes /\ NewRow \in Row
  BY <1>1, ChangeTypes, TypeParts
<1>3. /\ Message(NewRow, of).n = stored + 1 /\ Message(NewRow, of).type = "message"
      /\ Message(NewRow, of).row = NewRow /\ NewRow.id = stored + 1
  BY DEF Message, NewRow
<1>4. rows \in Seq(Row) /\ Sorted(rows) /\ \A q \in Range(rows) : q.id < NewRow.id
  BY <1>3, Numbers DEF ThreadTypeOK, MirrorInv, TranscriptOK
<1>5. PICK row : row = NewRow
  OBVIOUS
<1>6. /\ rows' \in Seq(Row) /\ Sorted(rows')
      /\ \A q : q \in Range(rows') <=> q \in Range(rows) \/ q = row
  BY <1>1, <1>2, <1>4, <1>5, AppendSorted
<1>7. QED
  BY <1>1, <1>2, <1>3, <1>5, <1>6 DEF StoredAs

LEMMA EditStored ==
  ASSUME ThreadTypeOK, MirrorInv, NEW ask \in asks, NEW newRows, NEW c,
         EditStores(ask, newRows, c), Store(newRows, c, ask.own),
         UNCHANGED <<view, current, outOfTurn, link, wire, reads, replies, lost, missed>>
  PROVE  StoredAs(c)
<1>1. /\ stored < MaxChanges /\ untold = <<>> /\ stored' = stored + 1
      /\ rows' = newRows /\ untold' = <<[change |-> c, own |-> ask.own]>>
  BY DEF Store
<1>2. /\ rows \in Seq(Row) /\ Sorted(rows) /\ ask \in [kind : EditKinds, own : BOOLEAN, at : RowIds]
      /\ ServerTypes
  BY TypeParts DEF ThreadTypeOK, MirrorInv, TranscriptOK
<1>3. CASE newRows = Append(rows, NewRow) /\ c = Message(NewRow, NoPost)
  BY <1>3, NewRowStored
<1>4. CASE /\ ask.at \in Ids(rows)
           /\ newRows = [rows EXCEPT ![IndexOf(ask.at)] = [id |-> ask.at, text |-> "edited"]]
           /\ c = Updated([id |-> ask.at, text |-> "edited"])
  <2>0. PICK row : row = [id |-> ask.at, text |-> "edited"]
    OBVIOUS
  <2>1. row \in Row /\ row.id = ask.at /\ row.text = "edited"
    BY <1>2, <2>0 DEF Row
  <2>2. c \in Changes /\ c.n = stored + 1 /\ c.type = "updated" /\ c.row = row /\ c.of = NoPost
    <3>1. c = Updated(row)
      BY <1>4, <2>0
    <3>2. c \in Changes
      BY <1>1, <1>2, <2>1, <3>1, ChangeTypes
    <3>3. QED
      BY <3>1, <3>2 DEF Updated
  <2>3. PICK k \in DOMAIN rows : k = IndexOf(ask.at) /\ rows[k].id = row.id
    BY <1>4, <2>1, IndexIs
  <2>4. newRows = [rows EXCEPT ![k] = row]
    BY <1>4, <2>0, <2>3
  <2>5. /\ newRows \in Seq(Row) /\ Sorted(newRows)
        /\ \A q : q \in Range(newRows) <=> (q \in Range(rows) /\ q.id # row.id) \/ q = row
    <3>1. /\ [rows EXCEPT ![k] = row] \in Seq(Row) /\ Sorted([rows EXCEPT ![k] = row])
          /\ \A q : q \in Range([rows EXCEPT ![k] = row]) <=>
                      (q \in Range(rows) /\ q.id # row.id) \/ q = row
      BY <1>2, <2>1, <2>3, PutSorted, ZenonT(40)
    <3>2. QED
      BY <2>4, <3>1, Zenon
  <2>6. QED
    BY <1>1, <1>4, <2>1, <2>2, <2>5 DEF StoredAs
<1>5. CASE /\ ask.kind \in {"delete", "rewind", "clear"}
           /\ ask.kind # "clear" => ask.at \in Ids(rows)
           /\ newRows = Without(rows, Doomed(ask)) /\ c = Deleted(Doomed(ask))
  <2>1. Doomed(ask) \subseteq Ids(rows) /\ Doomed(ask) \in SUBSET RowIds
    BY <1>2, <1>5, DoomedIs
  <2>2. /\ c \in Changes /\ c.n = stored + 1 /\ c.type = "deleted" /\ c.ids = Doomed(ask)
        /\ c.of = NoPost
    <3>1. c \in Changes
      BY <1>1, <1>2, <1>5, <2>1, ChangeTypes
    <3>2. QED
      BY <1>5, <3>1 DEF Deleted
  <2>3. /\ newRows \in Seq(Row) /\ Sorted(newRows)
        /\ Range(newRows) = {r \in Range(rows) : r.id \notin Doomed(ask)}
    BY <1>2, <1>5, WithoutIs
  <2>4. QED
    BY <1>1, <2>1, <2>2, <2>3 DEF StoredAs
<1>6. QED
  BY <1>3, <1>4, <1>5 DEF EditStores

LEMMA StoresMirror ==
  ASSUME ThreadTypeOK, MirrorInv, StorePost \/ StoreReply \/ \E ask \in asks : RunEdit(ask)
  PROVE  MirrorInv'
<1>1. CASE StorePost
  <2>1. Head(batch) \in Posts
    BY <1>1, FirstIs DEF StorePost, ThreadTypeOK
  <2>2. UNCHANGED <<view, current, outOfTurn, link, wire, reads, replies, lost, missed>>
    BY <1>1 DEF StorePost, tabVars, netVars
  <2>3. Store(Append(rows, NewRow), Message(NewRow, Head(batch)), FALSE)
    BY <1>1 DEF StorePost
  <2>4. StoredAs(Message(NewRow, Head(batch)))
    BY <2>1, <2>2, <2>3, NewRowStored
  <2>5. PICK c : c = Message(NewRow, Head(batch))
    OBVIOUS
  <2>6. StoredAs(c)
    BY <2>4, <2>5
  <2>7. QED
    BY <2>6, StoredMirror
<1>2. CASE StoreReply
  <2>2. UNCHANGED <<view, current, outOfTurn, link, wire, reads, replies, lost, missed>>
    BY <1>2 DEF StoreReply, tabVars, netVars
  <2>3. Store(Append(rows, NewRow), Message(NewRow, NoPost), FALSE)
    BY <1>2 DEF StoreReply
  <2>4. StoredAs(Message(NewRow, NoPost))
    BY <2>2, <2>3, NewRowStored
  <2>5. PICK c : c = Message(NewRow, NoPost)
    OBVIOUS
  <2>6. StoredAs(c)
    BY <2>4, <2>5
  <2>7. QED
    BY <2>6, StoredMirror
<1>3. ASSUME NEW ask \in asks, RunEdit(ask) PROVE MirrorInv'
  <2>1. CASE UNCHANGED <<rows, stored, untold>>
    BY <1>3, <2>1, RefusedMirror
  <2>2. CASE \E newRows, c : EditStores(ask, newRows, c) /\ Store(newRows, c, ask.own)
    <3>1. PICK newRows, c : EditStores(ask, newRows, c) /\ Store(newRows, c, ask.own)
      BY <2>2
    <3>2. UNCHANGED <<view, current, outOfTurn, link, wire, reads, replies, lost, missed>>
      BY <1>3 DEF RunEdit, tabVars, netVars
    <3>3. QED
      BY <3>1, <3>2, EditStored, StoredMirror
  <2>3. QED
    BY <1>3, <2>1, <2>2, EditIs, TypeParts
<1>4. QED
  BY <1>1, <1>2, <1>3

LEMMA InitMirror ==
  ASSUME ThreadInit PROVE MirrorInv
<1>1. /\ rows = <<NoRow>> /\ stored = 1 /\ untold = <<>> /\ link = "connecting" /\ wire = <<>>
      /\ reads = <<NewRead("load")>> /\ replies = <<>> /\ view = <<>>
      /\ lost = 0 /\ missed = TRUE /\ current = 0
  BY DEF ThreadInit
<1>2. DOMAIN rows = {1} /\ rows[1].id = 1
  BY <1>1 DEF NoRow
<1>3. TranscriptOK
  BY <1>1, <1>2 DEF TranscriptOK, Sorted, Range
<1>4. OnTheWire = {} /\ WireInOrder
  BY <1>1, EmptyWire
<1>5. LinesOK
  BY <1>1, <1>4 DEF LinesOK
<1>6. Pending = {} /\ Range(replies) = {}
  BY <1>1, <1>4 DEF Pending, Range
<1>7. HearsOK
  BY <1>1, <1>6 DEF HearsOK
<1>8. DOMAIN reads = {1} /\ ~reads[1].done /\ reads[1].kind = "load"
  BY <1>1 DEF NewRead
<1>9. ReadsOK
  BY <1>8 DEF ReadsOK, ReadOK, Range
<1>10. ViewOK
  BY <1>1 DEF ViewOK, ListedOnce
<1>11. GapsOK
  BY <1>8 DEF GapsOK
<1>12. QED
  BY <1>3, <1>5, <1>7, <1>9, <1>10, <1>11 DEF MirrorInv

LEMMA NextMirror ==
  ASSUME ThreadTypeOK, MirrorInv, [ThreadNext]_threadVars PROVE MirrorInv'
<1>1. CASE UNCHANGED threadVars
  BY <1>1, StutterMirror
<1>2. CASE ThreadNext
  BY <1>2, ServerTurnsMirror, StoresMirror, PublishMirror, AnswerMirror, ApplyReadMirror,
     ReadFailsMirror, HandleChangeMirror, HandleStatusMirror, ApplyReplyMirror, SubscribeMirror,
     BreakMirror, RefetchMirror
     DEF ThreadNext
<1>3. QED
  BY <1>1, <1>2

-----------------------------------------------------------------------------
(* Every bubble waits for a row that comes.                                 *)

\* Every message that arrived stays so, and what it is to become is still to come,
\* or went past the tab.
Arriving ==
  /\ \A p \in Posts : Arrived(p) => Arrived(p)'
  /\ lost' \in Nat /\ lost' >= lost
ComingStays == \A p : Coming(p) => Coming(p)' \/ lost' > 0

LEMMA PostNumbers ==
  ASSUME ThreadTypeOK
  PROVE  /\ lost \in Nat
         /\ \A b \in Range(bubbles) : b.id \in Posts
         /\ \A p \in Range(waiting) \cup Range(batch) : p \in Posts
         /\ \A i \in DOMAIN wire : wire[i].type = "status" =>
              wire[i].queued \in Seq(Posts) /\ \A p \in Range(wire[i].queued) : p \in Posts
         /\ \A c \in Pending : c.n \in Nat
<1>1. lost \in Nat /\ \A c \in Pending : c.n \in Nat
  BY Numbers
<1>2. \A b \in Range(bubbles) : b.id \in Posts
  <2>1. \A b \in Range(bubbles) : b \in Bubble
    BY DEF ThreadTypeOK, Range
  <2>2. QED
    BY <2>1 DEF Bubble
<1>3. \A p \in Range(waiting) \cup Range(batch) : p \in Posts
  BY DEF ThreadTypeOK, Range
<1>4. ASSUME NEW i \in DOMAIN wire, wire[i].type = "status"
      PROVE  wire[i].queued \in Seq(Posts) /\ \A p \in Range(wire[i].queued) : p \in Posts
  <2>1. wire[i] \in Changes \cup Statuses
    BY ElementIs DEF ThreadTypeOK
  <2>2. \A c \in Changes : c.type # "status"
    BY DEF Changes
  <2>3. wire[i].queued \in Seq(Posts)
    BY <1>4, <2>1, <2>2 DEF Statuses
  <2>4. QED
    BY <2>3, ElementIs DEF Range
<1>5. QED
  BY <1>1, <1>2, <1>3, <1>4

LEMMA PostsSame ==
  ASSUME PostsOK, UNCHANGED <<post, waiting, batch, turn>> PROVE PostsOK'
BY DEF PostsOK, Arrived

LEMMA BubblesStay ==
  ASSUME ThreadTypeOK, BubblesOK, Arriving, ComingStays, ListedOnce(bubbles)',
         \A b \in Range(bubbles)' :
           \/ \E a \in Range(bubbles) : /\ a.id = b.id
                                        /\ post[a.id] = "sent" => post'[a.id] = "sent"
           \/ b.id \in PagePosts /\ post'[b.id] = "sent"
           \/ Arrived(b.id)' /\ (lost' > 0 \/ Coming(b.id)')
  PROVE  BubblesOK'
<1>1. lost \in Nat /\ lost' \in Nat /\ (lost > 0 => lost' > 0)
  BY Numbers DEF Arriving
<1>2. ASSUME NEW b \in Range(bubbles)', NEW a \in Range(bubbles), a.id = b.id,
             post[a.id] = "sent" => post'[a.id] = "sent"
      PROVE  \/ b.id \in PagePosts /\ post'[b.id] = "sent"
             \/ Arrived(b.id)' /\ (lost' > 0 \/ Coming(b.id)')
  <2>1. a.id \in Posts
    BY PostNumbers
  <2>2. CASE a.id \in PagePosts /\ post[a.id] = "sent"
    BY <1>2, <2>2
  <2>3. CASE Arrived(a.id) /\ (lost > 0 \/ Coming(a.id))
    BY <1>1, <1>2, <2>1, <2>3 DEF Arriving, ComingStays
  <2>4. QED
    BY <2>2, <2>3 DEF BubblesOK
<1>3. QED
  BY <1>2 DEF BubblesOK

StatusOK(queued, i) ==
  /\ \A k, l \in DOMAIN queued : queued[k] = queued[l] => k = l
  /\ \A p \in Range(queued) : Arrived(p) /\ (lost > 0 \/ ComingAfter(p, i))

LEMMA StatusesStay ==
  ASSUME ThreadTypeOK, StatusesOK, Arriving,
         \A i \in DOMAIN wire' : wire'[i].type = "status" =>
           \/ \E k \in DOMAIN wire :
                wire[k] = wire'[i] /\ \A p : ComingAfter(p, k) => ComingAfter(p, i)' \/ lost' > 0
           \/ StatusOK(wire[i].queued, i)'
  PROVE  StatusesOK'
<1>1. lost \in Nat /\ lost' \in Nat /\ (lost > 0 => lost' > 0)
  BY Numbers DEF Arriving
<1>2. ASSUME NEW i \in DOMAIN wire', wire'[i].type = "status" PROVE StatusOK(wire[i].queued, i)'
  <2>1. CASE \E k \in DOMAIN wire :
               wire[k] = wire'[i] /\ \A p : ComingAfter(p, k) => ComingAfter(p, i)' \/ lost' > 0
    <3>1. PICK k \in DOMAIN wire :
            wire[k] = wire'[i] /\ \A p : ComingAfter(p, k) => ComingAfter(p, i)' \/ lost' > 0
      BY <2>1
    <3>2. /\ \A m, l \in DOMAIN wire[k].queued : wire[k].queued[m] = wire[k].queued[l] => m = l
          /\ \A p \in Range(wire[k].queued) : Arrived(p) /\ (lost > 0 \/ ComingAfter(p, k))
      BY <1>2, <3>1 DEF StatusesOK
    <3>3. \A p \in Range(wire[k].queued) : p \in Posts
      BY <1>2, <3>1, PostNumbers
    <3>4. \A p \in Range(wire[k].queued) : Arrived(p)' /\ (lost' > 0 \/ ComingAfter(p, i)')
      BY <1>1, <3>1, <3>2, <3>3 DEF Arriving
    <3>5. QED
      BY <3>1, <3>2, <3>4 DEF StatusOK
  <2>2. CASE StatusOK(wire[i].queued, i)'
    BY <2>2
  <2>3. QED
    BY <1>2, <2>1, <2>2
<1>3. QED
  BY <1>2 DEF StatusesOK, StatusOK

\* A status that is published tells what waits.
LEMMA ToldStatuses ==
  ASSUME ThreadTypeOK, StatusesOK, Arriving, NEW running, NEW queued,
         PublishStatus(running, queued) \/ wire' = wire,
         \A p : p \in Range(waiting) \cup Range(batch) => p \in Range(waiting)' \cup Range(batch)',
         UNCHANGED untold,
         wire' # wire => /\ \A k, l \in DOMAIN queued : queued[k] = queued[l] => k = l
                         /\ \A p \in Range(queued) : Arrived(p)' /\ p \in Range(waiting)' \cup Range(batch)'
  PROVE  StatusesOK'
<1>1. wire \in Seq(Changes \cup Statuses)
  BY DEF ThreadTypeOK
<1>2. CASE wire' = wire
  <2>1. \A p, i : ComingAfter(p, i) => ComingAfter(p, i)'
    BY <1>2 DEF ComingAfter
  <2>2. QED
    BY <1>2, <2>1, StatusesStay
<1>3. CASE wire' # wire
  <2>0. PICK s : s = [type |-> "status", running |-> running, queued |-> queued]
    OBVIOUS
  <2>1. wire' = Append(wire, s) /\ s.queued = queued
    BY <1>3, <2>0 DEF PublishStatus
  <2>2. /\ DOMAIN wire' = 1 .. Len(wire) + 1 /\ DOMAIN wire = 1 .. Len(wire) /\ Len(wire) \in Nat
        /\ \A i \in DOMAIN wire : wire'[i] = wire[i] /\ i \in DOMAIN wire'
        /\ wire'[Len(wire) + 1] = s
    BY <1>1, <2>1
  <2>3. \A p, i : ComingAfter(p, i) => ComingAfter(p, i)'
    BY <2>2 DEF ComingAfter
  <2>4. \A i \in DOMAIN wire' : i \in DOMAIN wire \/ wire'[i] = s
    BY <2>2
  <2>5. ASSUME NEW i \in DOMAIN wire', wire'[i] = s PROVE StatusOK(wire[i].queued, i)'
    BY <1>3, <2>1, <2>5 DEF StatusOK, ComingAfter
  <2>6. QED
    BY <2>2, <2>3, <2>4, <2>5, StatusesStay
<1>4. QED
  BY <1>2, <1>3

LEMMA ComingSame ==
  ASSUME \A p : p \in Range(waiting) \cup Range(batch) => p \in Range(waiting)' \cup Range(batch)',
         \A c \in Pending : c \in Pending'
  PROVE  ComingStays
BY DEF ComingStays, Coming

-----------------------------------------------------------------------------
(* The steps of the server ...                                              *)

LEMMA EnqueuePosts ==
  ASSUME ThreadTypeOK, PostsInv, NEW p \in Posts, Enqueue(p) PROVE PostsInv'
<1>1. /\ UNCHANGED <<batch, untold, bubbles, lost>>
      /\ post[p] = (IF p \in PagePosts THEN "sent" ELSE "out")
      /\ post' = [post EXCEPT ![p] = IF p \in PagePosts THEN "accepted" ELSE "answered"]
      /\ waiting' = Append(waiting, p)
      /\ turn' = (IF turn = "idle" THEN "between" ELSE turn)
      /\ PublishStatus(TRUE, waiting')
  BY DEF Enqueue, tabVars
<1>2. /\ waiting \in Seq(Posts) /\ post \in [Posts -> PostStates] /\ lost \in Nat
      /\ turn \in {"idle", "between", "turn"}
  BY Numbers DEF ThreadTypeOK, PostStates
<1>3. /\ DOMAIN waiting' = 1 .. Len(waiting) + 1 /\ DOMAIN waiting = 1 .. Len(waiting)
      /\ Len(waiting) \in Nat /\ waiting'[Len(waiting) + 1] = p
      /\ \A i \in DOMAIN waiting : waiting'[i] = waiting[i] /\ i \in DOMAIN waiting'
  BY <1>1, <1>2
<1>4. \A i \in DOMAIN waiting' : i \in DOMAIN waiting \/ i = Len(waiting) + 1
  BY <1>3
<1>5. \A q : q \in Range(waiting)' <=> q \in Range(waiting) \/ q = p
  <2>1. \A q \in Range(waiting) : q \in Range(waiting)'
    BY <1>3 DEF Range
  <2>2. p \in Range(waiting)'
    <3>1. Len(waiting) + 1 \in DOMAIN waiting'
      BY <1>3
    <3>2. QED
      BY <1>3, <3>1 DEF Range
  <2>3. \A q \in Range(waiting)' : q \in Range(waiting) \/ q = p
    BY <1>3, <1>4 DEF Range
  <2>4. QED
    BY <2>1, <2>2, <2>3
<1>6. /\ Arrived(p)' /\ ~Arrived(p)
      /\ \A q \in Posts : q # p => post'[q] = post[q]
      /\ \A q \in Posts : Arrived(q) => Arrived(q)'
  BY <1>1, <1>2 DEF Arrived
<1>7. Arriving
  BY <1>1, <1>2, <1>6 DEF Arriving
<1>8. p \notin Range(waiting)
  BY <1>6 DEF PostsInv, PostsOK
<1>9. PostsOK'
  <2>1. turn' # "idle" /\ (turn' # "turn" => batch' = <<>>)
    BY <1>1, <1>2 DEF PostsInv, PostsOK
  <2>2. \A i, j \in DOMAIN waiting' : waiting'[i] = waiting'[j] => i = j
    <3>1. \A i \in DOMAIN waiting : waiting[i] # p
      BY <1>8 DEF Range
    <3>2. \A i, j \in DOMAIN waiting : waiting[i] = waiting[j] => i = j
      BY DEF PostsInv, PostsOK
    <3>3. QED
      BY <1>3, <1>4, <3>1, <3>2
  <2>3. \A q \in Range(waiting)' \cup Range(batch)' : Arrived(q)'
    <3>1. \A q \in Range(waiting) \cup Range(batch) : q \in Posts /\ Arrived(q)
      BY PostNumbers DEF PostsInv, PostsOK
    <3>2. QED
      BY <1>1, <1>5, <1>6, <3>1
  <2>4. QED
    BY <2>1, <2>2, <2>3 DEF PostsOK
<1>10. StatusesOK'
  <2>1. /\ \A k, l \in DOMAIN waiting' : waiting'[k] = waiting'[l] => k = l
        /\ \A q \in Range(waiting)' : Arrived(q)'
    BY <1>9 DEF PostsOK
  <2>2. \A q : q \in Range(waiting) \cup Range(batch) => q \in Range(waiting)' \cup Range(batch)'
    BY <1>1, <1>5
  <2>3. PICK queued : queued = waiting'
    OBVIOUS
  <2>4. PublishStatus(TRUE, queued) /\ Range(queued) = Range(waiting)'
    BY <1>1, <2>3
  <2>5. QED
    BY <1>1, <1>7, <2>1, <2>2, <2>3, <2>4, ToldStatuses DEF PostsInv
<1>11. BubblesOK'
  <2>1. wire' = wire \/ wire' = Append(wire, [type |-> "status", running |-> TRUE, queued |-> waiting'])
    BY <1>1 DEF PublishStatus
  <2>2. \A c \in Pending : c \in Pending'
    <3>1. wire \in Seq(Changes \cup Statuses)
      BY DEF ThreadTypeOK
    <3>2. \A c \in Range(wire) : c \in Range(wire)'
      BY <2>1, <3>1 DEF Range
    <3>3. QED
      BY <1>1, <3>2 DEF Pending, OnTheWire
  <2>3. \A q : q \in Range(waiting) \cup Range(batch) => q \in Range(waiting)' \cup Range(batch)'
    BY <1>1, <1>5
  <2>4. ComingStays
    BY <2>2, <2>3, ComingSame
  <2>5. Coming(p)'
    BY <1>5 DEF Coming
  <2>6. \A b \in Range(bubbles)' : b \in Range(bubbles) /\ b.id \in Posts
    BY <1>1, PostNumbers
  <2>7. \A b \in Range(bubbles)' : (post[b.id] = "sent" => post'[b.id] = "sent")
                                   \/ (Arrived(b.id)' /\ Coming(b.id)')
    BY <1>6, <2>5, <2>6
  <2>8. ListedOnce(bubbles)'
    BY <1>1 DEF PostsInv, BubblesOK
  <2>9. QED
    BY <1>7, <2>4, <2>6, <2>7, <2>8, BubblesStay DEF PostsInv
<1>12. QED
  BY <1>9, <1>10, <1>11 DEF PostsInv

\* A step of the server or of the network, which leaves the posts and the bubbles.
LEMMA QuietPosts ==
  ASSUME ThreadTypeOK, PostsInv, PostsOK',
         UNCHANGED <<post, bubbles>>, lost' \in Nat, lost' >= lost, ComingStays, StatusesOK'
  PROVE  PostsInv'
<1>1. Arriving
  BY DEF Arriving, Arrived
<1>2. ListedOnce(bubbles)'
  BY DEF PostsInv, BubblesOK
<1>3. BubblesOK'
  BY <1>1, <1>2, BubblesStay DEF PostsInv
<1>4. QED
  BY <1>3 DEF PostsInv

LEMMA WireGrows ==
  ASSUME ThreadTypeOK, NEW running, NEW queued, PublishStatus(running, queued) \/ wire' = wire,
         UNCHANGED untold
  PROVE  \A c \in Pending : c \in Pending'
<1>1. wire \in Seq(Changes \cup Statuses)
  BY DEF ThreadTypeOK
<1>2. PICK s : s = [type |-> "status", running |-> running, queued |-> queued]
  OBVIOUS
<1>3. wire' = wire \/ wire' = Append(wire, s)
  BY <1>2 DEF PublishStatus
<1>4. \A c \in Range(wire) : c \in Range(wire)'
  BY <1>1, <1>3 DEF Range
<1>5. QED
  BY <1>4 DEF Pending, OnTheWire

LEMMA TakePostsPosts ==
  ASSUME ThreadTypeOK, PostsInv, NEW k \in 1 .. Len(waiting), TakePosts(k) PROVE PostsInv'
<1>1. /\ UNCHANGED <<untold, bubbles, lost, post>>
      /\ batch = <<>> /\ turn' = "turn"
      /\ batch' = SubSeq(waiting, 1, k) /\ waiting' = SubSeq(waiting, k + 1, Len(waiting))
      /\ PublishStatus(TRUE, waiting')
  BY DEF TakePosts, tabVars
<1>2. waiting \in Seq(Posts) /\ lost \in Nat /\ Len(waiting) \in Nat /\ k \in Nat
  BY Numbers DEF ThreadTypeOK
<1>3. /\ DOMAIN batch' = 1 .. k /\ \A i \in 1 .. k : batch'[i] = waiting[i]
      /\ DOMAIN waiting' = 1 .. Len(waiting) - k
      /\ \A i \in 1 .. Len(waiting) - k : waiting'[i] = waiting[i + k]
      /\ DOMAIN waiting = 1 .. Len(waiting)
  BY <1>1, <1>2
<1>4. /\ \A i \in DOMAIN batch' : i \in DOMAIN waiting
      /\ \A i \in DOMAIN waiting' : i + k \in DOMAIN waiting
      /\ \A i \in DOMAIN waiting : i \in DOMAIN batch' \/ i - k \in DOMAIN waiting'
  BY <1>2, <1>3
<1>5. \A q : q \in Range(waiting)' \cup Range(batch)' => q \in Range(waiting)
  BY <1>3, <1>4 DEF Range
<1>6. \A q \in Range(waiting) : q \in Range(waiting)' \cup Range(batch)'
  <2>1. ASSUME NEW i \in DOMAIN waiting PROVE waiting[i] \in Range(waiting)' \cup Range(batch)'
    <3>1. CASE i \in DOMAIN batch'
      BY <1>3, <3>1 DEF Range
    <3>2. CASE i - k \in DOMAIN waiting'
      <4>1. (i - k) + k = i
        BY <1>2, <1>3
      <4>2. waiting'[i - k] = waiting[i]
        BY <1>3, <3>2, <4>1
      <4>3. QED
        BY <3>2, <4>2 DEF Range
    <3>3. QED
      BY <1>4, <3>1, <3>2
  <2>2. QED
    BY <2>1 DEF Range
<1>7. Range(batch) = {}
  BY <1>1 DEF Range
<1>8. \A i, j \in DOMAIN waiting' : waiting'[i] = waiting'[j] => i = j
  <2>1. SUFFICES ASSUME NEW i \in DOMAIN waiting', NEW j \in DOMAIN waiting', waiting'[i] = waiting'[j]
                 PROVE  i = j
    OBVIOUS
  <2>2. waiting[i + k] = waiting[j + k] /\ i + k \in DOMAIN waiting /\ j + k \in DOMAIN waiting
    BY <1>3, <1>4, <2>1
  <2>3. i + k = j + k
    BY <2>2 DEF PostsInv, PostsOK
  <2>4. QED
    BY <1>2, <1>3, <2>3
<1>9. PostsOK'
  <2>1. \A q \in Range(waiting)' \cup Range(batch)' : Arrived(q)'
    BY <1>1, <1>5 DEF PostsInv, PostsOK, Arrived
  <2>2. QED
    BY <1>1, <1>8, <2>1 DEF PostsOK
<1>10. \A q : q \in Range(waiting) \cup Range(batch) => q \in Range(waiting)' \cup Range(batch)'
  BY <1>6, <1>7
<1>11. PICK queued : queued = waiting'
  OBVIOUS
<1>12. PublishStatus(TRUE, queued) /\ Range(queued) = Range(waiting)'
  BY <1>1, <1>11
<1>13. StatusesOK'
  <2>1. Arriving
    BY <1>1, <1>2 DEF Arriving, Arrived
  <2>2. \A q \in Range(waiting)' : Arrived(q)'
    BY <1>9 DEF PostsOK
  <2>3. QED
    BY <1>1, <1>8, <1>10, <1>11, <1>12, <2>1, <2>2, ToldStatuses DEF PostsInv
<1>14. ComingStays
  <2>1. \A c \in Pending : c \in Pending'
    BY <1>1, <1>12, WireGrows
  <2>2. QED
    BY <1>10, <2>1, ComingSame
<1>15. lost' \in Nat /\ lost' >= lost
  BY <1>1, <1>2
<1>16. QED
  BY <1>1, <1>9, <1>13, <1>14, <1>15, QuietPosts

LEMMA EndOfTurnPosts ==
  ASSUME ThreadTypeOK, PostsInv, EndOfTurn PROVE PostsInv'
<1>1. /\ UNCHANGED <<untold, bubbles, lost, post, waiting, batch>>
      /\ batch = <<>> /\ turn' = IF waiting = <<>> THEN "idle" ELSE "between"
      /\ (waiting = <<>> /\ PublishStatus(FALSE, waiting)) \/ wire' = wire
  BY DEF EndOfTurn, tabVars
<1>2. lost \in Nat
  BY Numbers
<1>3. PostsOK'
  BY <1>1 DEF PostsInv, PostsOK, Arrived
<1>4. StatusesOK'
  <2>1. Arriving
    BY <1>1, <1>2 DEF Arriving, Arrived
  <2>2. PICK queued : queued = waiting
    OBVIOUS
  <2>3. PublishStatus(FALSE, queued) \/ wire' = wire
    BY <1>1, <2>2
  <2>4. ASSUME wire' # wire PROVE DOMAIN queued = {} /\ Range(queued) = {}
    <3>1. queued = <<>>
      BY <1>1, <2>2, <2>4
    <3>2. DOMAIN queued = {}
      BY <3>1
    <3>3. QED
      BY <3>2 DEF Range
  <2>5. QED
    BY <1>1, <2>1, <2>3, <2>4, ToldStatuses DEF PostsInv
<1>5. ComingStays
  <2>1. \A c \in Pending : c \in Pending'
    BY <1>1, WireGrows
  <2>2. QED
    BY <1>1, <2>1, ComingSame
<1>6. lost' \in Nat /\ lost' >= lost
  BY <1>1, <1>2
<1>7. QED
  BY <1>1, <1>3, <1>4, <1>5, <1>6, QuietPosts

\* A step that neither publishes nor takes anything from the wire.
LEMMA SameWire ==
  ASSUME ThreadTypeOK, PostsInv, UNCHANGED <<post, bubbles, lost, wire, waiting, batch, turn>>,
         \A i \in DOMAIN untold : \E j \in DOMAIN untold' : untold'[j].change = untold[i].change
  PROVE  PostsInv'
<1>1. lost \in Nat
  BY Numbers
<1>2. PostsOK'
  BY PostsSame DEF PostsInv
<1>3. \A p, i : ComingAfter(p, i) => ComingAfter(p, i)'
  BY DEF ComingAfter
<1>4. StatusesOK'
  <2>1. Arriving
    BY <1>1 DEF Arriving, Arrived
  <2>2. QED
    BY <1>3, <2>1, StatusesStay DEF PostsInv
<1>5. ComingStays
  <2>1. \A c \in Pending : c \in Pending'
    BY DEF Pending, OnTheWire
  <2>2. QED
    BY <2>1, ComingSame
<1>6. QED
  BY <1>1, <1>2, <1>4, <1>5, QuietPosts

LEMMA SameWireSteps ==
  ASSUME ThreadTypeOK, PostsInv,
         \/ StoreReply \/ (\E ask \in asks : RunEdit(ask)) \/ (\E e \in Edits : AskEdit(e))
         \/ (\E i \in DOMAIN reads : Answer(i) \/ ApplyRead(i) \/ ReadFails(i))
         \/ ApplyReply \/ Refetch \/ UNCHANGED threadVars
  PROVE  PostsInv'
<1>1. CASE StoreReply
  <2>1. untold = <<>> /\ UNCHANGED <<post, bubbles, lost, wire, waiting, batch, turn>>
    BY <1>1 DEF StoreReply, Store, tabVars, netVars
  <2>2. QED
    BY <2>1, SameWire
<1>2. ASSUME NEW ask \in asks, RunEdit(ask) PROVE PostsInv'
  <2>1. UNCHANGED <<post, bubbles, lost, wire, waiting, batch, turn>>
    BY <1>2 DEF RunEdit, tabVars, netVars
  <2>2. untold' = untold \/ untold = <<>>
    BY <1>2, EditIs, TypeParts DEF Store
  <2>3. QED
    BY <2>1, <2>2, SameWire
<1>3. CASE UNCHANGED <<post, bubbles, lost, wire, waiting, batch, turn, untold>>
  BY <1>3, SameWire
<1>4. CASE \E e \in Edits : AskEdit(e)
  BY <1>3, <1>4 DEF AskEdit, tabVars, netVars
<1>5. ASSUME NEW i \in DOMAIN reads, Answer(i) \/ ApplyRead(i) \/ ReadFails(i) PROVE PostsInv'
  BY <1>3, <1>5 DEF Answer, ApplyRead, ReadFails, tabVars, serverVars
<1>6. CASE ApplyReply \/ Refetch
  BY <1>3, <1>6 DEF ApplyReply, Refetch, tabVars, serverVars
<1>7. CASE UNCHANGED threadVars
  BY <1>3, <1>7 DEF threadVars, serverVars, tabVars, netVars
<1>8. QED
  BY <1>1, <1>2, <1>4, <1>5, <1>6, <1>7

-----------------------------------------------------------------------------
(* ... and those of the tab.                                                *)

LEMMA StorePostPosts ==
  ASSUME ThreadTypeOK, PostsInv, StorePost PROVE PostsInv'
<1>0. PICK c : c = Message(NewRow, Head(batch))
  OBVIOUS
<1>1. /\ UNCHANGED <<post, bubbles, lost, wire, waiting, turn>>
      /\ batch # <<>> /\ batch' = Tail(batch) /\ untold = <<>>
      /\ untold' = <<[change |-> c, own |-> FALSE]>>
  BY <1>0 DEF StorePost, Store, tabVars, netVars
<1>2. lost \in Nat /\ batch \in Seq(Posts) /\ turn \in {"idle", "between", "turn"}
  BY Numbers DEF ThreadTypeOK
<1>3. /\ \A p \in Range(batch)' : p \in Range(batch)
      /\ \A p \in Range(batch) : p = Head(batch) \/ p \in Range(batch)'
  BY <1>1, <1>2, TailIs
<1>4. DOMAIN untold' = {1} /\ untold'[1].change = c /\ c.of = Head(batch)
  <2>1. DOMAIN untold' = {1} /\ untold'[1].change = c
    BY <1>1
  <2>2. c.of = Head(batch)
    BY <1>0 DEF Message
  <2>3. QED
    BY <2>1, <2>2
<1>5. c \in Pending'
  BY <1>4 DEF Pending
<1>6. PostsOK'
  <2>1. turn = "turn"
    BY <1>1 DEF PostsInv, PostsOK
  <2>2. QED
    BY <1>1, <1>3, <2>1 DEF PostsInv, PostsOK, Arrived
<1>7. \A p, i : ComingAfter(p, i) => ComingAfter(p, i)'
  BY <1>1, <1>3, <1>4 DEF ComingAfter
<1>8. StatusesOK'
  <2>1. Arriving
    BY <1>1, <1>2 DEF Arriving, Arrived
  <2>2. QED
    BY <1>1, <1>7, <2>1, StatusesStay DEF PostsInv
<1>9. ComingStays
  <2>1. \A d \in Pending : d \in Pending'
    BY <1>1 DEF Pending, OnTheWire
  <2>2. QED
    BY <1>1, <1>3, <1>4, <1>5, <2>1 DEF ComingStays, Coming
<1>10. QED
  BY <1>1, <1>2, <1>6, <1>8, <1>9, QuietPosts

LEMMA PublishPosts ==
  ASSUME ThreadTypeOK, MirrorInv, PostsInv, Publish PROVE PostsInv'
<1>0. PICK c : c = untold[1].change
  OBVIOUS
<1>1. /\ UNCHANGED <<post, bubbles, waiting, batch, turn>>
      /\ untold # <<>> /\ untold' = <<>>
      /\ wire' = IF link = "open" THEN Append(wire, c) ELSE wire
      /\ lost' = IF link = "open" THEN lost ELSE c.n
  BY <1>0 DEF Publish, tabVars
<1>2. /\ c.n = stored /\ c \in Pending /\ c \in Changes
      /\ \A i \in DOMAIN untold : untold[i].change = c
  BY <1>0, <1>1, UntoldIs DEF MirrorInv, LinesOK
<1>3. /\ lost \in Nat /\ stored \in Nat /\ lost <= stored /\ stored >= 1
      /\ wire \in Seq(Changes \cup Statuses) /\ c.type # "status"
  BY <1>2, Numbers DEF ThreadTypeOK, Changes, MirrorInv, TranscriptOK
<1>4. PostsOK'
  BY <1>1, PostsSame DEF PostsInv
<1>5. lost' \in Nat /\ lost' >= lost
  BY <1>1, <1>2, <1>3
<1>6. Arriving
  BY <1>1, <1>5 DEF Arriving, Arrived
<1>7. CASE link = "open"
  <2>1. /\ DOMAIN wire' = 1 .. Len(wire) + 1 /\ DOMAIN wire = 1 .. Len(wire) /\ Len(wire) \in Nat
        /\ wire'[Len(wire) + 1] = c
        /\ \A i \in DOMAIN wire : wire'[i] = wire[i] /\ i \in DOMAIN wire' /\ Len(wire) + 1 > i
    BY <1>1, <1>3, <1>7
  <2>2. \A i \in DOMAIN wire' : i \in DOMAIN wire \/ wire'[i] = c
    BY <2>1
  <2>3. ASSUME NEW p, NEW i \in DOMAIN wire, ComingAfter(p, i) PROVE ComingAfter(p, i)'
    <3>1. CASE p \in Range(waiting) \cup Range(batch)
      BY <1>1, <3>1 DEF ComingAfter
    <3>2. CASE \E j \in DOMAIN untold : untold[j].change.of = p
      <4>1. c.of = p /\ Len(wire) + 1 \in DOMAIN wire'
        BY <1>2, <2>1, <3>2
      <4>2. QED
        BY <1>3, <2>1, <4>1 DEF ComingAfter
    <3>3. CASE \E j \in DOMAIN wire : j > i /\ wire[j].type # "status" /\ wire[j].of = p
      BY <2>1, <3>3 DEF ComingAfter
    <3>4. QED
      BY <2>3, <3>1, <3>2, <3>3 DEF ComingAfter
  <2>4. StatusesOK'
    BY <1>3, <1>6, <2>1, <2>2, <2>3, StatusesStay DEF PostsInv
  <2>5. ComingStays
    <3>1. \A d \in OnTheWire : d \in OnTheWire'
      BY <2>1 DEF OnTheWire, Range
    <3>2. c \in OnTheWire'
      <4>1. Len(wire) + 1 \in DOMAIN wire'
        BY <2>1
      <4>2. QED
        BY <1>3, <2>1, <4>1 DEF OnTheWire, Range
    <3>3. \A d \in Pending : d \in Pending'
      BY <1>2, <3>1, <3>2 DEF Pending
    <3>4. QED
      BY <1>1, <3>3, ComingSame
  <2>6. QED
    BY <1>1, <1>4, <1>5, <2>4, <2>5, QuietPosts
<1>8. CASE link # "open"
  <2>1. wire' = <<>> /\ lost' > 0
    BY <1>1, <1>2, <1>3, <1>8 DEF MirrorInv, LinesOK
  <2>2. StatusesOK'
    BY <2>1 DEF StatusesOK
  <2>3. ComingStays
    BY <2>1 DEF ComingStays
  <2>4. QED
    BY <1>1, <1>4, <1>5, <2>2, <2>3, QuietPosts
<1>9. QED
  BY <1>7, <1>8

LEMMA BreakPosts ==
  ASSUME ThreadTypeOK, MirrorInv, PostsInv, Break PROVE PostsInv'
<1>1. /\ UNCHANGED <<post, bubbles, waiting, batch, turn, untold>> /\ wire' = <<>>
      /\ lost' = Max({lost} \cup {c.n : c \in OnTheWire})
  BY DEF Break, serverVars, tabVars
<1>2. lost \in Nat /\ \A c \in Pending : c.n \in Nat /\ c.n > 0
  BY Numbers DEF MirrorInv, HearsOK, ChangeOK
<1>3. lost' \in Nat /\ lost' >= lost /\ \A c \in OnTheWire : lost' >= c.n
  <2>1. MaxChanges \in Nat /\ NetTypes
    BY ThreadBoundsAssumption, TypeParts
  <2>2. lost' \in 0 .. MaxChanges /\ lost' >= lost /\ \A c \in OnTheWire : lost' >= c.n
    BY <1>1, <2>1, LostIs, Zenon
  <2>3. QED
    BY <2>1, <2>2
<1>4. PostsOK'
  BY <1>1, PostsSame DEF PostsInv
<1>5. StatusesOK'
  BY <1>1 DEF StatusesOK
<1>6. ComingStays
  <2>1. \A c \in Pending : c \in Pending' \/ lost' > 0
    BY <1>1, <1>2, <1>3 DEF Pending
  <2>2. QED
    BY <1>1, <2>1 DEF ComingStays, Coming
<1>7. QED
  BY <1>1, <1>3, <1>4, <1>5, <1>6, QuietPosts

LEMMA SubscribePosts ==
  ASSUME ThreadTypeOK, MirrorInv, PostsInv, Subscribe PROVE PostsInv'
<1>0. PICK s : s = [type |-> "status", running |-> turn # "idle", queued |-> waiting]
  OBVIOUS
<1>1. /\ UNCHANGED <<post, bubbles, waiting, batch, turn, untold, lost>>
      /\ wire' = <<s>> /\ link = "connecting"
  BY <1>0 DEF Subscribe, serverVars, tabVars
<1>2. wire = <<>> /\ lost \in Nat
  BY <1>1, Numbers DEF MirrorInv, LinesOK
<1>3. PostsOK'
  BY <1>1, PostsSame DEF PostsInv
<1>4. StatusesOK'
  <2>1. Arriving
    BY <1>1, <1>2 DEF Arriving, Arrived
  <2>2. DOMAIN wire' = {1} /\ wire'[1] = s /\ s.queued = waiting
    BY <1>0, <1>1
  <2>3. StatusOK(waiting, 1)'
    BY <1>1 DEF StatusOK, ComingAfter, PostsInv, PostsOK, Arrived
  <2>4. \A i \in DOMAIN wire' : StatusOK(wire[i].queued, i)'
    BY <1>1, <2>2, <2>3 DEF StatusOK
  <2>5. QED
    BY <2>1, <2>4, StatusesStay DEF PostsInv
<1>5. ComingStays
  <2>1. OnTheWire = {}
    BY <1>2, EmptyWire
  <2>2. \A c \in Pending : c \in Pending'
    BY <1>1, <2>1 DEF Pending
  <2>3. QED
    BY <1>1, <2>2, ComingSame
<1>6. QED
  BY <1>1, <1>2, <1>3, <1>4, <1>5, QuietPosts

\* The tab takes the first from the wire.
LEMMA TailPosts ==
  ASSUME ThreadTypeOK, PostsInv, wire # <<>>, wire' = Tail(wire),
         UNCHANGED <<post, waiting, batch, turn, untold, lost>>
  PROVE  /\ PostsOK' /\ StatusesOK' /\ Arriving
         /\ \A c \in Pending : c \in Pending' \/ (c = Head(wire) /\ c.type # "status")
<1>1. lost \in Nat /\ wire \in Seq(Changes \cup Statuses)
  BY Numbers DEF ThreadTypeOK
<1>2. PostsOK'
  BY PostsSame DEF PostsInv
<1>3. Arriving
  BY <1>1 DEF Arriving, Arrived
<1>4. /\ \A i \in DOMAIN wire' : wire'[i] = wire[i + 1] /\ i + 1 \in DOMAIN wire /\ i \in Nat
      /\ \A i \in DOMAIN wire : i # 1 => i - 1 \in DOMAIN wire' /\ wire'[i - 1] = wire[i]
      /\ \A i \in DOMAIN wire : i \in Nat
      /\ \A x \in Range(wire) : x = Head(wire) \/ x \in Range(wire)'
  BY <1>1, TailIs
<1>5. ASSUME NEW i \in DOMAIN wire', NEW p, ComingAfter(p, i + 1) PROVE ComingAfter(p, i)'
  <2>1. CASE \E j \in DOMAIN wire : j > i + 1 /\ wire[j].type # "status" /\ wire[j].of = p
    <3>1. PICK j \in DOMAIN wire : j > i + 1 /\ wire[j].type # "status" /\ wire[j].of = p
      BY <2>1
    <3>2. i \in Nat /\ j \in Nat /\ i >= 1
      <4>1. i \in 1 .. Len(wire')
        BY <1>1
      <4>2. QED
        BY <1>4, <4>1
    <3>3. j # 1 /\ j - 1 > i
      BY <3>1, <3>2
    <3>4. j - 1 \in DOMAIN wire' /\ wire'[j - 1] = wire[j]
      BY <1>4, <3>3
    <3>5. QED
      BY <3>1, <3>3, <3>4 DEF ComingAfter
  <2>2. CASE ~\E j \in DOMAIN wire : j > i + 1 /\ wire[j].type # "status" /\ wire[j].of = p
    BY <1>5, <2>2 DEF ComingAfter
  <2>3. QED
    BY <2>1, <2>2
<1>6. StatusesOK'
  BY <1>3, <1>4, <1>5, StatusesStay DEF PostsInv
<1>7. \A c \in Pending : c \in Pending' \/ (c = Head(wire) /\ c.type # "status")
  BY <1>4 DEF Pending, OnTheWire
<1>8. QED
  BY <1>2, <1>3, <1>6, <1>7

LEMMA HandleChangePosts ==
  ASSUME ThreadTypeOK, PostsInv, HandleChange PROVE PostsInv'
<1>1. /\ wire # <<>> /\ wire' = Tail(wire) /\ bubbles' = Without(bubbles, {Head(wire).of})
      /\ UNCHANGED <<post, waiting, batch, turn, untold, lost>>
  BY DEF HandleChange, serverVars, SettlePending
<1>2. /\ PostsOK' /\ StatusesOK' /\ Arriving
      /\ \A c \in Pending : c \in Pending' \/ c = Head(wire)
  BY <1>1, TailPosts
<1>3. bubbles \in Seq(Bubble) /\ ListedOnce(bubbles)
  BY DEF ThreadTypeOK, PostsInv, BubblesOK
<1>4. /\ ListedOnce(bubbles)'
      /\ Range(bubbles)' = {r \in Range(bubbles) : r.id \notin {Head(wire).of}}
  BY <1>1, <1>3, WithoutIs
<1>5. \A b \in Range(bubbles)' : Coming(b.id) => Coming(b.id)'
  BY <1>1, <1>2, <1>4 DEF Coming
<1>6. BubblesOK'
  BY <1>1, <1>4, <1>5 DEF PostsInv, BubblesOK, Arrived
<1>7. QED
  BY <1>2, <1>6 DEF PostsInv

\* The bubbles after a status: those that were, and one for each message it tells of.
LEMMA StatusBubbles ==
  ASSUME NEW pending \in Seq(Bubble), ListedOnce(pending), NEW queued \in Seq(Posts),
         \A k, l \in DOMAIN queued : queued[k] = queued[l] => k = l, NEW running
  PROVE  /\ ListedOnce(ApplyQueueStatus(pending, running, queued))
         /\ \A b \in Range(ApplyQueueStatus(pending, running, queued)) :
              b \in Range(pending) \/ b.id \in Range(queued)
<1> DEFINE new == Unseen(pending, queued)
           added == [i \in DOMAIN new |-> [id |-> new[i], posting |-> FALSE]]
           all == pending \o added
           some == FilterAt(all, {i \in DOMAIN all : all[i].posting})
<1>1. /\ new \in Seq(Posts) /\ Range(new) = Range(queued) \ Ids(pending)
      /\ \A k, l \in DOMAIN new : new[k] = new[l] => k = l
  BY UnseenIs
<1> HIDE DEF new
<1>2. /\ added \in Seq(Bubble) /\ DOMAIN added = DOMAIN new
      /\ \A i \in DOMAIN new : added[i].id = new[i]
  <2>1. \A i \in DOMAIN new : [id |-> new[i], posting |-> FALSE] \in Bubble
    BY <1>1 DEF Bubble
  <2>2. DOMAIN new = 1 .. Len(new) /\ Len(new) \in Nat
    BY <1>1
  <2>3. QED
    BY <2>1, <2>2
<1> HIDE DEF added
<1>3. /\ all \in Seq(Bubble) /\ DOMAIN all = 1 .. Len(pending) + Len(added)
      /\ DOMAIN pending = 1 .. Len(pending) /\ DOMAIN added = 1 .. Len(added)
      /\ Len(pending) \in Nat /\ Len(added) \in Nat
      /\ \A i \in DOMAIN all : all[i] = IF i <= Len(pending) THEN pending[i] ELSE added[i - Len(pending)]
  BY <1>2
<1> HIDE DEF all
<1>4. /\ \A i \in DOMAIN all : i <= Len(pending) => i \in DOMAIN pending /\ all[i] = pending[i]
      /\ \A i \in DOMAIN all : ~(i <= Len(pending)) =>
           i - Len(pending) \in DOMAIN added /\ all[i] = added[i - Len(pending)]
      /\ \A i \in DOMAIN all : i \in Nat
  BY <1>3
<1>5. \A i \in DOMAIN new : new[i] \in Range(queued) /\ new[i] \notin Ids(pending)
  BY <1>1 DEF Range
<1>6. \A b \in Range(all) : b \in Range(pending) \/ b.id \in Range(queued)
  <2>1. ASSUME NEW i \in DOMAIN all PROVE all[i] \in Range(pending) \/ all[i].id \in Range(queued)
    <3>1. CASE i <= Len(pending)
      BY <1>4, <3>1 DEF Range
    <3>2. CASE ~(i <= Len(pending))
      BY <1>2, <1>4, <1>5, <3>2
    <3>3. QED
      BY <3>1, <3>2
  <2>2. QED
    BY <2>1 DEF Range
<1>7. ListedOnce(all)
  <2>1. SUFFICES ASSUME NEW i \in DOMAIN all, NEW j \in DOMAIN all, all[i].id = all[j].id
                 PROVE  i = j
    BY DEF ListedOnce
  <2>2. \A k \in DOMAIN pending : pending[k].id \in Ids(pending)
    BY DEF Ids
  <2>3. CASE i <= Len(pending) /\ j <= Len(pending)
    BY <1>4, <2>1, <2>3 DEF ListedOnce
  <2>4. CASE ~(i <= Len(pending)) /\ ~(j <= Len(pending))
    <3>1. i - Len(pending) = j - Len(pending)
      BY <1>1, <1>2, <1>4, <2>1, <2>4
    <3>2. QED
      BY <1>3, <1>4, <3>1
  <2>5. CASE i <= Len(pending) /\ ~(j <= Len(pending))
    BY <1>2, <1>4, <1>5, <2>1, <2>2, <2>5
  <2>6. CASE ~(i <= Len(pending)) /\ j <= Len(pending)
    BY <1>2, <1>4, <1>5, <2>1, <2>2, <2>6
  <2>7. QED
    BY <2>3, <2>4, <2>5, <2>6
<1>8. {i \in DOMAIN all : all[i].posting} \in SUBSET (DOMAIN all)
  OBVIOUS
<1>9. ListedOnce(some)
  BY <1>3, <1>7, <1>8, AtKeeps
<1>10. \A b \in Range(some) : b \in Range(all)
  <2>1. Range(some) = {all[i] : i \in {k \in DOMAIN all : all[k].posting}}
    BY <1>3, <1>8, AtIs
  <2>2. QED
    BY <2>1 DEF Range
<1>11. ApplyQueueStatus(pending, running, queued) = IF ~running /\ queued = <<>> THEN some ELSE all
  BY DEF ApplyQueueStatus, all, added, new
<1>12. QED
  BY <1>6, <1>7, <1>9, <1>10, <1>11

LEMMA HandleStatusPosts ==
  ASSUME ThreadTypeOK, PostsInv, HandleStatus PROVE PostsInv'
<1>0. PICK s : s = Head(wire)
  OBVIOUS
<1>1. /\ wire # <<>> /\ wire' = Tail(wire) /\ s.type = "status"
      /\ bubbles' = ApplyQueueStatus(bubbles, s.running, s.queued)
      /\ UNCHANGED <<post, waiting, batch, turn, untold, lost>>
  BY <1>0 DEF HandleStatus, serverVars
<1>2. /\ PostsOK' /\ StatusesOK' /\ Arriving
      /\ \A c \in Pending : c \in Pending' \/ (c = Head(wire) /\ c.type # "status")
  BY <1>1, TailPosts
<1>3. /\ bubbles \in Seq(Bubble) /\ ListedOnce(bubbles) /\ wire \in Seq(Changes \cup Statuses)
      /\ lost \in Nat
  BY Numbers DEF ThreadTypeOK, PostsInv, BubblesOK
<1>4. 1 \in DOMAIN wire /\ s = wire[1]
  BY <1>0, <1>1, <1>3, TailIs
<1>5. /\ s.queued \in Seq(Posts)
      /\ \A k, l \in DOMAIN s.queued : s.queued[k] = s.queued[l] => k = l
      /\ \A p \in Range(s.queued) : Arrived(p) /\ (lost > 0 \/ ComingAfter(p, 1))
  BY <1>1, <1>4, PostNumbers DEF PostsInv, StatusesOK
<1>6. /\ ListedOnce(bubbles)'
      /\ \A b \in Range(bubbles)' : b \in Range(bubbles) \/ b.id \in Range(s.queued)
  BY <1>1, <1>3, <1>5, StatusBubbles
<1>7. \A p : Coming(p) => Coming(p)'
  <2>1. \A c \in Pending : c \in Pending'
    BY <1>0, <1>1, <1>2
  <2>2. QED
    BY <1>1, <2>1 DEF Coming
<1>8. \A p : ComingAfter(p, 1) => Coming(p)
  BY DEF ComingAfter, Coming, Pending, OnTheWire, Range
<1>9. BubblesOK'
  <2>1. \A b \in Range(bubbles)' :
          \/ b.id \in PagePosts /\ post'[b.id] = "sent"
          \/ Arrived(b.id)' /\ (lost' > 0 \/ Coming(b.id)')
    BY <1>1, <1>5, <1>6, <1>7, <1>8 DEF PostsInv, BubblesOK, Arrived
  <2>2. QED
    BY <1>6, <2>1 DEF BubblesOK
<1>10. QED
  BY <1>2, <1>9 DEF PostsInv

\* The posts of the tab.
LEMMA TabPosts ==
  ASSUME ThreadTypeOK, PostsInv, NEW p \in Posts, SendPost(p) \/ PostAnswered(p) \/ PostFails(p)
  PROVE  PostsInv'
<1>1. /\ UNCHANGED <<wire, waiting, batch, turn, untold, lost>>
      /\ \/ post[p] = "out" /\ post' = [post EXCEPT ![p] = "sent"] /\ p \in PagePosts
            /\ bubbles' = Append(bubbles, [id |-> p, posting |-> TRUE])
         \/ post[p] = "accepted" /\ post' = [post EXCEPT ![p] = "answered"]
            /\ bubbles' = MarkAccepted(bubbles, p)
         \/ post[p] \in {"sent", "accepted"} /\ post' = [post EXCEPT ![p] = "answered"]
            /\ bubbles' = Without(bubbles, {p})
  BY DEF SendPost, PostAnswered, PostFails, serverVars, SettlePending
<1>2. /\ lost \in Nat /\ bubbles \in Seq(Bubble) /\ ListedOnce(bubbles)
      /\ post \in [Posts -> PostStates]
  BY Numbers DEF ThreadTypeOK, PostsInv, BubblesOK, PostStates
<1>3. \A q \in Posts : Arrived(q) => Arrived(q)'
  BY <1>1, <1>2 DEF Arrived
<1>4. Arriving
  BY <1>1, <1>2, <1>3 DEF Arriving
<1>5. PostsOK'
  <2>1. \A q \in Range(waiting) \cup Range(batch) : q \in Posts /\ Arrived(q)
    BY PostNumbers DEF PostsInv, PostsOK
  <2>2. QED
    BY <1>1, <1>3, <2>1 DEF PostsInv, PostsOK
<1>6. \A q, i : ComingAfter(q, i) => ComingAfter(q, i)'
  BY <1>1 DEF ComingAfter
<1>7. StatusesOK'
  BY <1>1, <1>4, <1>6, StatusesStay DEF PostsInv
<1>8. ComingStays
  <2>1. \A c \in Pending : c \in Pending'
    BY <1>1 DEF Pending, OnTheWire
  <2>2. QED
    BY <1>1, <2>1, ComingSame
<1>9. CASE post[p] = "out" /\ post' = [post EXCEPT ![p] = "sent"] /\ p \in PagePosts
           /\ bubbles' = Append(bubbles, [id |-> p, posting |-> TRUE])
  <2>0. PICK b : b = [id |-> p, posting |-> TRUE]
    OBVIOUS
  <2>1. /\ DOMAIN bubbles' = 1 .. Len(bubbles) + 1 /\ DOMAIN bubbles = 1 .. Len(bubbles)
        /\ Len(bubbles) \in Nat /\ bubbles'[Len(bubbles) + 1] = b /\ b.id = p
        /\ \A i \in DOMAIN bubbles : bubbles'[i] = bubbles[i]
    BY <1>2, <1>9, <2>0
  <2>2. \A i \in DOMAIN bubbles' : i \in DOMAIN bubbles \/ i = Len(bubbles) + 1
    BY <2>1
  <2>3. \A i \in DOMAIN bubbles : bubbles[i].id # p
    <3>1. ASSUME NEW a \in Range(bubbles) PROVE a.id # p
      BY <1>9 DEF PostsInv, BubblesOK, Arrived
    <3>2. QED
      BY <3>1 DEF Range
  <2>4. ListedOnce(bubbles)'
    BY <1>2, <2>1, <2>2, <2>3 DEF ListedOnce
  <2>5. \A a \in Range(bubbles)' : a \in Range(bubbles) \/ a = b
    BY <2>1, <2>2 DEF Range
  <2>6. post'[p] = "sent" /\ \A q \in Posts : q # p => post'[q] = post[q]
    BY <1>2, <1>9 DEF PostStates
  <2>7. \A a \in Range(bubbles)' :
          (a \in Range(bubbles) /\ (post[a.id] = "sent" => post'[a.id] = "sent"))
          \/ (a.id \in PagePosts /\ post'[a.id] = "sent")
    BY <1>9, <2>1, <2>5, <2>6, PostNumbers
  <2>8. BubblesOK'
    BY <1>4, <1>8, <2>4, <2>7, BubblesStay DEF PostsInv
  <2>9. QED
    BY <1>5, <1>7, <2>8 DEF PostsInv
<1>10. CASE post[p] = "accepted" /\ post' = [post EXCEPT ![p] = "answered"]
            /\ bubbles' = MarkAccepted(bubbles, p)
  <2>1. DOMAIN bubbles' = DOMAIN bubbles /\ \A i \in DOMAIN bubbles : bubbles'[i].id = bubbles[i].id
    <3>1. /\ DOMAIN bubbles' = DOMAIN bubbles
          /\ \A i \in DOMAIN bubbles : bubbles'[i] = IF bubbles[i].id = p
                                         THEN [bubbles[i] EXCEPT !.posting = FALSE] ELSE bubbles[i]
      BY <1>10 DEF MarkAccepted
    <3>2. \A a \in Bubble : [a EXCEPT !.posting = FALSE].id = a.id
      BY DEF Bubble
    <3>3. \A i \in DOMAIN bubbles : bubbles[i] \in Bubble
      BY <1>2, ElementIs
    <3>4. QED
      BY <3>1, <3>2, <3>3
  <2>2. ListedOnce(bubbles)'
    BY <1>2, <2>1 DEF ListedOnce
  <2>3. \A b \in Range(bubbles)' : \E a \in Range(bubbles) : a.id = b.id
    BY <2>1 DEF Range
  <2>4. \A q \in Posts : post[q] = "sent" => post'[q] = "sent"
    BY <1>2, <1>10 DEF PostStates
  <2>5. \A a \in Range(bubbles) : a.id \in Posts
    BY PostNumbers
  <2>6. BubblesOK'
    BY <1>4, <1>8, <2>2, <2>3, <2>4, <2>5, BubblesStay DEF PostsInv
  <2>7. QED
    BY <1>5, <1>7, <2>6 DEF PostsInv
<1>11. CASE post[p] \in {"sent", "accepted"} /\ post' = [post EXCEPT ![p] = "answered"]
            /\ bubbles' = Without(bubbles, {p})
  <2>1. ListedOnce(bubbles)' /\ Range(bubbles)' = {r \in Range(bubbles) : r.id \notin {p}}
    BY <1>2, <1>11, WithoutIs
  <2>2. \A q \in Posts : q # p => post'[q] = post[q]
    BY <1>2, <1>11 DEF PostStates
  <2>3. \A b \in Range(bubbles)' : b \in Range(bubbles) /\ post'[b.id] = post[b.id]
    BY <2>1, <2>2, PostNumbers
  <2>4. BubblesOK'
    BY <1>4, <1>8, <2>1, <2>3, BubblesStay DEF PostsInv
  <2>5. QED
    BY <1>5, <1>7, <2>4 DEF PostsInv
<1>12. QED
  BY <1>1, <1>9, <1>10, <1>11

LEMMA InitPosts ==
  ASSUME ThreadInit PROVE PostsInv
<1>1. waiting = <<>> /\ batch = <<>> /\ wire = <<>> /\ bubbles = <<>>
  BY DEF ThreadInit
<1>2. /\ DOMAIN waiting = {} /\ DOMAIN batch = {} /\ DOMAIN wire = {} /\ DOMAIN bubbles = {}
  BY <1>1
<1>3. QED
  BY <1>1, <1>2 DEF PostsInv, PostsOK, StatusesOK, BubblesOK, ListedOnce, Range

LEMMA NextPosts ==
  ASSUME ThreadTypeOK, MirrorInv, PostsInv, [ThreadNext]_threadVars PROVE PostsInv'
<1>1. CASE UNCHANGED threadVars
  BY <1>1, SameWireSteps
<1>2. CASE ThreadNext
  BY <1>2, EnqueuePosts, TabPosts, TakePostsPosts, StorePostPosts, EndOfTurnPosts, PublishPosts,
     HandleChangePosts, HandleStatusPosts, SubscribePosts, BreakPosts, SameWireSteps
     DEF ThreadNext
<1>3. QED
  BY <1>1, <1>2

-----------------------------------------------------------------------------
(* What follows when all is quiet.                                          *)

\* A list that names nothing twice has as many ids as elements, up to any place.
LEMMA IdsCount ==
  ASSUME NEW list, NEW n \in Nat, 1 .. n \subseteq DOMAIN list, ListedOnce(list)
  PROVE  LET ids == {list[i].id : i \in 1 .. n}
         IN  IsFiniteSet(ids) /\ Cardinality(ids) = n
<1> DEFINE ids == {list[i].id : i \in 1 .. n}
           f == [i \in 1 .. n |-> list[i].id]
<1>1. f \in Surjection(1 .. n, ids)
  BY DEF Surjection
<1>2. f \in Injection(1 .. n, ids)
  BY DEF Injection, IsInjective, ListedOnce
<1>3. IsFiniteSet(1 .. n) /\ Cardinality(1 .. n) = n
  BY FS_Interval
<1>4. IsFiniteSet(ids) /\ (Cardinality(ids) = Cardinality(1 .. n) <=> f \in Injection(1 .. n, ids))
  <2> HIDE DEF f, ids
  <2>1. QED
    BY <1>1, <1>3, FS_Surjection, SMTT(30)
<1>5. QED
  BY <1>2, <1>3, <1>4

LEMMA ListCounts ==
  ASSUME NEW S, NEW list \in Seq(S), ListedOnce(list)
  PROVE  Cardinality(Ids(list)) = Len(list)
<1>1. Len(list) \in Nat /\ DOMAIN list = 1 .. Len(list)
  OBVIOUS
<1>2. Ids(list) = {list[i].id : i \in 1 .. Len(list)}
  BY <1>1 DEF Ids
<1>3. Cardinality({list[i].id : i \in 1 .. Len(list)}) = Len(list)
  BY <1>1, IdsCount
<1>4. QED
  BY <1>2, <1>3, Zenon

\* A row's place in a transcript is the number of rows up to it ...
LEMMA PlaceIsRank ==
  ASSUME NEW list \in Seq(Row), Sorted(list), NEW i \in DOMAIN list
  PROVE  Cardinality({k \in Ids(list) : k <= list[i].id}) = i
<1>1. ListedOnce(list)
  BY SortedOnce
<1>2. i \in Nat /\ i <= Len(list) /\ DOMAIN list = 1 .. Len(list) /\ 1 .. i \subseteq DOMAIN list
  OBVIOUS
<1>3. \A j \in DOMAIN list : list[j].id \in Nat
  <2>1. \A r \in Row : r.id \in Nat
    BY ThreadBoundsAssumption DEF Row, RowIds
  <2>2. QED
    BY <2>1, ElementIs
<1>4. ASSUME NEW j \in DOMAIN list PROVE list[j].id <= list[i].id <=> j \in 1 .. i
  <2>1. j \in Nat /\ j >= 1 /\ list[j].id \in Nat /\ list[i].id \in Nat
    BY <1>3
  <2>2. (i < j => list[i].id < list[j].id) /\ (j < i => list[j].id < list[i].id)
    BY DEF Sorted
  <2>3. CASE i < j
    BY <1>2, <2>1, <2>2, <2>3
  <2>4. CASE j < i
    BY <1>2, <2>1, <2>2, <2>4
  <2>5. CASE i = j
    BY <1>2, <2>1, <2>5
  <2>6. QED
    BY <1>2, <2>1, <2>3, <2>4, <2>5
<1>5. {k \in Ids(list) : k <= list[i].id} = {list[j].id : j \in 1 .. i}
  BY <1>2, <1>4 DEF Ids
<1>6. Cardinality({list[j].id : j \in 1 .. i}) = i
  BY <1>1, <1>2, IdsCount
<1>7. QED
  BY <1>5, <1>6

\* ... so that two transcripts with the same rows are the same.
LEMMA SameTranscript ==
  ASSUME NEW list \in Seq(Row), NEW other \in Seq(Row), Sorted(list), Sorted(other),
         Range(list) = Range(other)
  PROVE  list = other
<1>1. Ids(list) = Ids(other)
  BY IdsAre
<1>2. Len(list) = Len(other)
  BY <1>1, SortedOnce, ListCounts
<1>3. DOMAIN list = DOMAIN other /\ DOMAIN list = 1 .. Len(list)
  BY <1>2
<1>4. ASSUME NEW i \in DOMAIN list PROVE list[i] = other[i]
  <2>1. PICK j \in DOMAIN other : other[j] = list[i]
    BY DEF Range
  <2>2. Cardinality({k \in Ids(list) : k <= list[i].id}) = i
    BY PlaceIsRank
  <2>3. Cardinality({k \in Ids(other) : k <= other[j].id}) = j
    BY PlaceIsRank
  <2>4. i = j
    BY <1>1, <2>1, <2>2, <2>3
  <2>5. QED
    BY <2>1, <2>4
<1>5. QED
  BY <1>2, <1>3, <1>4

-----------------------------------------------------------------------------
LEMMA QuietHasNothingPending ==
  ASSUME ThreadTypeOK, Quiet PROVE Pending = {}
<1>1. wire = <<>> /\ untold = <<>>
  BY DEF Quiet
<1>2. Range(wire) = {} /\ DOMAIN untold = {}
  BY <1>1 DEF Range
<1>3. QED
  BY <1>2 DEF Pending, OnTheWire

LEMMA QuietIsCurrent ==
  ASSUME ThreadTypeOK, MirrorInv PROVE QuietTabIsCurrent
<1>1. SUFFICES ASSUME Quiet, ~outOfTurn, ~missed PROVE view = rows
  BY DEF QuietTabIsCurrent
<1>2. Pending = {}
  BY <1>1, QuietHasNothingPending
<1>3. /\ Sorted(rows) /\ \A q \in Range(rows) : q.id <= stored
      /\ stored >= 1 /\ current <= stored
      /\ \A n \in 2 .. stored : Passed(n - 1)
      /\ current >= 1 /\ lost <= current /\ Faithful(view)
  BY <1>1, <1>2 DEF MirrorInv, TranscriptOK, HearsOK, ViewOK
<1>4. stored \in Nat /\ lost \in Nat /\ current \in Nat
  BY Numbers
<1>5. current = stored
  <2>1. CASE stored = 1
    BY <1>3, <1>4, <2>1
  <2>2. CASE stored # 1
    <3>1. stored \in 2 .. stored
      BY <1>3, <1>4, <2>2
    <3>2. lost > stored - 1 \/ current > stored - 1
      BY <1>3, <3>1 DEF Passed
    <3>3. QED
      BY <1>3, <1>4, <3>2
  <2>3. QED
    BY <2>1, <2>2
<1>6. view \in Seq(Row) /\ rows \in Seq(Row)
  BY DEF ThreadTypeOK
<1>7. \A r \in Range(view) : r.id \in Ids(rows) /\ \A q \in Range(rows) : q.id = r.id => q = r
  BY <1>2, <1>3 DEF Faithful, RowOK, KilledAfter, EditedAfter
<1>8. \A r \in Range(view) : r \in Range(rows)
  BY <1>7, IdsAre
<1>9. ASSUME NEW q \in Range(rows) PROVE q \in Range(view)
  <2>1. q.id \in Ids(view)
    BY <1>3, <1>5 DEF Faithful
  <2>2. PICK r \in Range(view) : r.id = q.id
    BY <2>1, IdsAre
  <2>3. QED
    BY <1>7, <2>2
<1>10. Range(view) = Range(rows)
  BY <1>8, <1>9
<1>11. Sorted(view)
  <2>1. \A i \in DOMAIN view : view[i].id \in Ids(rows)
    BY <1>7 DEF Range
  <2>2. QED
    BY <1>3, <2>1 DEF Faithful, InOrder, Sorted
<1>12. QED
  BY <1>3, <1>6, <1>10, <1>11, SameTranscript

LEMMA QuietHasNoBubble ==
  ASSUME ThreadTypeOK, PostsInv PROVE BubblesSettle
<1>1. SUFFICES ASSUME Quiet, lost = 0 PROVE bubbles = <<>>
  BY DEF BubblesSettle
<1>2. Pending = {}
  BY <1>1, QuietHasNothingPending
<1>3. waiting = <<>> /\ batch = <<>>
  BY <1>1 DEF Quiet, PostsInv, PostsOK
<1>4. Range(waiting) = {} /\ Range(batch) = {}
  BY <1>3 DEF Range
<1>5. \A b \in Range(bubbles) :
        (b.id \in PagePosts /\ post[b.id] = "sent") \/ lost > 0 \/ Coming(b.id)
  BY DEF PostsInv, BubblesOK
<1>6. \A b \in Range(bubbles) : ~Coming(b.id)
  BY <1>2, <1>4 DEF Coming
<1>7. ~(lost > 0)
  BY <1>1
<1>8. \A p \in PagePosts : post[p] # "sent"
  BY <1>1 DEF Quiet, Posts
<1>9. Range(bubbles) = {}
  BY <1>5, <1>6, <1>7, <1>8
<1>10. DOMAIN bubbles = {}
  BY <1>9 DEF Range
<1>11. bubbles \in Seq(Bubble)
  BY DEF ThreadTypeOK
<1>12. QED
  BY <1>10, <1>11

LEMMA ThreadInvIsTrue ==
  ASSUME ThreadInv PROVE ThreadIsTrue
<1>1. ThreadTypeOK /\ MirrorInv /\ PostsInv
  BY DEF ThreadInv
<1>2. Cardinality(Ids(view)) = Len(view)
  <2>1. view \in Seq(Row) /\ ListedOnce(view)
    BY <1>1 DEF ThreadTypeOK, MirrorInv, ViewOK
  <2>2. QED
    BY <2>1, ListCounts
<1>3. Cardinality(Ids(bubbles)) = Len(bubbles)
  <2>1. bubbles \in Seq(Bubble) /\ ListedOnce(bubbles)
    BY <1>1 DEF ThreadTypeOK, PostsInv, BubblesOK
  <2>2. QED
    BY <2>1, ListCounts
<1>4. QED
  BY <1>1, <1>2, <1>3, QuietIsCurrent, QuietHasNoBubble DEF ThreadIsTrue, NothingIsListedTwice

LEMMA ThreadStart == ThreadInit => ThreadInv
BY InitTypes, InitMirror, InitPosts DEF ThreadInv

LEMMA ThreadStep ==
  ASSUME ThreadInv, [ThreadNext]_threadVars PROVE ThreadInv'
<1>1. ThreadTypeOK /\ MirrorInv /\ PostsInv
  BY DEF ThreadInv
<1>2. ThreadTypeOK'
  BY <1>1, NextTypes
<1>3. MirrorInv'
  BY <1>1, NextMirror
<1>4. PostsInv'
  BY <1>1, NextPosts
<1>5. QED
  BY <1>2, <1>3, <1>4 DEF ThreadInv

\* The invariant holds in every behaviour.
LEMMA ThreadInvHolds == ThreadSpec => []ThreadInv
BY ThreadStart, ThreadStep, PTL DEF ThreadSpec

\* The state of useChatThread, of the chat's queue and transcript and of what is on
\* its way between them is well typed, however many changes and faults there are.
THEOREM ThreadTypesHold == ThreadSpec => []ThreadTypeOK
<1>1. ThreadInv => ThreadTypeOK
  BY DEF ThreadInv
<1>2. QED
  BY <1>1, ThreadInvHolds, PTL

\* The tab tells the truth: useChatThread lists no message twice; when all is
\* quiet it shows the stored transcript, unless its last answer came out of turn
\* or a change went past it that no read has brought since, and keeps no bubble
\* that no event will settle.
THEOREM ThreadIsTrueAlways == ThreadSpec => []ThreadIsTrue
BY ThreadInvHolds, ThreadInvIsTrue, PTL
=============================================================================
