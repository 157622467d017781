--------------------------- MODULE ChatQueueProofs ---------------------------
(***************************************************************************)
(* What is proved of ChatQueue, for every number of messages, profiles,    *)
(* background turns, edits, steps, calls, stops and restarts: no message   *)
(* is forgotten, the transcript keeps its order, the chat's state lives as *)
(* long as it is needed, threads see the queue as it is, edits meet no     *)
(* turn, and a stop reaches the turn that runs.                            *)
(***************************************************************************)
EXTENDS ChatQueue, SequenceTheorems, FiniteSetTheorems, WellFoundedInduction, TLAPS

\* The background turns that runTurn() counts.
Active == {"inline", "holding", "leaving"}
Working == {b \in Background : pc[b] \in Active}
Counted == background = Cardinality(Working)

\* A turn that executes calls has some.
CallsRemain == phase = "tools" => calls > 0

-----------------------------------------------------------------------------
\* What a turn takes from the queue.

LEMMA LastOne ==
  ASSUME NEW S, NEW s \in Seq(S), Len(s) = 1
  PROVE  Tail(s) = <<>>
<1>1. Tail(s) \in Seq(S) /\ Len(Tail(s)) = 0
  BY HeadTailProperties, EmptySeq
<1> QED BY <1>1, EmptySeq

LEMMA LeastNumber ==
  ASSUME NEW T \in SUBSET Nat, T # {}
  PROVE  \E x \in T : \A y \in T : x <= y
<1> DEFINE R == OpToRel(<, Nat)
<1>1. IsWellFoundedOn(R, Nat)
  BY NatLessThanWellFounded
<1>2. PICK x \in T : \A y \in T : <<y, x>> \notin R
  BY <1>1, WFMin
<1>3. \A y \in T : ~ (y < x)
  BY <1>2 DEF OpToRel
<1> QED BY <1>3

\* The number that Takes chooses exists.
LEMMA TakesSome ==
  ASSUME NEW q \in Seq(Entries)
  PROVE  Takes(q) \in 0 .. Len(q)
<1> DEFINE Stops(n) == n < Len(q) => q[n + 1].profile # profile
           T == {n \in 0 .. Len(q) : Stops(n)}
<1>1. Len(q) \in T /\ T \in SUBSET Nat
  OBVIOUS
<1>2. PICK m \in T : \A n \in T : m <= n
  BY <1>1, LeastNumber
<1>3. ASSUME NEW i \in 1 .. m PROVE q[i].profile = profile
  <2>1. i - 1 \in 0 .. Len(q) /\ i - 1 < m /\ i - 1 < Len(q)
    BY <1>1, <1>2
  <2>2. i - 1 \notin T
    BY <2>1, <1>2
  <2> QED BY <2>1, <2>2
<1> QED BY <1>1, <1>2, <1>3 DEF Takes

LEMMA Cut ==
  ASSUME NEW S, NEW s \in Seq(S), NEW k \in 0 .. Len(s)
  PROVE  /\ SubSeq(s, 1, k) \in Seq(S) /\ Len(SubSeq(s, 1, k)) = k
         /\ \A i \in 1 .. k : SubSeq(s, 1, k)[i] = s[i]
         /\ SubSeq(s, k + 1, Len(s)) \in Seq(S) /\ Len(SubSeq(s, k + 1, Len(s))) = Len(s) - k
         /\ \A i \in 1 .. Len(s) - k : SubSeq(s, k + 1, Len(s))[i] = s[k + i]
<1>1. /\ SubSeq(s, 1, k) \in Seq(S) /\ Len(SubSeq(s, 1, k)) = k
      /\ \A i \in 1 .. k : SubSeq(s, 1, k)[i] = s[i]
  BY SubSeqProperties
<1>2. \A i \in k + 1 .. Len(s) : s[i] \in S
  OBVIOUS
<1>3. /\ SubSeq(s, k + 1, Len(s)) \in Seq(S)
      /\ Len(SubSeq(s, k + 1, Len(s))) = Len(s) - k
      /\ \A i \in 1 .. Len(s) - (k + 1) + 1 : SubSeq(s, k + 1, Len(s))[i] = s[(k + 1) + i - 1]
  BY <1>2, SubSeqProperties
<1> QED BY <1>1, <1>3

LEMMA TakenAndLeft ==
  ASSUME NEW q \in Seq(Entries)
  PROVE  /\ TakenFrom(q) \in Seq(Entries) /\ Len(TakenFrom(q)) = Takes(q)
         /\ \A i \in 1 .. Takes(q) : TakenFrom(q)[i] = q[i]
         /\ LeftIn(q) \in Seq(Entries) /\ Len(LeftIn(q)) = Len(q) - Takes(q)
         /\ \A i \in 1 .. Len(q) - Takes(q) : LeftIn(q)[i] = q[Takes(q) + i]
         /\ Takes(q) = 0 => LeftIn(q) = q /\ TakenFrom(q) = <<>>
<1>1. Takes(q) \in 0 .. Len(q)
  BY TakesSome
<1>2. Takes(q) = 0 => LeftIn(q) = q
  BY <1>1, SubSeqFull DEF LeftIn
<1>3. Takes(q) = 0 => TakenFrom(q) = <<>>
  BY SubSeqEmpty DEF TakenFrom
<1>4. /\ TakenFrom(q) \in Seq(Entries) /\ Len(TakenFrom(q)) = Takes(q)
      /\ \A i \in 1 .. Takes(q) : TakenFrom(q)[i] = q[i]
  BY <1>1, Cut DEF TakenFrom
<1>5. /\ LeftIn(q) \in Seq(Entries) /\ Len(LeftIn(q)) = Len(q) - Takes(q)
      /\ \A i \in 1 .. Len(q) - Takes(q) : LeftIn(q)[i] = q[Takes(q) + i]
  BY <1>1, Cut DEF LeftIn
<1> QED BY <1>2, <1>3, <1>4, <1>5

LEMMA RowsOfEntries ==
  ASSUME NEW s \in Seq(Entries), MaxPosts \in Nat
  PROVE  /\ UserRows(s) \in Seq(Rows) /\ Len(UserRows(s)) = Len(s)
         /\ \A i \in 1 .. Len(s) : UserRows(s)[i] = UserRow(s[i].n)
<1>1. ASSUME NEW i \in 1 .. Len(s) PROVE UserRow(s[i].n) \in Rows
  <2>1. s[i] \in Entries
    OBVIOUS
  <2> QED BY <2>1 DEF Entries, UserRow, Rows
<1>2. UserRows(s) = [i \in 1 .. Len(s) |-> UserRow(s[i].n)]
  BY DEF UserRows
<1>3. UserRows(s) \in [1 .. Len(s) -> Rows]
  BY <1>1, <1>2
<1>4. UserRows(s) \in Seq(Rows) /\ Len(UserRows(s)) = Len(s)
  BY <1>3
<1> QED BY <1>2, <1>4

LEMMA NumbersBounded ==
  ASSUME NEW s \in Seq(Entries)
  PROVE  Numbers(s) \subseteq 1 .. MaxPosts
<1>1. ASSUME NEW i \in DOMAIN s PROVE s[i].n \in 1 .. MaxPosts
  <2>1. s[i] \in Entries
    OBVIOUS
  <2> QED BY <2>1 DEF Entries
<1> QED BY <1>1 DEF Numbers

LEMMA PostsBounded ==
  ASSUME NEW s \in Seq(Rows), MaxPosts \in Nat
  PROVE  PostsIn(s) \subseteq 1 .. MaxPosts
<1>1. ASSUME NEW i \in DOMAIN s PROVE s[i].n \in 0 .. MaxPosts
  <2>1. s[i] \in Rows
    OBVIOUS
  <2> QED BY <2>1 DEF Rows
<1> QED BY <1>1 DEF PostsIn

-----------------------------------------------------------------------------
Places == {"out", "inline", "holding", "leaving", "done"}

\* The counter of background turns.

LEMMA CountKept ==
  ASSUME Counted, background' = background,
         \A b \in Background : pc'[b] \in Active <=> pc[b] \in Active
  PROVE  Counted'
<1>1. Working' = Working
  BY DEF Working
<1> QED BY <1>1 DEF Counted

LEMMA WorkingIsFinite == IsFiniteSet(Working) /\ IsFiniteSet(Working')
<1>1. Working \in SUBSET Background /\ Working' \in SUBSET Background
  BY DEF Working
<1> QED BY <1>1, ActorsAssumption, FS_Subset

\* An actor that changes its place between waiting, holding and leaving, or is
\* no background turn, leaves the count alone.
LEMMA OtherPlace ==
  ASSUME TypeOK, Counted, background' = background, NEW a \in Actors, NEW to,
         pc' = [pc EXCEPT ![a] = to],
         a \in Background => pc[a] \in Active /\ to \in Active
  PROVE  Counted'
<1>1. ASSUME NEW b \in Background PROVE pc'[b] \in Active <=> pc[b] \in Active
  BY DEF TypeOK, Actors
<1> QED BY <1>1, CountKept

LEMMA CountStep == TypeOK /\ Counted /\ [Next]_vars => Counted'
<1> SUFFICES ASSUME TypeOK, Counted, [Next]_vars PROVE Counted'
  OBVIOUS
<1> USE DEF stateVars, turnVars, counters, history
<1>2. CASE \/ StoreOne \/ Prepared \/ BeginStep \/ AskModel \/ ModelEvent \/ CliSends \/ Answered
           \/ ExecuteCall \/ StoreFails \/ TurnBreaks \/ CloseInput
           \/ Subscribe \/ Unsubscribe \/ Stop
  <2>1. UNCHANGED <<background, pc>>
    BY <1>2 DEF StoreOne, Prepared, BeginStep, AskModel, ModelEvent, CliSends, Answered, ExecuteCall,
                StoreFails, TurnBreaks, CloseInput, Subscribe, Unsubscribe, Stop
  <2> QED BY <2>1, CountKept
<1>3. ASSUME NEW k \in 0 .. MaxCalls, NEW e \in 0 .. MaxCalls, NEW ok \in BOOLEAN,
             ModelDone(k, e, ok)
      PROVE  Counted'
  BY <1>3, CountKept DEF ModelDone
<1>4. CASE TakeBatch
  BY <1>4, OtherPlace, ActorsAssumption DEF TakeBatch, Actors
<1>5. CASE DrainLoop
  BY <1>5, OtherPlace, ActorsAssumption DEF DrainLoop, Join, Actors
<1>6. ASSUME NEW p \in Profiles, Enqueue(p) PROVE Counted'
  <2>1. background' = background
    BY <1>6 DEF Enqueue
  <2>2. CASE running
    BY <1>6, <2>1, <2>2, CountKept DEF Enqueue
  <2>3. CASE ~running
    <3>1. pc' = [pc EXCEPT ![Drain] = "inline"]
      BY <1>6, <2>3 DEF Enqueue, Join
    <3> QED BY <2>1, <3>1, OtherPlace, ActorsAssumption DEF Actors
  <2> QED BY <2>2, <2>3
<1>7. ASSUME NEW e \in Edits, EditRequest(e) PROVE Counted'
  BY <1>7, OtherPlace, ActorsAssumption DEF EditRequest, Join, Actors
<1>8. ASSUME NEW o \in Others, OtherRequest(o) PROVE Counted'
  BY <1>8, OtherPlace, ActorsAssumption DEF OtherRequest, Join, Actors
<1>9. ASSUME NEW a \in Edits \cup Others, Grant(a) \/ LetGo(a) PROVE Counted'
  <2>1. a \in Actors /\ a \notin Background
    BY ActorsAssumption DEF Actors
  <2> QED BY <1>9, <2>1, OtherPlace DEF Grant, LetGo
<1>10. ASSUME NEW a \in QueueTurns, EndTurn(a) PROVE Counted'
  <2>1. a \in Actors /\ pc[a] = "holding" /\ background' = background
        /\ pc' = [pc EXCEPT ![a] = "leaving"]
    BY <1>10 DEF EndTurn, Holds, Actors, QueueTurns
  <2> QED BY <2>1, OtherPlace DEF Active
<1>11. ASSUME NEW b \in Background, StartBackground(b) PROVE Counted'
  <2>1. b \in Actors /\ pc[b] = "inline" /\ background' = background
        /\ pc' = [pc EXCEPT ![b] = "holding"]
    BY <1>11 DEF StartBackground, Actors
  <2> QED BY <2>1, OtherPlace DEF Active
<1>12. ASSUME NEW b \in Background, RunTurn(b) PROVE Counted'
  <2>1. /\ pc[b] = "out" /\ background' = background + 1
        /\ pc' = [pc EXCEPT ![b] = "inline"]
    BY <1>12 DEF RunTurn, Join
  <2>2. Working' = Working \cup {b} /\ b \notin Working
    BY <2>1 DEF Working, Active, TypeOK, Actors
  <2> QED BY <2>1, <2>2, WorkingIsFinite, FS_AddElement DEF Counted
<1>13. ASSUME NEW b \in Background, LeaveBackground(b) PROVE Counted'
  <2>1. /\ pc[b] = "leaving" /\ background' = background - 1
        /\ pc' = [pc EXCEPT ![b] = "done"]
    BY <1>13 DEF LeaveBackground
  <2>2. Working' = Working \ {b} /\ b \in Working
    BY <2>1 DEF Working, Active, TypeOK, Actors
  <2> QED BY <2>1, <2>2, WorkingIsFinite, FS_RemoveElement DEF Counted
<1>14. CASE Restart
  <2>1. \A b \in Background : pc'[b] \notin Active
    BY <1>14 DEF Restart, Active, Actors
  <2>2. Working' = {}
    BY <2>1 DEF Working
  <2> QED BY <1>14, <2>2, FS_EmptySet DEF Counted, Restart
<1>15. CASE UNCHANGED vars
  BY <1>15, CountKept DEF vars
<1> QED BY <1>2, <1>3, <1>4, <1>5, <1>6, <1>7, <1>8, <1>9, <1>10, <1>11, <1>12, <1>13, <1>14,
           <1>15 DEF Next, TurnStep

-----------------------------------------------------------------------------
\* Types.

LEMMA StatusType ==
  ASSUME NEW q \in Seq(Entries), NEW busy \in BOOLEAN
  PROVE  Status(q, busy) \in Statuses
BY DEF Status, Statuses

LEMMA PublishType ==
  ASSUME TypeOK, NEW q \in Seq(Entries), NEW busy \in BOOLEAN, Publish(q, busy) \/ view' = view
  PROVE  view' \in Statuses
BY StatusType DEF TypeOK, Publish

LEMMA JoinType ==
  ASSUME TypeOK, NEW a \in Actors, Join(a)
  PROVE  line' \in Seq(Actors) /\ pc' \in [Actors -> Places]
BY AppendProperties DEF TypeOK, Join, Places

\* A row for a message and the rows of an answer.
LEMMA RowTypes ==
  /\ \A e \in Entries : UserRow(e.n) \in Rows
  /\ UserRow(0) \in Rows
  /\ \A kind \in {"sent", "call", "result", "reply"} : Row(kind) \in Rows
BY BoundsAssumption DEF Entries, Rows, UserRow, Row

\* The rows of an answer and of a call's execution, whose first rows say what
\* they are and none of which is a post.
Unnumbered(rows) == rows \in Seq(Rows) /\ \A i \in DOMAIN rows : rows[i].n = 0

LEMMA AnswerTypes ==
  ASSUME NEW n \in Nat, NEW e \in Nat
  PROVE  /\ Unnumbered(AnswerWith(n, e))
         /\ Len(AnswerWith(n, e)) = e + 1
         /\ AnswerWith(n, e)[1].kind = IF n > 0 THEN "call" ELSE "reply"
         /\ \A i \in 2 .. e + 1 : AnswerWith(n, e)[i].kind = "result"
<1> DEFINE x == Row(IF n > 0 THEN "call" ELSE "reply")
           y == Row("result")
           results == [i \in 1 .. e |-> y]
<1>1. /\ x \in Rows /\ x.n = 0 /\ x.kind = IF n > 0 THEN "call" ELSE "reply"
      /\ y \in Rows /\ y.n = 0 /\ y.kind = "result"
  BY BoundsAssumption DEF Row, Rows
<1>2. AnswerWith(n, e) = <<x>> \o results
  BY DEF AnswerWith
<1> HIDE DEF x, y
<1>3. results \in Seq(Rows) /\ Len(results) = e /\ \A i \in 1 .. e : results[i] = y
  BY <1>1
<1> HIDE DEF results
<1>4. <<x>> \in Seq(Rows) /\ Len(<<x>>) = 1 /\ <<x>>[1] = x
  BY <1>1
<1>5. /\ AnswerWith(n, e) \in Seq(Rows) /\ Len(AnswerWith(n, e)) = e + 1
      /\ AnswerWith(n, e)[1] = x /\ \A i \in 2 .. e + 1 : AnswerWith(n, e)[i] = y
  BY <1>2, <1>3, <1>4, ConcatProperties
<1>6. \A i \in DOMAIN AnswerWith(n, e) : i = 1 \/ i \in 2 .. e + 1
  BY <1>5
<1> QED BY <1>1, <1>5, <1>6 DEF Unnumbered

LEMMA CallRowTypes ==
  ASSUME NEW rows \in CallRows
  PROVE  Unnumbered(rows) /\ \A i \in DOMAIN rows : rows[i].kind \in {"result", "sent"}
<1>1. rows = <<Row("result")>> \/ rows = <<Row("sent"), Row("result")>>
  BY DEF CallRows
<1>2. /\ Row("result") \in Rows /\ Row("result").n = 0 /\ Row("result").kind = "result"
      /\ Row("sent") \in Rows /\ Row("sent").n = 0 /\ Row("sent").kind = "sent"
  BY BoundsAssumption DEF Row, Rows
<1>3. CASE rows = <<Row("result")>>
  BY <1>2, <1>3 DEF Unnumbered
<1>4. CASE rows = <<Row("sent"), Row("result")>>
  BY <1>2, <1>4 DEF Unnumbered
<1> QED BY <1>1, <1>3, <1>4

LEMMA TakeTypes ==
  ASSUME TypeOK, TakeAndStore
  PROVE  queue' \in Seq(Entries) /\ transcript' \in Seq(Rows) /\ view' \in Statuses
<1>1. /\ LeftIn(queue) \in Seq(Entries) /\ TakenFrom(queue) \in Seq(Entries)
      /\ UserRows(TakenFrom(queue)) \in Seq(Rows)
  BY TakenAndLeft, RowsOfEntries, BoundsAssumption DEF TypeOK
<1>2. transcript' \in Seq(Rows)
  BY <1>1, ConcatProperties DEF TakeAndStore, TypeOK
<1> QED BY <1>1, <1>2, PublishType DEF TakeAndStore

LEMMA TypeStep ==
  ASSUME TypeOK, CallsRemain, background' \in Nat, Next
  PROVE  TypeOK' /\ CallsRemain'
<1> USE BoundsAssumption DEF stateVars, turnVars, counters, history, Places
<1>1. CASE TakeBatch
  <2>1. line' = line /\ pc' \in [Actors -> Places]
    BY <1>1 DEF TakeBatch, TypeOK
  <2>2. queue' = <<>> /\ queue' \in Seq(Entries) /\ batch' \in Seq(Entries)
    BY <1>1 DEF TakeBatch, TypeOK
  <2>3. queue # <<>> => Last(queue).profile \in Profiles
    <3>1. queue # <<>> => Last(queue) \in Entries
      BY DEF TypeOK, Last
    <3> QED BY <3>1 DEF Entries
  <2>4. profile' \in Profiles \cup {NoProfile} /\ phase' \in {"finished", "store"}
        /\ controller' \in {"none", "live", "aborted"}
    BY <1>1, <2>3 DEF TakeBatch, TypeOK
  <2>5. view' \in Statuses
    BY <1>1, <2>2, PublishType DEF TakeBatch
  <2> QED BY <1>1, <2>1, <2>2, <2>4, <2>5 DEF TakeBatch, TypeOK, CallsRemain, Phases
<1>2. CASE StoreOne
  <2>1. Head(batch) \in Entries /\ batch' \in Seq(Entries)
    BY <1>2, HeadTailProperties DEF StoreOne, TypeOK
  <2>2. transcript' \in Seq(Rows)
    BY <1>2, <2>1, RowTypes, AppendProperties DEF StoreOne, TypeOK
  <2> QED BY <1>2, <2>1, <2>2 DEF StoreOne, TypeOK, CallsRemain, Phases
<1>3. CASE Prepared
  <2>1. transcript' \in Seq(Rows)
    BY <1>3, RowTypes, AppendProperties DEF Prepared, TypeOK
  <2> QED BY <1>3, <2>1 DEF Prepared, TypeOK, CallsRemain, Phases
<1>4. CASE BeginStep
  <2>1. queue' \in Seq(Entries) /\ transcript' \in Seq(Rows) /\ view' \in Statuses
    BY <1>4, TakeTypes DEF BeginStep, TypeOK
  <2> QED BY <1>4, <2>1 DEF BeginStep, TypeOK, CallsRemain, Phases
<1>5. CASE AskModel
  <2> DEFINE first == IF Steered /\ profile \in LiveProfiles THEN TakenFrom(queue) ELSE <<>>
  <2>1. first \in Seq(Entries) /\ queue' \in Seq(Entries)
    BY <1>5, TakenAndLeft DEF AskModel, TypeOK
  <2>2. view' \in Statuses
    BY <1>5, <2>1, PublishType DEF AskModel
  <2>3. shown' \subseteq 1 .. MaxPosts
    BY <1>5, <2>1, NumbersBounded, PostsBounded DEF AskModel, TypeOK
  <2>4. live' \in BOOLEAN
    BY <1>5 DEF AskModel, Steered, Holds
  <2> QED BY <1>5, <2>1, <2>2, <2>3, <2>4 DEF AskModel, TypeOK, CallsRemain, Phases
<1>6. CASE ModelEvent
  <2>1. transcript' \in Seq(Rows)
    BY <1>6, RowsOfEntries, ConcatProperties DEF ModelEvent, TypeOK
  <2> QED BY <1>6, <2>1 DEF ModelEvent, TypeOK, CallsRemain
<1>7. ASSUME NEW k \in 0 .. MaxCalls, NEW e \in 0 .. MaxCalls, NEW ok \in BOOLEAN,
             ModelDone(k, e, ok)
      PROVE  TypeOK' /\ CallsRemain'
  <2>1. k + e \in Nat /\ e \in Nat
    BY BoundsAssumption
  <2>2. AnswerWith(k + e, e) \in Seq(Rows)
    BY <2>1, AnswerTypes DEF Unnumbered
  <2>3. transcript \o UserRows(taken) \in Seq(Rows)
    BY RowsOfEntries, ConcatProperties DEF TypeOK
  <2>4. transcript' \in Seq(Rows)
    BY <1>7, <2>2, <2>3, ConcatProperties DEF ModelDone
  <2>5. calls' \in 0 .. MaxCalls /\ CallsRemain'
    BY <1>7 DEF ModelDone, CallsRemain
  <2>6. phase' \in Phases /\ taken' \in Seq(Entries)
    BY <1>7, EmptySeq DEF ModelDone, Phases
  <2> QED BY <1>7, <2>4, <2>5, <2>6 DEF ModelDone, TypeOK
<1>8. CASE Answered
  <2>1. queue' \in Seq(Entries) /\ transcript' \in Seq(Rows) /\ view' \in Statuses
    BY <1>8, TakeTypes DEF Answered, TypeOK
  <2>2. step' \in 0 .. MaxSteps /\ phase' \in {"loop", "finished"}
    BY <1>8 DEF Answered, TypeOK
  <2> QED BY <1>8, <2>1, <2>2 DEF Answered, TypeOK, CallsRemain, Phases
<1>9. CASE ExecuteCall
  <2>1. transcript' \in Seq(Rows)
    <3>1. \A rows \in CallRows : transcript \o rows \in Seq(Rows)
      BY CallRowTypes, ConcatProperties DEF Unnumbered, TypeOK
    <3> QED BY <1>9, <3>1 DEF ExecuteCall, TypeOK
  <2>2. step' \in 0 .. MaxSteps /\ phase' \in Phases
    BY <1>9 DEF ExecuteCall, TypeOK, Phases
  <2>3. calls' \in 0 .. MaxCalls /\ CallsRemain'
    BY <1>9 DEF ExecuteCall, TypeOK, CallsRemain
  <2> QED BY <1>9, <2>1, <2>2, <2>3 DEF ExecuteCall, TypeOK
<1>10. CASE DrainLoop
  <2>1. line' \in Seq(Actors) /\ pc' \in [Actors -> Places]
    BY <1>10, JoinType DEF DrainLoop, TypeOK, Actors
  <2>2. view' \in Statuses
    <3>1. (background > 0) \in BOOLEAN /\ queue \in Seq(Entries)
      BY DEF TypeOK
    <3> QED BY <1>10, <3>1, PublishType DEF DrainLoop
  <2>3. mapped' \in BOOLEAN /\ running' \in BOOLEAN
    BY <1>10 DEF DrainLoop, Prune, TypeOK
  <2> QED BY <1>10, <2>1, <2>2, <2>3 DEF DrainLoop, TypeOK, CallsRemain
<1>11. ASSUME NEW b \in Background, StartBackground(b) PROVE TypeOK' /\ CallsRemain'
  BY <1>11 DEF StartBackground, TypeOK, CallsRemain, Phases
<1>12. ASSUME NEW b \in Background, LeaveBackground(b) PROVE TypeOK' /\ CallsRemain'
  <2>1. view' \in Statuses
    BY <1>12, PublishType DEF LeaveBackground, TypeOK
  <2>2. mapped' \in BOOLEAN
    BY <1>12 DEF LeaveBackground, Prune, TypeOK
  <2> QED BY <1>12, <2>1, <2>2 DEF LeaveBackground, TypeOK, CallsRemain
<1>13. ASSUME NEW a \in QueueTurns, EndTurn(a) PROVE TypeOK' /\ CallsRemain'
  <2>1. line' \in Seq(Actors)
    BY <1>13, HeadTailProperties DEF EndTurn, Holds, TypeOK
  <2>2. step' \in 0 .. MaxSteps /\ calls' \in 0 .. MaxCalls /\ phase' = "none"
    BY <1>13 DEF EndTurn
  <2> QED BY <1>13, <2>1, <2>2 DEF EndTurn, TypeOK, CallsRemain, Phases
<1>14. ASSUME NEW a \in Edits \cup Others, Grant(a) PROVE TypeOK' /\ CallsRemain'
  BY <1>14 DEF Grant, TypeOK, CallsRemain
<1>15. ASSUME NEW a \in Edits \cup Others, LetGo(a) PROVE TypeOK' /\ CallsRemain'
  <2>1. line' \in Seq(Actors)
    BY <1>15, HeadTailProperties DEF LetGo, Holds, TypeOK
  <2>2. transcript' \in Seq(Rows)
    BY <1>15, EmptySeq DEF LetGo, TypeOK
  <2> QED BY <1>15, <2>1, <2>2 DEF LetGo, TypeOK, CallsRemain
<1>16. CASE StoreFails
  <2>1. failed' \subseteq 1 .. MaxPosts
    BY <1>16, NumbersBounded, PostsBounded DEF StoreFails, TypeOK, TellOf
  <2> QED BY <1>16, <2>1 DEF StoreFails, TypeOK, CallsRemain, Phases
<1>17. CASE TurnBreaks
  <2>1. PICK lost \in {<<>>, TakenFrom(queue)} : \E stored \in 0 .. Len(taken \o lost) :
          /\ queue' = SubSeq(queue, Len(lost) + 1, Len(queue))
          /\ IF lost # <<>> THEN Publish(queue', TRUE) ELSE UNCHANGED view
          /\ transcript' = transcript \o UserRows(SubSeq(taken \o lost, 1, stored))
          /\ TellOf(Numbers(taken \o lost) \cup (PostsIn(transcript) \ shown))
    BY <1>17 DEF TurnBreaks
  <2>2. PICK stored \in 0 .. Len(taken \o lost) :
          /\ queue' = SubSeq(queue, Len(lost) + 1, Len(queue))
          /\ IF lost # <<>> THEN Publish(queue', TRUE) ELSE UNCHANGED view
          /\ transcript' = transcript \o UserRows(SubSeq(taken \o lost, 1, stored))
          /\ TellOf(Numbers(taken \o lost) \cup (PostsIn(transcript) \ shown))
    BY <2>1
  <2>3. lost \in Seq(Entries) /\ Len(lost) \in 0 .. Len(queue)
    <3>1. CASE lost = <<>>
      BY <3>1, EmptySeq DEF TypeOK
    <3>2. CASE lost = TakenFrom(queue)
      BY <3>2, TakenAndLeft, TakesSome DEF TypeOK
    <3> QED BY <3>1, <3>2
  <2>4. taken \o lost \in Seq(Entries)
    BY <2>3, ConcatProperties DEF TypeOK
  <2>5. queue' \in Seq(Entries)
    BY <2>2, <2>3, Cut DEF TypeOK
  <2>6. UserRows(SubSeq(taken \o lost, 1, stored)) \in Seq(Rows)
    BY <2>4, Cut, RowsOfEntries
  <2>7. transcript' \in Seq(Rows)
    BY <2>2, <2>6, ConcatProperties DEF TypeOK
  <2>8. failed' \subseteq 1 .. MaxPosts
    BY <2>2, <2>4, NumbersBounded, PostsBounded DEF TypeOK, TellOf
  <2>9. view' \in Statuses
    BY <2>2, <2>5, PublishType
  <2>10. /\ taken' = <<>> /\ live' = FALSE /\ phase' = "finished"
         /\ UNCHANGED <<mapped, running, background, listening, controller, profile, batch, step,
                        calls, line, pc, posts, stops, restarts, late, shown>>
    BY <1>17 DEF TurnBreaks
  <2>11. taken' \in Seq(Entries)
    BY <2>10, EmptySeq
  <2>12. phase' \in Phases /\ CallsRemain'
    BY <2>10 DEF Phases, CallsRemain
  <2> QED BY <2>5, <2>7, <2>8, <2>9, <2>10, <2>11, <2>12 DEF TypeOK
<1>18. CASE CloseInput
  BY <1>18 DEF CloseInput, TypeOK, CallsRemain
<1>cli. CASE CliSends
  <2>1. transcript' \in Seq(Rows)
    BY <1>cli, RowTypes, AppendProperties DEF CliSends, TypeOK
  <2> QED BY <1>cli, <2>1 DEF CliSends, TypeOK, CallsRemain
<1>19. ASSUME NEW p \in Profiles, Enqueue(p) PROVE TypeOK' /\ CallsRemain'
  <2> DEFINE e == [n |-> posts + 1, profile |-> p]
             q == Append(queue, e)
  <2>1. e \in Entries /\ posts' \in 0 .. MaxPosts
    <3>1. posts + 1 \in 1 .. MaxPosts /\ posts' = posts + 1
      BY <1>19 DEF Enqueue, TypeOK
    <3> QED BY <3>1 DEF Entries
  <2>2. q \in Seq(Entries)
    BY <2>1, AppendProperties DEF TypeOK
  <2>3. TakenFrom(q) \in Seq(Entries) /\ LeftIn(q) \in Seq(Entries)
    BY <2>2, TakenAndLeft
  <2>4. queue' \in Seq(Entries) /\ taken' \in Seq(Entries) /\ shown' \subseteq 1 .. MaxPosts
    <3>1. CASE live
      <4>1. taken \o TakenFrom(q) \in Seq(Entries)
        BY <2>3, ConcatProperties DEF TypeOK
      <4>2. Numbers(TakenFrom(q)) \subseteq 1 .. MaxPosts
        BY <2>3, NumbersBounded
      <4> QED BY <1>19, <2>3, <3>1, <4>1, <4>2 DEF Enqueue, TypeOK
    <3>2. CASE ~live
      BY <1>19, <2>2, <3>2 DEF Enqueue, TypeOK
    <3> QED BY <3>1, <3>2
  <2>5. view' \in Statuses
    BY <1>19, <2>4, PublishType DEF Enqueue
  <2>6. late' \subseteq 1 .. MaxPosts
    <3>1. e.n \in 1 .. MaxPosts
      BY <1>19 DEF Enqueue, TypeOK
    <3> QED BY <1>19, <3>1 DEF Enqueue, TypeOK
  <2>7. line' \in Seq(Actors) /\ pc' \in [Actors -> Places]
    BY <1>19, JoinType DEF Enqueue, TypeOK, Actors
  <2> QED BY <1>19, <2>1, <2>4, <2>5, <2>6, <2>7 DEF Enqueue, TypeOK, CallsRemain
<1>20. ASSUME NEW b \in Background, RunTurn(b) PROVE TypeOK' /\ CallsRemain'
  <2>1. line' \in Seq(Actors) /\ pc' \in [Actors -> Places]
    BY <1>20, JoinType DEF RunTurn, Actors
  <2>2. view' \in Statuses
    BY <1>20, PublishType DEF RunTurn, TypeOK
  <2> QED BY <1>20, <2>1, <2>2 DEF RunTurn, TypeOK, CallsRemain
<1>21. ASSUME NEW a \in Edits \cup Others, EditRequest(a) \/ OtherRequest(a)
       PROVE  TypeOK' /\ CallsRemain'
  <2>1. line' \in Seq(Actors) /\ pc' \in [Actors -> Places]
    BY <1>21, JoinType DEF EditRequest, OtherRequest, Actors
  <2> QED BY <1>21, <2>1 DEF EditRequest, OtherRequest, TypeOK, CallsRemain
<1>22. CASE Subscribe
  <2>1. view' \in Statuses
    BY <1>22, StatusType DEF Subscribe, TypeOK, Busy
  <2> QED BY <1>22, <2>1 DEF Subscribe, TypeOK, CallsRemain
<1>23. CASE Unsubscribe
  <2>1. view' \in Statuses
    BY <1>23, StatusType, EmptySeq DEF Unsubscribe
  <2> QED BY <1>23, <2>1 DEF Unsubscribe, Prune, Busy, TypeOK, CallsRemain
<1>24. CASE Stop
  <2>1. late' \subseteq 1 .. MaxPosts
    BY <1>24, NumbersBounded DEF Stop, TypeOK
  <2> QED BY <1>24, <2>1 DEF Stop, TypeOK, CallsRemain
<1>25. CASE Restart
  <2>1. pc' \in [Actors -> Places]
    BY <1>25 DEF Restart, TypeOK
  <2>2. view' \in Statuses
    BY <1>25, StatusType, EmptySeq DEF Restart
  <2>3. queue' \in Seq(Entries) /\ batch' \in Seq(Entries) /\ taken' \in Seq(Entries)
        /\ line' \in Seq(Actors)
    BY <1>25 DEF Restart
  <2>4. step' \in 0 .. MaxSteps /\ calls' \in 0 .. MaxCalls /\ phase' = "none"
        /\ restarts' \in 0 .. MaxRestarts
    BY <1>25 DEF Restart, TypeOK
  <2> QED BY <1>25, <2>1, <2>2, <2>3, <2>4 DEF Restart, TypeOK, CallsRemain, Phases
<1> QED BY <1>1, <1>2, <1>3, <1>4, <1>5, <1>6, <1>7, <1>8, <1>9, <1>10, <1>11, <1>12, <1>13,
           <1>14, <1>15, <1>16, <1>17, <1>18, <1>19, <1>20, <1>21, <1>22, <1>23, <1>24, <1>25,
        <1>cli
        DEF Next, TurnStep

\* Every reachable state is well typed, and the counter of background turns is
\* the number of runTurn() calls under way.
THEOREM QueueTypesHold == Spec => [](TypeOK /\ Counted /\ CallsRemain)
<1>1. Init => TypeOK /\ Counted /\ CallsRemain
  <2> SUFFICES ASSUME Init PROVE TypeOK /\ Counted /\ CallsRemain
    OBVIOUS
  <2>1. Working = {}
    BY DEF Init, Working, Active, Actors
  <2>2. Counted /\ CallsRemain
    BY <2>1, FS_EmptySet DEF Init, Counted, CallsRemain
  <2>3. view \in Statuses
    BY StatusType, EmptySeq DEF Init
  <2>4. pc \in [Actors -> Places]
    BY DEF Init, Places
  <2>5. /\ queue \in Seq(Entries) /\ batch \in Seq(Entries) /\ taken \in Seq(Entries)
        /\ line \in Seq(Actors) /\ transcript \in Seq(Rows)
    BY EmptySeq DEF Init
  <2>6. /\ step \in 0 .. MaxSteps /\ calls \in 0 .. MaxCalls /\ posts \in 0 .. MaxPosts
        /\ stops \in 0 .. MaxStops /\ restarts \in 0 .. MaxRestarts /\ background \in Nat
    BY BoundsAssumption DEF Init
  <2>7. /\ mapped \in BOOLEAN /\ running \in BOOLEAN /\ live \in BOOLEAN /\ listening \in BOOLEAN
        /\ controller \in {"none", "live", "aborted"} /\ phase \in Phases
        /\ profile \in Profiles \cup {NoProfile}
        /\ failed = {} /\ late = {} /\ shown = {}
    BY DEF Init, Phases
  <2> QED BY <2>2, <2>3, <2>4, <2>5, <2>6, <2>7 DEF TypeOK, Places
<1>2. TypeOK /\ Counted /\ CallsRemain /\ [Next]_vars => (TypeOK /\ Counted /\ CallsRemain)'
  <2> SUFFICES ASSUME TypeOK, Counted, CallsRemain, [Next]_vars
               PROVE  TypeOK' /\ Counted' /\ CallsRemain'
    OBVIOUS
  <2>1. Counted'
    BY CountStep
  <2>2. background' \in Nat
    BY <2>1, WorkingIsFinite, FS_CardinalityType DEF Counted
  <2>3. CASE Next
    BY <2>1, <2>2, <2>3, TypeStep
  <2>4. CASE UNCHANGED vars
    BY <2>1, <2>4 DEF vars, stateVars, turnVars, counters, history, TypeOK, CallsRemain
  <2> QED BY <2>1, <2>3, <2>4
<1> QED BY <1>1, <1>2, PTL DEF Spec

-----------------------------------------------------------------------------
\* The lock and the turn that runs.

\* Who is in the line waits or holds, and is there once.
LineOK == /\ \A i, j \in DOMAIN line : line[i] = line[j] => i = j
          /\ \A i \in DOMAIN line : pc[line[i]] \in {"inline", "holding"}

\* `running` says that the drain is under way.
DrainOK == running <=> pc[Drain] \in Active

\* A turn of the queue runs while its actor holds the lock; only the drain's has
\* a batch and live input.
TurnOK ==
  /\ phase # "none" \/ controller # "none" => \E a \in QueueTurns : Holds(a)
  /\ phase \notin {"none", "finished"} => controller # "none"
  /\ phase = "store" => Holds(Drain)
  /\ live \/ taken # <<>> => Holds(Drain) /\ phase = "model"
  /\ batch # <<>> => phase = "store"
  /\ controller = "aborted" => stops > 0

Control == LineOK /\ DrainOK /\ TurnOK

LEMMA JoinKeepsHolders ==
  ASSUME TypeOK, NEW a \in Actors, pc[a] \notin {"inline", "holding"}, Join(a), NEW h, Holds(h)
  PROVE  Holds(h)'
<1>1. line' = Append(line, a) /\ Head(line') = Head(line) /\ line' # <<>>
  <2>1. line \in Seq(Actors) /\ line # <<>> /\ line' = Append(line, a)
    BY DEF Join, Holds, TypeOK
  <2> QED BY <2>1, HeadTailAppend, AppendProperties
<1>2. pc'[h] = "holding"
  <2>1. h \in Actors /\ h # a
    BY HeadTailProperties DEF Holds, TypeOK
  <2> QED BY <2>1 DEF Join, Holds, TypeOK
<1> QED BY <1>1, <1>2 DEF Holds

LEMMA JoinKeepsLine ==
  ASSUME TypeOK, LineOK, NEW a \in Actors, pc[a] \notin {"inline", "holding"}, Join(a)
  PROVE  LineOK'
<1>1. /\ Len(line') = Len(line) + 1 /\ DOMAIN line' = 1 .. Len(line) + 1
      /\ \A i \in DOMAIN line : line'[i] = line[i]
      /\ line'[Len(line) + 1] = a /\ DOMAIN line = 1 .. Len(line) /\ Len(line) \in Nat
  BY AppendProperties, LenProperties DEF Join, TypeOK
<1>2. \A i \in DOMAIN line : line[i] # a /\ line[i] \in Actors
  BY DEF LineOK, TypeOK
<1>3. \A i \in DOMAIN line : pc'[line[i]] = pc[line[i]]
  BY <1>2 DEF Join, TypeOK
<1>4. pc'[a] = "inline"
  BY DEF Join, TypeOK
<1> QED BY <1>1, <1>2, <1>3, <1>4 DEF LineOK

\* The holder leaves the line.
LEMMA LeavingKeepsLine ==
  ASSUME TypeOK, LineOK, NEW a, Holds(a), line' = Tail(line), NEW to, pc' = [pc EXCEPT ![a] = to]
  PROVE  LineOK'
<1>1. /\ line # <<>> /\ line[1] = a /\ Len(line) \in Nat /\ DOMAIN line = 1 .. Len(line)
      /\ Len(line') = Len(line) - 1 /\ \A i \in 1 .. Len(line) - 1 : line'[i] = line[i + 1]
      /\ DOMAIN line' = 1 .. Len(line) - 1
  BY HeadTailProperties, LenProperties DEF Holds, TypeOK
<1>2. ASSUME NEW i \in 2 .. Len(line) PROVE line[i] # a /\ line[i] \in Actors
  <2>1. 1 \in DOMAIN line /\ i \in DOMAIN line /\ i # 1
    BY <1>1
  <2>2. line[i] # line[1]
    BY <2>1 DEF LineOK
  <2>3. line[i] \in Actors
    BY <2>1 DEF TypeOK
  <2> QED BY <1>1, <2>2, <2>3
<1>3. \A i \in 2 .. Len(line) : pc'[line[i]] = pc[line[i]]
  BY <1>2 DEF TypeOK
<1>4. \A i \in DOMAIN line' : i + 1 \in 2 .. Len(line) /\ i + 1 \in DOMAIN line
                               /\ line'[i] = line[i + 1] /\ i \in Nat
  BY <1>1
<1>5. ASSUME NEW i \in DOMAIN line', NEW j \in DOMAIN line', line'[i] = line'[j] PROVE i = j
  <2>1. i + 1 = j + 1
    BY <1>4, <1>5 DEF LineOK
  <2> QED BY <1>4, <2>1
<1>6. ASSUME NEW i \in DOMAIN line' PROVE pc'[line'[i]] \in {"inline", "holding"}
  BY <1>3, <1>4 DEF LineOK
<1> QED BY <1>5, <1>6 DEF LineOK

\* The first of the line gets the lock.
LEMMA HoldingKeepsLine ==
  ASSUME TypeOK, LineOK, line' = line, NEW a \in Actors, pc' = [pc EXCEPT ![a] = "holding"]
  PROVE  LineOK'
<1>1. \A i \in DOMAIN line : line[i] \in Actors
  BY DEF TypeOK
<1>2. \A i \in DOMAIN line : pc'[line[i]] \in {pc[line[i]], "holding"}
  BY <1>1 DEF TypeOK
<1> QED BY <1>2 DEF LineOK

LEMMA LineStep ==
  ASSUME TypeOK, LineOK, DrainOK, [Next]_vars
  PROVE  LineOK'
<1> USE DEF stateVars, turnVars, counters, history
<1>1. CASE \/ StoreOne \/ Prepared \/ BeginStep \/ AskModel \/ ModelEvent \/ CliSends \/ Answered
           \/ ExecuteCall \/ StoreFails \/ TurnBreaks \/ CloseInput
           \/ Subscribe \/ Unsubscribe \/ Stop
  BY <1>1 DEF StoreOne, Prepared, BeginStep, AskModel, ModelEvent, CliSends, Answered, ExecuteCall,
              StoreFails, TurnBreaks, CloseInput, Subscribe, Unsubscribe, Stop, LineOK
<1>2. ASSUME NEW k \in 0 .. MaxCalls, NEW e \in 0 .. MaxCalls, NEW ok \in BOOLEAN,
             ModelDone(k, e, ok)
      PROVE  LineOK'
  BY <1>2 DEF ModelDone, LineOK
<1>3. CASE TakeBatch
  BY <1>3, HoldingKeepsLine DEF TakeBatch, Actors
<1>4. ASSUME NEW b \in Background, StartBackground(b) PROVE LineOK'
  BY <1>4, HoldingKeepsLine DEF StartBackground, Actors
<1>5. ASSUME NEW a \in Edits \cup Others, Grant(a) PROVE LineOK'
  BY <1>5, HoldingKeepsLine DEF Grant, Actors
<1>6. ASSUME NEW a \in Edits \cup Others, LetGo(a) PROVE LineOK'
  BY <1>6, LeavingKeepsLine DEF LetGo
<1>7. ASSUME NEW a \in QueueTurns, EndTurn(a) PROVE LineOK'
  BY <1>7, LeavingKeepsLine DEF EndTurn
<1>8. CASE DrainLoop
  <2>1. CASE queue # <<>>
    BY <1>8, <2>1, JoinKeepsLine DEF DrainLoop, Actors
  <2>2. CASE queue = <<>>
    BY <1>8, <2>2 DEF DrainLoop, LineOK, TypeOK
  <2> QED BY <2>1, <2>2
<1>9. ASSUME NEW p \in Profiles, Enqueue(p) PROVE LineOK'
  <2>1. CASE running
    BY <1>9, <2>1 DEF Enqueue, LineOK
  <2>2. CASE ~running
    BY <1>9, <2>2, JoinKeepsLine DEF Enqueue, Actors, DrainOK, Active
  <2> QED BY <2>1, <2>2
<1>10. ASSUME NEW b \in Background, RunTurn(b) PROVE LineOK'
  BY <1>10, JoinKeepsLine DEF RunTurn, Actors
<1>11. ASSUME NEW a \in Edits \cup Others, EditRequest(a) \/ OtherRequest(a) PROVE LineOK'
  BY <1>11, JoinKeepsLine DEF EditRequest, OtherRequest, Actors
<1>12. ASSUME NEW b \in Background, LeaveBackground(b) PROVE LineOK'
  BY <1>12 DEF LeaveBackground, LineOK, TypeOK
<1>13. CASE Restart
  BY <1>13 DEF Restart, LineOK
<1>14. CASE UNCHANGED vars
  BY <1>14 DEF vars, LineOK
<1> QED BY <1>1, <1>2, <1>3, <1>4, <1>5, <1>6, <1>7, <1>8, <1>9, <1>10, <1>11, <1>12, <1>13,
           <1>14 DEF Next, TurnStep

LEMMA DrainStep ==
  ASSUME TypeOK, DrainOK, [Next]_vars
  PROVE  DrainOK'
<1> USE ActorsAssumption DEF stateVars, turnVars, counters, history, Actors, Active
<1>1. CASE \/ StoreOne \/ Prepared \/ BeginStep \/ AskModel \/ ModelEvent \/ CliSends \/ Answered
           \/ ExecuteCall \/ StoreFails \/ TurnBreaks \/ CloseInput
           \/ Subscribe \/ Unsubscribe \/ Stop
  BY <1>1 DEF StoreOne, Prepared, BeginStep, AskModel, ModelEvent, CliSends, Answered, ExecuteCall,
              StoreFails, TurnBreaks, CloseInput, Subscribe, Unsubscribe, Stop, DrainOK
<1>2. ASSUME NEW k \in 0 .. MaxCalls, NEW e \in 0 .. MaxCalls, NEW ok \in BOOLEAN,
             ModelDone(k, e, ok)
      PROVE  DrainOK'
  BY <1>2 DEF ModelDone, DrainOK
<1>3. CASE TakeBatch
  BY <1>3 DEF TakeBatch, TypeOK, DrainOK
<1>4. ASSUME NEW b \in Background, StartBackground(b) \/ LeaveBackground(b) PROVE DrainOK'
  BY <1>4 DEF StartBackground, LeaveBackground, TypeOK, DrainOK
<1>5. ASSUME NEW a \in Edits \cup Others, Grant(a) \/ LetGo(a) PROVE DrainOK'
  BY <1>5 DEF Grant, LetGo, TypeOK, DrainOK
<1>6. ASSUME NEW a \in QueueTurns, EndTurn(a) PROVE DrainOK'
  BY <1>6 DEF EndTurn, Holds, QueueTurns, TypeOK, DrainOK
<1>7. CASE DrainLoop
  BY <1>7 DEF DrainLoop, Join, TypeOK, DrainOK
<1>8. ASSUME NEW p \in Profiles, Enqueue(p) PROVE DrainOK'
  <2>1. running' /\ IF running THEN UNCHANGED pc ELSE pc' = [pc EXCEPT ![Drain] = "inline"]
    BY <1>8 DEF Enqueue, Join
  <2> QED BY <2>1 DEF TypeOK, DrainOK
<1>9. ASSUME NEW b \in Background, RunTurn(b) PROVE DrainOK'
  BY <1>9 DEF RunTurn, Join, TypeOK, DrainOK
<1>10. ASSUME NEW a \in Edits \cup Others, EditRequest(a) \/ OtherRequest(a) PROVE DrainOK'
  BY <1>10 DEF EditRequest, OtherRequest, Join, TypeOK, DrainOK
<1>11. CASE Restart
  BY <1>11 DEF Restart, DrainOK
<1>12. CASE UNCHANGED vars
  BY <1>12 DEF vars, DrainOK
<1> QED BY <1>1, <1>2, <1>3, <1>4, <1>5, <1>6, <1>7, <1>8, <1>9, <1>10, <1>11, <1>12
        DEF Next, TurnStep

\* Whatever leaves the turn and its holder alone keeps TurnOK.
LEMMA TurnUntouched ==
  ASSUME TurnOK, UNCHANGED <<turnVars, stops>>, \A h \in QueueTurns : Holds(h) => Holds(h)'
  PROVE  TurnOK'
BY DEF TurnOK, turnVars, QueueTurns

\* While the first of the line waits, or holds the lock for something else, no
\* turn runs.
LEMMA NoTurnRuns ==
  ASSUME TurnOK, NEW a, Head(line) = a, pc[a] = "inline" \/ a \notin QueueTurns
  PROVE  phase = "none" /\ controller = "none" /\ ~live /\ taken = <<>> /\ batch = <<>>
<1>1. \A h \in QueueTurns : ~ Holds(h)
  BY DEF Holds
<1>2. phase = "none" /\ controller = "none"
  BY <1>1 DEF TurnOK
<1> QED BY <1>2 DEF TurnOK

LEMMA TurnStepOK ==
  ASSUME TypeOK, LineOK, DrainOK, TurnOK, [Next]_vars
  PROVE  TurnOK'
<1> USE DEF stateVars, turnVars, counters, history
<1>1. CASE TakeBatch
  <2>1. /\ line' = line /\ line # <<>> /\ Head(line) = Drain /\ pc[Drain] = "inline"
        /\ pc'[Drain] = "holding"
    BY <1>1 DEF TakeBatch, TypeOK, Actors
  <2>2. Holds(Drain)' /\ Drain \in QueueTurns
    BY <2>1 DEF Holds, QueueTurns
  <2>3. phase = "none" /\ controller = "none" /\ ~live /\ taken = <<>>
    BY <2>1, NoTurnRuns
  <2>4. /\ live' = live /\ taken' = taken /\ batch' = queue
        /\ IF queue = <<>> THEN phase' = "finished" /\ controller' = controller
                           ELSE phase' = "store" /\ controller' = "live"
    BY <1>1 DEF TakeBatch
  <2> QED BY <2>2, <2>3, <2>4 DEF TurnOK
<1>2. ASSUME NEW b \in Background, StartBackground(b) PROVE TurnOK'
  <2>1. /\ line' = line /\ line # <<>> /\ Head(line) = b /\ pc[b] = "inline"
        /\ pc'[b] = "holding"
    BY <1>2 DEF StartBackground, TypeOK, Actors
  <2>2. Holds(b)' /\ b \in QueueTurns
    BY <2>1 DEF Holds, QueueTurns
  <2>3. phase = "none" /\ controller = "none" /\ ~live /\ taken = <<>> /\ batch = <<>>
    BY <2>1, NoTurnRuns
  <2>4. live' = live /\ taken' = taken /\ batch' = batch /\ phase' = "prepare"
        /\ controller' = "live"
    BY <1>2 DEF StartBackground
  <2> QED BY <2>2, <2>3, <2>4 DEF TurnOK
<1>3. CASE StoreOne
  <2>1. Len(batch) = 1 => Tail(batch) = <<>>
    <3>1. batch \in Seq(Entries)
      BY DEF TypeOK
    <3> QED BY <3>1, LastOne
  <2>2. Holds(Drain) /\ Drain \in QueueTurns /\ UNCHANGED <<line, pc>>
    BY <1>3 DEF StoreOne, TurnOK, QueueTurns
  <2>3. Holds(Drain)'
    BY <2>2 DEF Holds
  <2> QED BY <1>3, <2>1, <2>2, <2>3 DEF StoreOne, TurnOK
<1>4. CASE AskModel
  <2>1. UNCHANGED <<line, pc, controller, batch, stops>> /\ phase = "ask" /\ phase' = "model"
        /\ (live' \/ taken' # <<>> => Holds(Drain))
    BY <1>4 DEF AskModel, Steered
  <2>2. \A h \in QueueTurns : Holds(h)' <=> Holds(h)
    BY <2>1 DEF Holds
  <2>3. Holds(Drain)' <=> Holds(Drain)
    BY <2>1 DEF Holds
  <2> QED BY <2>1, <2>2, <2>3 DEF TurnOK
<1>5. CASE TurnBreaks
  <2>1. /\ UNCHANGED <<line, pc, controller, batch, stops>> /\ phase \notin {"none", "store"}
        /\ phase' = "finished" /\ taken' = <<>> /\ live' = FALSE
    BY <1>5 DEF TurnBreaks
  <2>2. \A h \in QueueTurns : Holds(h)' <=> Holds(h)
    BY <2>1 DEF Holds
  <2> QED BY <2>1, <2>2 DEF TurnOK
<1>6. CASE \/ StoreFails \/ Prepared \/ BeginStep \/ ModelEvent \/ CliSends \/ Answered \/ ExecuteCall
           \/ CloseInput \/ Stop
  <2>1. UNCHANGED <<line, pc>>
    BY <1>6 DEF StoreFails, Prepared, BeginStep, ModelEvent, CliSends, Answered, ExecuteCall,
                CloseInput, Stop
  <2>2. /\ \A h \in QueueTurns : Holds(h)' <=> Holds(h)
        /\ Holds(Drain)' <=> Holds(Drain)
    BY <2>1 DEF Holds
  <2>3. CASE StoreFails
    BY <2>2, <2>3 DEF StoreFails, TurnOK
  <2>4. CASE Prepared
    BY <2>2, <2>4 DEF Prepared, TurnOK
  <2>5. CASE BeginStep
    BY <2>2, <2>5 DEF BeginStep, TurnOK
  <2>6. CASE ModelEvent \/ CliSends \/ CloseInput
    BY <2>2, <2>6 DEF ModelEvent, CliSends, CloseInput, TurnOK
  <2>7. CASE Answered \/ ExecuteCall
    BY <2>2, <2>7 DEF Answered, ExecuteCall, TurnOK
  <2>8. CASE Stop
    BY <2>2, <2>8 DEF Stop, TurnOK, TypeOK
  <2> QED BY <1>6, <2>3, <2>4, <2>5, <2>6, <2>7, <2>8
<1>7. ASSUME NEW k \in 0 .. MaxCalls, NEW e \in 0 .. MaxCalls, NEW ok \in BOOLEAN,
             ModelDone(k, e, ok)
      PROVE  TurnOK'
  <2>1. /\ UNCHANGED <<line, pc, controller, batch, stops>> /\ phase = "model"
        /\ phase' \in {"finished", "tools", "after"} /\ taken' = <<>> /\ live' = FALSE
    BY <1>7 DEF ModelDone
  <2>2. \A h \in QueueTurns : Holds(h)' <=> Holds(h)
    BY <2>1 DEF Holds
  <2> QED BY <2>1, <2>2 DEF TurnOK
<1>8. ASSUME NEW a \in QueueTurns, EndTurn(a) PROVE TurnOK'
  BY <1>8 DEF EndTurn, TurnOK
<1>9. ASSUME NEW a \in Edits \cup Others, Grant(a) \/ LetGo(a) PROVE TurnOK'
  <2>1. Head(line) = a /\ a \notin QueueTurns
    BY <1>9 DEF Grant, LetGo, Holds
  <2>2. phase = "none" /\ controller = "none" /\ ~live /\ taken = <<>> /\ batch = <<>>
    BY <2>1, NoTurnRuns
  <2> QED BY <1>9, <2>2 DEF Grant, LetGo, TurnOK
<1>10. CASE DrainLoop
  <2>1. pc[Drain] = "leaving" /\ UNCHANGED <<turnVars, stops>> /\ Drain \in Actors
    BY <1>10 DEF DrainLoop, Actors
  <2>2. CASE Join(Drain)
    BY <2>1, <2>2, JoinKeepsHolders, TurnUntouched
  <2>3. CASE line' = line /\ pc' = [pc EXCEPT ![Drain] = "out"]
    <3>1. \A h \in QueueTurns : Holds(h) => Holds(h)'
      BY <2>1, <2>3 DEF Holds, TypeOK, QueueTurns, Actors
    <3> QED BY <2>1, <3>1, TurnUntouched
  <2> QED BY <1>10, <2>2, <2>3 DEF DrainLoop
<1>11. ASSUME NEW p \in Profiles, Enqueue(p) PROVE TurnOK'
  <2>1. \A h \in QueueTurns : Holds(h) => Holds(h)'
    <3>1. CASE running
      BY <1>11, <3>1 DEF Enqueue, Holds
    <3>2. CASE ~running
      <4>1. Drain \in Actors /\ pc[Drain] \notin {"inline", "holding"} /\ Join(Drain)
        BY <1>11, <3>2 DEF Enqueue, DrainOK, Active, Actors
      <4> QED BY <4>1, JoinKeepsHolders
    <3> QED BY <3>1, <3>2
  <2>2. /\ UNCHANGED <<controller, live, phase, batch, stops>>
        /\ taken' = taken \/ live
    BY <1>11 DEF Enqueue
  <2> QED BY <2>1, <2>2 DEF TurnOK, QueueTurns
<1>12. ASSUME NEW b \in Background, RunTurn(b) PROVE TurnOK'
  <2>1. b \in Actors /\ pc[b] = "out" /\ Join(b) /\ UNCHANGED <<turnVars, stops>>
    BY <1>12 DEF RunTurn, Actors
  <2> QED BY <2>1, JoinKeepsHolders, TurnUntouched
<1>13. ASSUME NEW a \in Edits \cup Others, EditRequest(a) \/ OtherRequest(a) PROVE TurnOK'
  <2>1. a \in Actors /\ pc[a] = "out" /\ Join(a) /\ UNCHANGED <<turnVars, stops>>
    BY <1>13 DEF EditRequest, OtherRequest, Actors
  <2> QED BY <2>1, JoinKeepsHolders, TurnUntouched
<1>14. ASSUME NEW b \in Background, LeaveBackground(b) PROVE TurnOK'
  <2>1. pc[b] = "leaving" /\ pc' = [pc EXCEPT ![b] = "done"]
        /\ UNCHANGED <<turnVars, stops, line>>
    BY <1>14 DEF LeaveBackground
  <2>2. \A h \in QueueTurns : Holds(h) => Holds(h)'
    BY <2>1 DEF Holds, TypeOK, QueueTurns, Actors
  <2> QED BY <2>1, <2>2, TurnUntouched
<1>15. CASE Subscribe \/ Unsubscribe \/ UNCHANGED vars
  <2>1. UNCHANGED <<turnVars, stops, line, pc>>
    BY <1>15 DEF Subscribe, Unsubscribe, vars
  <2> QED BY <2>1, TurnUntouched DEF Holds
<1>16. CASE Restart
  BY <1>16 DEF Restart, TurnOK
<1> QED BY <1>1, <1>2, <1>3, <1>4, <1>5, <1>6, <1>7, <1>8, <1>9, <1>10, <1>11, <1>12, <1>13,
           <1>14, <1>15, <1>16 DEF Next, TurnStep

\* The drain runs while `running` says so, the lock has one holder, and the turn
\* is its holder's.
THEOREM ControlHolds == Spec => []Control
<1>1. Init => Control
  BY DEF Init, Control, LineOK, DrainOK, TurnOK, Active, Actors
<1>2. TypeOK /\ Control /\ [Next]_vars => Control'
  BY LineStep, DrainStep, TurnStepOK DEF Control
<1> QED BY <1>1, <1>2, QueueTypesHold, PTL DEF Spec

\* Stop reaches a turn exactly while one runs: the controller is set only while
\* a turn of the queue holds the chat's lock, and always while its work is under
\* way (controller in runBatch and runTurn, stop()).
THEOREM StopIsAimed == Spec => []StopReachesTheTurn
<1>1. Control => StopReachesTheTurn
  BY DEF Control, TurnOK, StopReachesTheTurn
<1> QED BY <1>1, ControlHolds, PTL

-----------------------------------------------------------------------------
\* The queue, the chat's state and its threads.

QueueState == NobodyIsStranded /\ StateLivesWhileNeeded /\ ViewIsCurrent

\* A step of the turn leaves the queue alone, or takes messages for the drain's
\* turn and publishes what is left.
\* An open thread is told of the queue as it is then, and of a working agent.
Told == view' = IF listening THEN Status(queue', TRUE) ELSE view

LEMMA StepTakes ==
  ASSUME TypeOK, Control, \/ BeginStep \/ AskModel \/ Answered \/ TurnBreaks \/ TakeBatch
  PROVE  /\ UNCHANGED <<mapped, running, background, listening>>
         /\ (queue' = queue /\ view' = view) \/ (running /\ Told)
<1>1. Steered => running
  BY DEF Steered, Holds, Control, DrainOK, Active
<1>2. queue \in Seq(Entries)
  BY DEF TypeOK
<1>3. Takes(queue) = 0 => LeftIn(queue) = queue
  BY <1>2, TakenAndLeft
<1>4. TakeAndStore => (queue' = queue /\ view' = view) \/ Told
  <2>1. Takes(queue) \in Nat
    BY <1>2, TakesSome
  <2>2. ASSUME TakeAndStore, Takes(queue) = 0 PROVE queue' = queue /\ view' = view
    BY <1>3, <2>2 DEF TakeAndStore
  <2>3. ASSUME TakeAndStore, Takes(queue) > 0 PROVE Told
    BY <2>3 DEF TakeAndStore, Publish, Told
  <2> QED BY <2>1, <2>2, <2>3
<1>5. CASE BeginStep
  <2>1. UNCHANGED <<mapped, running, background, listening>>
    BY <1>5 DEF BeginStep
  <2>2. (queue' = queue /\ view' = view) \/ (Steered /\ TakeAndStore)
    BY <1>5 DEF BeginStep
  <2> QED BY <1>1, <1>4, <2>1, <2>2
<1>6. CASE Answered
  <2>1. UNCHANGED <<mapped, running, background, listening>>
    BY <1>6 DEF Answered
  <2>2. (queue' = queue /\ view' = view) \/ (Steered /\ TakeAndStore)
    BY <1>6 DEF Answered
  <2> QED BY <1>1, <1>4, <2>1, <2>2
<1>7. CASE AskModel
  <2>1. TakenFrom(queue) = <<>> => Takes(queue) = 0
    BY <1>2, TakenAndLeft
  <2>2. UNCHANGED <<mapped, running, background, listening>>
    BY <1>7 DEF AskModel
  <2>3. CASE Steered /\ profile \in LiveProfiles
    <3>1. queue' = LeftIn(queue) /\ (TakenFrom(queue) = <<>> => view' = view)
          /\ (TakenFrom(queue) # <<>> => Told)
      BY <1>7, <2>3 DEF AskModel, Publish, Told
    <3> QED BY <1>1, <1>3, <2>1, <2>2, <2>3, <3>1
  <2>4. CASE ~(Steered /\ profile \in LiveProfiles)
    BY <1>7, <2>2, <2>4 DEF AskModel
  <2> QED BY <2>3, <2>4
<1>8. CASE TurnBreaks
  <2>1. PICK lost \in {<<>>, TakenFrom(queue)} :
          /\ lost # <<>> => Steered
          /\ queue' = SubSeq(queue, Len(lost) + 1, Len(queue))
          /\ IF lost # <<>> THEN Told ELSE UNCHANGED view
    BY <1>8 DEF TurnBreaks, Publish, Told
  <2>2. lost = <<>> => queue' = queue
    <3>1. SubSeq(queue, 1, Len(queue)) = queue
      BY <1>2, SubSeqFull
    <3> QED BY <2>1, <3>1
  <2>3. UNCHANGED <<mapped, running, background, listening>>
    BY <1>8 DEF TurnBreaks
  <2> QED BY <1>1, <2>1, <2>2, <2>3
<1>9. CASE TakeBatch
  <2>1. pc[Drain] = "inline" /\ queue' = <<>> /\ (queue # <<>> => Told)
        /\ (queue = <<>> => view' = view)
    BY <1>9 DEF TakeBatch, Publish, Told
  <2>2. running
    BY <2>1 DEF Control, DrainOK, Active
  <2>3. UNCHANGED <<mapped, running, background, listening>>
    BY <1>9 DEF TakeBatch
  <2> QED BY <2>1, <2>2, <2>3
<1> QED BY <1>5, <1>6, <1>7, <1>8, <1>9

LEMMA QueueStateStep ==
  ASSUME TypeOK, TypeOK', Control, Control', QueueState, [Next]_vars
  PROVE  QueueState'
<1> USE DEF stateVars, turnVars, counters, history, QueueState, NobodyIsStranded,
            StateLivesWhileNeeded, ViewIsCurrent
<1>1. running' => pc'[Drain] # "out"
  BY DEF Control, DrainOK, Active
<1>2. CASE UNCHANGED stateVars
  BY <1>1, <1>2 DEF Busy
<1>3. CASE \/ BeginStep \/ AskModel \/ Answered \/ TurnBreaks \/ TakeBatch
  <2>1. /\ UNCHANGED <<mapped, running, background, listening>>
        /\ (queue' = queue /\ view' = view) \/ (running /\ Told)
    BY <1>3, StepTakes
  <2>2. Busy' = Busy /\ (running => Busy = TRUE)
    BY <2>1 DEF Busy
  <2> QED BY <1>1, <2>1, <2>2 DEF Told
<1>4. ASSUME NEW p \in Profiles, Enqueue(p) PROVE QueueState'
  <2>1. mapped' /\ running' /\ Publish(queue', TRUE) /\ listening' = listening
    BY <1>4 DEF Enqueue
  <2>2. Busy' = TRUE
    BY <2>1 DEF Busy
  <2> QED BY <1>1, <2>1, <2>2 DEF Publish
<1>5. ASSUME NEW b \in Background, RunTurn(b) PROVE QueueState'
  <2>1. /\ mapped' /\ background' = background + 1 /\ Publish(queue, TRUE)
        /\ UNCHANGED <<queue, running, listening>>
    BY <1>5 DEF RunTurn
  <2>2. Busy' = TRUE
    BY <2>1 DEF Busy, TypeOK
  <2> QED BY <1>1, <2>1, <2>2 DEF Publish
<1>6. ASSUME NEW b \in Background, LeaveBackground(b) PROVE QueueState'
  <2>1. /\ Publish(queue, running \/ background' > 0)
        /\ Prune(queue, running \/ background' > 0, listening)
        /\ UNCHANGED <<queue, running, listening>>
    BY <1>6 DEF LeaveBackground
  <2>2. Busy' = (running \/ background' > 0)
    BY <2>1 DEF Busy
  <2> QED BY <1>1, <2>1, <2>2 DEF Publish, Prune
<1>7. CASE DrainLoop
  <2>1. CASE queue # <<>>
    <3>1. UNCHANGED stateVars
      BY <1>7, <2>1 DEF DrainLoop
    <3> QED BY <1>2, <3>1
  <2>2. CASE queue = <<>>
    <3>1. /\ running' = FALSE /\ Publish(queue, background > 0)
          /\ Prune(queue, background > 0, listening)
          /\ UNCHANGED <<queue, background, listening>>
      BY <1>7, <2>2 DEF DrainLoop
    <3>2. Busy' = (background > 0)
      BY <3>1 DEF Busy
    <3> QED BY <2>2, <3>1, <3>2 DEF Publish, Prune
  <2> QED BY <2>1, <2>2
<1>8. CASE Subscribe
  <2>1. Busy' = Busy
    BY <1>8 DEF Subscribe, Busy
  <2> QED BY <1>1, <1>8, <2>1 DEF Subscribe
<1>9. CASE Unsubscribe
  <2>1. Busy' = Busy
    BY <1>9 DEF Unsubscribe, Busy
  <2> QED BY <1>1, <1>9, <2>1 DEF Unsubscribe, Prune
<1>10. CASE Restart
  <2>1. /\ mapped' = FALSE /\ queue' = <<>> /\ listening' = FALSE
        /\ running' = FALSE /\ background' = 0
    BY <1>10 DEF Restart
  <2>2. Busy' = FALSE
    BY <2>1 DEF Busy
  <2> QED BY <2>1, <2>2
<1>11. ASSUME NEW k \in 0 .. MaxCalls, NEW e \in 0 .. MaxCalls, NEW ok \in BOOLEAN,
              ModelDone(k, e, ok)
       PROVE  UNCHANGED stateVars
  BY <1>11 DEF ModelDone
<1>12. CASE StoreOne \/ Prepared \/ ModelEvent \/ CliSends \/ ExecuteCall
            \/ StoreFails \/ CloseInput \/ Stop
  BY <1>2, <1>12 DEF StoreOne, Prepared, ModelEvent, CliSends, ExecuteCall, StoreFails,
                     CloseInput, Stop
<1>13. ASSUME NEW b \in Background, StartBackground(b) PROVE UNCHANGED stateVars
  BY <1>13 DEF StartBackground
<1>14. ASSUME NEW a \in QueueTurns, EndTurn(a) PROVE UNCHANGED stateVars
  BY <1>14 DEF EndTurn
<1>15. ASSUME NEW a \in Edits \cup Others,
              \/ Grant(a) \/ LetGo(a) \/ EditRequest(a) \/ OtherRequest(a)
       PROVE  UNCHANGED stateVars
  BY <1>15 DEF Grant, LetGo, EditRequest, OtherRequest
<1>16. CASE UNCHANGED vars
  BY <1>2, <1>16 DEF vars
<1> QED BY <1>2, <1>3, <1>4, <1>5, <1>6, <1>7, <1>8, <1>9, <1>10, <1>11, <1>12, <1>13, <1>14,
           <1>15, <1>16 DEF Next, TurnStep

\* A message that waits has its drain, the chat's state is in the map exactly
\* while it is needed, and an open thread shows the queue as it is.
THEOREM QueueStateHolds == Spec => []QueueState
<1>1. Init => QueueState
  <2>1. Init => ~ Busy
    BY DEF Init, Busy
  <2> QED BY <2>1 DEF Init, QueueState, NobodyIsStranded, StateLivesWhileNeeded, ViewIsCurrent
<1>2. (TypeOK /\ Control) /\ (TypeOK /\ Control)' /\ QueueState /\ [Next]_vars => QueueState'
  BY QueueStateStep
<1> QED BY <1>1, <1>2, QueueTypesHold, ControlHolds, PTL DEF Spec

\* The chat's state is in the map exactly while a turn, a message or an open
\* thread needs it (stateFor and prune): no stop and no message misses a turn
\* because the state it would find was dropped.
THEOREM StateLives == Spec => []StateLivesWhileNeeded
<1>1. QueueState => StateLivesWhileNeeded
  BY DEF QueueState
<1> QED BY <1>1, QueueStateHolds, PTL

\* An open thread shows the queue and whether the agent works as they are: no
\* change of either goes unpublished (publish and statusEvent).
THEOREM ViewsAreCurrent == Spec => []ViewIsCurrent
<1>1. QueueState => ViewIsCurrent
  BY DEF QueueState
<1> QED BY <1>1, QueueStateHolds, PTL

-----------------------------------------------------------------------------
\* Edits and turns.

\* While no turn of the queue is counted, none is in the line.
LEMMA IdleLine ==
  ASSUME TypeOK, Counted, LineOK, DrainOK, ~Busy, NEW i \in DOMAIN line
  PROVE  line[i] \notin QueueTurns
<1>1. pc[line[i]] \in Active
  BY DEF LineOK, Active
<1>2. line[i] # Drain
  BY <1>1 DEF DrainOK, Busy
<1>3. ASSUME line[i] \in Background PROVE FALSE
  <2>1. Working # {} /\ Cardinality(Working) \in Nat
    BY <1>1, <1>3, WorkingIsFinite, FS_CardinalityType DEF Working
  <2>2. Cardinality(Working) # 0
    BY <2>1, WorkingIsFinite, FS_EmptySet
  <2> QED BY <2>1, <2>2 DEF Counted, Busy
<1> QED BY <1>2, <1>3 DEF QueueTurns

\* A newcomer that is no edit does not stand before one.
LEMMA JoinMeetsNoTurn ==
  ASSUME TypeOK, EditsMeetNoTurn, NEW a \in Actors, Join(a),
         a \in Edits => \A i \in DOMAIN line : line[i] \notin QueueTurns
  PROVE  EditsMeetNoTurn'
<1>1. /\ DOMAIN line' = 1 .. Len(line) + 1 /\ DOMAIN line = 1 .. Len(line) /\ Len(line) \in Nat
      /\ \A i \in DOMAIN line : line'[i] = line[i]
      /\ line'[Len(line) + 1] = a
  BY AppendProperties, LenProperties DEF Join, TypeOK
<1> SUFFICES ASSUME NEW i \in DOMAIN line', NEW j \in DOMAIN line', i < j, line'[j] \in Edits
             PROVE  line'[i] \notin QueueTurns
  BY DEF EditsMeetNoTurn
<1>2. i \in DOMAIN line /\ line'[i] = line[i]
  BY <1>1
<1>3. CASE j \in DOMAIN line
  BY <1>1, <1>2, <1>3 DEF EditsMeetNoTurn
<1>4. CASE j = Len(line) + 1
  BY <1>1, <1>2, <1>4
<1> QED BY <1>1, <1>3, <1>4

LEMMA EditsStep ==
  ASSUME TypeOK, Counted, LineOK, DrainOK, EditsMeetNoTurn, [Next]_vars
  PROVE  EditsMeetNoTurn'
<1> USE ActorsAssumption DEF stateVars, turnVars, counters, history
<1>1. CASE UNCHANGED line
  BY <1>1 DEF EditsMeetNoTurn
<1>2. CASE line # <<>> /\ line' = Tail(line)
  <2>1. /\ Len(line) \in Nat /\ DOMAIN line = 1 .. Len(line) /\ DOMAIN line' = 1 .. Len(line) - 1
        /\ \A i \in 1 .. Len(line) - 1 : line'[i] = line[i + 1]
    BY <1>2, HeadTailProperties, LenProperties DEF TypeOK
  <2>2. \A i \in DOMAIN line' : i \in Nat /\ i + 1 \in DOMAIN line /\ line'[i] = line[i + 1]
    BY <2>1
  <2>3. ASSUME NEW i \in DOMAIN line', NEW j \in DOMAIN line', i < j, line'[j] \in Edits
        PROVE  line'[i] \notin QueueTurns
    <3>1. i + 1 < j + 1 /\ line[j + 1] \in Edits
      BY <2>2, <2>3
    <3> QED BY <2>2, <3>1 DEF EditsMeetNoTurn
  <2> QED BY <2>3 DEF EditsMeetNoTurn
<1>3. ASSUME NEW a \in Actors \ Edits, Join(a) PROVE EditsMeetNoTurn'
  BY <1>3, JoinMeetsNoTurn
<1>4. ASSUME NEW e \in Edits, EditRequest(e) PROVE EditsMeetNoTurn'
  <2>1. ~Busy /\ Join(e) /\ e \in Actors
    BY <1>4 DEF EditRequest, Actors
  <2> QED BY <2>1, IdleLine, JoinMeetsNoTurn
<1>5. ASSUME NEW p \in Profiles, Enqueue(p) PROVE EditsMeetNoTurn'
  BY <1>1, <1>3, <1>5 DEF Enqueue, Actors
<1>6. ASSUME NEW b \in Background, RunTurn(b) PROVE EditsMeetNoTurn'
  BY <1>3, <1>6 DEF RunTurn, Actors
<1>7. ASSUME NEW o \in Others, OtherRequest(o) PROVE EditsMeetNoTurn'
  BY <1>3, <1>7 DEF OtherRequest, Actors
<1>8. CASE DrainLoop
  BY <1>1, <1>3, <1>8 DEF DrainLoop, Actors
<1>9. ASSUME NEW a \in QueueTurns, EndTurn(a) PROVE EditsMeetNoTurn'
  BY <1>2, <1>9 DEF EndTurn, Holds
<1>10. ASSUME NEW a \in Edits \cup Others, Grant(a) \/ LetGo(a) PROVE EditsMeetNoTurn'
  BY <1>1, <1>2, <1>10 DEF Grant, LetGo, Holds
<1>11. CASE \/ StoreOne \/ Prepared \/ BeginStep \/ AskModel \/ ModelEvent \/ CliSends \/ Answered
            \/ ExecuteCall \/ StoreFails \/ TurnBreaks \/ CloseInput \/ TakeBatch
            \/ Subscribe \/ Unsubscribe \/ Stop \/ UNCHANGED vars
  BY <1>1, <1>11 DEF StoreOne, Prepared, BeginStep, AskModel, ModelEvent, CliSends, Answered, ExecuteCall,
              StoreFails, TurnBreaks, CloseInput, TakeBatch, Subscribe, Unsubscribe, Stop, vars
<1>12. ASSUME NEW k \in 0 .. MaxCalls, NEW e \in 0 .. MaxCalls, NEW ok \in BOOLEAN,
              ModelDone(k, e, ok)
       PROVE  UNCHANGED line
  BY <1>12 DEF ModelDone
<1>13. ASSUME NEW b \in Background, StartBackground(b) \/ LeaveBackground(b) PROVE UNCHANGED line
  BY <1>13 DEF StartBackground, LeaveBackground
<1>14. CASE Restart
  BY <1>14 DEF Restart, EditsMeetNoTurn
<1> QED BY <1>1, <1>4, <1>5, <1>6, <1>7, <1>8, <1>9, <1>10, <1>11, <1>12, <1>13, <1>14
        DEF Next, TurnStep

\* No queued or background turn stands before an admitted edit: whoever joins the
\* line after the edit's check of busy() waits for it (the 409s of the message
\* routes and withChatLock).
THEOREM EditsAreAlone == Spec => []EditsMeetNoTurn
<1>1. Init => EditsMeetNoTurn
  BY DEF Init, EditsMeetNoTurn
<1>2. TypeOK /\ Counted /\ Control /\ EditsMeetNoTurn /\ [Next]_vars => EditsMeetNoTurn'
  BY EditsStep DEF Control
<1> QED BY <1>1, <1>2, QueueTypesHold, ControlHolds, PTL DEF Spec

-----------------------------------------------------------------------------
\* The order of the messages.

\* Rows and entries alike have a number.
Items == Rows \cup Entries
Below(A, B) == \A m \in A : \A n \in B : m < n

LEMMA ItemSeqs ==
  /\ \A x \in Items : x.n \in Nat
  /\ \A s \in Seq(Rows) : s \in Seq(Items)
  /\ \A s \in Seq(Entries) : s \in Seq(Items)
<1>1. \A x \in Items : x.n \in Nat
  BY BoundsAssumption DEF Items, Rows, Entries
<1>2. Rows \subseteq Items /\ Entries \subseteq Items
  BY DEF Items
<1> QED BY <1>1, <1>2, SeqMonotonic

LEMMA NumberOf ==
  ASSUME NEW s \in Seq(Items), NEW i \in DOMAIN s
  PROVE  s[i].n \in Nat /\ (s[i].n # 0 => s[i].n \in PostsIn(s))
<1>1. s[i] \in Items
  OBVIOUS
<1> QED BY <1>1, ItemSeqs DEF PostsIn

LEMMA ConcatParts ==
  ASSUME NEW s \in Seq(Items), NEW t \in Seq(Items)
  PROVE  /\ s \o t \in Seq(Items) /\ Len(s) \in Nat /\ Len(t) \in Nat
         /\ DOMAIN s = 1 .. Len(s) /\ DOMAIN t = 1 .. Len(t)
         /\ DOMAIN (s \o t) = 1 .. Len(s) + Len(t)
         /\ \A i \in 1 .. Len(s) : (s \o t)[i] = s[i]
         /\ \A j \in 1 .. Len(t) : (s \o t)[Len(s) + j] = t[j]
BY ConcatProperties, LenProperties

LEMMA PostsOfConcat ==
  ASSUME NEW s \in Seq(Items), NEW t \in Seq(Items)
  PROVE  PostsIn(s \o t) = PostsIn(s) \cup PostsIn(t)
<1> DEFINE st == s \o t
<1>1. ASSUME NEW n \in PostsIn(st) PROVE n \in PostsIn(s) \cup PostsIn(t)
  <2>1. PICK i \in DOMAIN st : n = st[i].n /\ n # 0
    BY DEF PostsIn
  <2>2. CASE i <= Len(s)
    BY <2>1, <2>2, ConcatParts DEF PostsIn
  <2>3. CASE ~(i <= Len(s))
    <3>1. i - Len(s) \in 1 .. Len(t) /\ Len(s) + (i - Len(s)) = i
      BY <2>3, ConcatParts
    <3>2. i - Len(s) \in DOMAIN t /\ st[i] = t[i - Len(s)]
      BY <3>1, ConcatParts
    <3> QED BY <2>1, <3>2 DEF PostsIn
  <2> QED BY <2>2, <2>3
<1>2. ASSUME NEW n \in PostsIn(s) PROVE n \in PostsIn(st)
  <2>1. PICK i \in DOMAIN s : n = s[i].n /\ n # 0
    BY DEF PostsIn
  <2>2. i \in DOMAIN st /\ st[i] = s[i]
    BY ConcatParts
  <2> QED BY <2>1, <2>2 DEF PostsIn
<1>3. ASSUME NEW n \in PostsIn(t) PROVE n \in PostsIn(st)
  <2>1. PICK j \in DOMAIN t : n = t[j].n /\ n # 0
    BY DEF PostsIn
  <2>2. Len(s) + j \in DOMAIN st /\ st[Len(s) + j] = t[j]
    BY ConcatParts
  <2> QED BY <2>1, <2>2 DEF PostsIn
<1> QED BY <1>1, <1>2, <1>3

LEMMA OrderOfConcat ==
  ASSUME NEW s \in Seq(Items), NEW t \in Seq(Items)
  PROVE  InOrder(s \o t) <=> InOrder(s) /\ InOrder(t) /\ Below(PostsIn(s), PostsIn(t))
<1> DEFINE st == s \o t
<1>1. ASSUME InOrder(st) PROVE InOrder(s)
  <2>1. \A i \in DOMAIN s : i \in DOMAIN st /\ st[i] = s[i]
    BY ConcatParts
  <2> QED BY <1>1, <2>1 DEF InOrder
<1>2. ASSUME InOrder(st) PROVE InOrder(t)
  <2>1. \A i \in DOMAIN t : Len(s) + i \in DOMAIN st /\ st[Len(s) + i] = t[i]
    BY ConcatParts
  <2> SUFFICES ASSUME NEW i \in DOMAIN t, NEW j \in DOMAIN t, i < j, t[i].n > 0
               PROVE  t[j].n = 0 \/ t[i].n < t[j].n
    BY DEF InOrder
  <2>2. Len(s) + i < Len(s) + j
    BY ConcatParts
  <2> QED BY <1>2, <2>1, <2>2 DEF InOrder
<1>3. ASSUME InOrder(st) PROVE Below(PostsIn(s), PostsIn(t))
  <2> SUFFICES ASSUME NEW m \in PostsIn(s), NEW n \in PostsIn(t) PROVE m < n
    BY DEF Below
  <2>1. PICK i \in DOMAIN s : m = s[i].n /\ m # 0
    BY DEF PostsIn
  <2>2. PICK j \in DOMAIN t : n = t[j].n /\ n # 0
    BY DEF PostsIn
  <2>3. i \in DOMAIN st /\ st[i] = s[i] /\ Len(s) + j \in DOMAIN st /\ st[Len(s) + j] = t[j]
        /\ i < Len(s) + j
    BY ConcatParts
  <2>4. m > 0
    BY <2>1, NumberOf
  <2>5. st[i].n > 0 /\ st[Len(s) + j].n # 0 /\ st[i].n = m /\ st[Len(s) + j].n = n
    BY <2>1, <2>2, <2>3, <2>4
  <2> QED BY <1>3, <2>3, <2>5 DEF InOrder
<1>4. ASSUME InOrder(s), InOrder(t), Below(PostsIn(s), PostsIn(t)) PROVE InOrder(st)
  <2> SUFFICES ASSUME NEW i \in DOMAIN st, NEW j \in DOMAIN st, i < j, st[i].n > 0
               PROVE  st[j].n = 0 \/ st[i].n < st[j].n
    BY DEF InOrder
  <2>1. i \in 1 .. Len(s) + Len(t) /\ j \in 1 .. Len(s) + Len(t) /\ Len(s) \in Nat /\ Len(t) \in Nat
    BY ConcatParts
  <2>2. CASE j <= Len(s)
    <3>1. i \in DOMAIN s /\ j \in DOMAIN s /\ st[i] = s[i] /\ st[j] = s[j]
      BY <2>1, <2>2, ConcatParts
    <3> QED BY <1>4, <3>1 DEF InOrder
  <2>3. CASE i > Len(s)
    <3> DEFINE a == i - Len(s)  b == j - Len(s)
    <3>1. a \in 1 .. Len(t) /\ b \in 1 .. Len(t) /\ Len(s) + a = i /\ Len(s) + b = j /\ a < b
      BY <2>1, <2>3
    <3>2. a \in DOMAIN t /\ b \in DOMAIN t /\ st[i] = t[a] /\ st[j] = t[b]
      BY <3>1, ConcatParts
    <3> QED BY <1>4, <3>1, <3>2 DEF InOrder
  <2>4. CASE i <= Len(s) /\ j > Len(s)
    <3> DEFINE b == j - Len(s)
    <3>1. i \in 1 .. Len(s) /\ b \in 1 .. Len(t) /\ Len(s) + b = j
      BY <2>1, <2>4
    <3>2. i \in DOMAIN s /\ b \in DOMAIN t /\ st[i] = s[i] /\ st[j] = t[b]
      BY <3>1, ConcatParts
    <3>3. s[i].n \in PostsIn(s)
      BY <3>2, NumberOf
    <3>4. t[b].n # 0 => t[b].n \in PostsIn(t)
      BY <3>2, NumberOf
    <3> QED BY <1>4, <3>2, <3>3, <3>4 DEF Below
  <2> QED BY <2>1, <2>2, <2>3, <2>4
<1> QED BY <1>1, <1>2, <1>3, <1>4

LEMMA NoItem == InOrder(<<>>) /\ PostsIn(<<>>) = {} /\ <<>> \in Seq(Items)
<1>1. DOMAIN <<>> = {} /\ <<>> \in Seq(Items)
  BY EmptySeq
<1> QED BY <1>1 DEF InOrder, PostsIn

LEMMA OneItem ==
  ASSUME NEW x \in Items
  PROVE  <<x>> \in Seq(Items) /\ InOrder(<<x>>) /\ PostsIn(<<x>>) = {x.n} \ {0}
<1>1. <<x>> \in Seq(Items) /\ DOMAIN <<x>> = {1} /\ <<x>>[1] = x
  OBVIOUS
<1> QED BY <1>1 DEF InOrder, PostsIn

LEMMA EntriesAsRows ==
  ASSUME NEW s \in Seq(Entries)
  PROVE  /\ UserRows(s) \in Seq(Items) /\ PostsIn(UserRows(s)) = PostsIn(s)
         /\ PostsIn(s) = Numbers(s)
         /\ InOrder(UserRows(s)) <=> InOrder(s)
<1>1. UserRows(s) \in Seq(Rows) /\ DOMAIN UserRows(s) = DOMAIN s
  BY RowsOfEntries, BoundsAssumption
<1>2. \A i \in DOMAIN s : UserRows(s)[i].n = s[i].n
  BY DEF UserRows, UserRow
<1>3. 0 \notin Numbers(s)
  BY NumbersBounded
<1>4. UserRows(s) \in Seq(Items)
  BY <1>1, ItemSeqs
<1>5. PostsIn(UserRows(s)) = PostsIn(s)
  BY <1>1, <1>2 DEF PostsIn
<1>6. PostsIn(s) = Numbers(s)
  BY <1>3 DEF PostsIn, Numbers
<1>7. InOrder(UserRows(s)) <=> InOrder(s)
  BY <1>1, <1>2 DEF InOrder
<1> QED BY <1>4, <1>5, <1>6, <1>7

LEMMA TwoParts ==
  ASSUME NEW s \in Seq(Entries), NEW k \in 0 .. Len(s)
  PROVE  /\ SubSeq(s, 1, k) \in Seq(Entries) /\ SubSeq(s, k + 1, Len(s)) \in Seq(Entries)
         /\ SubSeq(s, 1, k) \o SubSeq(s, k + 1, Len(s)) = s
<1>1. 1 \in 1 .. Len(s) + 1 /\ k \in 1 - 1 .. Len(s) /\ Len(s) \in k .. Len(s)
  OBVIOUS
<1>2. SubSeq(s, 1, k) \o SubSeq(s, k + 1, Len(s)) = SubSeq(s, 1, Len(s))
  BY <1>1, ConcatAdjacentSubSeq
<1> QED BY <1>2, Cut, SubSeqFull

LEMMA Halves ==
  ASSUME NEW front \in Seq(Entries), NEW rest \in Seq(Entries)
  PROVE  /\ PostsIn(front \o rest) = PostsIn(front) \cup PostsIn(rest)
         /\ InOrder(front \o rest) <=> /\ InOrder(front) /\ InOrder(rest)
                                       /\ Below(PostsIn(front), PostsIn(rest))
<1>1. front \in Seq(Items) /\ rest \in Seq(Items)
  BY ItemSeqs
<1>2. PostsIn(front \o rest) = PostsIn(front) \cup PostsIn(rest)
  BY <1>1, PostsOfConcat
<1>3. InOrder(front \o rest) <=> /\ InOrder(front) /\ InOrder(rest)
                                 /\ Below(PostsIn(front), PostsIn(rest))
  BY <1>1, OrderOfConcat
<1> QED BY <1>2, <1>3

\* What is cut from the front of a sequence precedes the rest.
LEMMA PartsInOrder ==
  ASSUME NEW s \in Seq(Entries), NEW k \in 0 .. Len(s), InOrder(s)
  PROVE  /\ SubSeq(s, 1, k) \in Seq(Entries) /\ SubSeq(s, k + 1, Len(s)) \in Seq(Entries)
         /\ PostsIn(s) = PostsIn(SubSeq(s, 1, k)) \cup PostsIn(SubSeq(s, k + 1, Len(s)))
         /\ InOrder(SubSeq(s, 1, k)) /\ InOrder(SubSeq(s, k + 1, Len(s)))
         /\ Below(PostsIn(SubSeq(s, 1, k)), PostsIn(SubSeq(s, k + 1, Len(s))))
<1> DEFINE front == SubSeq(s, 1, k)  rest == SubSeq(s, k + 1, Len(s))
<1>1. front \in Seq(Entries) /\ rest \in Seq(Entries) /\ front \o rest = s
  BY TwoParts
<1> HIDE DEF front, rest
<1>2. /\ PostsIn(front \o rest) = PostsIn(front) \cup PostsIn(rest)
      /\ InOrder(front \o rest) <=> /\ InOrder(front) /\ InOrder(rest)
                                    /\ Below(PostsIn(front), PostsIn(rest))
  BY <1>1, Halves
<1>3. /\ front \in Seq(Entries) /\ rest \in Seq(Entries)
      /\ PostsIn(s) = PostsIn(front) \cup PostsIn(rest)
      /\ InOrder(front) /\ InOrder(rest) /\ Below(PostsIn(front), PostsIn(rest))
  BY <1>1, <1>2
<1> QED BY <1>3 DEF front, rest

LEMMA Stored ==
  ASSUME NEW t \in Seq(Items), NEW s \in Seq(Entries),
         InOrder(t), InOrder(s), Below(PostsIn(t), PostsIn(s))
  PROVE  /\ t \o UserRows(s) \in Seq(Items) /\ InOrder(t \o UserRows(s))
         /\ PostsIn(t \o UserRows(s)) = PostsIn(t) \cup PostsIn(s)
<1>1. /\ UserRows(s) \in Seq(Items) /\ PostsIn(UserRows(s)) = PostsIn(s)
      /\ InOrder(UserRows(s))
  BY EntriesAsRows
<1> QED BY <1>1, ConcatParts, PostsOfConcat, OrderOfConcat

LEMMA RowAdded ==
  ASSUME NEW t \in Seq(Items), InOrder(t), NEW x \in Rows, x.n = 0
  PROVE  /\ Append(t, x) = t \o <<x>> /\ Append(t, x) \in Seq(Items)
         /\ InOrder(Append(t, x)) /\ PostsIn(Append(t, x)) = PostsIn(t)
<1>1. x \in Items
  BY DEF Items
<1>2. <<x>> \in Seq(Items) /\ InOrder(<<x>>) /\ PostsIn(<<x>>) = {}
  BY <1>1, OneItem
<1>3. Append(t, x) = t \o <<x>>
  BY <1>1, AppendIsConcat
<1>4. t \o <<x>> \in Seq(Items) /\ PostsIn(t \o <<x>>) = PostsIn(t) \cup {}
  BY <1>2, ConcatParts, PostsOfConcat
<1>5. InOrder(t \o <<x>>)
  BY <1>2, OrderOfConcat DEF Below
<1> QED BY <1>3, <1>4, <1>5

\* What is stored precedes what the turn has in hand, and that what waits.
Lined(t, h, q) ==
  /\ InOrder(t) /\ InOrder(h) /\ InOrder(q)
  /\ Below(PostsIn(t), PostsIn(h)) /\ Below(PostsIn(t), PostsIn(q))
  /\ Below(PostsIn(h), PostsIn(q))

Ordered == /\ Lined(transcript, taken, queue) /\ Lined(transcript, batch, queue)
           /\ PostsIn(transcript) \subseteq 1 .. posts /\ PostsIn(taken) \subseteq 1 .. posts
           /\ PostsIn(batch) \subseteq 1 .. posts /\ PostsIn(queue) \subseteq 1 .. posts

\* A message joins the queue.
LEMMA LinedWhenPosted ==
  ASSUME NEW t \in Seq(Items), NEW h \in Seq(Items), NEW q \in Seq(Items), NEW e \in Items,
         Lined(t, h, q), Below(PostsIn(t), {e.n}), Below(PostsIn(h), {e.n}),
         Below(PostsIn(q), {e.n}), e.n > 0
  PROVE  /\ Append(q, e) \in Seq(Items) /\ Lined(t, h, Append(q, e))
         /\ PostsIn(Append(q, e)) = PostsIn(q) \cup {e.n}
<1>1. <<e>> \in Seq(Items) /\ InOrder(<<e>>) /\ PostsIn(<<e>>) = {e.n}
  BY OneItem
<1>2. Append(q, e) = q \o <<e>>
  BY AppendIsConcat
<1>3. q \o <<e>> \in Seq(Items) /\ PostsIn(q \o <<e>>) = PostsIn(q) \cup {e.n}
  BY <1>1, ConcatParts, PostsOfConcat
<1>4. InOrder(q \o <<e>>)
  BY <1>1, OrderOfConcat DEF Lined
<1> QED BY <1>2, <1>3, <1>4 DEF Lined, Below

\* The front of the queue is taken behind what the turn has in hand.
LEMMA LinedWhenTaken ==
  ASSUME NEW t \in Seq(Items), NEW h \in Seq(Entries), NEW q \in Seq(Entries), Lined(t, h, q),
         NEW k \in 0 .. Len(q)
  PROVE  /\ h \o SubSeq(q, 1, k) \in Seq(Entries) /\ SubSeq(q, k + 1, Len(q)) \in Seq(Entries)
         /\ Lined(t, h \o SubSeq(q, 1, k), SubSeq(q, k + 1, Len(q)))
         /\ PostsIn(h \o SubSeq(q, 1, k)) \cup PostsIn(SubSeq(q, k + 1, Len(q)))
              = PostsIn(h) \cup PostsIn(q)
<1> DEFINE front == SubSeq(q, 1, k)  rest == SubSeq(q, k + 1, Len(q))
<1>1. /\ front \in Seq(Entries) /\ rest \in Seq(Entries)
      /\ PostsIn(q) = PostsIn(front) \cup PostsIn(rest)
      /\ InOrder(front) /\ InOrder(rest) /\ Below(PostsIn(front), PostsIn(rest))
  <2>1. InOrder(q)
    BY DEF Lined
  <2> QED BY <2>1, PartsInOrder
<1> HIDE DEF front, rest
<1>2. h \in Seq(Items) /\ front \in Seq(Items) /\ h \o front \in Seq(Entries)
  BY <1>1, ItemSeqs, ConcatProperties
<1>3. PostsIn(h \o front) = PostsIn(h) \cup PostsIn(front)
  BY <1>2, PostsOfConcat
<1>4. Below(PostsIn(h), PostsIn(front))
  BY <1>1 DEF Lined, Below
<1>5. InOrder(h \o front)
  BY <1>1, <1>2, <1>4, OrderOfConcat DEF Lined
<1>6. Lined(t, h \o front, rest)
  BY <1>1, <1>3, <1>5 DEF Lined, Below
<1> QED BY <1>1, <1>2, <1>3, <1>6 DEF front, rest

\* The same with nothing in hand.
LEMMA LinedWhenFirstTaken ==
  ASSUME NEW t \in Seq(Items), NEW q \in Seq(Entries), Lined(t, <<>>, q), NEW k \in 0 .. Len(q)
  PROVE  /\ SubSeq(q, 1, k) \in Seq(Entries) /\ SubSeq(q, k + 1, Len(q)) \in Seq(Entries)
         /\ Lined(t, SubSeq(q, 1, k), SubSeq(q, k + 1, Len(q)))
         /\ PostsIn(SubSeq(q, 1, k)) \cup PostsIn(SubSeq(q, k + 1, Len(q))) = PostsIn(q)
<1> DEFINE front == SubSeq(q, 1, k)  rest == SubSeq(q, k + 1, Len(q))
<1>1. InOrder(q)
  BY DEF Lined
<1>2. /\ front \in Seq(Entries) /\ rest \in Seq(Entries)
      /\ PostsIn(q) = PostsIn(front) \cup PostsIn(rest)
      /\ InOrder(front) /\ InOrder(rest) /\ Below(PostsIn(front), PostsIn(rest))
  BY <1>1, PartsInOrder
<1> HIDE DEF front, rest
<1>3. Lined(t, front, rest)
  BY <1>2 DEF Lined, Below
<1> QED BY <1>2, <1>3 DEF front, rest

\* The first k messages in hand become rows, and the others are dropped.
LEMMA LinedWhenStored ==
  ASSUME NEW t \in Seq(Items), NEW h \in Seq(Entries), NEW q \in Seq(Entries), Lined(t, h, q),
         NEW k \in 0 .. Len(h)
  PROVE  /\ t \o UserRows(SubSeq(h, 1, k)) \in Seq(Items)
         /\ Lined(t \o UserRows(SubSeq(h, 1, k)), <<>>, q)
         /\ PostsIn(SubSeq(h, 1, k)) \subseteq PostsIn(h)
         /\ PostsIn(t \o UserRows(SubSeq(h, 1, k))) = PostsIn(t) \cup PostsIn(SubSeq(h, 1, k))
<1> DEFINE front == SubSeq(h, 1, k)  rest == SubSeq(h, k + 1, Len(h))
<1>1. /\ front \in Seq(Entries) /\ PostsIn(h) = PostsIn(front) \cup PostsIn(rest)
      /\ InOrder(front)
  <2>1. InOrder(h)
    BY DEF Lined
  <2> QED BY <2>1, PartsInOrder
<1> HIDE DEF front, rest
<1>2. Below(PostsIn(t), PostsIn(front))
  BY <1>1 DEF Lined, Below
<1>3. /\ t \o UserRows(front) \in Seq(Items) /\ InOrder(t \o UserRows(front))
      /\ PostsIn(t \o UserRows(front)) = PostsIn(t) \cup PostsIn(front)
  BY <1>1, <1>2, Stored DEF Lined
<1>4. PostsIn(<<>>) = {} /\ InOrder(<<>>)
  BY NoItem
<1>5. Lined(t \o UserRows(front), <<>>, q)
  BY <1>1, <1>3, <1>4 DEF Lined, Below
<1> QED BY <1>1, <1>3, <1>5 DEF front

LEMMA LinedWhenAllStored ==
  ASSUME NEW t \in Seq(Items), NEW h \in Seq(Entries), NEW q \in Seq(Entries), Lined(t, h, q)
  PROVE  /\ t \o UserRows(h) \in Seq(Items) /\ Lined(t \o UserRows(h), <<>>, q)
         /\ PostsIn(t \o UserRows(h)) = PostsIn(t) \cup PostsIn(h)
<1>1. InOrder(t) /\ InOrder(h) /\ Below(PostsIn(t), PostsIn(h))
  BY DEF Lined
<1>2. /\ t \o UserRows(h) \in Seq(Items) /\ InOrder(t \o UserRows(h))
      /\ PostsIn(t \o UserRows(h)) = PostsIn(t) \cup PostsIn(h)
  BY <1>1, Stored
<1>3. PostsIn(<<>>) = {} /\ InOrder(<<>>)
  BY NoItem
<1> QED BY <1>2, <1>3 DEF Lined, Below

LEMMA LinedWhenDropped ==
  ASSUME NEW t, NEW h, NEW q, Lined(t, h, q)
  PROVE  /\ Lined(t, <<>>, q) /\ Lined(t, h, <<>>) /\ Lined(<<>>, h, q)
         /\ PostsIn(<<>>) = {}
<1>1. PostsIn(<<>>) = {} /\ InOrder(<<>>)
  BY NoItem
<1> QED BY <1>1 DEF Lined, Below

LEMMA LinedWhenRowAdded ==
  ASSUME NEW t \in Seq(Items), NEW h, NEW q, Lined(t, h, q), NEW x \in Rows, x.n = 0
  PROVE  /\ Append(t, x) = t \o <<x>> /\ Append(t, x) \in Seq(Items)
         /\ Lined(Append(t, x), h, q) /\ PostsIn(Append(t, x)) = PostsIn(t)
<1>1. InOrder(t)
  BY DEF Lined
<1>2. /\ Append(t, x) = t \o <<x>> /\ Append(t, x) \in Seq(Items)
      /\ InOrder(Append(t, x)) /\ PostsIn(Append(t, x)) = PostsIn(t)
  BY <1>1, RowAdded
<1> QED BY <1>2 DEF Lined

LEMMA LinedWhenRowsAdded ==
  ASSUME NEW t \in Seq(Items), NEW h, NEW q, Lined(t, h, q), NEW r, Unnumbered(r)
  PROVE  /\ t \o r \in Seq(Items) /\ Lined(t \o r, h, q) /\ PostsIn(t \o r) = PostsIn(t)
<1>1. r \in Seq(Items) /\ \A i \in DOMAIN r : r[i].n = 0
  BY ItemSeqs DEF Unnumbered
<1>2. PostsIn(r) = {} /\ InOrder(r)
  BY <1>1 DEF PostsIn, InOrder
<1>3. Below(PostsIn(t), PostsIn(r))
  BY <1>2 DEF Below
<1>4. /\ t \o r \in Seq(Items) /\ PostsIn(t \o r) = PostsIn(t) \cup PostsIn(r)
      /\ InOrder(t \o r)
  BY <1>1, <1>2, <1>3, ConcatParts, PostsOfConcat, OrderOfConcat DEF Lined
<1> QED BY <1>2, <1>4 DEF Lined

\* The rows of an answer have no number.
LEMMA AnswerRows ==
  /\ \A kind \in {"sent", "call", "result", "reply"} : Row(kind) \in Rows /\ Row(kind).n = 0
  /\ UserRow(0) \in Rows /\ UserRow(0).n = 0
BY BoundsAssumption DEF Row, UserRow, Rows

LEMMA OrderedSeqs ==
  TypeOK => /\ transcript \in Seq(Items) /\ taken \in Seq(Entries) /\ batch \in Seq(Entries)
            /\ queue \in Seq(Entries) /\ posts \in Nat
            /\ taken \in Seq(Items) /\ batch \in Seq(Items) /\ queue \in Seq(Items)
BY ItemSeqs DEF TypeOK

\* What the turn takes and stores at once.
LEMMA TakeAndStoreOrdered ==
  ASSUME TypeOK, Ordered, taken = <<>>, batch = <<>>, TakeAndStore,
         UNCHANGED <<taken, batch, posts>>
  PROVE  Ordered'
<1> DEFINE front == SubSeq(queue, 1, Takes(queue))
           rest == SubSeq(queue, Takes(queue) + 1, Len(queue))
<1>1. Takes(queue) \in 0 .. Len(queue)
  BY TakesSome DEF TypeOK
<1>2. /\ transcript \in Seq(Items) /\ queue \in Seq(Entries) /\ <<>> \in Seq(Entries)
      /\ Lined(transcript, <<>>, queue)
  BY OrderedSeqs, EmptySeq DEF Ordered
<1>3. queue' = rest /\ transcript' = transcript \o UserRows(front)
  BY DEF TakeAndStore, LeftIn, TakenFrom
<1>5. PostsIn(<<>>) = {}
  BY NoItem
<1>6. /\ front \in Seq(Entries) /\ rest \in Seq(Entries) /\ Lined(transcript, front, rest)
      /\ PostsIn(front) \cup PostsIn(rest) = PostsIn(queue)
  BY <1>1, <1>2, LinedWhenFirstTaken
<1> HIDE DEF front, rest
<1>7. /\ Lined(transcript', <<>>, rest)
      /\ PostsIn(transcript') = PostsIn(transcript) \cup PostsIn(front)
  BY <1>2, <1>3, <1>6, LinedWhenAllStored
<1> QED BY <1>3, <1>5, <1>6, <1>7 DEF Ordered

LEMMA OrderStep ==
  ASSUME TypeOK, Control, Ordered, [Next]_vars
  PROVE  Ordered'
<1> USE DEF stateVars, turnVars, counters, history
<1>a. /\ transcript \in Seq(Items) /\ taken \in Seq(Entries) /\ batch \in Seq(Entries)
      /\ queue \in Seq(Entries) /\ posts \in Nat
      /\ taken \in Seq(Items) /\ batch \in Seq(Items) /\ queue \in Seq(Items)
      /\ <<>> \in Seq(Entries) /\ <<>> \in Seq(Items) /\ PostsIn(<<>>) = {}
  BY OrderedSeqs, EmptySeq, NoItem
<1>b. /\ phase # "model" => taken = <<>> /\ ~live
      /\ phase # "store" => batch = <<>>
  BY DEF Control, TurnOK
<1>1. CASE UNCHANGED <<transcript, taken, batch, queue, posts>>
  BY <1>1 DEF Ordered
<1>2. CASE TakeBatch
  <2>1. taken = <<>> /\ batch = <<>>
    <3>1. Head(line) = Drain /\ pc[Drain] = "inline"
      BY <1>2 DEF TakeBatch
    <3> QED BY <3>1, NoTurnRuns DEF Control
  <2>2. batch' = queue /\ queue' = <<>> /\ UNCHANGED <<transcript, taken, posts>>
    BY <1>2 DEF TakeBatch
  <2>3. Lined(transcript, queue, <<>>)
    BY <1>a, <2>1 DEF Ordered, Lined, Below
  <2>4. Lined(transcript, <<>>, <<>>)
    BY <2>3, LinedWhenDropped
  <2> QED BY <1>a, <2>1, <2>2, <2>3, <2>4 DEF Ordered
<1>3. CASE StoreOne
  <2> DEFINE h == Head(batch)  x == UserRow(h.n)
  <2>1. h \in Entries /\ batch' = Tail(batch) /\ batch' \in Seq(Entries) /\ batch # <<>>
        /\ taken = <<>>
    BY <1>3, <1>a, <1>b, HeadTailProperties DEF StoreOne
  <2>2. x \in Rows /\ x.n = h.n /\ h.n \in Nat /\ h.n # 0
    BY <2>1, RowTypes DEF UserRow, Entries
  <2>3. /\ transcript' = Append(transcript, x) /\ UNCHANGED <<taken, queue, posts>>
    BY <1>3 DEF StoreOne
  <2>4. batch = <<h>> \o Tail(batch)
    BY <1>a, <2>1
  <2>5. x \in Items /\ h \in Items /\ batch' \in Seq(Items)
    BY <2>1, <2>2, ItemSeqs DEF Items
  <2> HIDE DEF h, x
  <2>6. /\ <<h>> \in Seq(Items) /\ <<x>> \in Seq(Items) /\ InOrder(<<x>>)
        /\ PostsIn(<<h>>) = {h.n} /\ PostsIn(<<x>>) = {h.n}
    BY <2>2, <2>5, OneItem
  <2>7. /\ PostsIn(batch) = {h.n} \cup PostsIn(batch')
        /\ InOrder(batch') /\ Below({h.n}, PostsIn(batch'))
    <3>1. InOrder(<<h>> \o batch') /\ batch = <<h>> \o batch'
      BY <2>1, <2>4 DEF Ordered, Lined
    <3>2. PostsIn(<<h>> \o batch') = PostsIn(<<h>>) \cup PostsIn(batch')
      BY <2>5, <2>6, PostsOfConcat
    <3>3. InOrder(batch') /\ Below(PostsIn(<<h>>), PostsIn(batch'))
      BY <2>5, <2>6, <3>1, OrderOfConcat
    <3> QED BY <2>6, <3>1, <3>2, <3>3
  <2>8. transcript' = transcript \o <<x>>
    BY <1>a, <2>3, <2>5, AppendIsConcat
  <2>9. /\ InOrder(transcript) /\ Below(PostsIn(transcript), {h.n})
    BY <2>7 DEF Ordered, Lined, Below
  <2>10. PostsIn(transcript \o <<x>>) = PostsIn(transcript) \cup {h.n}
    <3>1. transcript \in Seq(Items) /\ <<x>> \in Seq(Items)
      BY <1>a, <2>6
    <3>2. PostsIn(transcript \o <<x>>) = PostsIn(transcript) \cup PostsIn(<<x>>)
      BY <3>1, PostsOfConcat
    <3> QED BY <2>6, <3>2
  <2>11. InOrder(transcript \o <<x>>)
    BY <1>a, <2>6, <2>9, OrderOfConcat
  <2>12. Lined(transcript', batch', queue)
    BY <2>7, <2>8, <2>10, <2>11 DEF Ordered, Lined, Below
  <2>13. Lined(transcript', <<>>, queue)
    BY <2>12, LinedWhenDropped
  <2> QED BY <1>a, <2>1, <2>3, <2>7, <2>8, <2>10, <2>12, <2>13 DEF Ordered
<1>4. ASSUME NEW x \in Rows, x.n = 0, transcript' = Append(transcript, x),
             UNCHANGED <<taken, batch, queue, posts>>
      PROVE  Ordered'
  <2>1. /\ Lined(transcript', taken, queue) /\ Lined(transcript', batch, queue)
        /\ PostsIn(transcript') = PostsIn(transcript)
    BY <1>4, <1>a, LinedWhenRowAdded DEF Ordered
  <2> QED BY <1>4, <2>1 DEF Ordered
<1>5. CASE Prepared
  <2>1. UNCHANGED <<taken, batch, queue, posts>>
        /\ (transcript' = transcript \/ transcript' = Append(transcript, UserRow(0)))
    BY <1>5 DEF Prepared
  <2> QED BY <1>1, <1>4, <2>1, AnswerRows
<1>6. CASE ExecuteCall
  <2>1. UNCHANGED <<taken, batch, queue, posts>>
        /\ (transcript' = transcript \/ \E rows \in CallRows : transcript' = transcript \o rows)
    BY <1>6 DEF ExecuteCall
  <2>2. ASSUME NEW rows \in CallRows, transcript' = transcript \o rows PROVE Ordered'
    <3>1. Unnumbered(rows)
      BY CallRowTypes
    <3>2. /\ Lined(transcript', taken, queue) /\ Lined(transcript', batch, queue)
          /\ PostsIn(transcript') = PostsIn(transcript)
      BY <1>a, <2>2, <3>1, LinedWhenRowsAdded DEF Ordered
    <3> QED BY <2>1, <3>2 DEF Ordered
  <2> QED BY <1>1, <2>1, <2>2
<1>cli. CASE CliSends
  <2>1. UNCHANGED <<taken, batch, queue, posts>> /\ transcript' = Append(transcript, Row("sent"))
    BY <1>cli DEF CliSends
  <2> QED BY <1>4, <2>1, AnswerRows
<1>7. CASE BeginStep
  <2>1. phase = "loop" /\ UNCHANGED <<taken, batch, posts>>
        /\ (TakeAndStore \/ (transcript' = transcript /\ queue' = queue))
    BY <1>7 DEF BeginStep
  <2> QED BY <1>1, <1>b, <2>1, TakeAndStoreOrdered
<1>8. CASE Answered
  <2>1. phase = "after" /\ UNCHANGED <<taken, batch, posts>>
        /\ (TakeAndStore \/ (transcript' = transcript /\ queue' = queue))
    BY <1>8 DEF Answered
  <2> QED BY <1>1, <1>b, <2>1, TakeAndStoreOrdered
<1>9. CASE AskModel
  <2>1. phase = "ask" /\ UNCHANGED <<transcript, batch, posts>>
    BY <1>9 DEF AskModel
  <2>2. taken = <<>> /\ batch = <<>>
    BY <1>b, <2>1
  <2>3. CASE taken' = <<>> /\ queue' = queue
    BY <1>1, <2>1, <2>2, <2>3
  <2>4. CASE taken' = TakenFrom(queue) /\ queue' = LeftIn(queue)
    <3> DEFINE front == SubSeq(queue, 1, Takes(queue))
               rest == SubSeq(queue, Takes(queue) + 1, Len(queue))
    <3>1. Takes(queue) \in 0 .. Len(queue)
      BY <1>a, TakesSome
    <3>2. taken' = front /\ queue' = rest
      BY <2>4 DEF TakenFrom, LeftIn
    <3>3. Lined(transcript, <<>>, queue)
      BY <2>2 DEF Ordered
    <3>5. Lined(transcript, front, rest) /\ PostsIn(front) \cup PostsIn(rest) = PostsIn(queue)
      BY <1>a, <3>1, <3>3, LinedWhenFirstTaken
    <3> HIDE DEF front, rest
    <3>6. Lined(transcript, <<>>, rest)
      BY <3>5, LinedWhenDropped
    <3> QED BY <1>a, <2>1, <2>2, <3>2, <3>5, <3>6 DEF Ordered
  <2> QED BY <1>9, <2>3, <2>4 DEF AskModel
<1>10. ASSUME phase = "model", taken' = <<>>, transcript' = transcript \o UserRows(taken),
              UNCHANGED <<batch, queue, posts>>
       PROVE  Ordered'
  <2>1. /\ Lined(transcript', <<>>, queue)
        /\ PostsIn(transcript') = PostsIn(transcript) \cup PostsIn(taken)
    BY <1>10, <1>a, LinedWhenAllStored DEF Ordered
  <2>2. batch' = <<>>
    BY <1>10, <1>b
  <2> QED BY <1>10, <1>a, <2>1, <2>2 DEF Ordered
<1>11. CASE ModelEvent
  BY <1>10, <1>11 DEF ModelEvent
<1>12. ASSUME NEW k \in 0 .. MaxCalls, NEW e \in 0 .. MaxCalls, NEW ok \in BOOLEAN,
              ModelDone(k, e, ok)
       PROVE  Ordered'
  <2> DEFINE x == AnswerWith(k + e, e)
             t == transcript \o UserRows(taken)
  <2>1. phase = "model" /\ taken' = <<>> /\ transcript' = t \o x
        /\ UNCHANGED <<batch, queue, posts>>
    BY <1>12 DEF ModelDone
  <2>2. Unnumbered(x)
    BY AnswerTypes, BoundsAssumption
  <2>3. /\ t \in Seq(Items) /\ Lined(t, <<>>, queue)
        /\ PostsIn(t) = PostsIn(transcript) \cup PostsIn(taken)
    BY <1>a, LinedWhenAllStored DEF Ordered
  <2> HIDE DEF t, x
  <2>4. Lined(transcript', <<>>, queue) /\ PostsIn(transcript') = PostsIn(t)
    BY <2>1, <2>2, <2>3, LinedWhenRowsAdded
  <2>5. batch' = <<>>
    BY <1>b, <2>1
  <2> QED BY <1>a, <2>1, <2>3, <2>4, <2>5 DEF Ordered
<1>13. CASE StoreFails
  <2>1. batch' = <<>> /\ UNCHANGED <<transcript, taken, queue, posts>>
    BY <1>13 DEF StoreFails
  <2>2. Lined(transcript, <<>>, queue)
    BY LinedWhenDropped DEF Ordered
  <2> QED BY <1>a, <2>1, <2>2 DEF Ordered
<1>14. CASE TurnBreaks
  <2>1. phase \notin {"none", "store"} /\ batch = <<>> /\ taken' = <<>>
        /\ UNCHANGED <<batch, posts>>
    BY <1>14, <1>b DEF TurnBreaks
  <2>2. PICK lost \in {<<>>, TakenFrom(queue)} :
          \E stored \in 0 .. Len(taken \o lost) :
             /\ lost # <<>> => phase \in {"after", "loop"}
             /\ queue' = SubSeq(queue, Len(lost) + 1, Len(queue))
             /\ transcript' = transcript \o UserRows(SubSeq(taken \o lost, 1, stored))
    BY <1>14 DEF TurnBreaks
  <2>3. PICK stored \in 0 .. Len(taken \o lost) :
             /\ lost # <<>> => phase \in {"after", "loop"}
             /\ queue' = SubSeq(queue, Len(lost) + 1, Len(queue))
             /\ transcript' = transcript \o UserRows(SubSeq(taken \o lost, 1, stored))
    BY <2>2
  <2>4. PICK k \in 0 .. Len(queue) : lost = SubSeq(queue, 1, k) /\ Len(lost) = k
    <3>1. CASE lost = <<>>
      <4>1. SubSeq(queue, 1, 0) = <<>> /\ Len(<<>>) = 0 /\ 0 \in 0 .. Len(queue)
        BY <1>a, SubSeqEmpty
      <4> QED BY <3>1, <4>1
    <3>2. CASE lost = TakenFrom(queue)
      <4>1. Takes(queue) \in 0 .. Len(queue) /\ Len(TakenFrom(queue)) = Takes(queue)
        BY <1>a, TakesSome, TakenAndLeft
      <4> QED BY <3>2, <4>1 DEF TakenFrom
    <3> QED BY <3>1, <3>2
  <2>5. queue' = SubSeq(queue, k + 1, Len(queue))
    BY <2>3, <2>4
  <2>6. /\ taken \o lost \in Seq(Entries) /\ queue' \in Seq(Entries)
        /\ Lined(transcript, taken \o lost, queue')
        /\ PostsIn(taken \o lost) \cup PostsIn(queue') = PostsIn(taken) \cup PostsIn(queue)
    BY <1>a, <2>4, <2>5, LinedWhenTaken DEF Ordered
  <2> DEFINE h == taken \o lost  front == SubSeq(h, 1, stored)
  <2>a. h \in Seq(Entries) /\ Lined(transcript, h, queue') /\ stored \in 0 .. Len(h)
    BY <2>6
  <2>b. transcript' = transcript \o UserRows(front)
    BY <2>3
  <2>c. PostsIn(h) \subseteq 1 .. posts /\ PostsIn(queue') \subseteq 1 .. posts
    BY <2>6 DEF Ordered
  <2> HIDE DEF h
  <2>7. /\ Lined(transcript \o UserRows(front), <<>>, queue')
        /\ PostsIn(front) \subseteq PostsIn(h)
        /\ PostsIn(transcript \o UserRows(front)) = PostsIn(transcript) \cup PostsIn(front)
    BY <1>a, <2>6, <2>a, LinedWhenStored
  <2> HIDE DEF front
  <2> QED BY <1>a, <2>1, <2>7, <2>b, <2>c DEF Ordered
<1>15. ASSUME NEW p \in Profiles, Enqueue(p) PROVE Ordered'
  <2> DEFINE e == [n |-> posts + 1, profile |-> p]  q == Append(queue, e)
  <2>1. e \in Entries /\ e \in Items /\ e.n = posts + 1 /\ e.n > 0
    <3>1. posts + 1 \in 1 .. MaxPosts
      BY <1>15, BoundsAssumption DEF Enqueue, TypeOK
    <3> QED BY <1>a, <3>1 DEF Entries, Items
  <2>2. /\ posts' = posts + 1 /\ UNCHANGED <<transcript, batch>>
        /\ IF live THEN queue' = LeftIn(q) /\ taken' = taken \o TakenFrom(q)
                   ELSE queue' = q /\ taken' = taken
    BY <1>15 DEF Enqueue
  <2> HIDE DEF e
  <2>3. /\ Below(PostsIn(transcript), {e.n}) /\ Below(PostsIn(taken), {e.n})
        /\ Below(PostsIn(batch), {e.n}) /\ Below(PostsIn(queue), {e.n})
    BY <1>a, <2>1 DEF Ordered, Below
  <2>4. /\ Lined(transcript, taken, q) /\ Lined(transcript, batch, q)
        /\ PostsIn(q) = PostsIn(queue) \cup {e.n}
    BY <1>a, <2>1, <2>3, LinedWhenPosted DEF Ordered
  <2>5. q \in Seq(Entries)
    BY <1>a, <2>1, AppendProperties
  <2>6. 1 .. posts \subseteq 1 .. posts' /\ e.n \in 1 .. posts'
    BY <1>a, <2>1, <2>2
  <2> HIDE DEF q
  <2>7. /\ PostsIn(transcript) \subseteq 1 .. posts' /\ PostsIn(taken) \subseteq 1 .. posts'
        /\ PostsIn(batch) \subseteq 1 .. posts' /\ PostsIn(q) \subseteq 1 .. posts'
    BY <2>4, <2>6 DEF Ordered
  <2>8. CASE ~live
    <3>1. queue' = q /\ taken' = taken
      BY <2>2, <2>8
    <3> QED BY <2>2, <2>4, <2>7, <3>1 DEF Ordered
  <2>9. CASE live
    <3> DEFINE front == SubSeq(q, 1, Takes(q))
               rest == SubSeq(q, Takes(q) + 1, Len(q))
    <3>1. Takes(q) \in 0 .. Len(q)
      BY <2>5, TakesSome
    <3>2. taken' = taken \o front /\ queue' = rest
      BY <2>2, <2>9 DEF TakenFrom, LeftIn
    <3>3. /\ Lined(transcript, taken \o front, rest)
          /\ PostsIn(taken \o front) \cup PostsIn(rest) = PostsIn(taken) \cup PostsIn(q)
      BY <1>a, <2>4, <2>5, <3>1, LinedWhenTaken
    <3> HIDE DEF front, rest
    <3>4. batch = <<>>
      BY <1>b, <2>9
    <3>5. Lined(transcript, <<>>, rest)
      BY <3>3, LinedWhenDropped
    <3> QED BY <1>a, <2>2, <2>7, <3>2, <3>3, <3>4, <3>5 DEF Ordered
  <2> QED BY <2>8, <2>9
<1>16. ASSUME NEW a \in Edits \cup Others, LetGo(a) PROVE Ordered'
  <2>1. UNCHANGED <<taken, batch, queue, posts>> /\ transcript' \in {transcript, <<>>}
    BY <1>16 DEF LetGo
  <2>2. CASE transcript' = <<>>
    <3>1. Lined(<<>>, taken, queue) /\ Lined(<<>>, batch, queue)
      BY LinedWhenDropped DEF Ordered
    <3> QED BY <1>a, <2>1, <2>2, <3>1 DEF Ordered
  <2> QED BY <1>1, <2>1, <2>2
<1>17. CASE Restart
  <2>1. queue' = <<>> /\ batch' = <<>> /\ taken' = <<>> /\ UNCHANGED <<transcript, posts>>
    BY <1>17 DEF Restart
  <2>2. Lined(transcript, <<>>, <<>>)
    BY LinedWhenDropped DEF Ordered
  <2> QED BY <1>a, <2>1, <2>2 DEF Ordered
<1>18. CASE CloseInput \/ Subscribe \/ Unsubscribe \/ Stop \/ DrainLoop \/ UNCHANGED vars
  BY <1>1, <1>18 DEF CloseInput, Subscribe, Unsubscribe, Stop, DrainLoop, vars
<1>19. ASSUME NEW b \in Background, StartBackground(b) \/ LeaveBackground(b) \/ RunTurn(b)
       PROVE  Ordered'
  BY <1>1, <1>19 DEF StartBackground, LeaveBackground, RunTurn
<1>20. ASSUME NEW a \in QueueTurns, EndTurn(a) PROVE Ordered'
  BY <1>1, <1>20 DEF EndTurn
<1>21. ASSUME NEW a \in Edits \cup Others, Grant(a) \/ EditRequest(a) \/ OtherRequest(a)
       PROVE  Ordered'
  BY <1>1, <1>21 DEF Grant, EditRequest, OtherRequest
<1> QED BY <1>2, <1>3, <1>5, <1>6, <1>7, <1>8, <1>9, <1>11, <1>12, <1>13, <1>14, <1>15,
           <1>16, <1>17, <1>18, <1>19, <1>20, <1>21, <1>cli DEF Next, TurnStep

\* Messages and rows keep the order in which they were posted.
THEOREM OrderedHolds == Spec => []Ordered
<1>1. Init => Ordered
  BY NoItem DEF Init, Ordered, Lined, Below
<1>2. TypeOK /\ Control /\ Ordered /\ [Next]_vars => Ordered'
  BY OrderStep
<1> QED BY <1>1, <1>2, QueueTypesHold, ControlHolds, PTL DEF Spec

LEMMA OrderedIsKept == TypeOK /\ Control /\ Ordered => PostsKeepOrder
<1> SUFFICES ASSUME TypeOK, Control, Ordered PROVE PostsKeepOrder
  OBVIOUS
<1>1. /\ transcript \in Seq(Items) /\ taken \in Seq(Items) /\ batch \in Seq(Items)
      /\ queue \in Seq(Items)
  BY OrderedSeqs
<1>2. taken = <<>> \/ batch = <<>>
  BY DEF Control, TurnOK
<1>3. Below(PostsIn(taken), PostsIn(batch))
  BY <1>2, NoItem DEF Below
<1> DEFINE tk == transcript \o taken  tkb == tk \o batch
<1>4. tk \in Seq(Items) /\ PostsIn(tk) = PostsIn(transcript) \cup PostsIn(taken)
  BY <1>1, ConcatParts, PostsOfConcat
<1>5. InOrder(tk)
  BY <1>1, OrderOfConcat DEF Ordered, Lined
<1> HIDE DEF tk
<1>6. tkb \in Seq(Items) /\ PostsIn(tkb) = PostsIn(tk) \cup PostsIn(batch)
  BY <1>1, <1>4, ConcatParts, PostsOfConcat
<1>7. Below(PostsIn(tk), PostsIn(batch)) /\ InOrder(batch)
  BY <1>3, <1>4 DEF Ordered, Lined, Below
<1>8. InOrder(tkb)
  BY <1>1, <1>4, <1>5, <1>7, OrderOfConcat
<1> HIDE DEF tkb
<1>9. Below(PostsIn(tkb), PostsIn(queue)) /\ InOrder(queue)
  BY <1>4, <1>6 DEF Ordered, Lined, Below
<1>10. InOrder(tkb \o queue)
  BY <1>1, <1>6, <1>8, <1>9, OrderOfConcat
<1> QED BY <1>10 DEF tk, tkb, PostsKeepOrder

-----------------------------------------------------------------------------
\* Calls and their results.

Between == {"result", "sent"}

\* The rows of s up to the n-th end with a call, or with a call and what may
\* stand between it and a result.
Answering(s, n) == \E i \in 1 .. n : /\ s[i].kind = "call"
                                     /\ \A m \in (i + 1) .. n : s[m].kind \in Between
Follows(s) == \A j \in DOMAIN s : s[j].kind = "result" => Answering(s, j - 1)

\* While calls are executed, the last rows are the call and what its execution
\* stored so far.
CallsOK == /\ Follows(transcript)
           /\ phase = "tools" => Answering(transcript, Len(transcript))

\* What a row answers does not depend on the rows after it.
LEMMA AnsweringKept ==
  ASSUME NEW s, NEW t, NEW n \in Int, Answering(s, n), \A i \in 1 .. n : t[i] = s[i]
  PROVE  Answering(t, n)
<1>1. PICK i \in 1 .. n : s[i].kind = "call" /\ \A m \in (i + 1) .. n : s[m].kind \in Between
  BY DEF Answering
<1>2. t[i].kind = "call" /\ \A m \in (i + 1) .. n : t[m].kind \in Between
  BY <1>1
<1> QED BY <1>2 DEF Answering

LEMMA FollowsConcat ==
  ASSUME NEW s \in Seq(Rows), NEW t \in Seq(Rows), Follows(s),
         \A j \in DOMAIN t : t[j].kind = "result" => Answering(s \o t, Len(s) + j - 1)
  PROVE  Follows(s \o t)
<1> SUFFICES ASSUME NEW j \in DOMAIN (s \o t), (s \o t)[j].kind = "result"
             PROVE  Answering(s \o t, j - 1)
  BY DEF Follows
<1>1. /\ j \in 1 .. Len(s) + Len(t) /\ Len(s) \in Nat /\ Len(t) \in Nat
      /\ DOMAIN s = 1 .. Len(s) /\ DOMAIN t = 1 .. Len(t)
      /\ \A i \in 1 .. Len(s) : (s \o t)[i] = s[i]
      /\ (s \o t)[j] = IF j <= Len(s) THEN s[j] ELSE t[j - Len(s)]
  BY ConcatProperties, LenProperties
<1>2. CASE j <= Len(s)
  <2>1. Answering(s, j - 1)
    BY <1>1, <1>2 DEF Follows
  <2>2. j - 1 \in Int /\ \A i \in 1 .. j - 1 : (s \o t)[i] = s[i]
    BY <1>1, <1>2
  <2> HIDE DEF Follows
  <2> QED BY <2>1, <2>2, AnsweringKept
<1>3. CASE ~(j <= Len(s))
  <2>1. j - Len(s) \in DOMAIN t /\ t[j - Len(s)].kind = "result"
    BY <1>1, <1>3
  <2>2. Answering(s \o t, Len(s) + (j - Len(s)) - 1)
    BY <2>1
  <2>3. Len(s) + (j - Len(s)) - 1 = j - 1
    BY <1>1
  <2> QED BY <2>2, <2>3
<1> QED BY <1>2, <1>3

\* Rows that may stand between a call and a result keep answering the call.
LEMMA FollowsMore ==
  ASSUME NEW s \in Seq(Rows), NEW t \in Seq(Rows), Follows(s), Answering(s, Len(s)),
         \A j \in DOMAIN t : t[j].kind \in Between
  PROVE  Follows(s \o t) /\ Answering(s \o t, Len(s \o t))
<1>1. /\ Len(s) \in Nat /\ Len(t) \in Nat /\ DOMAIN t = 1 .. Len(t)
      /\ Len(s \o t) = Len(s) + Len(t)
      /\ \A i \in 1 .. Len(s) : (s \o t)[i] = s[i]
      /\ \A j \in 1 .. Len(t) : (s \o t)[Len(s) + j] = t[j]
  BY ConcatProperties, LenProperties
<1>2. PICK i \in 1 .. Len(s) :
        s[i].kind = "call" /\ \A m \in (i + 1) .. Len(s) : s[m].kind \in Between
  BY DEF Answering
<1>3. ASSUME NEW n \in 0 .. Len(t) PROVE Answering(s \o t, Len(s) + n)
  <2>1. i \in 1 .. Len(s) + n /\ (s \o t)[i].kind = "call"
    BY <1>1, <1>2
  <2>2. ASSUME NEW m \in (i + 1) .. Len(s) + n PROVE (s \o t)[m].kind \in Between
    <3>1. CASE m <= Len(s)
      <4>1. m \in (i + 1) .. Len(s) /\ m \in 1 .. Len(s)
        BY <1>1, <1>2, <2>2, <3>1
      <4> QED BY <1>1, <1>2, <4>1
    <3>2. CASE ~(m <= Len(s))
      <4>1. m - Len(s) \in 1 .. Len(t) /\ Len(s) + (m - Len(s)) = m
        BY <1>1, <1>2, <1>3, <2>2, <3>2
      <4>2. (s \o t)[Len(s) + (m - Len(s))] = t[m - Len(s)]
        BY <1>1, <4>1
      <4> QED BY <1>1, <4>1, <4>2
    <3> QED BY <3>1, <3>2
  <2> QED BY <2>1, <2>2 DEF Answering
<1>4. ASSUME NEW j \in DOMAIN t PROVE Answering(s \o t, Len(s) + j - 1)
  <2>1. j - 1 \in 0 .. Len(t) /\ Len(s) + (j - 1) = Len(s) + j - 1
    BY <1>1, <1>4
  <2> QED BY <1>3, <2>1
<1>5. Follows(s \o t)
  BY <1>4, FollowsConcat
<1>6. Answering(s \o t, Len(s \o t))
  <2>1. Len(t) \in 0 .. Len(t)
    BY <1>1
  <2> QED BY <1>1, <1>3, <2>1
<1> QED BY <1>5, <1>6

\* An answer: a row of the model, and the results its CLI had executed.
LEMMA FollowsAnswer ==
  ASSUME NEW s \in Seq(Rows), Follows(s), NEW n \in Nat, NEW e \in Nat, e > 0 => n > 0
  PROVE  /\ Follows(s \o AnswerWith(n, e))
         /\ n > 0 => Answering(s \o AnswerWith(n, e), Len(s \o AnswerWith(n, e)))
<1> DEFINE a == AnswerWith(n, e)
<1>1. /\ a \in Seq(Rows) /\ Len(a) = e + 1 /\ DOMAIN a = 1 .. e + 1
      /\ a[1].kind = IF n > 0 THEN "call" ELSE "reply"
      /\ \A i \in 2 .. e + 1 : a[i].kind = "result"
  <2>1. /\ Unnumbered(a) /\ Len(a) = e + 1
        /\ a[1].kind = IF n > 0 THEN "call" ELSE "reply"
        /\ \A i \in 2 .. e + 1 : a[i].kind = "result"
    BY AnswerTypes
  <2> HIDE DEF a
  <2>2. a \in Seq(Rows) /\ Len(a) = e + 1
    BY <2>1 DEF Unnumbered
  <2>3. DOMAIN a = 1 .. e + 1
    BY <2>2, LenProperties
  <2> QED BY <2>1, <2>2, <2>3
<1> HIDE DEF a
<1>2. /\ Len(s) \in Nat /\ Len(s \o a) = Len(s) + e + 1
      /\ \A j \in 1 .. e + 1 : (s \o a)[Len(s) + j] = a[j]
  <2>1. /\ Len(s) \in Nat /\ Len(s \o a) = Len(s) + Len(a)
        /\ \A i \in 1 .. Len(s) + Len(a) :
             (s \o a)[i] = IF i <= Len(s) THEN s[i] ELSE a[i - Len(s)]
    BY <1>1, ConcatProperties, LenProperties
  <2>2. ASSUME NEW j \in 1 .. e + 1 PROVE (s \o a)[Len(s) + j] = a[j]
    <3>1. /\ Len(s) + j \in 1 .. Len(s) + Len(a) /\ ~(Len(s) + j <= Len(s))
          /\ (Len(s) + j) - Len(s) = j
      BY <1>1, <2>1
    <3> QED BY <2>1, <3>1
  <2> QED BY <1>1, <2>1, <2>2
<1>3. ASSUME NEW j \in 1 .. e + 1, n > 0 PROVE Answering(s \o a, Len(s) + j)
  <2>1. Len(s) + 1 \in 1 .. Len(s) + j /\ (s \o a)[Len(s) + 1].kind = "call"
    <3>1. 1 \in 1 .. e + 1
      OBVIOUS
    <3> QED BY <1>1, <1>2, <1>3, <3>1
  <2>2. ASSUME NEW m \in (Len(s) + 1 + 1) .. Len(s) + j PROVE (s \o a)[m].kind \in Between
    <3>1. m - Len(s) \in 2 .. e + 1 /\ m - Len(s) \in 1 .. e + 1 /\ Len(s) + (m - Len(s)) = m
      BY <1>2, <1>3, <2>2
    <3>2. (s \o a)[Len(s) + (m - Len(s))] = a[m - Len(s)]
      BY <1>2, <3>1
    <3> QED BY <1>1, <3>1, <3>2 DEF Between
  <2> QED BY <2>1, <2>2 DEF Answering
<1>4. ASSUME NEW j \in DOMAIN a, a[j].kind = "result" PROVE Answering(s \o a, Len(s) + j - 1)
  <2>1. j # 1
    BY <1>1, <1>4
  <2>2. j - 1 \in 1 .. e + 1 /\ n > 0 /\ Len(s) + (j - 1) = Len(s) + j - 1
    BY <1>1, <1>2, <1>4, <2>1
  <2> QED BY <1>3, <2>2
<1>5. Follows(s \o a)
  BY <1>1, <1>4, FollowsConcat
<1>6. n > 0 => Answering(s \o a, Len(s \o a))
  <2>1. e + 1 \in 1 .. e + 1 /\ Len(s) + (e + 1) = Len(s \o a)
    BY <1>2
  <2> QED BY <1>3, <2>1
<1> QED BY <1>5, <1>6 DEF a

LEMMA FollowsAppend ==
  ASSUME NEW s \in Seq(Rows), NEW x \in Rows, Follows(s), x.kind # "result"
  PROVE  Follows(Append(s, x))
<1>1. <<x>> \in Seq(Rows) /\ DOMAIN <<x>> = {1} /\ <<x>>[1] = x
  OBVIOUS
<1>2. Append(s, x) = s \o <<x>>
  BY AppendIsConcat
<1>3. Follows(s \o <<x>>)
  BY <1>1, FollowsConcat
<1> QED BY <1>2, <1>3

\* Rows of messages stand between no call and its result.
LEMMA MessagesFollow ==
  ASSUME TypeOK, Follows(transcript), NEW s \in Seq(Entries)
  PROVE  transcript \o UserRows(s) \in Seq(Rows) /\ Follows(transcript \o UserRows(s))
<1>1. UserRows(s) \in Seq(Rows) /\ DOMAIN UserRows(s) = DOMAIN s
  BY RowsOfEntries, BoundsAssumption
<1>2. \A i \in DOMAIN s : UserRows(s)[i].kind = "user"
  BY DEF UserRows, UserRow
<1>3. transcript \in Seq(Rows)
  BY DEF TypeOK
<1> QED BY <1>1, <1>2, <1>3, FollowsConcat, ConcatProperties

LEMMA CallsStep ==
  ASSUME TypeOK, Control, CallsOK, [Next]_vars
  PROVE  CallsOK'
<1> USE DEF stateVars, turnVars, counters, history
<1>1. transcript \in Seq(Rows) /\ Follows(transcript)
  BY DEF TypeOK, CallsOK
<1>2. CASE transcript' = transcript /\ (phase' = "tools" => phase = "tools")
  BY <1>2 DEF CallsOK
<1>3. ASSUME NEW s \in Seq(Entries), transcript' = transcript \o UserRows(s), phase' # "tools"
      PROVE  CallsOK'
  BY <1>1, <1>3, MessagesFollow DEF CallsOK
<1>4. ASSUME NEW n \in 0 .. MaxPosts, transcript' = Append(transcript, UserRow(n)),
             phase' # "tools"
      PROVE  CallsOK'
  <2>1. UserRow(n) \in Rows /\ UserRow(n).kind # "result"
    BY <1>4 DEF UserRow, Rows
  <2> QED BY <1>1, <1>4, <2>1, FollowsAppend DEF CallsOK
<1>5. TakeAndStore => \E s \in Seq(Entries) : transcript' = transcript \o UserRows(s)
  <2>1. TakenFrom(queue) \in Seq(Entries)
    BY TakenAndLeft DEF TypeOK
  <2> QED BY <2>1 DEF TakeAndStore
<1>6. CASE BeginStep
  <2>1. phase' # "tools" /\ (TakeAndStore \/ transcript' = transcript)
    BY <1>6 DEF BeginStep
  <2> QED BY <1>2, <1>3, <1>5, <2>1
<1>7. CASE Answered
  <2>1. phase' # "tools" /\ (TakeAndStore \/ transcript' = transcript)
    BY <1>7 DEF Answered
  <2> QED BY <1>2, <1>3, <1>5, <2>1
<1>8. CASE StoreOne
  <2>1. Head(batch) \in Entries
    BY <1>8, HeadTailProperties DEF StoreOne, TypeOK
  <2>2. Head(batch).n \in 0 .. MaxPosts
    BY <2>1 DEF Entries
  <2>3. transcript' = Append(transcript, UserRow(Head(batch).n)) /\ phase' # "tools"
    BY <1>8 DEF StoreOne
  <2> QED BY <1>4, <2>2, <2>3
<1>9. CASE Prepared
  <2>1. phase' # "tools"
        /\ (transcript' = transcript \/ transcript' = Append(transcript, UserRow(0)))
    BY <1>9 DEF Prepared
  <2> QED BY <1>2, <1>4, <2>1, BoundsAssumption
<1>10. CASE ModelEvent
  <2>1. phase' # "tools" /\ transcript' = transcript \o UserRows(taken) /\ taken \in Seq(Entries)
    BY <1>10 DEF ModelEvent, TypeOK
  <2> QED BY <1>3, <2>1
<1>11. ASSUME NEW k \in 0 .. MaxCalls, NEW e \in 0 .. MaxCalls, NEW ok \in BOOLEAN,
              ModelDone(k, e, ok)
       PROVE  CallsOK'
  <2> DEFINE t == transcript \o UserRows(taken)
  <2>1. transcript' = t \o AnswerWith(k + e, e) /\ (phase' = "tools" => k > 0)
    BY <1>11 DEF ModelDone
  <2>2. k + e \in Nat /\ e \in Nat /\ (e > 0 => k + e > 0) /\ (k > 0 => k + e > 0)
    BY BoundsAssumption
  <2>3. taken \in Seq(Entries)
    BY DEF TypeOK
  <2>4. t \in Seq(Rows) /\ Follows(t)
    BY <1>1, <2>3, MessagesFollow
  <2> HIDE DEF t
  <2>5. /\ Follows(t \o AnswerWith(k + e, e))
        /\ k > 0 => Answering(t \o AnswerWith(k + e, e), Len(t \o AnswerWith(k + e, e)))
    BY <2>2, <2>4, FollowsAnswer
  <2> QED BY <2>1, <2>5 DEF CallsOK
<1>12. CASE ExecuteCall
  <2>1. CASE controller = "aborted"
    BY <1>2, <1>12, <2>1 DEF ExecuteCall
  <2>2. CASE controller # "aborted"
    <3>1. PICK rows \in CallRows : transcript' = transcript \o rows
      BY <1>12, <2>2 DEF ExecuteCall
    <3>2. rows \in Seq(Rows) /\ \A i \in DOMAIN rows : rows[i].kind \in Between
      BY CallRowTypes DEF Unnumbered, Between
    <3>3. Answering(transcript, Len(transcript))
      BY <1>12 DEF ExecuteCall, CallsOK
    <3>4. Follows(transcript \o rows) /\ Answering(transcript \o rows, Len(transcript \o rows))
      BY <1>1, <3>2, <3>3, FollowsMore
    <3> QED BY <3>1, <3>4 DEF CallsOK
  <2> QED BY <2>1, <2>2
<1>cli. CASE CliSends
  <2>1. /\ transcript' = Append(transcript, Row("sent")) /\ phase' # "tools"
    BY <1>cli DEF CliSends
  <2>2. Row("sent") \in Rows /\ Row("sent").kind # "result"
    BY BoundsAssumption DEF Row, Rows
  <2> QED BY <1>1, <2>1, <2>2, FollowsAppend DEF CallsOK
<1>13. CASE TurnBreaks
  <2>0. PICK lost \in {<<>>, TakenFrom(queue)} : \E stored \in 0 .. Len(taken \o lost) :
             transcript' = transcript \o UserRows(SubSeq(taken \o lost, 1, stored))
    BY <1>13 DEF TurnBreaks
  <2>1. PICK stored \in 0 .. Len(taken \o lost) :
             transcript' = transcript \o UserRows(SubSeq(taken \o lost, 1, stored))
    BY <2>0
  <2>2. taken \o lost \in Seq(Entries)
    BY TakenAndLeft, EmptySeq, ConcatProperties DEF TypeOK
  <2>3. SubSeq(taken \o lost, 1, stored) \in Seq(Entries)
    BY <2>2, Cut
  <2>4. phase' # "tools"
    BY <1>13 DEF TurnBreaks
  <2> QED BY <1>3, <2>1, <2>3, <2>4
<1>14. ASSUME NEW a \in Edits \cup Others, LetGo(a) PROVE CallsOK'
  <2>1. phase = "none"
    <3>1. Head(line) = a /\ a \notin QueueTurns
      BY <1>14 DEF LetGo, Holds
    <3> QED BY <3>1, NoTurnRuns DEF Control
  <2>2. transcript' \in {transcript, <<>>} /\ phase' # "tools"
    BY <1>14, <2>1 DEF LetGo
  <2>3. Follows(<<>>)
    BY DEF Follows
  <2> QED BY <1>1, <2>2, <2>3 DEF CallsOK
<1>15. CASE \/ TakeBatch \/ AskModel \/ StoreFails \/ CloseInput \/ Subscribe \/ Unsubscribe
            \/ Stop \/ DrainLoop \/ Restart \/ UNCHANGED vars
  BY <1>2, <1>15 DEF TakeBatch, AskModel, StoreFails, CloseInput, Subscribe, Unsubscribe, Stop,
                     DrainLoop, Restart, vars
<1>16. ASSUME NEW b \in Background, StartBackground(b) \/ LeaveBackground(b) \/ RunTurn(b)
       PROVE  CallsOK'
  BY <1>2, <1>16 DEF StartBackground, LeaveBackground, RunTurn
<1>17. ASSUME NEW a \in QueueTurns, EndTurn(a) PROVE CallsOK'
  BY <1>2, <1>17 DEF EndTurn
<1>18. ASSUME NEW a \in Edits \cup Others, Grant(a) \/ EditRequest(a) \/ OtherRequest(a)
       PROVE  CallsOK'
  BY <1>2, <1>18 DEF Grant, EditRequest, OtherRequest
<1>19. ASSUME NEW p \in Profiles, Enqueue(p) PROVE CallsOK'
  BY <1>2, <1>19 DEF Enqueue
<1> QED BY <1>6, <1>7, <1>8, <1>9, <1>10, <1>11, <1>12, <1>13, <1>14, <1>15, <1>16, <1>17,
           <1>18, <1>19, <1>cli DEF Next, TurnStep

\* The transcript keeps the order in which things were said: messages in the
\* order of their posts, each at most once, through the batch, a step boundary
\* or live input, and nothing between a call and its results but other results
\* and what send_message stored (storeSteering, the loop of the turn, replies.ts).
THEOREM TranscriptIsOrdered == Spec => []TranscriptKeepsOrder
<1>1. Init => CallsOK
  BY DEF Init, CallsOK, Follows
<1>2. TypeOK /\ Control /\ CallsOK /\ [Next]_vars => CallsOK'
  BY CallsStep
<1>3. TypeOK /\ Control /\ Ordered /\ CallsOK => TranscriptKeepsOrder
  <2>1. ASSUME Follows(transcript) PROVE ResultsFollowCalls
    BY <2>1 DEF Follows, Answering, Between, ResultsFollowCalls
  <2> QED BY <2>1, OrderedIsKept DEF CallsOK, TranscriptKeepsOrder
<1> QED BY <1>1, <1>2, <1>3, QueueTypesHold, ControlHolds, OrderedHolds, PTL DEF Spec

-----------------------------------------------------------------------------
\* What becomes of the messages.

\* While nobody stopped a turn and the process did not restart, a model read
\* what the turn took as live input, and every stored message, or the turn told
\* of an error, unless the drain's turn has still to ask its model.
Unread == PostsIn(transcript) \ (shown \cup failed)
Reading == stops = 0 /\ restarts = 0 =>
             /\ PostsIn(taken) \subseteq shown
             /\ Unread # {} => Holds(Drain) /\ phase \in {"store", "prepare", "loop", "ask"}

LEMMA RowsStored ==
  ASSUME TypeOK, NEW s \in Seq(Entries)
  PROVE  PostsIn(transcript \o UserRows(s)) = PostsIn(transcript) \cup PostsIn(s)
<1>1. transcript \in Seq(Items) /\ UserRows(s) \in Seq(Items) /\ PostsIn(UserRows(s)) = PostsIn(s)
  BY OrderedSeqs, EntriesAsRows
<1>2. PostsIn(transcript \o UserRows(s)) = PostsIn(transcript) \cup PostsIn(UserRows(s))
  BY <1>1, PostsOfConcat
<1> QED BY <1>1, <1>2

\* A row without a number adds no message.
LEMMA RowUnread ==
  ASSUME NEW t \in Seq(Items), NEW x \in Rows, x.n = 0
  PROVE  PostsIn(Append(t, x)) = PostsIn(t) /\ PostsIn(t \o <<x>>) = PostsIn(t)
<1>1. x \in Items
  BY DEF Items
<1>2. <<x>> \in Seq(Items) /\ PostsIn(<<x>>) = {}
  BY <1>1, OneItem
<1>3. PostsIn(t \o <<x>>) = PostsIn(t) \cup PostsIn(<<x>>)
  BY <1>2, PostsOfConcat
<1>4. Append(t, x) = t \o <<x>>
  BY <1>1, AppendIsConcat
<1> QED BY <1>2, <1>3, <1>4

LEMMA RowsUnread ==
  ASSUME NEW t \in Seq(Items), NEW r, Unnumbered(r)
  PROVE  PostsIn(t \o r) = PostsIn(t)
<1>1. r \in Seq(Items) /\ PostsIn(r) = {}
  BY ItemSeqs DEF Unnumbered, PostsIn
<1>2. PostsIn(t \o r) = PostsIn(t) \cup PostsIn(r)
  BY <1>1, PostsOfConcat
<1> QED BY <1>1, <1>2

LEMMA OnlyStopsCount ==
  ASSUME [Next]_vars, ~ Stop, ~ Restart
  PROVE  UNCHANGED <<stops, restarts>>
<1> USE DEF counters
<1>1. CASE \/ StoreOne \/ Prepared \/ BeginStep \/ AskModel \/ ModelEvent \/ CliSends \/ Answered
           \/ ExecuteCall \/ StoreFails \/ TurnBreaks \/ CloseInput \/ TakeBatch
           \/ Subscribe \/ Unsubscribe \/ DrainLoop \/ UNCHANGED vars
  BY <1>1 DEF StoreOne, Prepared, BeginStep, AskModel, ModelEvent, CliSends, Answered, ExecuteCall,
              StoreFails, TurnBreaks, CloseInput, TakeBatch, Subscribe, Unsubscribe, DrainLoop,
              vars
<1>2. ASSUME NEW k \in 0 .. MaxCalls, NEW e \in 0 .. MaxCalls, NEW ok \in BOOLEAN,
             ModelDone(k, e, ok)
      PROVE  UNCHANGED <<stops, restarts>>
  BY <1>2 DEF ModelDone
<1>3. ASSUME NEW b, StartBackground(b) \/ LeaveBackground(b) \/ RunTurn(b)
      PROVE  UNCHANGED <<stops, restarts>>
  BY <1>3 DEF StartBackground, LeaveBackground, RunTurn
<1>4. ASSUME NEW a, \/ EndTurn(a) \/ Grant(a) \/ LetGo(a) \/ EditRequest(a) \/ OtherRequest(a)
      PROVE  UNCHANGED <<stops, restarts>>
  BY <1>4 DEF EndTurn, Grant, LetGo, EditRequest, OtherRequest
<1>5. ASSUME NEW p, Enqueue(p) PROVE UNCHANGED <<stops, restarts>>
  BY <1>5 DEF Enqueue
<1> QED BY <1>1, <1>2, <1>3, <1>4, <1>5 DEF Next, TurnStep

LEMMA ReadingStep ==
  ASSUME TypeOK, Control, Reading, [Next]_vars
  PROVE  Reading'
<1> USE DEF stateVars, turnVars, counters, history
<1> SUFFICES ASSUME stops' = 0, restarts' = 0
             PROVE  /\ PostsIn(taken') \subseteq shown'
                    /\ Unread' # {} => /\ Holds(Drain)'
                                       /\ phase' \in {"store", "prepare", "loop", "ask"}
  BY DEF Reading
<1> DEFINE Asks == Holds(Drain) /\ phase \in {"store", "prepare", "loop", "ask"}
           Goal == PostsIn(taken') \subseteq shown' /\ (Unread' # {} => Asks')
<1> SUFFICES Goal
  OBVIOUS
<1>1. stops = 0 /\ restarts = 0 /\ ~ Stop /\ ~ Restart
  <2>1. stops \in Nat /\ restarts \in Nat
    BY DEF TypeOK
  <2>2. ~ Stop /\ ~ Restart
    <3>1. (Stop => stops' = stops + 1) /\ (Restart => restarts' = restarts + 1)
      BY DEF Stop, Restart
    <3>2. ~ (stops' = stops + 1) /\ ~ (restarts' = restarts + 1)
      BY <2>1
    <3> QED BY <3>1, <3>2
  <2> QED BY <2>2, OnlyStopsCount
<1>2. PostsIn(taken) \subseteq shown /\ (Unread # {} => Asks)
  BY <1>1 DEF Reading
<1>3. controller # "aborted"
  BY <1>1 DEF Control, TurnOK
<1>4. (phase # "model" => taken = <<>>) /\ PostsIn(<<>>) = {}
  BY NoItem DEF Control, TurnOK
<1>5. /\ taken \in Seq(Entries) /\ batch \in Seq(Entries) /\ queue \in Seq(Entries)
      /\ transcript \in Seq(Items)
  BY OrderedSeqs
<1>6. TakeAndStore => transcript' = transcript \o UserRows(TakenFrom(queue))
  BY DEF TakeAndStore
\* The turn's work before the model is asked is the drain's, or leaves the messages alone.
<1>7. ASSUME Asks', taken' = <<>> PROVE Goal
  BY <1>4, <1>7
<1>8. ASSUME PostsIn(transcript') \subseteq PostsIn(transcript), UNCHANGED <<taken, shown, failed>>,
             Asks => Asks'
      PROVE  Goal
  <2>1. Unread' \subseteq Unread
    BY <1>8 DEF Unread
  <2> QED BY <1>2, <1>8, <2>1
<1>9. ASSUME PostsIn(transcript') \subseteq PostsIn(transcript) \cup PostsIn(taken), phase = "model",
             taken' = <<>>, UNCHANGED <<shown, failed>>
      PROVE  Goal
  <2>1. Unread' \subseteq Unread
    BY <1>2, <1>9 DEF Unread
  <2> QED BY <1>2, <1>4, <1>9, <2>1
<1>10. CASE BeginStep
  <2>1. /\ phase = "loop" /\ phase' = "ask" /\ UNCHANGED <<line, pc, taken, shown, failed>>
        /\ Steered \/ transcript' = transcript
    BY <1>3, <1>10 DEF BeginStep
  <2>2. Holds(Drain)' <=> Holds(Drain)
    BY <2>1 DEF Holds
  <2> QED BY <1>4, <1>7, <1>8, <2>1, <2>2 DEF Steered
<1>11. CASE Answered
  <2>1. /\ phase = "after" /\ UNCHANGED <<line, pc, taken, shown, failed>>
        /\ (Steered /\ phase' = "loop") \/ transcript' = transcript
    BY <1>11 DEF Answered
  <2>2. Holds(Drain)' <=> Holds(Drain)
    BY <2>1 DEF Holds
  <2> QED BY <1>4, <1>7, <1>8, <2>1, <2>2 DEF Steered
<1>12. CASE StoreOne
  <2>1. /\ phase = "store" /\ phase' \in {"store", "prepare"} /\ UNCHANGED <<line, pc, taken>>
    BY <1>12 DEF StoreOne
  <2>2. Holds(Drain)'
    BY <2>1 DEF Control, TurnOK, Holds
  <2> QED BY <1>4, <1>7, <2>1, <2>2
<1>13. CASE Prepared
  <2>1. /\ phase = "prepare" /\ phase' = "loop" /\ UNCHANGED <<line, pc, taken, shown, failed>>
        /\ transcript' = transcript \/ transcript' = Append(transcript, UserRow(0))
    BY <1>13 DEF Prepared
  <2>2. Holds(Drain)' <=> Holds(Drain)
    BY <2>1 DEF Holds
  <2>3. PostsIn(transcript') = PostsIn(transcript)
    BY <1>5, <2>1, AnswerRows, RowUnread
  <2> QED BY <1>8, <2>1, <2>2, <2>3
<1>14. CASE AskModel
  <2> DEFINE first == IF Steered /\ profile \in LiveProfiles THEN TakenFrom(queue) ELSE <<>>
  <2>1. /\ taken' = first /\ UNCHANGED <<transcript, failed>>
        /\ shown' = shown \cup PostsIn(transcript) \cup Numbers(first)
    BY <1>3, <1>14 DEF AskModel
  <2>2. first \in Seq(Entries)
    BY <1>5, TakenAndLeft, EmptySeq
  <2>3. PostsIn(first) = Numbers(first)
    BY <2>2, EntriesAsRows
  <2>4. Unread' = {}
    BY <2>1 DEF Unread
  <2> HIDE DEF first
  <2> QED BY <2>1, <2>3, <2>4
<1>15. CASE ModelEvent
  <2>1. PostsIn(transcript') = PostsIn(transcript) \cup PostsIn(taken)
    BY <1>5, <1>15, RowsStored DEF ModelEvent
  <2> QED BY <1>9, <1>15, <2>1 DEF ModelEvent
<1>16. ASSUME NEW k \in 0 .. MaxCalls, NEW e \in 0 .. MaxCalls, NEW ok \in BOOLEAN,
              ModelDone(k, e, ok)
       PROVE  Goal
  <2> DEFINE x == AnswerWith(k + e, e)
             t == transcript \o UserRows(taken)
  <2>1. phase = "model" /\ taken' = <<>> /\ transcript' = t \o x
        /\ UNCHANGED <<shown, failed>>
    BY <1>16 DEF ModelDone
  <2>2. Unnumbered(x)
    BY AnswerTypes, BoundsAssumption
  <2>3. PostsIn(t) = PostsIn(transcript) \cup PostsIn(taken)
    BY <1>5, RowsStored
  <2>4. t \in Seq(Items)
    BY <1>5, EntriesAsRows, ConcatParts
  <2> HIDE DEF t, x
  <2>5. PostsIn(t \o x) = PostsIn(t)
    BY <2>2, <2>4, RowsUnread
  <2> QED BY <1>9, <2>1, <2>3, <2>5
<1>17. CASE ExecuteCall
  <2>1. /\ phase = "tools" /\ UNCHANGED <<taken, shown, failed>>
        /\ transcript' = transcript \/ \E rows \in CallRows : transcript' = transcript \o rows
    BY <1>17 DEF ExecuteCall
  <2>2. PostsIn(transcript') = PostsIn(transcript)
    BY <1>5, <2>1, CallRowTypes, RowsUnread
  <2> QED BY <1>8, <2>1, <2>2
<1>cli. CASE CliSends
  <2>1. /\ UNCHANGED <<line, pc, phase, taken, shown, failed>>
        /\ transcript' = Append(transcript, Row("sent"))
    BY <1>cli DEF CliSends
  <2>2. PostsIn(transcript') = PostsIn(transcript)
    BY <1>5, <2>1, AnswerRows, RowUnread
  <2>3. Holds(Drain)' <=> Holds(Drain)
    BY <2>1 DEF Holds
  <2> QED BY <1>8, <2>1, <2>2, <2>3
<1>18. CASE StoreFails
  <2>1. /\ UNCHANGED <<transcript, taken, shown>>
        /\ failed' = failed \cup Numbers(batch) \cup (PostsIn(transcript) \ shown)
    BY <1>3, <1>18 DEF StoreFails, TellOf
  <2>2. Unread' = {}
    BY <2>1 DEF Unread
  <2> QED BY <1>2, <2>1, <2>2
<1>19. CASE TurnBreaks
  <2>1. PICK lost \in {<<>>, TakenFrom(queue)} : \E stored \in 0 .. Len(taken \o lost) :
             /\ transcript' = transcript \o UserRows(SubSeq(taken \o lost, 1, stored))
             /\ failed' = failed \cup Numbers(taken \o lost) \cup (PostsIn(transcript) \ shown)
    BY <1>3, <1>19 DEF TurnBreaks, TellOf
  <2>2. PICK stored \in 0 .. Len(taken \o lost) :
             /\ transcript' = transcript \o UserRows(SubSeq(taken \o lost, 1, stored))
             /\ failed' = failed \cup Numbers(taken \o lost) \cup (PostsIn(transcript) \ shown)
    BY <2>1
  <2> DEFINE h == taken \o lost  front == SubSeq(h, 1, stored)
             rest == SubSeq(h, stored + 1, Len(h))
  <2>3. h \in Seq(Entries)
    BY <1>5, TakenAndLeft, EmptySeq, ConcatProperties
  <2>4. stored \in 0 .. Len(h) /\ transcript' = transcript \o UserRows(front)
        /\ failed' = failed \cup Numbers(h) \cup (PostsIn(transcript) \ shown)
    BY <2>2
  <2> HIDE DEF h
  <2>5. front \in Seq(Entries) /\ rest \in Seq(Entries) /\ front \o rest = h
    BY <2>3, <2>4, TwoParts
  <2> HIDE DEF front, rest
  <2>6. PostsIn(front \o rest) = PostsIn(front) \cup PostsIn(rest)
    BY <2>5, Halves
  <2>7. PostsIn(front) \subseteq Numbers(h)
    BY <2>3, <2>5, <2>6, EntriesAsRows
  <2>8. PostsIn(transcript') = PostsIn(transcript) \cup PostsIn(front)
    BY <2>4, <2>5, RowsStored
  <2>9. taken' = <<>> /\ shown' = shown
    BY <1>19 DEF TurnBreaks
  <2>10. Unread' = {}
    BY <2>4, <2>7, <2>8, <2>9 DEF Unread
  <2> QED BY <1>4, <2>9, <2>10
<1>20. ASSUME NEW p \in Profiles, Enqueue(p) PROVE Goal
  <2> DEFINE q == Append(queue, [n |-> posts + 1, profile |-> p])
  <2>1. /\ UNCHANGED <<transcript, failed, controller, phase>>
        /\ \/ UNCHANGED <<taken, shown>>
           \/ /\ live /\ taken' = taken \o TakenFrom(q)
              /\ shown' = IF controller = "live" THEN shown \cup Numbers(TakenFrom(q)) ELSE shown
    BY <1>20 DEF Enqueue
  <2>2. Holds(Drain) => Holds(Drain)'
    <3>1. Holds(Drain) => running
      BY DEF Holds, Control, DrainOK, Active
    <3>2. running => UNCHANGED <<line, pc>>
      BY <1>20 DEF Enqueue
    <3> QED BY <3>1, <3>2 DEF Holds
  <2>3. Unread' # {} => Asks'
    <3>1. Unread' \subseteq Unread
      BY <2>1 DEF Unread
    <3> QED BY <1>2, <2>1, <2>2, <3>1
  <2>4. CASE UNCHANGED <<taken, shown>>
    BY <1>2, <2>3, <2>4
  <2>5. CASE live /\ taken' = taken \o TakenFrom(q)
             /\ shown' = IF controller = "live" THEN shown \cup Numbers(TakenFrom(q)) ELSE shown
    <3>1. controller = "live"
      <4>1. controller # "none"
        BY <2>5 DEF Control, TurnOK
      <4> QED BY <1>3, <4>1 DEF TypeOK
    <3>2. TakenFrom(q) \in Seq(Entries)
      <4>1. [n |-> posts + 1, profile |-> p] \in Entries
        <5>1. posts + 1 \in 1 .. MaxPosts
          BY <1>20, BoundsAssumption DEF Enqueue, TypeOK
        <5> QED BY <5>1 DEF Entries
      <4>2. q \in Seq(Entries)
        BY <1>5, <4>1, AppendProperties
      <4> QED BY <4>2, TakenAndLeft
    <3> HIDE DEF q
    <3>3. PostsIn(taken \o TakenFrom(q)) = PostsIn(taken) \cup PostsIn(TakenFrom(q))
      BY <1>5, <3>2, Halves
    <3>4. PostsIn(TakenFrom(q)) = Numbers(TakenFrom(q))
      BY <3>2, EntriesAsRows
    <3> QED BY <1>2, <2>3, <2>5, <3>1, <3>3, <3>4
  <2> QED BY <2>1, <2>4, <2>5
<1>21. CASE TakeBatch
  <2>1. Head(line) = Drain /\ pc[Drain] = "inline" /\ UNCHANGED <<transcript, taken, shown, failed>>
    BY <1>21 DEF TakeBatch
  <2> QED BY <1>8, <2>1 DEF Holds
<1>22. ASSUME NEW b \in Background, StartBackground(b) PROVE Goal
  <2>1. Head(line) = b /\ pc[b] = "inline" /\ UNCHANGED <<transcript, taken, shown, failed>>
    BY <1>22 DEF StartBackground
  <2> QED BY <1>8, <2>1 DEF Holds
<1>23. ASSUME NEW a \in QueueTurns, EndTurn(a) PROVE Goal
  <2>1. phase = "finished" /\ UNCHANGED <<transcript, taken, shown, failed>>
    BY <1>23 DEF EndTurn
  <2> QED BY <1>8, <2>1
<1>24. ASSUME NEW a \in Edits \cup Others, LetGo(a) PROVE Goal
  <2>1. Head(line) = a /\ a # Drain /\ UNCHANGED <<taken, shown, failed>>
        /\ transcript' \in {transcript, <<>>}
    BY <1>24, ActorsAssumption DEF LetGo, Holds, QueueTurns
  <2>2. PostsIn(transcript') \subseteq PostsIn(transcript)
    BY <1>4, <2>1
  <2> QED BY <1>8, <2>1, <2>2 DEF Holds
<1>25. ASSUME NEW a \in Edits \cup Others, Grant(a) PROVE Goal
  <2>1. Head(line) = a /\ a # Drain /\ UNCHANGED <<transcript, taken, shown, failed>>
    BY <1>25, ActorsAssumption DEF Grant, QueueTurns
  <2> QED BY <1>8, <2>1 DEF Holds
<1>26. ASSUME NEW a \in Actors, pc[a] \notin {"inline", "holding"}, Join(a),
              UNCHANGED <<transcript, taken, shown, failed, phase>>
       PROVE  Goal
  BY <1>8, <1>26, JoinKeepsHolders
<1>27. ASSUME NEW b \in Background, RunTurn(b) PROVE Goal
  <2>1. b \in Actors /\ pc[b] = "out" /\ Join(b)
        /\ UNCHANGED <<transcript, taken, shown, failed, phase>>
    BY <1>27 DEF RunTurn, Actors
  <2> QED BY <1>26, <2>1
<1>28. ASSUME NEW a \in Edits \cup Others, EditRequest(a) \/ OtherRequest(a) PROVE Goal
  <2>1. a \in Actors /\ pc[a] = "out" /\ Join(a)
        /\ UNCHANGED <<transcript, taken, shown, failed, phase>>
    BY <1>28 DEF EditRequest, OtherRequest, Actors
  <2> QED BY <1>26, <2>1
<1>29. CASE DrainLoop
  <2>1. pc[Drain] = "leaving" /\ UNCHANGED <<transcript, taken, shown, failed>>
    BY <1>29 DEF DrainLoop
  <2> QED BY <1>8, <2>1 DEF Holds
<1>30. ASSUME NEW b \in Background, LeaveBackground(b) PROVE Goal
  <2>1. b # Drain /\ pc' = [pc EXCEPT ![b] = "done"]
        /\ UNCHANGED <<line, transcript, taken, shown, failed, phase>>
    BY <1>30, ActorsAssumption DEF LeaveBackground
  <2>2. Holds(Drain) => Holds(Drain)'
    BY <2>1 DEF Holds, TypeOK
  <2> QED BY <1>8, <2>1, <2>2
<1>31. CASE CloseInput \/ Subscribe \/ Unsubscribe \/ UNCHANGED vars
  <2>1. UNCHANGED <<line, pc, phase, transcript, taken, shown, failed>>
    BY <1>31 DEF CloseInput, Subscribe, Unsubscribe, vars
  <2> QED BY <1>8, <2>1 DEF Holds
<1> QED BY <1>10, <1>11, <1>12, <1>13, <1>14, <1>15, <1>16, <1>17, <1>18, <1>19, <1>20, <1>21,
           <1>22, <1>23, <1>24, <1>25, <1>27, <1>28, <1>29, <1>30, <1>31, <1>1, <1>cli
        DEF Next, TurnStep

\* No message is forgotten: one that waits has a drain that will come back to it
\* (startDrain and the check in enqueue), and once the drain is done, with no
\* stop and no restart, a model read every stored message, or its turn told of
\* an error.
THEOREM PostsAreKept == Spec => []NoPostIsForgotten
<1>1. Init => Reading
  BY NoItem DEF Init, Reading, Unread
<1>2. TypeOK /\ Control /\ Reading /\ [Next]_vars => Reading'
  BY ReadingStep
<1>3. Control /\ Reading => AnsweredOrTold
  <2>1. Control /\ ~running => ~ Holds(Drain)
    BY DEF Control, DrainOK, Active, Holds
  <2> QED BY <2>1 DEF Reading, Unread, AnsweredOrTold
<1>4. Control /\ QueueState /\ Reading => NoPostIsForgotten
  BY <1>3 DEF QueueState, NoPostIsForgotten
<1> QED BY <1>1, <1>2, <1>4, QueueTypesHold, ControlHolds, QueueStateHolds, PTL DEF Spec
=============================================================================
