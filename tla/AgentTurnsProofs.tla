--------------------------- MODULE AgentTurnsProofs ---------------------------
(***************************************************************************)
(* What is proved of AgentMail and of GroupRounds, for every number of     *)
(* agents, senders, requests and members, every budget and every length of *)
(* a chat: of mail, that what is read is shown, what is sent is delivered  *)
(* and nothing is forgotten as long as the batches reach what waits at one *)
(* time; of rounds, what the models read and that a round is fair.         *)
(***************************************************************************)
EXTENDS MCAgentTurns, FilterProofs, SequenceTheorems, FiniteSetTheorems,
        WellFoundedInduction, TLAPS

-----------------------------------------------------------------------------
(*****************************************************************************)
(* Mail.                                                                     *)
(*****************************************************************************)

\* The oldest of a set of mail.

LEMMA LeastExists ==
  ASSUME NEW S \in SUBSET Nat, S # {} PROVE \E m \in S : \A k \in S : m <= k
<1> DEFINE R == OpToRel(<, Nat)
<1>1. IsWellFoundedOn(R, Nat)
  BY NatLessThanWellFounded
<1>2. PICK m \in S : \A k \in S : <<k, m>> \notin R
  BY <1>1, WFMin
<1>3. \A k \in S : ~ (k < m)
  BY <1>2 DEF OpToRel
<1> QED BY <1>3

LEMMA FirstIs ==
  ASSUME NEW S \in SUBSET Mail, S # {}
  PROVE  First(S) \in S /\ \A k \in S : First(S) <= k
<1>1. S \in SUBSET Nat
  BY MailAssumption
<1> QED BY <1>1, LeastExists DEF First

LEMMA OldestSubset == ASSUME NEW S, NEW n PROVE Oldest(S, n) \subseteq S
BY DEF Oldest

LEMMA IsOldest ==
  ASSUME NEW S, NEW n, NEW m \in S, Cardinality({k \in S : k < m}) < n
  PROVE  m \in Oldest(S, n)
BY Zenon DEF Oldest

LEMMA FiniteMail ==
  ASSUME NEW S \in SUBSET Mail PROVE IsFiniteSet(S) /\ Cardinality(S) \in Nat /\ S \subseteq Nat
BY MailAssumption, FS_Subset, FS_CardinalityType

\* A batch that is as long as what waits is all of it.
LEMMA OldestIsAll ==
  ASSUME NEW S \in SUBSET Mail, NEW n \in Nat, Cardinality(S) <= n
  PROVE  Oldest(S, n) = S
<1>1. ASSUME NEW m \in S PROVE m \in Oldest(S, n)
  <2>1. /\ IsFiniteSet(S \ {m}) /\ Cardinality(S \ {m}) = Cardinality(S) - 1
        /\ Cardinality(S) \in Nat
    BY FiniteMail, FS_RemoveElement
  <2>2. {k \in S : k < m} \in SUBSET (S \ {m})
    BY FiniteMail
  <2>3. /\ Cardinality({k \in S : k < m}) <= Cardinality(S \ {m})
        /\ Cardinality({k \in S : k < m}) \in Nat
    BY <2>1, <2>2, FS_Subset, FS_CardinalityType
  <2>4. Cardinality({k \in S : k < m}) < n
    BY <2>1, <2>3
  <2> QED BY <2>4, IsOldest
<1> QED BY <1>1, OldestSubset

LEMMA OldestGrows ==
  ASSUME NEW S \in SUBSET Mail, NEW n \in Nat, Cardinality(Oldest(S, n)) = n, n < Cardinality(S)
  PROVE  Cardinality(Oldest(S, n + 1)) >= n + 1
<1>1. Oldest(S, n) \in SUBSET S /\ Oldest(S, n) # S /\ Oldest(S, n + 1) \in SUBSET Mail
  <2>1. Oldest(S, n) \subseteq S /\ Oldest(S, n + 1) \subseteq S
    BY OldestSubset
  <2>2. Cardinality(Oldest(S, n)) # Cardinality(S)
    BY FiniteMail
  <2> QED BY <2>1, <2>2
<1>2. S \ Oldest(S, n) # {} /\ S \ Oldest(S, n) \in SUBSET Mail
  BY <1>1
<1>3. PICK x \in S \ Oldest(S, n) : \A k \in S \ Oldest(S, n) : x <= k
  BY <1>2, FirstIs
<1>4. {k \in S : k < x} \in SUBSET Oldest(S, n)
  BY <1>3, FiniteMail
<1>5. IsFiniteSet(Oldest(S, n)) /\ \A k \in S : Cardinality({j \in S : j < k}) \in Nat
  BY <1>1, FiniteMail
<1>6. Cardinality({k \in S : k < x}) <= n
  BY <1>4, <1>5, FS_Subset
<1>7. Oldest(S, n) \cup {x} \in SUBSET Oldest(S, n + 1)
  BY <1>3, <1>5, <1>6 DEF Oldest
<1>8. Cardinality(Oldest(S, n) \cup {x}) = n + 1
  BY <1>3, <1>5, FS_AddElement
<1>9. IsFiniteSet(Oldest(S, n + 1))
  BY <1>1, FiniteMail
<1> QED BY <1>7, <1>8, <1>9, FS_Subset

LEMMA OldestAreNoMore ==
  ASSUME NEW S \in SUBSET Mail, NEW n \in Nat
  PROVE  Oldest(S, n) \in SUBSET Oldest(S, n + 1)
<1>1. \A k \in S : Cardinality({j \in S : j < k}) \in Nat
  BY FiniteMail
<1> QED BY <1>1 DEF Oldest

\* A batch is full when there is enough.
LEMMA OldestIsFull ==
  ASSUME NEW S \in SUBSET Mail, NEW n \in Nat, n <= Cardinality(S)
  PROVE  Cardinality(Oldest(S, n)) >= n
<1> DEFINE Short == {j \in Nat : j <= Cardinality(S) /\ Cardinality(Oldest(S, j)) < j}
<1> SUFFICES ASSUME Short # {} PROVE FALSE
  <2>1. Cardinality(Oldest(S, n)) \in Nat
    BY OldestSubset, FiniteMail
  <2> QED BY <2>1
<1>1. PICK j \in Short : \A i \in Short : j <= i
  BY LeastExists
<1>2. \A i \in Nat : Cardinality(Oldest(S, i)) \in Nat
  BY OldestSubset, FiniteMail
<1>3. j \in Nat \ {0} /\ j <= Cardinality(S) /\ Cardinality(S) \in Nat
  BY <1>1, <1>2, FiniteMail
<1>4. j - 1 \in Nat /\ j - 1 \notin Short /\ (j - 1) + 1 = j
  BY <1>1, <1>3
<1>5. Cardinality(Oldest(S, j - 1)) >= j - 1
  BY <1>2, <1>3, <1>4
<1>6. CASE Cardinality(Oldest(S, j - 1)) = j - 1
  <2>1. Cardinality(Oldest(S, j)) >= j
    BY <1>3, <1>4, <1>6, OldestGrows
  <2> QED BY <1>1, <1>2, <1>3, <2>1
<1>7. CASE Cardinality(Oldest(S, j - 1)) >= j
  <2>1. Oldest(S, j - 1) \in SUBSET Oldest(S, j) /\ IsFiniteSet(Oldest(S, j))
    BY <1>4, OldestAreNoMore, OldestSubset, FiniteMail
  <2>2. Cardinality(Oldest(S, j - 1)) <= Cardinality(Oldest(S, j))
    BY <2>1, FS_Subset
  <2> QED BY <1>1, <1>2, <1>3, <1>4, <1>7, <2>2
<1> QED BY <1>2, <1>4, <1>5, <1>6, <1>7

\* A batch that leaves mail out is full, and older.
LEMMA OldestLeaves ==
  ASSUME NEW S \in SUBSET Mail, NEW n \in Nat, NEW m \in S, m \notin Oldest(S, n)
  PROVE  /\ Oldest(S, n) \subseteq {k \in S : k < m}
         /\ Cardinality(Oldest(S, n)) >= n
<1> DEFINE Older(k) == {j \in S : j < k}
<1>0. \A k \in S : k \in Nat
  BY FiniteMail
<1>1. \A k \in S : IsFiniteSet(Older(k)) /\ Cardinality(Older(k)) \in Nat
  BY FiniteMail
<1>2. Cardinality(Older(m)) >= n
  BY <1>1 DEF Oldest
<1>3. ASSUME NEW k \in Oldest(S, n), ~(k < m) PROVE FALSE
  <2>1. k \in S /\ Cardinality(Older(k)) < n
    BY <1>3 DEF Oldest
  <2>2. k \in Nat /\ m \in Nat /\ m <= k /\ \A j \in S : j \in Nat
    BY <1>0, <1>3, <2>1
  <2>5. \A j \in S : j < m => j < k
    BY <2>2
  <2>4. Older(m) \in SUBSET Older(k)
    BY <2>5
  <2>3. Cardinality(Older(m)) <= Cardinality(Older(k))
    BY <1>1, <2>1, <2>4, FS_Subset
  <2> QED BY <1>1, <1>2, <2>1, <2>3
<1>4. Cardinality(S) >= n
  <2>1. Older(m) \in SUBSET S /\ IsFiniteSet(S) /\ Cardinality(S) \in Nat
    BY FiniteMail
  <2>2. Cardinality(Older(m)) <= Cardinality(S)
    BY <2>1, FS_Subset
  <2> QED BY <1>1, <1>2, <2>1, <2>2
<1>5. Cardinality(Oldest(S, n)) >= n
  BY <1>4, OldestIsFull, FiniteMail
<1> QED BY <1>3, <1>5, OldestSubset

-----------------------------------------------------------------------------
\* Where actors can be, and what they hold when they are there.

ActorRecords == [stage : Stages, todo : SUBSET Mail, got : SUBSET Mail, inner : BOOLEAN,
                 tries : 0 .. MaxAttempts + MaxBatches, was : MaybeStatus,
                 status : MaybeStatus, at : Mail \cup {0}]

Receivers == Turns \cup {Inbox}

\* The rows are inserted in order.
InOrder == \A k, m \in Mail : k < m /\ mail[m] # "none" => mail[k] # "none"

\* An actor lists rows that exist.
ListsOK(r, rows) == /\ \A m \in r.todo \cup r.got : rows[m] # "none"
                    /\ r.stage = "mark" => r.todo # {}

SenderOK(r, row) ==
  /\ r.stage \in {"out", "deliver", "delivering", "get", "done"} /\ ~r.inner
  /\ r.stage = "out" <=> row = "none"
  /\ r.stage = "out" => r.tries = 0
  /\ r.stage \in {"deliver", "delivering"} => r.tries < MaxAttempts

InboxOK(r, line, listed) ==
  /\ r.stage \in {"out", "deliver", "delivering", "claim", "mark", "want", "turn"}
  /\ r.stage = "out" => ~r.inner /\ listed = {}
  /\ r.stage # "out" => line # <<>> /\ r.tries < MaxBatches

PatchOK(r, rows) ==
  r.stage \in {"check", "write"} =>
    /\ r.at \in Mail /\ rows[r.at] # "none"
    /\ r.status \in {"delivered", "read", "failed"}

ActorOK(a, r, rows, line, listed) ==
  /\ a \in Mail \cup Receivers => ListsOK(r, rows)
  /\ a \in Mail => SenderOK(r, rows[a])
  /\ a = Inbox => InboxOK(r, line, listed)
  /\ a \in Patches => PatchOK(r, rows)

MailInv == TypeOK /\ InOrder /\ \A a \in Actors : ActorOK(a, act[a], mail, chain, seen)

\* Mail that somebody read, or that failed: a transcript has it, somebody was told,
\* or the turn that claimed it still has it.
Kept(m) == Settled(m) \/ \E a \in Receivers : m \in Claimed(a)
ReadIsKept == \A m \in Mail : mail[m] \in {"read", "failed"} => Kept(m)

\* What the senders count on: the batches of one send reach all that its agent has
\* pending at a time.
BatchesReach == \A g \in Agents : Cardinality(For(g, "pending")) <= MaxAttempts * DeliverLimit

\* And the inbox turns: a batch has all that its agent has delivered at a time.
InboxesFit == \A g \in Agents : Cardinality(For(g, "delivered")) <= InboxLimit

\* The older mail in the way of a row, and how many batches it can take still.
Before(m) == {k \in For(To[m], "pending") : k < m}
WithinReach(S, batches) ==
  Cardinality(S) + batches * DeliverLimit < MaxAttempts * DeliverLimit

SenderReaches(m) ==
  /\ act[m].stage \in {"deliver", "delivering"} /\ m \notin act[m].got
  /\ act[m].stage = "deliver" => WithinReach(Before(m), act[m].tries)
  /\ act[m].stage = "delivering" /\ m \notin act[m].todo =>
       /\ WithinReach(Before(m) \ act[m].todo, act[m].tries + 1)
       /\ act[m].todo \cup act[m].got # {}
SendersReach == \A m \in Mail : mail[m] = "pending" => SenderReaches(m)

\* An inbox turn waits for the agent, or one is on its way to the row.
Waits(m) == \E i \in 2 .. Len(chain) : chain[i] = To[m]
OnItsWay(m) ==
  /\ chain # <<>> /\ Head(chain) = To[m] /\ ~act[Inbox].inner
  /\ \/ act[Inbox].stage \in {"out", "deliver", "delivering"} /\ m \notin seen
     \/ act[Inbox].stage \in {"claim", "mark"} /\ m \in act[Inbox].todo
Coming(m) == Waits(m) \/ OnItsWay(m)

DeliveredIsComing ==
  \A m \in Mail : mail[m] = "delivered" =>
    Kept(m) \/ act[m].stage # "done" \/ Coming(m)

-----------------------------------------------------------------------------
\* One actor moves: what a step has to show of it, and that the others keep.

RestOK ==
  /\ mail \in [Mail -> MaybeStatus] /\ chain \in Seq(Agents) /\ seen \subseteq Mail
  /\ lock \in [Agents -> Turns \cup {Inbox, Nobody}] /\ shown \in [Mail -> Nat]
  /\ told \subseteq Mail /\ patched \subseteq Mail /\ failures \in 0 .. MaxFailures

\* Rows are inserted once and never taken out again.
RowsStay(a) == \A m \in Mail : /\ mail[m] # "none" => mail'[m] # "none"
                               /\ mail[m] = "none" => mail'[m] = "none" \/ m = a

LineGrows == seen' = seen /\ (chain' = chain \/ \E g \in Agents : chain' = Append(chain, g))

LEMMA TypeParts == TypeOK <=> RestOK /\ act \in [Actors -> ActorRecords]
BY DEF TypeOK, RestOK, ActorRecords

LEMMA Moved ==
  ASSUME TypeOK, NEW a \in Actors, NEW r, Becomes(a, r)
  PROVE  act'[a] = r /\ \A b \in Actors \ {a} : act'[b] = act[b]
BY DEF TypeOK, Becomes

LEMMA ActorMoves ==
  ASSUME MailInv, NEW a \in Actors, NEW r \in ActorRecords, Becomes(a, r),
         RestOK', InOrder', RowsStay(a), a = Inbox \/ LineGrows,
         ActorOK(a, r, mail', chain', seen')
  PROVE  MailInv'
<1>1. TypeOK /\ act \in [Actors -> ActorRecords]
  BY TypeParts DEF MailInv
<1>2. act' \in [Actors -> ActorRecords]
  BY <1>1 DEF Becomes
<1>3. TypeOK'
  BY <1>2 DEF TypeOK, RestOK, ActorRecords
<1>4. act'[a] = r /\ \A b \in Actors \ {a} : act'[b] = act[b]
  BY <1>1, Moved
<1>5. ASSUME NEW b \in Actors \ {a}
      PROVE  ActorOK(b, act[b], mail', chain', seen')
  <2>1. ActorOK(b, act[b], mail, chain, seen) /\ act[b] \in ActorRecords
    BY <1>1 DEF MailInv
  <2>2. ListsOK(act[b], mail) => ListsOK(act[b], mail')
    BY <2>1 DEF ListsOK, RowsStay, ActorRecords
  <2>3. b \in Mail /\ SenderOK(act[b], mail[b]) => SenderOK(act[b], mail'[b])
    BY DEF SenderOK, RowsStay
  <2>4. PatchOK(act[b], mail) => PatchOK(act[b], mail')
    BY DEF PatchOK, RowsStay
  <2>5. ASSUME b = Inbox, InboxOK(act[b], chain, seen) PROVE InboxOK(act[b], chain', seen')
    <3>1. LineGrows /\ chain \in Seq(Agents)
      BY <2>5 DEF MailInv, TypeOK
    <3>2. chain # <<>> => chain' # <<>>
      BY <3>1 DEF LineGrows
    <3> QED BY <2>5, <3>1, <3>2 DEF InboxOK, LineGrows
  <2> QED BY <2>1, <2>2, <2>3, <2>4, <2>5 DEF ActorOK
<1>6. \A b \in Actors : ActorOK(b, act'[b], mail', chain', seen')
  BY <1>4, <1>5
<1> QED BY <1>3, <1>6 DEF MailInv

\* A step that leaves the rows alone, or sets one that exists.
RowsKept == UNCHANGED mail
RowSet(m, status) == /\ mail[m] # "none" /\ status \in Statuses
                     /\ mail' = [mail EXCEPT ![m] = status]

LEMMA RowsStayOnes ==
  ASSUME MailInv, NEW a, RowsKept \/ \E m \in Mail, status \in Statuses : RowSet(m, status)
  PROVE  /\ mail' \in [Mail -> MaybeStatus] /\ InOrder' /\ RowsStay(a)
         /\ \A m \in Mail : mail'[m] # "none" <=> mail[m] # "none"
<1>1. mail \in [Mail -> MaybeStatus] /\ "none" \notin Statuses
  BY DEF MailInv, TypeOK, Statuses
<1>2. /\ mail' \in [Mail -> MaybeStatus]
      /\ \A m \in Mail : mail'[m] # "none" <=> mail[m] # "none"
  BY <1>1 DEF RowsKept, RowSet, MaybeStatus
<1> QED BY <1>2 DEF MailInv, InOrder, RowsStay

\* The same for a step of which the rest is known to be as it was.
LEMMA MovesAlone ==
  ASSUME MailInv, NEW a \in Actors, NEW r \in ActorRecords, Becomes(a, r),
         RowsKept \/ \E m \in Mail, status \in Statuses : RowSet(m, status),
         chain' \in Seq(Agents), seen' \subseteq Mail,
         lock' \in [Agents -> Turns \cup {Inbox, Nobody}], shown' \in [Mail -> Nat],
         told' \subseteq Mail, patched' \subseteq Mail, failures' \in 0 .. MaxFailures,
         a = Inbox \/ LineGrows, ActorOK(a, r, mail', chain', seen')
  PROVE  MailInv'
<1>1. mail' \in [Mail -> MaybeStatus] /\ InOrder' /\ RowsStay(a)
  BY RowsStayOnes
<1>2. RestOK'
  BY <1>1 DEF RestOK
<1> QED BY <1>1, <1>2, ActorMoves

-----------------------------------------------------------------------------
\* Every step keeps actors where they can be.

LEMMA ActorTypes ==
  ASSUME MailInv, NEW a \in Actors
  PROVE  act[a] \in ActorRecords /\ ActorOK(a, act[a], mail, chain, seen)
BY TypeParts DEF MailInv

LEMMA WaitingRows ==
  ASSUME MailInv, NEW g, NEW n, NEW status \in Statuses
  PROVE  /\ Oldest(For(g, status), n) \in SUBSET Mail
         /\ \A m \in Oldest(For(g, status), n) : mail[m] = status /\ mail[m] # "none"
<1>1. \A m \in For(g, status) : m \in Mail /\ mail[m] = status /\ status # "none"
  BY DEF For, Statuses
<1> QED BY <1>1, OldestSubset

LEMMA AtRecords ==
  ASSUME NEW stage \in Stages
  PROVE  /\ At(stage) \in ActorRecords /\ At(stage).stage = stage /\ ~At(stage).inner
         /\ At(stage).todo = {} /\ At(stage).got = {} /\ At(stage).tries = 0
BY LimitsAssumption DEF At, ActorRecords, MaybeStatus

LEMMA FirstOfTodo ==
  ASSUME MailInv, NEW a \in Actors, act[a].todo # {}
  PROVE  First(act[a].todo) \in act[a].todo /\ First(act[a].todo) \in Mail
<1>1. act[a].todo \in SUBSET Mail
  BY ActorTypes DEF ActorRecords
<1> QED BY <1>1, FirstIs

LEMMA ActorSorts ==
  /\ \A a \in Receivers : a \in Actors /\ a \notin Mail /\ a \notin Patches
  /\ \A m \in Mail : m \in Actors /\ m \notin Patches /\ m # Inbox /\ m \notin Receivers
  /\ \A p \in Patches : p \in Actors /\ p \notin Mail \cup Receivers /\ p # Inbox
  /\ \A t \in Turns : t \in Receivers /\ t # Inbox
  /\ Inbox \in Receivers /\ Actors = Mail \cup Receivers \cup Patches
BY ActorsAssumption DEF Actors, Receivers

LEMMA ScheduleGrows ==
  ASSUME MailInv, NEW condition, NEW m \in Mail, ScheduleIf(condition, To[m]), seen' = seen
  PROVE  LineGrows /\ chain' \in Seq(Agents)
<1>1. To[m] \in Agents /\ chain \in Seq(Agents)
  BY AgentsAssumption DEF MailInv, TypeOK
<1> QED BY <1>1 DEF ScheduleIf, Schedule, LineGrows

LEMMA ListPendingOK ==
  ASSUME MailInv, NEW a \in Mail \cup Receivers, ListPending(a) PROVE MailInv'
<1> DEFINE T == Oldest(For(AgentOf(a), "pending"), BatchLimit(a))
           r == [act[a] EXCEPT !.stage = "delivering", !.got = {}, !.todo = T]
<1>1. a \in Actors /\ act[a] \in ActorRecords /\ ActorOK(a, act[a], mail, chain, seen)
  BY ActorTypes, ActorSorts
<1>2. T \in SUBSET Mail /\ \A m \in T : mail[m] # "none"
  BY WaitingRows DEF Statuses
<1>3. r \in ActorRecords /\ Becomes(a, r) /\ act[a].stage = "deliver"
  BY <1>1, <1>2 DEF ActorRecords, Stages, ListPending
<1> HIDE DEF T
<1>4. ActorOK(a, r, mail, chain, seen)
  <2>1. ListsOK(r, mail)
    BY <1>1, <1>2, <1>3 DEF ListsOK, ActorRecords
  <2>2. SenderOK(act[a], mail[a]) => SenderOK(r, mail[a])
    BY <1>1, <1>3 DEF SenderOK, ActorRecords
  <2>3. InboxOK(act[a], chain, seen) => InboxOK(r, chain, seen)
    BY <1>1, <1>3 DEF InboxOK, ActorRecords
  <2> QED BY <1>1, <2>1, <2>2, <2>3, ActorSorts DEF ActorOK
<1> QED BY <1>1, <1>3, <1>4, MovesAlone
        DEF ListPending, RowsKept, MailInv, TypeOK, LineGrows

LEMMA DeliverRowOK ==
  ASSUME MailInv, NEW a \in Mail \cup Receivers, DeliverRow(a) PROVE MailInv'
<1> DEFINE m == First(act[a].todo)
           r == [act[a] EXCEPT !.todo = @ \ {m}, !.got = @ \cup {m}]
<1>1. a \in Actors /\ act[a] \in ActorRecords /\ ActorOK(a, act[a], mail, chain, seen)
  BY ActorTypes, ActorSorts
<1>2. m \in act[a].todo /\ m \in Mail
  BY <1>1, FirstOfTodo DEF DeliverRow
<1>3. r \in ActorRecords /\ Becomes(a, r) /\ act[a].stage = "delivering"
  BY <1>1, <1>2 DEF ActorRecords, DeliverRow
<1>4. mail[m] # "none" /\ RowSet(m, "delivered")
  BY <1>1, <1>2, ActorSorts DEF ActorOK, ListsOK, DeliverRow, RowSet, Statuses, Delivered
<1>5. \A k \in Mail : mail'[k] # "none" <=> mail[k] # "none"
  BY <1>2, <1>4, RowsStayOnes DEF RowSet
<1> HIDE DEF m
<1>6. ActorOK(a, r, mail', chain, seen)
  <2>1. ListsOK(act[a], mail) => ListsOK(r, mail')
    BY <1>1, <1>2, <1>3, <1>5 DEF ListsOK, ActorRecords
  <2>2. a \in Mail /\ SenderOK(act[a], mail[a]) => SenderOK(r, mail'[a])
    BY <1>1, <1>3, <1>5 DEF SenderOK, ActorRecords
  <2>3. InboxOK(act[a], chain, seen) => InboxOK(r, chain, seen)
    BY <1>1, <1>3 DEF InboxOK, ActorRecords
  <2> QED BY <1>1, <2>1, <2>2, <2>3, ActorSorts DEF ActorOK
<1>7. /\ chain' = chain /\ chain \in Seq(Agents) /\ seen' = seen /\ seen \subseteq Mail
      /\ lock' \in [Agents -> Turns \cup {Inbox, Nobody}] /\ shown' \in [Mail -> Nat]
      /\ told' \subseteq Mail /\ patched' \subseteq Mail /\ failures' \in 0 .. MaxFailures
  BY DEF DeliverRow, MailInv, TypeOK
<1>8. \E k \in Mail, status \in Statuses : RowSet(k, status)
  BY <1>2, <1>4 DEF RowSet
<1>9. ActorOK(a, r, mail', chain', seen') /\ LineGrows
  BY <1>6, <1>7 DEF LineGrows
<1> HIDE DEF r
<1> QED BY <1>1, <1>3, <1>7, <1>8, <1>9, MovesAlone

LEMMA GetRowOK ==
  ASSUME MailInv, NEW a \in Receivers, GetRow(a) PROVE MailInv'
<1> DEFINE m == First(act[a].todo)
           r == IF Claimable(mail[m]) THEN [act[a] EXCEPT !.stage = "mark"]
                                      ELSE [act[a] EXCEPT !.todo = @ \ {m}]
<1>1. /\ a \in Actors /\ a \notin Mail /\ a \notin Patches /\ act[a] \in ActorRecords
      /\ ActorOK(a, act[a], mail, chain, seen)
  BY ActorTypes, ActorSorts
<1>2. m \in act[a].todo /\ m \in Mail
  BY <1>1, FirstOfTodo DEF GetRow
<1>3. r \in ActorRecords /\ Becomes(a, r) /\ act[a].stage = "claim"
  BY <1>1, <1>2 DEF ActorRecords, GetRow, Stages
<1> HIDE DEF m
<1>4. ActorOK(a, r, mail, chain, seen)
  <2>1. ListsOK(act[a], mail) => ListsOK(r, mail)
    BY <1>1, <1>2, <1>3 DEF ListsOK, ActorRecords
  <2>2. InboxOK(act[a], chain, seen) => InboxOK(r, chain, seen)
    BY <1>1, <1>3 DEF InboxOK, ActorRecords
  <2> QED BY <1>1, <2>1, <2>2 DEF ActorOK
<1> HIDE DEF r
<1> QED BY <1>1, <1>3, <1>4, MovesAlone
        DEF GetRow, RowsKept, MailInv, TypeOK, LineGrows

LEMMA MarkRowOK ==
  ASSUME MailInv, NEW a \in Receivers, MarkRow(a) PROVE MailInv'
<1> DEFINE m == First(act[a].todo)
           r == [act[a] EXCEPT !.stage = "claim", !.todo = @ \ {m}, !.got = @ \cup {m}]
<1>1. /\ a \in Actors /\ a \notin Mail /\ a \notin Patches /\ act[a] \in ActorRecords
      /\ ActorOK(a, act[a], mail, chain, seen) /\ ListsOK(act[a], mail)
  BY ActorTypes, ActorSorts DEF ActorOK
<1>2. m \in act[a].todo /\ m \in Mail
  BY <1>1, FirstOfTodo DEF MarkRow, ListsOK
<1>3. r \in ActorRecords /\ Becomes(a, r) /\ act[a].stage = "mark"
  BY <1>1, <1>2 DEF ActorRecords, MarkRow, Stages
<1>4. RowSet(m, "read")
  BY <1>1, <1>2 DEF ListsOK, MarkRow, RowSet, Statuses
<1>5. \A k \in Mail : mail'[k] # "none" <=> mail[k] # "none"
  BY <1>2, <1>4, RowsStayOnes DEF RowSet
<1> HIDE DEF m
<1>6. ActorOK(a, r, mail', chain, seen)
  <2>1. ListsOK(r, mail')
    BY <1>1, <1>2, <1>3, <1>5 DEF ListsOK, ActorRecords
  <2>2. InboxOK(act[a], chain, seen) => InboxOK(r, chain, seen)
    BY <1>1, <1>3 DEF InboxOK, ActorRecords
  <2> QED BY <1>1, <2>1, <2>2 DEF ActorOK
<1>7. /\ chain' = chain /\ chain \in Seq(Agents) /\ seen' = seen /\ seen \subseteq Mail
      /\ lock' \in [Agents -> Turns \cup {Inbox, Nobody}] /\ shown' \in [Mail -> Nat]
      /\ told' \subseteq Mail /\ patched' \subseteq Mail /\ failures' \in 0 .. MaxFailures
  BY DEF MarkRow, MailInv, TypeOK
<1>8. \E k \in Mail, status \in Statuses : RowSet(k, status)
  BY <1>2, <1>4 DEF RowSet
<1>9. ActorOK(a, r, mail', chain', seen') /\ LineGrows
  BY <1>6, <1>7 DEF LineGrows
<1> HIDE DEF r
<1> QED BY <1>1, <1>3, <1>7, <1>8, <1>9, MovesAlone

LEMMA SendOK ==
  ASSUME MailInv, NEW m \in Mail, Send(m) PROVE MailInv'
<1> DEFINE r == [act[m] EXCEPT !.stage = "deliver"]
<1>1. m \in Actors /\ act[m] \in ActorRecords /\ ActorOK(m, act[m], mail, chain, seen)
  BY ActorTypes, ActorSorts
<1>2. r \in ActorRecords /\ Becomes(m, r) /\ act[m].stage = "out"
  BY <1>1 DEF ActorRecords, Send, Goes, Stages
<1>3. mail \in [Mail -> MaybeStatus] /\ mail' = [mail EXCEPT ![m] = "pending"]
  BY DEF MailInv, TypeOK, Send
<1>4. mail' \in [Mail -> MaybeStatus] /\ RowsStay(m) /\ mail'[m] = "pending"
  BY <1>3 DEF RowsStay, MaybeStatus, Statuses
<1>5. InOrder'
  BY <1>3, MailAssumption DEF Send, InOrder, MailInv
<1>6. ActorOK(m, r, mail', chain, seen)
  <2>1. ListsOK(act[m], mail) => ListsOK(r, mail')
    BY <1>1, <1>2, <1>3 DEF ListsOK, ActorRecords
  <2>2. SenderOK(r, mail'[m])
    BY <1>1, <1>2, <1>4, LimitsAssumption DEF SenderOK, ActorRecords, ActorOK
  <2> QED BY <1>1, <2>1, <2>2, ActorSorts DEF ActorOK
<1>7. /\ RestOK' /\ chain' = chain /\ seen' = seen /\ LineGrows
  BY <1>4 DEF RestOK, Send, MailInv, TypeOK, LineGrows
<1> HIDE DEF r
<1> QED BY <1>1, <1>2, <1>4, <1>5, <1>6, <1>7, ActorMoves

LEMMA LookForRowOK ==
  ASSUME MailInv, NEW m \in Mail, LookForRow(m) PROVE MailInv'
<1> DEFINE found == m \in act[m].got
           again == act[m].got # {} /\ act[m].tries + 1 < MaxAttempts
           r == IF found THEN At("done")
                ELSE [act[m] EXCEPT !.stage = IF again THEN "deliver" ELSE "get", !.tries = @ + 1]
<1>1. m \in Actors /\ act[m] \in ActorRecords /\ ActorOK(m, act[m], mail, chain, seen)
  BY ActorTypes, ActorSorts
<1>2. /\ ListsOK(act[m], mail) /\ SenderOK(act[m], mail[m]) /\ act[m].stage = "delivering"
      /\ Becomes(m, r)
  BY <1>1 DEF ActorOK, LookForRow, HasDelivered
<1>3. act[m].tries + 1 \in 0 .. MaxAttempts + MaxBatches
  <2>1. act[m].tries \in Nat /\ act[m].tries < MaxAttempts
    BY <1>1, <1>2 DEF SenderOK, ActorRecords
  <2> QED BY <2>1, LimitsAssumption
<1>4. /\ At("done") \in ActorRecords /\ ListsOK(At("done"), mail) /\ SenderOK(At("done"), mail[m])
  BY <1>2, AtRecords DEF Stages, ListsOK, SenderOK
<1>5. ASSUME ~found PROVE r \in ActorRecords /\ ListsOK(r, mail) /\ SenderOK(r, mail[m])
  <2>1. r.stage = (IF again THEN "deliver" ELSE "get") /\ r.tries = act[m].tries + 1
        /\ r.todo = act[m].todo /\ r.got = act[m].got /\ r.inner = act[m].inner
    BY <1>1, <1>5 DEF ActorRecords
  <2>2. r \in ActorRecords
    BY <1>1, <1>3, <1>5 DEF ActorRecords, Stages
  <2> HIDE DEF r
  <2>3. ListsOK(r, mail)
    BY <1>2, <2>1 DEF ListsOK
  <2>4. SenderOK(r, mail[m])
    BY <1>2, <2>1 DEF SenderOK
  <2> QED BY <2>2, <2>3, <2>4
<1>6. r \in ActorRecords /\ ListsOK(r, mail) /\ SenderOK(r, mail[m])
  BY <1>4, <1>5
<1> HIDE DEF r
<1>7. ActorOK(m, r, mail, chain', seen)
  BY <1>6, ActorSorts DEF ActorOK
<1>8. LineGrows /\ chain' \in Seq(Agents)
  BY ScheduleGrows DEF LookForRow
<1>9. UNCHANGED <<mail, seen, lock, shown, told, patched, failures>>
  BY DEF LookForRow
<1> QED BY <1>1, <1>2, <1>6, <1>7, <1>8, <1>9, MovesAlone DEF RowsKept, MailInv, TypeOK

LEMMA GetOwnRowOK ==
  ASSUME MailInv, NEW m \in Mail, GetOwnRow(m) PROVE MailInv'
<1>1. m \in Actors /\ ActorOK(m, act[m], mail, chain, seen)
  BY ActorTypes, ActorSorts
<1>2. SenderOK(act[m], mail[m]) /\ act[m].stage = "get"
  BY <1>1 DEF ActorOK, GetOwnRow
<1>3. At("done") \in ActorRecords /\ ListsOK(At("done"), mail) /\ SenderOK(At("done"), mail[m])
  BY <1>2, AtRecords DEF Stages, ListsOK, SenderOK
<1>4. ActorOK(m, At("done"), mail, chain', seen)
  BY <1>3, ActorSorts DEF ActorOK
<1>5. LineGrows /\ chain' \in Seq(Agents)
  BY ScheduleGrows DEF GetOwnRow
<1> QED BY <1>1, <1>3, <1>4, <1>5, MovesAlone DEF GetOwnRow, RowsKept, MailInv, TypeOK

LEMMA TailIsLine == ASSUME MailInv, chain # <<>> PROVE Tail(chain) \in Seq(Agents)
BY DEF MailInv, TypeOK

\* The chain of inbox turns moves on, or is where it was.
LEMMA InboxMoves ==
  ASSUME MailInv, NEW r \in ActorRecords, Becomes(Inbox, r), UNCHANGED mail,
         lock' \in [Agents -> Turns \cup {Inbox, Nobody}], shown' \in [Mail -> Nat],
         told' \subseteq Mail, patched' \subseteq Mail, failures' \in 0 .. MaxFailures,
         chain' \in Seq(Agents), seen' \subseteq Mail,
         ListsOK(r, mail), InboxOK(r, chain', seen')
  PROVE  MailInv'
<1>1. ActorOK(Inbox, r, mail', chain', seen') /\ Inbox \in Actors
  BY ActorSorts DEF ActorOK
<1> QED BY <1>1, MovesAlone DEF RowsKept

LEMMA InboxEndsOK ==
  ASSUME MailInv, chain # <<>>, InboxEnds, UNCHANGED mail,
         lock' \in [Agents -> Turns \cup {Inbox, Nobody}], shown' \in [Mail -> Nat],
         told' \subseteq Mail, patched' \subseteq Mail, failures' \in 0 .. MaxFailures
  PROVE  MailInv'
<1>1. At("out") \in ActorRecords /\ ListsOK(At("out"), mail) /\ InboxOK(At("out"), chain', {})
  BY AtRecords DEF Stages, ListsOK, InboxOK
<1>2. Becomes(Inbox, At("out")) /\ chain' \in Seq(Agents) /\ seen' = {}
  BY TailIsLine DEF InboxEnds
<1> QED BY <1>1, <1>2, InboxMoves

LEMMA InboxIs ==
  ASSUME MailInv
  PROVE  /\ act[Inbox] \in ActorRecords /\ ListsOK(act[Inbox], mail)
         /\ InboxOK(act[Inbox], chain, seen)
BY ActorTypes, ActorSorts DEF ActorOK

LEMMA StartInboxOK == ASSUME MailInv, StartInbox PROVE MailInv'
<1>1. /\ At("deliver") \in ActorRecords /\ ListsOK(At("deliver"), mail)
      /\ InboxOK(At("deliver"), chain, seen)
  BY AtRecords, LimitsAssumption DEF Stages, ListsOK, InboxOK, StartInbox
<1> QED BY <1>1, InboxMoves DEF StartInbox, MailInv, TypeOK

LEMMA ListInboxOK == ASSUME MailInv, ListInbox PROVE MailInv'
<1> DEFINE W == Waiting(Head(chain))
           r == [act[Inbox] EXCEPT !.stage = "claim", !.todo = W, !.got = {}]
<1>1. /\ act[Inbox] \in ActorRecords /\ InboxOK(act[Inbox], chain, seen)
      /\ act[Inbox].stage = "delivering" /\ chain # <<>>
  BY InboxIs DEF ListInbox, HasDelivered, InboxOK
<1>2. CASE W = {}
  BY <1>1, <1>2, InboxEndsOK DEF ListInbox, MailInv, TypeOK
<1>3. CASE W # {}
  <2>1. W \in SUBSET Mail /\ \A m \in W : mail[m] # "none"
    BY WaitingRows DEF Waiting, Statuses
  <2>2. r \in ActorRecords /\ Becomes(Inbox, r) /\ seen' = seen \cup W
    BY <1>1, <1>3, <2>1 DEF ActorRecords, Stages, ListInbox
  <2> HIDE DEF W
  <2>3. ListsOK(r, mail) /\ InboxOK(r, chain, seen')
    BY <1>1, <2>1 DEF ListsOK, InboxOK, ActorRecords
  <2>4. chain' = chain /\ seen' \subseteq Mail
    BY <1>3, <2>1, <2>2 DEF ListInbox, W, MailInv, TypeOK
  <2> HIDE DEF r
  <2> QED BY <2>2, <2>3, <2>4, InboxMoves DEF ListInbox, MailInv, TypeOK
<1> QED BY <1>2, <1>3

LEMMA ClaimedBatchOK == ASSUME MailInv, ClaimedBatch PROVE MailInv'
<1> DEFINE r == [act[Inbox] EXCEPT !.stage = "want"]
<1>1. /\ act[Inbox] \in ActorRecords /\ ListsOK(act[Inbox], mail)
      /\ InboxOK(act[Inbox], chain, seen) /\ act[Inbox].stage = "claim" /\ chain # <<>>
  BY InboxIs DEF ClaimedBatch, InboxOK
<1>2. CASE act[Inbox].got = {}
  BY <1>1, <1>2, InboxEndsOK DEF ClaimedBatch, MailInv, TypeOK
<1>3. CASE act[Inbox].got # {}
  <2>1. r \in ActorRecords /\ Becomes(Inbox, r) /\ chain' = chain /\ seen' = seen
    BY <1>1, <1>3 DEF ActorRecords, Stages, ClaimedBatch, Goes
  <2>2. ListsOK(r, mail) /\ InboxOK(r, chain, seen)
    BY <1>1 DEF ListsOK, InboxOK, ActorRecords
  <2> HIDE DEF r
  <2> QED BY <2>1, <2>2, InboxMoves DEF ClaimedBatch, MailInv, TypeOK
<1> QED BY <1>2, <1>3

\* A turn moves and leaves the chain of inbox turns where it is.
LEMMA TurnMoves ==
  ASSUME MailInv, NEW a \in Receivers, NEW r \in ActorRecords, Becomes(a, r), UNCHANGED mail,
         lock' \in [Agents -> Turns \cup {Inbox, Nobody}], shown' \in [Mail -> Nat],
         told' \subseteq Mail, patched' \subseteq Mail, failures' \in 0 .. MaxFailures,
         UNCHANGED <<chain, seen>>,
         ListsOK(r, mail), InboxOK(act[a], chain, seen) => InboxOK(r, chain, seen)
  PROVE  MailInv'
<1>1. /\ a \in Actors /\ a \notin Mail /\ a \notin Patches
      /\ ActorOK(a, act[a], mail, chain, seen)
  BY ActorTypes, ActorSorts
<1>2. ActorOK(a, r, mail', chain', seen')
  BY <1>1 DEF ActorOK
<1>3. LineGrows /\ chain' \in Seq(Agents) /\ seen' \subseteq Mail
  BY DEF LineGrows, MailInv, TypeOK
<1> QED BY <1>1, <1>2, <1>3, MovesAlone DEF RowsKept

LEMMA TurnIs ==
  ASSUME MailInv, NEW a \in Receivers
  PROVE  a \in Actors /\ act[a] \in ActorRecords /\ ListsOK(act[a], mail)
BY ActorTypes, ActorSorts DEF ActorOK

LEMMA WantTurnOK == ASSUME MailInv, NEW t \in Turns, WantTurn(t) PROVE MailInv'
<1>1. At("want") \in ActorRecords /\ ListsOK(At("want"), mail)
  BY AtRecords DEF Stages, ListsOK
<1>2. t \in Actors /\ t \in Receivers /\ t \notin Mail \cup Patches /\ t # Inbox
  BY ActorSorts
<1>3. ActorOK(t, At("want"), mail, chain, seen)
  BY <1>1, <1>2 DEF ActorOK
<1> QED BY <1>1, <1>2, <1>3, MovesAlone DEF WantTurn, RowsKept, MailInv, TypeOK, LineGrows

LEMMA ShowingType ==
  ASSUME MailInv, NEW S PROVE Showing(S) \in [Mail -> Nat]
BY DEF Showing, MailInv, TypeOK

LEMMA LockType ==
  ASSUME MailInv, NEW g, NEW a \in Receivers \cup {Nobody}
  PROVE  [lock EXCEPT ![g] = a] \in [Agents -> Turns \cup {Inbox, Nobody}]
BY DEF MailInv, TypeOK, Receivers

LEMMA BeginTurnOK == ASSUME MailInv, NEW a \in Receivers, BeginTurn(a) PROVE MailInv'
<1> DEFINE r == [act[a] EXCEPT !.stage = "deliver", !.got = {}, !.inner = TRUE]
<1>1. /\ act[a] \in ActorRecords /\ ListsOK(act[a], mail) /\ act[a].stage = "want"
  BY TurnIs DEF BeginTurn
<1>2. r \in ActorRecords /\ Becomes(a, r)
  BY <1>1 DEF ActorRecords, Stages, BeginTurn
<1>3. ListsOK(r, mail) /\ (InboxOK(act[a], chain, seen) => InboxOK(r, chain, seen))
  BY <1>1 DEF ListsOK, InboxOK, ActorRecords
<1>4. lock' \in [Agents -> Turns \cup {Inbox, Nobody}] /\ shown' \in [Mail -> Nat]
  BY ShowingType, LockType DEF BeginTurn
<1>5. UNCHANGED <<mail, chain, seen, told, patched, failures>>
  BY DEF BeginTurn
<1> HIDE DEF r
<1> QED BY <1>2, <1>3, <1>4, <1>5, TurnMoves DEF MailInv, TypeOK

LEMMA ListWithinTurnOK == ASSUME MailInv, NEW a \in Receivers, ListWithinTurn(a) PROVE MailInv'
<1> DEFINE T == ToClaim(a)
           r == [act[a] EXCEPT !.stage = "claim", !.todo = T, !.got = {}]
<1>1. /\ act[a] \in ActorRecords /\ ListsOK(act[a], mail) /\ act[a].stage = "delivering"
  BY TurnIs DEF ListWithinTurn, HasDelivered
<1>2. T \in SUBSET Mail /\ \A m \in T : mail[m] # "none"
  <2>1. act[a].got \in SUBSET Mail /\ \A m \in act[a].got : mail[m] # "none"
    BY <1>1 DEF ListsOK, ActorRecords
  <2> QED BY <2>1, WaitingRows DEF ToClaim, Statuses
<1>3. r \in ActorRecords /\ Becomes(a, r)
  BY <1>1, <1>2 DEF ActorRecords, Stages, ListWithinTurn
<1> HIDE DEF T
<1>4. ListsOK(r, mail) /\ (InboxOK(act[a], chain, seen) => InboxOK(r, chain, seen))
  BY <1>1, <1>2 DEF ListsOK, InboxOK, ActorRecords
<1> HIDE DEF r
<1> QED BY <1>3, <1>4, TurnMoves DEF ListWithinTurn, MailInv, TypeOK

LEMMA StoreClaimedOK == ASSUME MailInv, NEW a \in Receivers, StoreClaimed(a) PROVE MailInv'
<1> DEFINE r == [act[a] EXCEPT !.stage = "turn", !.got = {}]
<1>1. /\ act[a] \in ActorRecords /\ ListsOK(act[a], mail) /\ act[a].stage = "claim"
  BY TurnIs DEF StoreClaimed
<1>2. r \in ActorRecords /\ Becomes(a, r)
  BY <1>1 DEF ActorRecords, Stages, StoreClaimed
<1>3. ListsOK(r, mail) /\ (InboxOK(act[a], chain, seen) => InboxOK(r, chain, seen))
  BY <1>1 DEF ListsOK, InboxOK, ActorRecords
<1>4. shown' \in [Mail -> Nat]
  BY ShowingType DEF StoreClaimed
<1>5. UNCHANGED <<mail, chain, seen, lock, told, patched, failures>>
  BY DEF StoreClaimed
<1> HIDE DEF r
<1> QED BY <1>2, <1>3, <1>4, <1>5, TurnMoves DEF MailInv, TypeOK

LEMMA EndTurnOK == ASSUME MailInv, NEW a \in Receivers, EndTurn(a) PROVE MailInv'
<1> DEFINE batches == act[a].tries + 1
           r == IF a = Inbox THEN [At("deliver") EXCEPT !.tries = batches] ELSE At("done")
<1>1. /\ lock' \in [Agents -> Turns \cup {Inbox, Nobody}] /\ act[a] \in ActorRecords
      /\ act[a].stage = "turn" /\ UNCHANGED <<mail, shown, told, patched, failures>>
  BY LockType, TurnIs DEF EndTurn
<1>2. CASE a = Inbox /\ batches = MaxBatches
  <2>1. InboxEnds /\ chain # <<>>
    BY <1>1, <1>2, InboxIs DEF EndTurn, InboxOK
  <2> QED BY <1>1, <2>1, InboxEndsOK DEF MailInv, TypeOK
<1>3. CASE ~(a = Inbox /\ batches = MaxBatches)
  <2>1. Becomes(a, r) /\ UNCHANGED <<chain, seen>>
    BY <1>3 DEF EndTurn
  <2>2. CASE a # Inbox
    <3>1. r \in ActorRecords /\ ListsOK(r, mail)
      BY <2>2, AtRecords DEF Stages, ListsOK
    <3>2. ActorOK(a, r, mail, chain, seen) /\ a \in Actors
      BY <2>2, <3>1, ActorSorts DEF ActorOK
    <3> HIDE DEF r
    <3> QED BY <1>1, <2>1, <3>1, <3>2, MovesAlone DEF RowsKept, MailInv, TypeOK, LineGrows
  <2>3. CASE a = Inbox
    <3>1. batches \in 0 .. MaxAttempts + MaxBatches /\ batches < MaxBatches /\ chain # <<>>
      <4>1. act[a].tries \in Nat /\ act[a].tries < MaxBatches /\ chain # <<>>
        BY <1>1, <2>3, InboxIs DEF InboxOK, ActorRecords
      <4> QED BY <1>3, <2>3, <4>1, LimitsAssumption
    <3>2. /\ r \in ActorRecords /\ r.stage = "deliver" /\ r.tries = batches
          /\ r.todo = {} /\ r.got = {}
      BY <2>3, <3>1 DEF At, ActorRecords, Stages, MaybeStatus
    <3> HIDE DEF r, batches
    <3>3. ListsOK(r, mail) /\ InboxOK(r, chain, seen)
      BY <3>1, <3>2 DEF ListsOK, InboxOK
    <3> QED BY <1>1, <2>1, <2>3, <3>2, <3>3, InboxMoves DEF MailInv, TypeOK
  <2> QED BY <2>2, <2>3
<1> QED BY <1>2, <1>3

LEMMA TurnFailsOK == ASSUME MailInv, NEW a \in Receivers, TurnFails(a) PROVE MailInv'
<1>1. /\ lock' \in [Agents -> Turns \cup {Inbox, Nobody}]
      /\ UNCHANGED <<mail, shown, patched>>
  BY DEF TurnFails, Unlocked, MailInv, TypeOK
<1>2. failures' \in 0 .. MaxFailures
  BY LimitsAssumption DEF TurnFails, MailInv, TypeOK
<1>3. told' \in SUBSET Mail
  <2>1. act[a].got \in SUBSET Mail
    BY TurnIs DEF ActorRecords
  <2>2. Missed(a) \in SUBSET Mail
    BY <2>1 DEF Missed, Claimed, For
  <2> QED BY <2>2 DEF TurnFails, MailInv, TypeOK
<1>4. CASE a = Inbox
  <2>1. InboxEnds /\ chain # <<>>
    BY <1>4, InboxIs DEF TurnFails, InboxOK
  <2> QED BY <1>1, <1>2, <1>3, <2>1, InboxEndsOK DEF MailInv, TypeOK
<1>5. CASE a # Inbox
  <2>1. Becomes(a, At("done")) /\ UNCHANGED <<chain, seen>>
    BY <1>5 DEF TurnFails
  <2>2. At("done") \in ActorRecords /\ ListsOK(At("done"), mail)
    BY AtRecords DEF Stages, ListsOK
  <2>3. ActorOK(a, At("done"), mail, chain, seen) /\ a \in Actors
    BY <1>5, <2>2, ActorSorts DEF ActorOK
  <2> QED BY <1>1, <1>2, <1>3, <2>1, <2>2, <2>3, MovesAlone
          DEF RowsKept, MailInv, TypeOK, LineGrows
<1> QED BY <1>4, <1>5

LEMMA PatchIs ==
  ASSUME MailInv, NEW p \in Patches
  PROVE  /\ p \in Actors /\ p \notin Mail \cup Receivers /\ p # Inbox
         /\ act[p] \in ActorRecords /\ PatchOK(act[p], mail)
BY ActorTypes, ActorSorts DEF ActorOK

LEMMA BeginPatchOK == ASSUME MailInv, NEW p \in Patches, BeginPatch(p) PROVE MailInv'
<1>1. PICK m \in {k \in Mail : mail[k] # "none"} : \E status \in Allowed(mail[m]) \ {mail[m]} :
        Becomes(p, [At("check") EXCEPT !.at = m, !.was = mail[m], !.status = status])
  BY DEF BeginPatch
<1>2. PICK status \in Allowed(mail[m]) \ {mail[m]} :
        Becomes(p, [At("check") EXCEPT !.at = m, !.was = mail[m], !.status = status])
  BY <1>1
<1>3. mail[m] \in Statuses
  BY <1>1 DEF MailInv, TypeOK, MaybeStatus
<1>4. status \in {"delivered", "read", "failed"}
  BY <1>2, <1>3 DEF Allowed, Statuses
<1> DEFINE r == [At("check") EXCEPT !.at = m, !.was = mail[m], !.status = status]
<1>5. /\ r \in ActorRecords /\ r.stage = "check" /\ r.at = m /\ r.status = status
  <2>1. At("check") \in ActorRecords /\ At("check").stage = "check"
    BY AtRecords DEF Stages
  <2>2. m \in Mail /\ mail[m] \in MaybeStatus /\ status \in MaybeStatus
    BY <1>1, <1>3, <1>4 DEF Statuses, MaybeStatus
  <2> QED BY <2>1, <2>2 DEF ActorRecords
<1> HIDE DEF r
<1>6. ActorOK(p, r, mail, chain, seen)
  BY <1>1, <1>4, <1>5, PatchIs DEF ActorOK, PatchOK
<1>7. Becomes(p, r) /\ UNCHANGED <<mail, chain, seen, lock, shown, told, patched, failures>>
  BY <1>2 DEF BeginPatch, r
<1> QED BY <1>5, <1>6, <1>7, PatchIs, MovesAlone DEF RowsKept, MailInv, TypeOK, LineGrows

LEMMA PatchSchedulesOK ==
  ASSUME MailInv, NEW p \in Patches, act[p].at \in Mail, NEW status,
         PatchSchedules(p, status), seen' = seen
  PROVE  LineGrows /\ chain' \in Seq(Agents)
BY ScheduleGrows DEF PatchSchedules

LEMMA DonePatch ==
  ASSUME MailInv, NEW p \in Patches, NEW rows, NEW line, NEW listed
  PROVE  ActorOK(p, At("done"), rows, line, listed) /\ At("done") \in ActorRecords
<1>1. At("done") \in ActorRecords /\ At("done").stage = "done"
  BY AtRecords DEF Stages
<1> QED BY <1>1, PatchIs DEF ActorOK, PatchOK

LEMMA CheckPatchOK == ASSUME MailInv, NEW p \in Patches, CheckPatch(p) PROVE MailInv'
<1>1. /\ act[p].stage = "check" /\ act[p].at \in Mail
      /\ UNCHANGED <<mail, seen, lock, shown, told, patched, failures>>
  BY PatchIs DEF CheckPatch, PatchOK
<1>2. CASE mail[act[p].at] = act[p].status
  <2>1. LineGrows /\ chain' \in Seq(Agents) /\ Becomes(p, At("done"))
    BY <1>1, <1>2, PatchSchedulesOK DEF CheckPatch
  <2> QED BY <1>1, <2>1, DonePatch, PatchIs, MovesAlone DEF RowsKept, MailInv, TypeOK
<1>3. CASE mail[act[p].at] # act[p].status
  <2> DEFINE r == [act[p] EXCEPT !.stage = "write"]
  <2>1. r \in ActorRecords /\ Becomes(p, r) /\ chain' = chain
    BY <1>3, PatchIs DEF ActorRecords, Stages, CheckPatch, Goes
  <2>2. PatchOK(r, mail)
    BY <1>1, PatchIs DEF PatchOK, ActorRecords
  <2> HIDE DEF r
  <2>3. ActorOK(p, r, mail, chain, seen)
    BY <2>2, PatchIs DEF ActorOK
  <2> QED BY <1>1, <2>1, <2>3, PatchIs, MovesAlone DEF RowsKept, MailInv, TypeOK, LineGrows
<1> QED BY <1>2, <1>3

LEMMA WritePatchOK == ASSUME MailInv, NEW p \in Patches, WritePatch(p) PROVE MailInv'
<1>1. /\ act[p].at \in Mail /\ mail[act[p].at] # "none"
      /\ act[p].status \in {"delivered", "read", "failed"}
      /\ UNCHANGED <<seen, lock, shown, told, failures>>
  BY PatchIs DEF WritePatch, PatchOK
<1>2. RowSet(act[p].at, act[p].status) /\ Becomes(p, At("done"))
  BY <1>1 DEF WritePatch, RowSet, Statuses
<1>3. \E m \in Mail, status \in Statuses : RowSet(m, status)
  BY <1>1, <1>2 DEF RowSet
<1>4. LineGrows /\ chain' \in Seq(Agents)
  BY <1>1, PatchSchedulesOK DEF WritePatch
<1>5. patched' \subseteq Mail
  BY <1>1 DEF WritePatch, MailInv, TypeOK
<1> QED BY <1>1, <1>2, <1>3, <1>4, <1>5, DonePatch, PatchIs, MovesAlone DEF MailInv, TypeOK

LEMMA MailInvInit == Init => MailInv
<1> SUFFICES ASSUME Init PROVE MailInv
  OBVIOUS
<1>1. /\ At("out") \in ActorRecords /\ At("out").stage = "out" /\ ~At("out").inner
      /\ At("out").todo = {} /\ At("out").got = {} /\ At("out").tries = 0
  BY AtRecords DEF Stages
<1>2. TypeOK /\ InOrder
  BY <1>1, LimitsAssumption DEF Init, TypeOK, ActorRecords, InOrder, MaybeStatus
<1>3. ASSUME NEW a \in Actors PROVE ActorOK(a, act[a], mail, chain, seen)
  BY <1>1, LimitsAssumption DEF Init, ActorOK, ListsOK, SenderOK, InboxOK, PatchOK
<1> QED BY <1>2, <1>3 DEF MailInv

\* A step of somebody, action by action.
SomeStep ==
  \/ \E m \in Mail : Send(m) \/ LookForRow(m) \/ GetOwnRow(m)
  \/ \E a \in Mail \cup Receivers : ListPending(a) \/ DeliverRow(a)
  \/ StartInbox \/ ListInbox \/ ClaimedBatch
  \/ \E a \in Receivers : \/ GetRow(a) \/ MarkRow(a) \/ BeginTurn(a) \/ ListWithinTurn(a)
                         \/ StoreClaimed(a) \/ EndTurn(a) \/ TurnFails(a)
  \/ \E t \in Turns : WantTurn(t)
  \/ \E p \in Patches : BeginPatch(p) \/ CheckPatch(p) \/ WritePatch(p)

LEMMA StepIs == [Next]_vars => SomeStep \/ UNCHANGED vars
BY DEF Next, SomeStep, SendStep, InboxStep, TurnStep, PatchStep, Terminated, Receivers

LEMMA MailInvStep == MailInv /\ [Next]_vars => MailInv'
<1> SUFFICES ASSUME MailInv, SomeStep \/ UNCHANGED vars PROVE MailInv'
  BY StepIs
<1>1. CASE UNCHANGED vars
  BY <1>1 DEF vars, MailInv, TypeOK, InOrder
<1>2. CASE SomeStep
  BY <1>2, SendOK, LookForRowOK, GetOwnRowOK, ListPendingOK, DeliverRowOK, StartInboxOK,
     ListInboxOK, ClaimedBatchOK, GetRowOK, MarkRowOK, BeginTurnOK, ListWithinTurnOK,
     StoreClaimedOK, EndTurnOK, TurnFailsOK, WantTurnOK, BeginPatchOK, CheckPatchOK,
     WritePatchOK DEF SomeStep
<1> QED BY <1>1, <1>2

\* Rows are inserted in order and never deleted, and every actor lists rows that
\* exist and stands where its program can be.
THEOREM MailTypesHold == Spec => []MailInv
<1>1. Init => MailInv
  BY MailInvInit
<1>2. MailInv /\ [Next]_vars => MailInv'
  BY MailInvStep
<1> QED BY <1>1, <1>2, PTL DEF Spec

-----------------------------------------------------------------------------
\* What is kept stays kept.

LEMMA ReceiverMoves ==
  ASSUME MailInv, NEW a \in Receivers, NEW r, Becomes(a, r)
  PROVE  act'[a] = r /\ \A b \in Actors \ {a} : act'[b] = act[b]
BY Moved, ActorSorts DEF MailInv

LEMMA SettledStays ==
  ASSUME MailInv, NEW m \in Mail, Settled(m), told \subseteq told', patched \subseteq patched',
         shown[m] > 0 => shown'[m] > 0
  PROVE  Settled(m)'
BY DEF Settled

\* One turn may lay down what it claimed when it is settled; the rest is as it was.
LEMMA KeptIfTurnKeeps ==
  ASSUME MailInv, NEW a \in Receivers, \A b \in Actors \ {a} : act'[b] = act[b],
         NEW m \in Mail, Kept(m), told \subseteq told', patched \subseteq patched',
         shown[m] > 0 => shown'[m] > 0,
         m \in Claimed(a) => Settled(m)' \/ m \in Claimed(a)'
  PROVE  Kept(m)'
<1>1. CASE Settled(m)
  BY <1>1, SettledStays DEF Kept
<1>2. ASSUME NEW b \in Receivers, m \in Claimed(b) PROVE Kept(m)'
  <2>1. CASE b = a
    BY <1>2, <2>1 DEF Kept
  <2>2. CASE b # a
    <3>1. act'[b] = act[b]
      BY <2>2, ActorSorts
    <3> QED BY <1>2, <3>1 DEF Kept, Claimed
  <2> QED BY <2>1, <2>2
<1> QED BY <1>1, <1>2 DEF Kept

LEMMA KeptIfOthersMove ==
  ASSUME MailInv, NEW a \in Mail \cup Patches, NEW r, Becomes(a, r), NEW m \in Mail, Kept(m),
         told' = told, patched \subseteq patched', shown' = shown
  PROVE  Kept(m)'
<1>1. a \in Actors /\ a \notin Receivers
  BY ActorSorts
<1>2. \A b \in Receivers : act'[b] = act[b]
  BY <1>1, Moved, ActorSorts DEF MailInv
<1>3. \A b \in Receivers : Claimed(b)' = Claimed(b)
  BY <1>2 DEF Claimed
<1>4. Settled(m) => Settled(m)'
  BY DEF Settled
<1> QED BY <1>3, <1>4 DEF Kept

LEMMA ShowingGrows ==
  ASSUME MailInv, NEW S, shown' = Showing(S), NEW m \in Mail
  PROVE  shown[m] > 0 \/ m \in S => shown'[m] > 0
<1>1. shown[m] \in Nat /\ shown'[m] = IF m \in S THEN shown[m] + 1 ELSE shown[m]
  BY DEF MailInv, TypeOK, Showing
<1> QED BY <1>1

LEMMA KeptStays ==
  ASSUME MailInv, SomeStep, NEW m \in Mail, Kept(m) PROVE Kept(m)'
<1>1. ASSUME NEW k \in Mail, Send(k) \/ LookForRow(k) \/ GetOwnRow(k) PROVE Kept(m)'
  BY <1>1, KeptIfOthersMove DEF Send, LookForRow, GetOwnRow, Goes
<1>2. ASSUME NEW k \in Mail, ListPending(k) \/ DeliverRow(k) PROVE Kept(m)'
  BY <1>2, KeptIfOthersMove DEF ListPending, DeliverRow
<1>3. ASSUME NEW p \in Patches, BeginPatch(p) \/ CheckPatch(p) \/ WritePatch(p) PROVE Kept(m)'
  <2>1. told' = told /\ shown' = shown /\ patched \subseteq patched'
    BY <1>3 DEF BeginPatch, CheckPatch, WritePatch
  <2>2. \E r : Becomes(p, r)
    BY <1>3 DEF BeginPatch, CheckPatch, WritePatch, Goes
  <2> QED BY <2>1, <2>2, KeptIfOthersMove
<1>4. ASSUME NEW a \in Receivers, ListPending(a) \/ DeliverRow(a) \/ ListWithinTurn(a)
      PROVE  Kept(m)'
  <2>1. Claimed(a) = {} /\ told' = told /\ patched' = patched /\ shown' = shown
    BY <1>4 DEF ListPending, DeliverRow, ListWithinTurn, Claimed, HasDelivered
  <2>2. \A b \in Actors \ {a} : act'[b] = act[b]
    BY <1>4, ReceiverMoves DEF ListPending, DeliverRow, ListWithinTurn
  <2> QED BY <2>1, <2>2, KeptIfTurnKeeps
<1>5. ASSUME StartInbox \/ ListInbox PROVE Kept(m)'
  <2>1. Claimed(Inbox) = {} /\ told' = told /\ patched' = patched /\ shown' = shown
    BY <1>5 DEF StartInbox, ListInbox, Claimed, HasDelivered
  <2>2. \A b \in Actors \ {Inbox} : act'[b] = act[b]
    BY <1>5, ReceiverMoves, ActorSorts DEF StartInbox, ListInbox, InboxEnds
  <2> QED BY <2>1, <2>2, KeptIfTurnKeeps, ActorSorts
<1>6. ASSUME ClaimedBatch PROVE Kept(m)'
  <2>1. told' = told /\ patched' = patched /\ shown' = shown /\ Claimed(Inbox) = act[Inbox].got
    BY <1>6 DEF ClaimedBatch, Claimed
  <2>2. CASE act[Inbox].got = {}
    <3>1. \A b \in Actors \ {Inbox} : act'[b] = act[b]
      BY <1>6, <2>2, ReceiverMoves, ActorSorts DEF ClaimedBatch, InboxEnds
    <3> QED BY <2>1, <2>2, <3>1, KeptIfTurnKeeps, ActorSorts
  <2>3. CASE act[Inbox].got # {}
    <3>1. Becomes(Inbox, [act[Inbox] EXCEPT !.stage = "want"])
      BY <1>6, <2>3 DEF ClaimedBatch, Goes
    <3>2. /\ \A b \in Actors \ {Inbox} : act'[b] = act[b]
          /\ act'[Inbox] = [act[Inbox] EXCEPT !.stage = "want"]
      BY <3>1, ReceiverMoves, ActorSorts
    <3>3. act'[Inbox].stage = "want" /\ act'[Inbox].got = act[Inbox].got
      BY <3>2, InboxIs DEF ActorRecords
    <3>4. Claimed(Inbox)' = act[Inbox].got
      BY <3>3 DEF Claimed
    <3> QED BY <2>1, <3>2, <3>4, KeptIfTurnKeeps, ActorSorts
  <2> QED BY <2>2, <2>3
<1>7. ASSUME NEW a \in Receivers, GetRow(a) PROVE Kept(m)'
  <2> DEFINE k == First(act[a].todo)
  <2>1. /\ \A b \in Actors \ {a} : act'[b] = act[b]
        /\ act'[a] = IF Claimable(mail[k]) THEN [act[a] EXCEPT !.stage = "mark"]
                                           ELSE [act[a] EXCEPT !.todo = @ \ {k}]
    BY <1>7, ReceiverMoves DEF GetRow
  <2>2. act'[a].stage \in {"claim", "mark"} /\ act'[a].got = act[a].got
    BY <1>7, <2>1, TurnIs DEF ActorRecords, GetRow
  <2>3. Claimed(a)' = Claimed(a)
    BY <1>7, <2>2 DEF Claimed, GetRow
  <2> QED BY <1>7, <2>1, <2>3, KeptIfTurnKeeps DEF GetRow
<1>8. ASSUME NEW a \in Receivers, MarkRow(a) PROVE Kept(m)'
  <2> DEFINE k == First(act[a].todo)
  <2>1. /\ \A b \in Actors \ {a} : act'[b] = act[b]
        /\ act'[a] = [act[a] EXCEPT !.stage = "claim", !.todo = @ \ {k}, !.got = @ \cup {k}]
    BY <1>8, ReceiverMoves DEF MarkRow
  <2>2. act'[a].stage = "claim" /\ act'[a].got = act[a].got \cup {k}
    BY <2>1, TurnIs DEF ActorRecords
  <2>3. Claimed(a) \subseteq Claimed(a)'
    BY <1>8, <2>2 DEF Claimed, MarkRow
  <2> QED BY <1>8, <2>1, <2>3, KeptIfTurnKeeps DEF MarkRow
<1>9. ASSUME NEW a \in Receivers, BeginTurn(a) \/ StoreClaimed(a) PROVE Kept(m)'
  <2>1. \A b \in Actors \ {a} : act'[b] = act[b]
    BY <1>9, ReceiverMoves DEF BeginTurn, StoreClaimed
  <2>2. shown' = Showing(act[a].got) /\ Claimed(a) \subseteq act[a].got
        /\ told' = told /\ patched' = patched
    BY <1>9 DEF BeginTurn, StoreClaimed, Claimed
  <2>3. (shown[m] > 0 => shown'[m] > 0) /\ (m \in Claimed(a) => Settled(m)')
    BY <2>2, ShowingGrows DEF Settled
  <2> QED BY <2>1, <2>2, <2>3, KeptIfTurnKeeps
<1>10. ASSUME NEW a \in Receivers, EndTurn(a) PROVE Kept(m)'
  <2>1. Claimed(a) = {} /\ told' = told /\ patched' = patched /\ shown' = shown
    BY <1>10 DEF EndTurn, Claimed
  <2>2. \A b \in Actors \ {a} : act'[b] = act[b]
    BY <1>10, ReceiverMoves DEF EndTurn, InboxEnds
  <2> QED BY <2>1, <2>2, KeptIfTurnKeeps
<1>11. ASSUME NEW a \in Receivers, TurnFails(a) PROVE Kept(m)'
  <2>1. told' = told \cup Missed(a) /\ patched' = patched /\ shown' = shown
    BY <1>11 DEF TurnFails
  <2>2. \A b \in Actors \ {a} : act'[b] = act[b]
    BY <1>11, ReceiverMoves DEF TurnFails, InboxEnds
  <2>3. m \in Claimed(a) => Settled(m)'
    BY <2>1 DEF Missed, Settled
  <2> QED BY <2>1, <2>2, <2>3, KeptIfTurnKeeps
<1>12. ASSUME NEW t \in Turns, WantTurn(t) PROVE Kept(m)'
  <2>1. Claimed(t) = {} /\ told' = told /\ patched' = patched /\ shown' = shown
    BY <1>12 DEF WantTurn, Claimed
  <2>2. \A b \in Actors \ {t} : act'[b] = act[b]
    BY <1>12, ReceiverMoves, ActorSorts DEF WantTurn
  <2>3. t \in Receivers /\ m \notin Claimed(t) /\ told \subseteq told' /\ patched \subseteq patched'
    BY <2>1, ActorSorts
  <2>4. shown[m] > 0 => shown'[m] > 0
    BY <2>1
  <2> QED BY <2>2, <2>3, <2>4, KeptIfTurnKeeps
<1> QED BY <1>1, <1>2, <1>3, <1>4, <1>5, <1>6, <1>7, <1>8, <1>9, <1>10, <1>11, <1>12
        DEF SomeStep

\* What a step may do to a row.
LEMMA RowsChange ==
  ASSUME MailInv, SomeStep, NEW m \in Mail
  PROVE  \/ mail'[m] = mail[m]
         \/ Send(m) /\ mail[m] = "none" /\ mail'[m] = "pending"
         \/ mail[m] # "none" /\ mail'[m] = "delivered"
         \/ mail[m] # "none" /\ mail'[m] \in {"read", "failed"} /\ Kept(m)'
<1>1. ASSUME NEW k \in Mail, Send(k), mail'[m] # mail[m]
      PROVE  Send(m) /\ mail[m] = "none" /\ mail'[m] = "pending"
  <2>1. k = m /\ mail'[m] = "pending"
    BY <1>1 DEF Send, MailInv, TypeOK
  <2>2. SenderOK(act[m], mail[m])
    BY ActorTypes, ActorSorts DEF ActorOK
  <2> QED BY <1>1, <2>1, <2>2 DEF Send, SenderOK
<1>2. ASSUME NEW a \in Mail \cup Receivers, DeliverRow(a), mail'[m] # mail[m]
      PROVE  mail[m] # "none" /\ mail'[m] = "delivered"
  <2>1. a \in Actors /\ ListsOK(act[a], mail)
    BY ActorTypes, ActorSorts DEF ActorOK
  <2>2. First(act[a].todo) \in act[a].todo /\ First(act[a].todo) \in Mail
    BY <1>2, <2>1, FirstOfTodo DEF DeliverRow
  <2>3. m = First(act[a].todo) /\ mail'[m] = "delivered"
    BY <1>2, <2>2 DEF DeliverRow, Delivered, MailInv, TypeOK
  <2> QED BY <2>1, <2>2, <2>3 DEF ListsOK
<1>3. ASSUME NEW a \in Receivers, MarkRow(a), mail'[m] # mail[m]
      PROVE  mail[m] # "none" /\ mail'[m] = "read" /\ Kept(m)'
  <2> DEFINE k == First(act[a].todo)
  <2>1. a \in Actors /\ ListsOK(act[a], mail) /\ act[a].todo # {}
    BY <1>3, TurnIs DEF ListsOK, MarkRow
  <2>2. k \in act[a].todo /\ k \in Mail
    BY <2>1, FirstOfTodo
  <2>3. m = k /\ mail'[m] = "read"
    BY <1>3, <2>2 DEF MarkRow, MailInv, TypeOK
  <2>4. act'[a] = [act[a] EXCEPT !.stage = "claim", !.todo = @ \ {k}, !.got = @ \cup {k}]
    BY <1>3, ReceiverMoves DEF MarkRow
  <2>5. act'[a].stage = "claim" /\ m \in act'[a].got
    BY <2>3, <2>4, TurnIs DEF ActorRecords
  <2>6. m \in Claimed(a)'
    BY <2>5 DEF Claimed
  <2> QED BY <2>1, <2>2, <2>3, <2>6 DEF ListsOK, Kept
<1>4. ASSUME NEW p \in Patches, WritePatch(p), mail'[m] # mail[m]
      PROVE  /\ mail[m] # "none"
             /\ mail'[m] = "delivered" \/ (mail'[m] \in {"read", "failed"} /\ Kept(m)')
  <2>1. /\ act[p].at \in Mail /\ mail[act[p].at] # "none"
        /\ act[p].status \in {"delivered", "read", "failed"}
    BY <1>4, PatchIs DEF WritePatch, PatchOK
  <2>2. m = act[p].at /\ mail'[m] = act[p].status
    BY <1>4, <2>1 DEF WritePatch, MailInv, TypeOK
  <2>3. act[p].status # "delivered" => m \in patched'
    BY <1>4, <2>2 DEF WritePatch
  <2> QED BY <2>1, <2>2, <2>3 DEF Kept, Settled
<1>5. CASE mail' = mail
  BY <1>5
<1> QED BY <1>1, <1>2, <1>3, <1>4, <1>5, Zenon
        DEF SomeStep, LookForRow, GetOwnRow, ListPending, StartInbox, ListInbox, ClaimedBatch,
            GetRow, BeginTurn, ListWithinTurn, StoreClaimed, EndTurn, TurnFails, WantTurn,
            BeginPatch, CheckPatch

LEMMA ReadIsKeptStep == MailInv /\ ReadIsKept /\ [Next]_vars => ReadIsKept'
<1> SUFFICES ASSUME MailInv, ReadIsKept, SomeStep \/ UNCHANGED vars PROVE ReadIsKept'
  BY StepIs
<1>1. CASE UNCHANGED vars
  BY <1>1 DEF vars, ReadIsKept, Kept, Settled, Claimed
<1>2. CASE SomeStep
  <2>1. ASSUME NEW m \in Mail, mail'[m] \in {"read", "failed"} PROVE Kept(m)'
    <3>1. mail'[m] = mail[m] \/ Kept(m)'
      BY <1>2, <2>1, RowsChange
    <3> QED BY <1>2, <2>1, <3>1, KeptStays DEF ReadIsKept
  <2> QED BY <2>1 DEF ReadIsKept
<1> QED BY <1>1, <1>2

\* Mail that was read is in a transcript, was told of, or is in the hands of the turn
\* that claimed it (claimInbox, runInboxTurn).
THEOREM ReadIsKeptHolds == Spec => []ReadIsKept
<1>1. Init => ReadIsKept
  BY DEF Init, ReadIsKept
<1>2. MailInv /\ ReadIsKept /\ [Next]_vars => ReadIsKept'
  BY ReadIsKeptStep
<1> QED BY <1>1, <1>2, MailTypesHold, PTL DEF Spec

\* Mail that somebody read is in a transcript, or somebody was told that it may
\* not be, or the turn that claimed it still has it: whatever senders, turns and
\* requests do to the rows, and however many there are of each.
THEOREM ReadIsShown == Spec => []ReadMailIsShown
<1>1. ReadIsKept => ReadMailIsShown
  BY DEF ReadIsKept, ReadMailIsShown, Kept, Receivers
<1> QED BY <1>1, ReadIsKeptHolds, PTL

\* The rows keep to their types.
THEOREM MailTypes == Spec => []TypeOK
<1>1. MailInv => TypeOK
  BY DEF MailInv
<1> QED BY <1>1, MailTypesHold, PTL

-----------------------------------------------------------------------------
\* A sender reaches its own row.

LEMMA ReachTypes ==
  ASSUME NEW n \in Nat
  PROVE  /\ n * DeliverLimit \in Nat /\ MaxAttempts * DeliverLimit \in Nat
         /\ DeliverLimit \in Nat \ {0} /\ MaxAttempts \in Nat \ {0}
         /\ (n + 1) * DeliverLimit = n * DeliverLimit + DeliverLimit
BY LimitsAssumption

LEMMA FewerAreReached ==
  ASSUME NEW S \in SUBSET Mail, NEW T \in SUBSET S, NEW n \in Nat, WithinReach(S, n)
  PROVE  WithinReach(T, n)
<1>1. IsFiniteSet(S) /\ Cardinality(S) \in Nat /\ Cardinality(T) \in Nat
  BY FiniteMail
<1>2. Cardinality(T) <= Cardinality(S)
  BY <1>1, FS_Subset
<1> QED BY <1>1, <1>2, ReachTypes DEF WithinReach

\* As long as a batch more is within reach, another may be tried.
LEMMA ReachLeavesBatches ==
  ASSUME NEW S \in SUBSET Mail, NEW n \in Nat, WithinReach(S, n)
  PROVE  n < MaxAttempts
<1>1. n * DeliverLimit < MaxAttempts * DeliverLimit
  <2> DEFINE x == n * DeliverLimit
             y == MaxAttempts * DeliverLimit
             c == Cardinality(S)
  <2>1. x \in Nat /\ y \in Nat /\ c \in Nat /\ c + x < y
    BY FiniteMail, ReachTypes DEF WithinReach
  <2> HIDE DEF x, y, c
  <2>2. x < y
    BY <2>1
  <2> QED BY <2>2 DEF x, y
<1>2. ASSUME ~(n < MaxAttempts) PROVE FALSE
  <2>1. PICK k \in Nat : n = MaxAttempts + k
    <3>1. MaxAttempts \in Nat
      BY LimitsAssumption
    <3>2. n - MaxAttempts \in Nat /\ n = MaxAttempts + (n - MaxAttempts)
      BY <1>2, <3>1
    <3> QED BY <3>2
  <2>2. n * DeliverLimit = MaxAttempts * DeliverLimit + k * DeliverLimit /\ k * DeliverLimit \in Nat
    BY <2>1, ReachTypes
  <2> QED BY <1>1, <2>2, ReachTypes
<1> QED BY <1>2

LEMMA BeforeIs ==
  ASSUME NEW m \in Mail
  PROVE  /\ For(To[m], "pending") \in SUBSET Mail /\ Before(m) \in SUBSET Mail
         /\ Before(m) \in SUBSET For(To[m], "pending") /\ m \notin Before(m)
         /\ mail[m] = "pending" => m \in For(To[m], "pending")
BY MailAssumption DEF For, Before

\* Mail that is sent later does not get in the way.
LEMMA BeforeShrinks ==
  ASSUME MailInv, SomeStep, NEW m \in Mail, mail[m] # "none"
  PROVE  Before(m)' \subseteq Before(m)
<1>1. ASSUME NEW k \in Before(m)' PROVE k \in Before(m)
  <2>1. k \in Mail /\ mail'[k] = "pending" /\ To[k] = To[m] /\ k < m
    BY <1>1 DEF Before, For
  <2>2. mail[k] # "none"
    BY <2>1 DEF MailInv, InOrder
  <2>3. mail[k] = "pending"
    BY <2>1, <2>2, RowsChange
  <2> QED BY <2>1, <2>3 DEF Before, For
<1> QED BY <1>1

LEMMA OthersLeaveSender ==
  ASSUME MailInv, SomeStep, NEW m \in Mail
  PROVE  act'[m] = act[m] \/ Send(m) \/ ListPending(m) \/ DeliverRow(m) \/ LookForRow(m)
           \/ GetOwnRow(m)
<1>1. ASSUME NEW a \in Actors, a # m, NEW r, Becomes(a, r) PROVE act'[m] = act[m]
  BY <1>1, Moved, ActorSorts DEF MailInv
<1>2. CASE \E k \in Mail : Send(k) \/ LookForRow(k) \/ GetOwnRow(k)
  <2> SUFFICES ASSUME NEW k \in Mail, Send(k) \/ LookForRow(k) \/ GetOwnRow(k), k # m
               PROVE  act'[m] = act[m]
    BY <1>2
  <2>1. k \in Actors
    BY ActorSorts
  <2>2. CASE Send(k)
    BY <1>1, <2>1, <2>2 DEF Send, Goes
  <2>3. CASE LookForRow(k)
    BY <1>1, <2>1, <2>3 DEF LookForRow, Goes
  <2>4. CASE GetOwnRow(k)
    BY <1>1, <2>1, <2>4 DEF GetOwnRow, Goes
  <2> QED BY <2>2, <2>3, <2>4
<1>3. CASE \E a \in Mail \cup Receivers : ListPending(a) \/ DeliverRow(a)
  BY <1>1, <1>3, ActorSorts DEF ListPending, DeliverRow
<1>4. CASE StartInbox \/ ListInbox \/ ClaimedBatch
  BY <1>1, <1>4, ActorSorts DEF StartInbox, ListInbox, ClaimedBatch, InboxEnds, Goes
<1>5. CASE \E a \in Receivers : \/ GetRow(a) \/ MarkRow(a) \/ BeginTurn(a) \/ ListWithinTurn(a)
                               \/ StoreClaimed(a) \/ EndTurn(a) \/ TurnFails(a)
  BY <1>1, <1>5, ActorSorts DEF GetRow, MarkRow, BeginTurn, ListWithinTurn, StoreClaimed,
     EndTurn, TurnFails, InboxEnds
<1>6. CASE \E t \in Turns : WantTurn(t)
  BY <1>1, <1>6, ActorSorts DEF WantTurn
<1>7. CASE \E p \in Patches : BeginPatch(p) \/ CheckPatch(p) \/ WritePatch(p)
  BY <1>1, <1>7, ActorSorts DEF BeginPatch, CheckPatch, WritePatch, Goes
<1> QED BY <1>2, <1>3, <1>4, <1>5, <1>6, <1>7 DEF SomeStep

LEMMA ReachesWhenSent ==
  ASSUME MailInv, BatchesReach', NEW m \in Mail, Send(m), mail'[m] = "pending"
  PROVE  SenderReaches(m)'
<1>1. /\ m \in Actors /\ act[m] \in ActorRecords /\ ListsOK(act[m], mail)
      /\ SenderOK(act[m], mail[m])
  BY ActorTypes, ActorSorts DEF ActorOK
<1>2. act[m].tries = 0 /\ m \notin act[m].got
  BY <1>1 DEF ListsOK, SenderOK, Send
<1>3. act'[m] = [act[m] EXCEPT !.stage = "deliver"]
  BY <1>1, Moved DEF Send, Goes, MailInv
<1>4. act'[m].stage = "deliver" /\ act'[m].tries = 0 /\ m \notin act'[m].got
  BY <1>1, <1>2, <1>3 DEF ActorRecords
<1>5. /\ For(To[m], "pending")' \in SUBSET Mail /\ m \in For(To[m], "pending")'
      /\ Before(m)' \in SUBSET (For(To[m], "pending")' \ {m})
  BY MailAssumption DEF For, Before
<1>6. /\ IsFiniteSet(For(To[m], "pending")' \ {m}) /\ Cardinality(Before(m)') \in Nat
      /\ Cardinality(For(To[m], "pending")') \in Nat
      /\ Cardinality(For(To[m], "pending")' \ {m}) = Cardinality(For(To[m], "pending")') - 1
  BY <1>5, FiniteMail, FS_RemoveElement
<1>7. Cardinality(Before(m)') <= Cardinality(For(To[m], "pending")') - 1
  BY <1>5, <1>6, FS_Subset
<1>8. Cardinality(For(To[m], "pending")') <= MaxAttempts * DeliverLimit
  BY AgentsAssumption DEF BatchesReach
<1>9. WithinReach(Before(m)', 0)
  BY <1>6, <1>7, <1>8, ReachTypes DEF WithinReach
<1> QED BY <1>4, <1>9 DEF SenderReaches

LEMMA ReachesWhenListed ==
  ASSUME MailInv, NEW m \in Mail, mail[m] = "pending", SenderReaches(m), ListPending(m)
  PROVE  SenderReaches(m)'
<1> DEFINE P == For(To[m], "pending")
           T == Oldest(P, DeliverLimit)
           n == act[m].tries
<1>1. m \in Actors /\ act[m] \in ActorRecords /\ SenderOK(act[m], mail[m]) /\ n \in Nat
  BY ActorTypes, ActorSorts DEF ActorOK, ActorRecords
<1>2. AgentOf(m) = To[m] /\ BatchLimit(m) = DeliverLimit /\ mail' = mail
  BY <1>1, ActorSorts DEF AgentOf, BatchLimit, SenderOK, ListPending, Receivers
<1>3. act'[m] = [act[m] EXCEPT !.stage = "delivering", !.got = {}, !.todo = T]
  BY <1>1, <1>2, Moved DEF ListPending, MailInv
<1>4. /\ act'[m].stage = "delivering" /\ act'[m].got = {} /\ act'[m].todo = T
      /\ act'[m].tries = n
  BY <1>1, <1>3 DEF ActorRecords
<1>5. Before(m)' = Before(m) /\ WithinReach(Before(m), n)
  BY <1>2 DEF Before, For, SenderReaches, ListPending
<1>6. ASSUME m \notin T
      PROVE  WithinReach(Before(m) \ T, n + 1) /\ T # {}
  <2>1. P \in SUBSET Mail /\ m \in P
    BY BeforeIs
  <2>2. T \subseteq Before(m) /\ Cardinality(T) >= DeliverLimit
    BY <1>6, <2>1, OldestLeaves, ReachTypes DEF Before
  <2>3. /\ IsFiniteSet(Before(m)) /\ IsFiniteSet(T) /\ Cardinality(T) \in Nat
        /\ Cardinality(Before(m)) \in Nat /\ Cardinality(Before(m) \ T) \in Nat
    BY <2>2, BeforeIs, FiniteMail
  <2>4. Cardinality(Before(m) \ T) = Cardinality(Before(m)) - Cardinality(T)
    <3>1. Before(m) \cap T = T
      BY <2>2
    <3> QED BY <2>3, <3>1, FS_Difference
  <2>5. T # {}
    <3>1. DeliverLimit \in Nat \ {0} /\ Cardinality({}) = 0
      BY LimitsAssumption, FS_EmptySet
    <3> QED BY <2>2, <2>3, <3>1
  <2> DEFINE x == n * DeliverLimit
             y == MaxAttempts * DeliverLimit
  <2>6. /\ x \in Nat /\ y \in Nat /\ DeliverLimit \in Nat
        /\ (n + 1) * DeliverLimit = x + DeliverLimit
    BY <1>1, LimitsAssumption
  <2>7. Cardinality(Before(m)) + x < y
    BY <1>5 DEF WithinReach
  <2> HIDE DEF x, y
  <2>8. Cardinality(Before(m) \ T) + (x + DeliverLimit) < y
    BY <2>2, <2>3, <2>4, <2>6, <2>7
  <2> QED BY <2>5, <2>6, <2>8 DEF WithinReach, y
<1> HIDE DEF T, n
<1> QED BY <1>4, <1>5, <1>6 DEF SenderReaches

LEMMA ReachesWhenDelivering ==
  ASSUME MailInv, SomeStep, NEW m \in Mail, mail[m] = "pending", mail'[m] = "pending",
         SenderReaches(m), DeliverRow(m)
  PROVE  SenderReaches(m)'
<1> DEFINE k == First(act[m].todo)
           n == act[m].tries
<1>1. m \in Actors /\ act[m] \in ActorRecords /\ n \in Nat
  BY ActorTypes, ActorSorts DEF ActorRecords
<1>2. k \in act[m].todo /\ k \in Mail /\ act[m].stage = "delivering"
  BY <1>1, FirstOfTodo DEF DeliverRow
<1>3. mail'[k] = "delivered" /\ k # m
  BY <1>2 DEF DeliverRow, Delivered, MailInv, TypeOK
<1>4. act'[m] = [act[m] EXCEPT !.todo = @ \ {k}, !.got = @ \cup {k}]
  BY <1>1, Moved DEF DeliverRow, MailInv
<1>5. /\ act'[m].stage = "delivering" /\ act'[m].got = act[m].got \cup {k}
      /\ act'[m].todo = act[m].todo \ {k} /\ act'[m].tries = n
  BY <1>1, <1>2, <1>4 DEF ActorRecords
<1>6. ASSUME m \notin act'[m].todo PROVE WithinReach(Before(m)' \ act'[m].todo, n + 1)
  <2>1. m \notin act[m].todo
    BY <1>3, <1>5, <1>6
  <2>2. WithinReach(Before(m) \ act[m].todo, n + 1)
    BY <1>2, <2>1 DEF SenderReaches
  <2>3. k \notin Before(m)'
    BY <1>3 DEF Before, For
  <2>4. Before(m)' \ act'[m].todo \in SUBSET (Before(m) \ act[m].todo)
    BY <1>5, <2>3, BeforeShrinks
  <2> QED BY <1>1, <2>2, <2>4, BeforeIs, FewerAreReached
<1> HIDE DEF k, n
<1> QED BY <1>3, <1>5, <1>6 DEF SenderReaches

LEMMA ReachesWhenLooking ==
  ASSUME MailInv, NEW m \in Mail, mail[m] = "pending", SenderReaches(m), LookForRow(m)
  PROVE  SenderReaches(m)'
<1> DEFINE n == act[m].tries
<1>1. m \in Actors /\ act[m] \in ActorRecords /\ n \in Nat /\ mail' = mail
  BY ActorTypes, ActorSorts DEF ActorRecords, LookForRow
<1>2. act[m].stage = "delivering" /\ act[m].todo = {} /\ m \notin act[m].got
  BY DEF SenderReaches, LookForRow, HasDelivered
<1>3. WithinReach(Before(m), n + 1) /\ act[m].got # {}
  <2>1. Before(m) \ act[m].todo = Before(m)
    BY <1>2
  <2> QED BY <1>2, <2>1 DEF SenderReaches
<1>4. n + 1 < MaxAttempts
  BY <1>1, <1>3, BeforeIs, ReachLeavesBatches
<1>5. act'[m] = [act[m] EXCEPT !.stage = "deliver", !.tries = n + 1]
  BY <1>1, <1>2, <1>3, <1>4, Moved DEF LookForRow, MailInv
<1>6. act'[m].stage = "deliver" /\ act'[m].tries = n + 1 /\ act'[m].got = act[m].got
  BY <1>1, <1>5 DEF ActorRecords
<1>7. Before(m)' = Before(m)
  BY <1>1 DEF Before, For
<1> QED BY <1>2, <1>3, <1>6, <1>7 DEF SenderReaches

LEMMA ReachesMeanwhile ==
  ASSUME MailInv, SomeStep, NEW m \in Mail, mail[m] = "pending", SenderReaches(m), act'[m] = act[m]
  PROVE  SenderReaches(m)'
<1>1. Before(m)' \subseteq Before(m) /\ Before(m) \in SUBSET Mail
  BY BeforeShrinks, BeforeIs
<1>2. act[m].tries \in Nat
  BY ActorTypes, ActorSorts DEF ActorRecords
<1>3. /\ Before(m)' \in SUBSET Before(m)
      /\ Before(m)' \ act[m].todo \in SUBSET (Before(m) \ act[m].todo)
  BY <1>1
<1>4. WithinReach(Before(m), act[m].tries) => WithinReach(Before(m)', act[m].tries)
  BY <1>1, <1>2, <1>3, FewerAreReached
<1>5. WithinReach(Before(m) \ act[m].todo, act[m].tries + 1)
        => WithinReach(Before(m)' \ act[m].todo, act[m].tries + 1)
  BY <1>1, <1>2, <1>3, FewerAreReached
<1> QED BY <1>4, <1>5 DEF SenderReaches

LEMMA SendersReachStep ==
  MailInv /\ BatchesReach' /\ SendersReach /\ [Next]_vars => SendersReach'
<1> SUFFICES ASSUME MailInv, BatchesReach', SendersReach, SomeStep \/ UNCHANGED vars
             PROVE  SendersReach'
  BY StepIs
<1>1. CASE UNCHANGED vars
  BY <1>1 DEF vars, SendersReach, SenderReaches, Before, For
<1>2. CASE SomeStep
  <2>1. ASSUME NEW m \in Mail, mail'[m] = "pending" PROVE SenderReaches(m)'
    <3>1. Send(m) \/ mail[m] = "pending"
      BY <1>2, <2>1, RowsChange
    <3>2. CASE Send(m)
      BY <2>1, <3>2, ReachesWhenSent
    <3>3. CASE mail[m] = "pending"
      <4>1. SenderReaches(m)
        BY <3>3 DEF SendersReach
      <4>2. ~GetOwnRow(m)
        BY <4>1 DEF SenderReaches, GetOwnRow
      <4> QED BY <1>2, <2>1, <3>2, <3>3, <4>1, <4>2, OthersLeaveSender, ReachesWhenListed,
                 ReachesWhenDelivering, ReachesWhenLooking, ReachesMeanwhile
    <3> QED BY <3>1, <3>2, <3>3
  <2> QED BY <2>1 DEF SendersReach
<1> QED BY <1>1, <1>2

\* While the batches of one send reach all that its agent has pending, which is
\* what the service counts on, a send that returns leaves no row of its own
\* pending: others may take rows of its batches, deliver its row or set it.
THEOREM SentIsDelivered == Spec /\ []BatchesReach => []SentMailIsDelivered
<1>1. Init => SendersReach
  BY DEF Init, SendersReach
<1>2. MailInv /\ BatchesReach' /\ SendersReach /\ [Next]_vars => SendersReach'
  BY SendersReachStep
<1>3. SendersReach => SentMailIsDelivered
  BY DEF SendersReach, SenderReaches, SentMailIsDelivered
<1> QED BY <1>1, <1>2, <1>3, MailTypesHold, PTL DEF Spec

-----------------------------------------------------------------------------
\* Delivered mail has an inbox turn coming.

InboxActs ==
  \/ StartInbox \/ ListInbox \/ ClaimedBatch \/ ListPending(Inbox) \/ DeliverRow(Inbox)
  \/ GetRow(Inbox) \/ MarkRow(Inbox) \/ BeginTurn(Inbox) \/ ListWithinTurn(Inbox)
  \/ StoreClaimed(Inbox) \/ EndTurn(Inbox) \/ TurnFails(Inbox)

LEMMA OthersLeaveInbox ==
  ASSUME MailInv, SomeStep PROVE InboxActs \/ (act'[Inbox] = act[Inbox] /\ LineGrows)
<1>1. ASSUME NEW a \in Actors, a # Inbox, NEW r, Becomes(a, r) PROVE act'[Inbox] = act[Inbox]
  BY <1>1, Moved, ActorSorts DEF MailInv
<1>2. ASSUME NEW m \in Mail, Send(m) \/ LookForRow(m) \/ GetOwnRow(m)
      PROVE  act'[Inbox] = act[Inbox] /\ LineGrows
  <2>1. act'[Inbox] = act[Inbox]
    BY <1>1, <1>2, ActorSorts DEF Send, LookForRow, GetOwnRow, Goes
  <2>2. LineGrows
    BY <1>2, ScheduleGrows DEF Send, LookForRow, GetOwnRow, LineGrows
  <2> QED BY <2>1, <2>2
<1>3. ASSUME NEW a \in Mail \cup Receivers, a # Inbox, ListPending(a) \/ DeliverRow(a)
      PROVE  act'[Inbox] = act[Inbox] /\ LineGrows
  BY <1>1, <1>3, ActorSorts DEF ListPending, DeliverRow, LineGrows
<1>4. ASSUME NEW a \in Receivers, a # Inbox,
             GetRow(a) \/ MarkRow(a) \/ BeginTurn(a) \/ ListWithinTurn(a) \/ StoreClaimed(a)
               \/ EndTurn(a) \/ TurnFails(a)
      PROVE  act'[Inbox] = act[Inbox] /\ LineGrows
  BY <1>1, <1>4, ActorSorts DEF GetRow, MarkRow, BeginTurn, ListWithinTurn, StoreClaimed,
     EndTurn, TurnFails, LineGrows
<1>5. ASSUME NEW t \in Turns, WantTurn(t) PROVE act'[Inbox] = act[Inbox] /\ LineGrows
  BY <1>1, <1>5, ActorSorts DEF WantTurn, LineGrows
<1>6. ASSUME NEW p \in Patches, BeginPatch(p) \/ CheckPatch(p) \/ WritePatch(p)
      PROVE  act'[Inbox] = act[Inbox] /\ LineGrows
  <2>1. act'[Inbox] = act[Inbox]
    BY <1>1, <1>6, ActorSorts DEF BeginPatch, CheckPatch, WritePatch, Goes
  <2>2. CASE BeginPatch(p)
    BY <2>1, <2>2 DEF BeginPatch, LineGrows
  <2>3. CASE CheckPatch(p) \/ WritePatch(p)
    <3>1. act[p].at \in Mail
      BY <2>3, PatchIs DEF CheckPatch, WritePatch, PatchOK
    <3>2. LineGrows
      BY <2>3, <3>1, PatchSchedulesOK DEF CheckPatch, WritePatch, LineGrows
    <3> QED BY <2>1, <3>2
  <2> QED BY <1>6, <2>2, <2>3
<1> QED BY <1>2, <1>3, <1>4, <1>5, <1>6 DEF SomeStep, InboxActs

LEMMA LonelyLine ==
  ASSUME MailInv
  PROVE  /\ chain \in Seq(Agents)
         /\ act[Inbox].stage # "out" => chain # <<>>
         /\ act[Inbox].stage = "out" => ~act[Inbox].inner /\ seen = {}
BY InboxIs DEF InboxOK, MailInv, TypeOK

\* A longer chain: what came comes.
LEMMA ComingWhenLonger ==
  ASSUME MailInv, NEW m \in Mail, LineGrows, act'[Inbox] = act[Inbox], Coming(m)
  PROVE  Coming(m)'
<1>1. chain' = chain \/ \E g \in Agents : chain' = Append(chain, g)
  BY DEF LineGrows
<1>2. /\ Len(chain) \in Nat /\ Len(chain') \in Nat /\ Len(chain) <= Len(chain')
      /\ \A i \in 1 .. Len(chain) : chain'[i] = chain[i]
  BY <1>1, LonelyLine
<1>3. chain # <<>> => chain' # <<>> /\ Head(chain') = Head(chain)
  BY <1>1, LonelyLine
<1>4. ASSUME NEW i \in 2 .. Len(chain), chain[i] = To[m] PROVE Waits(m)'
  <2>1. i \in 2 .. Len(chain') /\ i \in 1 .. Len(chain)
    BY <1>2
  <2> QED BY <1>2, <1>4, <2>1 DEF Waits
<1>5. OnItsWay(m) => OnItsWay(m)'
  BY <1>3 DEF OnItsWay, LineGrows
<1> QED BY <1>4, <1>5 DEF Coming, Waits

\* The next inbox turn's turn: what waited comes.
LEMMA ComingWhenNext ==
  ASSUME MailInv, NEW m \in Mail, InboxEnds, Waits(m)
  PROVE  Coming(m)'
<1>1. PICK i \in 2 .. Len(chain) : chain[i] = To[m]
  BY DEF Waits
<1>2. chain \in Seq(Agents) /\ chain # <<>>
  BY <1>1, LonelyLine
<1>3. /\ chain' = Tail(chain) /\ Len(chain') = Len(chain) - 1 /\ Len(chain) \in Nat
      /\ \A k \in 1 .. Len(chain') : chain'[k] = chain[k + 1]
  BY <1>2 DEF InboxEnds
<1>4. i - 1 \in 1 .. Len(chain') /\ chain'[i - 1] = To[m]
  BY <1>1, <1>3
<1>5. CASE i - 1 >= 2
  <2>1. i - 1 \in 2 .. Len(chain')
    BY <1>4, <1>5
  <2> QED BY <1>4, <2>1 DEF Coming, Waits
<1>6. CASE i = 2
  <2>1. act'[Inbox] = At("out") /\ seen' = {}
    BY Moved, ActorSorts DEF InboxEnds, MailInv
  <2>2. act'[Inbox].stage = "out" /\ ~act'[Inbox].inner
    BY <2>1 DEF At
  <2>3. chain' # <<>> /\ Head(chain') = To[m]
    <3>1. chain' \in Seq(Agents) /\ Len(chain') >= 1 /\ chain'[1] = To[m]
      BY <1>2, <1>3, <1>4, <1>6
    <3> QED BY <3>1
  <2> QED BY <2>1, <2>2, <2>3 DEF Coming, OnItsWay
<1> QED BY <1>1, <1>5, <1>6

\* A scheduled inbox turn comes.
LEMMA ScheduledIsComing ==
  ASSUME MailInv, NEW m \in Mail, Schedule(To[m]), act'[Inbox] = act[Inbox], seen' = seen
  PROVE  Coming(m)'
<1>1. /\ chain \in Seq(Agents) /\ To[m] \in Agents /\ chain' = Append(chain, To[m])
      /\ Len(chain) \in Nat /\ Len(chain') = Len(chain) + 1 /\ chain'[Len(chain) + 1] = To[m]
  BY LonelyLine, AgentsAssumption DEF Schedule
<1>2. CASE chain # <<>>
  <2>1. Len(chain) + 1 \in 2 .. Len(chain')
    BY <1>1, <1>2
  <2> QED BY <1>1, <2>1 DEF Coming, Waits
<1>3. CASE chain = <<>>
  <2>1. act[Inbox].stage = "out" /\ ~act[Inbox].inner /\ seen = {}
    BY <1>3, LonelyLine
  <2>2. chain' # <<>> /\ Head(chain') = To[m]
    BY <1>1, <1>3
  <2> QED BY <2>1, <2>2 DEF Coming, OnItsWay
<1> QED BY <1>2, <1>3

\* The inbox turn on its way to a row gets there, unless it fails and says so.
LEMMA OnItsWayWhenListed ==
  ASSUME MailInv, NEW m \in Mail, mail[m] = "delivered", OnItsWay(m), InboxesFit, ListInbox
  PROVE  OnItsWay(m)'
<1> DEFINE W == Waiting(Head(chain))
           D == For(To[m], "delivered")
<1>1. /\ Head(chain) = To[m] /\ chain # <<>> /\ m \notin seen /\ ~act[Inbox].inner
      /\ act[Inbox].stage = "delivering"
  BY DEF OnItsWay, ListInbox, HasDelivered
<1>2. D \in SUBSET Mail /\ m \in D /\ Cardinality(D) <= InboxLimit /\ InboxLimit \in Nat
  BY AgentsAssumption, LimitsAssumption DEF For, InboxesFit
<1>3. Oldest(D, InboxLimit) = D
  BY <1>2, OldestIsAll
<1>4. m \in W
  BY <1>1, <1>2, <1>3 DEF Waiting
<1>5. /\ Becomes(Inbox, [act[Inbox] EXCEPT !.stage = "claim", !.todo = W, !.got = {}])
      /\ chain' = chain
  BY <1>4 DEF ListInbox
<1> HIDE DEF W
<1>6. act'[Inbox] = [act[Inbox] EXCEPT !.stage = "claim", !.todo = W, !.got = {}]
  BY <1>5, Moved, ActorSorts DEF MailInv
<1>7. act'[Inbox].stage = "claim" /\ m \in act'[Inbox].todo /\ ~act'[Inbox].inner
  BY <1>1, <1>4, <1>6, InboxIs DEF ActorRecords
<1> QED BY <1>1, <1>5, <1>7 DEF OnItsWay

LEMMA OnItsWayWhenWalking ==
  ASSUME MailInv, NEW m \in Mail, mail[m] = "delivered", mail'[m] = "delivered", OnItsWay(m),
         StartInbox \/ ListPending(Inbox) \/ DeliverRow(Inbox) \/ GetRow(Inbox) \/ MarkRow(Inbox)
  PROVE  OnItsWay(m)'
<1> DEFINE k == First(act[Inbox].todo)
           I == act[Inbox]
<1>0. I \in ActorRecords /\ ListsOK(I, mail) /\ Inbox \in Actors /\ Inbox \in Receivers
  BY InboxIs, ActorSorts
<1>1. chain' = chain /\ seen' = seen
  BY DEF StartInbox, ListPending, DeliverRow, GetRow, MarkRow
<1>2. CASE StartInbox
  <2>1. act'[Inbox] = At("deliver")
    BY <1>0, <1>2, Moved DEF StartInbox, MailInv
  <2>2. act'[Inbox].stage = "deliver" /\ ~act'[Inbox].inner
    BY <2>1 DEF At
  <2> QED BY <1>1, <1>2, <2>2 DEF OnItsWay, StartInbox
<1>3. CASE ListPending(Inbox)
  <2> DEFINE T == Oldest(For(AgentOf(Inbox), "pending"), BatchLimit(Inbox))
  <2>1. act'[Inbox] = [I EXCEPT !.stage = "delivering", !.got = {}, !.todo = T]
    BY <1>0, <1>3, Moved DEF ListPending, MailInv
  <2> HIDE DEF T
  <2>2. act'[Inbox].stage = "delivering" /\ act'[Inbox].inner = I.inner
    BY <1>0, <2>1 DEF ActorRecords
  <2> QED BY <1>1, <1>3, <2>2 DEF OnItsWay, ListPending
<1>4. CASE DeliverRow(Inbox)
  <2>1. act'[Inbox] = [I EXCEPT !.todo = @ \ {k}, !.got = @ \cup {k}]
    BY <1>0, <1>4, Moved DEF DeliverRow, MailInv
  <2>2. act'[Inbox].stage = I.stage /\ act'[Inbox].inner = I.inner
    BY <1>0, <2>1 DEF ActorRecords
  <2> QED BY <1>1, <1>4, <2>2 DEF OnItsWay, DeliverRow
<1>5. CASE GetRow(Inbox)
  <2>1. m \in I.todo /\ ~I.inner /\ Head(chain) = To[m] /\ chain # <<>> /\ I.stage = "claim"
    BY <1>5 DEF OnItsWay, GetRow
  <2>2. act'[Inbox] = IF Claimable(mail[k]) THEN [I EXCEPT !.stage = "mark"]
                                            ELSE [I EXCEPT !.todo = @ \ {k}]
    BY <1>0, <1>5, Moved DEF GetRow, MailInv
  <2>3. k = m => Claimable(mail[k])
    BY DEF Claimable
  <2> HIDE DEF k
  <2>4. /\ act'[Inbox].stage \in {"claim", "mark"} /\ m \in act'[Inbox].todo
        /\ ~act'[Inbox].inner
    BY <1>0, <2>1, <2>2, <2>3 DEF ActorRecords
  <2> QED BY <1>1, <2>1, <2>4 DEF OnItsWay
<1>6. CASE MarkRow(Inbox)
  <2>1. m \in I.todo /\ ~I.inner /\ Head(chain) = To[m] /\ chain # <<>>
    BY <1>6 DEF OnItsWay, MarkRow
  <2>2. act'[Inbox] = [I EXCEPT !.stage = "claim", !.todo = @ \ {k}, !.got = @ \cup {k}]
    BY <1>0, <1>6, Moved DEF MarkRow, MailInv
  <2>3. k # m
    BY <1>6 DEF MarkRow, MailInv, TypeOK
  <2> HIDE DEF k
  <2>4. /\ act'[Inbox].stage = "claim" /\ m \in act'[Inbox].todo /\ ~act'[Inbox].inner
    BY <1>0, <2>1, <2>2, <2>3 DEF ActorRecords
  <2> QED BY <1>1, <2>1, <2>4 DEF OnItsWay
<1> QED BY <1>2, <1>3, <1>4, <1>5, <1>6

LEMMA ComingWhenInboxActs ==
  ASSUME MailInv, NEW m \in Mail, mail[m] = "delivered", mail'[m] = "delivered", InboxesFit,
         Coming(m), InboxActs
  PROVE  Coming(m)' \/ Kept(m)'
<1>1. CASE OnItsWay(m)
  <2>1. ASSUME TurnFails(Inbox) PROVE Kept(m)'
    <3>1. m \in For(AgentOf(Inbox), "delivered")
      BY <1>1 DEF OnItsWay, AgentOf, For
    <3>2. m \in told'
      BY <2>1, <3>1 DEF TurnFails, Missed
    <3> QED BY <3>2 DEF Kept, Settled
  <2>2. ~(ClaimedBatch \/ BeginTurn(Inbox) \/ ListWithinTurn(Inbox) \/ StoreClaimed(Inbox)
           \/ EndTurn(Inbox))
    BY <1>1 DEF OnItsWay, ClaimedBatch, BeginTurn, ListWithinTurn, StoreClaimed, EndTurn
  <2> QED BY <1>1, <2>1, <2>2, OnItsWayWhenListed, OnItsWayWhenWalking DEF InboxActs, Coming
<1>2. CASE Waits(m)
  <2>1. chain' = chain \/ InboxEnds
    BY DEF InboxActs, StartInbox, ListInbox, ClaimedBatch, ListPending, DeliverRow, GetRow,
       MarkRow, BeginTurn, ListWithinTurn, StoreClaimed, EndTurn, TurnFails
  <2>2. CASE chain' = chain
    BY <1>2, <2>2 DEF Waits, Coming
  <2>3. CASE InboxEnds
    BY <1>2, <2>3, ComingWhenNext
  <2> QED BY <2>1, <2>2, <2>3
<1> QED BY <1>1, <1>2 DEF Coming

\* A sender that returns has scheduled an inbox turn if its row is delivered.
LEMMA ComingWhenDone ==
  ASSUME MailInv, SomeStep, NEW m \in Mail, mail[m] = "delivered", act[m].stage # "done",
         act'[m].stage = "done"
  PROVE  Coming(m)'
<1>1. m \in Actors /\ act[m] \in ActorRecords /\ m # Inbox /\ Inbox \in Actors
  BY ActorTypes, ActorSorts
<1>2. ASSUME NEW r, Becomes(m, r) PROVE act'[m] = r /\ act'[Inbox] = act[Inbox]
  BY <1>1, <1>2, Moved DEF MailInv
<1>3. ~Send(m)
  BY <1>1, <1>2 DEF Send, Goes, ActorRecords
<1>4. ~ListPending(m)
  <2> DEFINE T == Oldest(For(AgentOf(m), "pending"), BatchLimit(m))
  <2>1. ASSUME ListPending(m) PROVE FALSE
    <3>1. act'[m] = [act[m] EXCEPT !.stage = "delivering", !.got = {}, !.todo = T]
      BY <1>2, <2>1 DEF ListPending
    <3> HIDE DEF T
    <3> QED BY <1>1, <3>1 DEF ActorRecords
  <2> QED BY <2>1
<1>5. ~DeliverRow(m)
  <2> DEFINE k == First(act[m].todo)
  <2>1. ASSUME DeliverRow(m) PROVE FALSE
    <3>1. act'[m] = [act[m] EXCEPT !.todo = @ \ {k}, !.got = @ \cup {k}]
      BY <1>2, <2>1 DEF DeliverRow
    <3> HIDE DEF k
    <3> QED BY <1>1, <3>1 DEF ActorRecords
  <2> QED BY <2>1
<1>6. ASSUME LookForRow(m) PROVE Coming(m)'
  <2>1. act'[Inbox] = act[Inbox] /\ seen' = seen
    BY <1>2, <1>6 DEF LookForRow
  <2>2. m \in act[m].got
    <3>1. ASSUME m \notin act[m].got PROVE FALSE
      <4> DEFINE stage == IF act[m].got # {} /\ act[m].tries + 1 < MaxAttempts
                          THEN "deliver" ELSE "get"
      <4>1. act'[m] = [act[m] EXCEPT !.stage = stage, !.tries = @ + 1]
        BY <1>2, <1>6, <3>1 DEF LookForRow
      <4>2. act'[m].stage = stage
        BY <1>1, <4>1 DEF ActorRecords
      <4> QED BY <4>2
    <3> QED BY <3>1
  <2>3. Schedule(To[m])
    BY <1>6, <2>2 DEF LookForRow, ScheduleIf
  <2> QED BY <2>1, <2>3, ScheduledIsComing
<1>7. ASSUME GetOwnRow(m) PROVE Coming(m)'
  <2>1. act'[Inbox] = act[Inbox] /\ seen' = seen /\ Schedule(To[m])
    BY <1>2, <1>7 DEF GetOwnRow, ScheduleIf, GotDelivered
  <2> QED BY <2>1, ScheduledIsComing
<1> QED BY <1>3, <1>4, <1>5, <1>6, <1>7, OthersLeaveSender

LEMMA DeliveringIsNotDone ==
  ASSUME MailInv, SendersReach, SomeStep, NEW m \in Mail, mail[m] = "pending",
         mail'[m] # mail[m]
  PROVE  act'[m].stage # "done"
<1>1. act[m].stage \in {"deliver", "delivering"}
  BY DEF SendersReach, SenderReaches
<1>2. act'[m] = act[m] \/ DeliverRow(m)
  BY <1>1, OthersLeaveSender DEF Send, ListPending, LookForRow, GetOwnRow
<1>3. CASE DeliverRow(m)
  <2> DEFINE k == First(act[m].todo)
  <2>1. m \in Actors /\ act[m] \in ActorRecords
    BY ActorTypes, ActorSorts
  <2>2. act'[m] = [act[m] EXCEPT !.todo = @ \ {k}, !.got = @ \cup {k}]
    BY <1>3, <2>1, Moved DEF DeliverRow, MailInv
  <2> HIDE DEF k
  <2> QED BY <1>1, <2>1, <2>2 DEF ActorRecords
<1> QED BY <1>1, <1>2, <1>3

LEMMA DeliveredIsComingStep ==
  MailInv /\ ReadIsKept /\ SendersReach /\ InboxesFit /\ DeliveredIsComing /\ [Next]_vars
    => DeliveredIsComing'
<1> SUFFICES ASSUME MailInv, ReadIsKept, SendersReach, InboxesFit, DeliveredIsComing,
                    SomeStep \/ UNCHANGED vars
             PROVE  DeliveredIsComing'
  BY StepIs
<1>1. CASE UNCHANGED vars
  BY <1>1 DEF vars, DeliveredIsComing, Kept, Settled, Claimed, Coming, Waits, OnItsWay
<1>2. CASE SomeStep
  <2>1. ASSUME NEW m \in Mail, mail'[m] = "delivered"
        PROVE  Kept(m)' \/ act'[m].stage # "done" \/ Coming(m)'
    <3>1. mail[m] \in {"pending", "delivered", "read", "failed"}
      BY <1>2, <2>1, RowsChange DEF MailInv, TypeOK, MaybeStatus, Statuses
    <3>2. CASE Kept(m)
      BY <1>2, <3>2, KeptStays
    <3>3. CASE mail[m] \in {"read", "failed"}
      BY <3>2, <3>3 DEF ReadIsKept
    <3>4. CASE mail[m] = "pending"
      BY <1>2, <2>1, <3>4, DeliveringIsNotDone
    <3>5. CASE mail[m] = "delivered" /\ act[m].stage # "done"
      BY <1>2, <3>5, ComingWhenDone
    <3>6. CASE mail[m] = "delivered" /\ Coming(m)
      BY <1>2, <2>1, <3>6, OthersLeaveInbox, ComingWhenInboxActs, ComingWhenLonger
    <3> QED BY <3>1, <3>2, <3>3, <3>4, <3>5, <3>6 DEF DeliveredIsComing
  <2> QED BY <2>1 DEF DeliveredIsComing
<1> QED BY <1>1, <1>2

\* When all have returned and no inbox turn waits, no mail is left that its agent
\* was not shown and that nobody was told about: as long as the batches of a send
\* reach what is pending for an agent, and a batch of an inbox turn has all that
\* is delivered for it.
THEOREM MailIsNotForgotten == Spec /\ [](BatchesReach /\ InboxesFit) => []NoMailIsForgotten
<1>1. Init => ReadIsKept /\ SendersReach /\ DeliveredIsComing
  BY DEF Init, ReadIsKept, SendersReach, DeliveredIsComing
<1>2. MailInv /\ ReadIsKept /\ [Next]_vars => ReadIsKept'
  BY ReadIsKeptStep
<1>3. MailInv /\ BatchesReach' /\ SendersReach /\ [Next]_vars => SendersReach'
  BY SendersReachStep
<1>4. MailInv /\ ReadIsKept /\ SendersReach /\ InboxesFit /\ DeliveredIsComing /\ [Next]_vars
        => DeliveredIsComing'
  BY DeliveredIsComingStep
<1>5. MailInv /\ ReadIsKept /\ SendersReach /\ DeliveredIsComing => NoMailIsForgotten
  <2> SUFFICES ASSUME MailInv, ReadIsKept, SendersReach, DeliveredIsComing, Quiet,
                      NEW m \in Mail, mail[m] # "none"
               PROVE  Settled(m)
    BY DEF NoMailIsForgotten
  <2>1. mail[m] \in Statuses /\ m \in Actors /\ SenderOK(act[m], mail[m])
    BY ActorTypes, ActorSorts DEF ActorOK, MailInv, TypeOK, MaybeStatus
  <2>2. act[m].stage = "done"
    BY <2>1 DEF Quiet, SenderOK
  <2>3. Kept(m) => Settled(m)
    BY ActorSorts DEF Kept, Quiet, Claimed
  <2>4. mail[m] # "pending"
    BY <2>2 DEF SendersReach, SenderReaches
  <2>5. ~Coming(m)
    <3>1. Len(chain) = 0 /\ chain = <<>>
      BY DEF Quiet
    <3> QED BY <3>1 DEF Coming, Waits, OnItsWay
  <2> QED BY <2>1, <2>2, <2>3, <2>4, <2>5 DEF ReadIsKept, DeliveredIsComing, Statuses
<1> QED BY <1>1, <1>2, <1>3, <1>4, <1>5, MailTypesHold, PTL DEF Spec

\* Few enough is enough: with no more mail for an agent, ever, than the batches of a
\* send and a batch of its inbox turns hold, no other premise is needed.
THEOREM FewMailIsNotForgotten ==
  ASSUME \A g \in Agents : LET S == {m \in Mail : To[m] = g}
                          IN  /\ Cardinality(S) <= MaxAttempts * DeliverLimit
                              /\ Cardinality(S) <= InboxLimit
  PROVE  Spec => [](SentMailIsDelivered /\ NoMailIsForgotten)
<1>1. BatchesReach /\ InboxesFit
  <2>1. ASSUME NEW g \in Agents, NEW status, NEW limit \in Nat,
               Cardinality({m \in Mail : To[m] = g}) <= limit
        PROVE  Cardinality(For(g, status)) <= limit
    <3>1. For(g, status) \in SUBSET {m \in Mail : To[m] = g} /\ For(g, status) \in SUBSET Mail
      BY DEF For
    <3>2. /\ IsFiniteSet({m \in Mail : To[m] = g}) /\ Cardinality({m \in Mail : To[m] = g}) \in Nat
          /\ Cardinality(For(g, status)) \in Nat
      BY <3>1, FiniteMail
    <3>3. Cardinality(For(g, status)) <= Cardinality({m \in Mail : To[m] = g})
      BY <3>1, <3>2, FS_Subset
    <3> QED BY <2>1, <3>2, <3>3
  <2>2. InboxLimit \in Nat /\ MaxAttempts * DeliverLimit \in Nat
    BY LimitsAssumption
  <2> QED BY <2>1, <2>2 DEF BatchesReach, InboxesFit
<1> QED BY <1>1, SentIsDelivered, MailIsNotForgotten, PTL

-----------------------------------------------------------------------------
(*****************************************************************************)
(* Rounds of replies.  The invariant says that the transcript is whole, what *)
(* the agent that has the floor reads of it, what of the round is known to   *)
(* the others, and that no line of the chat escapes a summary.               *)
(*****************************************************************************)

\* A row and its calls have ids that were given out; calls are an answer's, a called id is a result's, and what is
\* not an agent's is what the user wrote or a summary.
RowOK(r, last) ==
  /\ r.id \in 1 .. last /\ CallIds(r.calls) \subseteq 1 .. last
  /\ r.kind # "assistant" => r.calls = <<>>
  /\ r.kind # "tool" => r.of = 0
  /\ r.by = User <=> r.kind \in {"user", "summary"}

\* Row j is the result of a call of row i, with nothing between but results and sent messages of the same agent
Follows(rs, i, j) ==
  /\ i < j /\ rs[i].kind = "assistant" /\ rs[j].kind = "tool"
  /\ rs[j].of \in CallIds(rs[i].calls)
  /\ \A k \in DOMAIN rs : i < k /\ k <= j => rs[k].kind \in {"tool", "sent"} /\ rs[k].by = rs[i].by

\* A transcript with ids up to last: each row and each call has one place, a result follows its call with nothing
\* that starts a turn between, and each call has a result unless it is open.
Whole(rs, last, open) ==
  /\ \A i \in DOMAIN rs : RowOK(rs[i], last)
  /\ \A i, j \in DOMAIN rs : i < j => rs[i].id < rs[j].id
  /\ \A i, j \in DOMAIN rs : i # j => CallIds(rs[i].calls) \cap CallIds(rs[j].calls) = {}
  /\ \A j \in DOMAIN rs : rs[j].kind = "tool" => \E i \in DOMAIN rs : Follows(rs, i, j)
  /\ \A i \in DOMAIN rs : \A c \in CallIds(rs[i].calls) \ open :
       \E j \in DOMAIN rs : rs[j].kind = "tool" /\ rs[j].of = c

\* The last answer is one of the agent that made the calls, and only its results and sent messages follow.
EndsWithCalls(rs, by, ids) ==
  \E i \in DOMAIN rs :
    /\ rs[i].kind = "assistant" /\ rs[i].by = by /\ ids \subseteq CallIds(rs[i].calls)
    /\ \A k \in DOMAIN rs : i < k => rs[k].kind \in {"tool", "sent"} /\ rs[k].by = by

\* The calls that need have no result: those that a broken turn left, and those still to be run.
Unsettled == unanswered \cup CallIds(speech.pending)
\* Both what is stored and what the agent reads are whole.
TranscriptsAreWhole ==
  /\ Whole(messages, lastId, Unsettled) /\ Whole(speech.read, lastId, Unsettled)
  /\ doing = "tools" /\ speech.pending # <<>> =>
       /\ EndsWithCalls(messages, speech.agent, CallIds(speech.pending))
       /\ EndsWithCalls(speech.read, speech.agent, CallIds(speech.pending))

\* The stages at which an agent has the floor.
Speaking == {"ask", "model", "tools", "stop", "over"}
\* Whose rows are not yet heard by the others.
Current == IF doing \in Speaking THEN {speech.agent} ELSE {}
\* What is set at which stage of a round.
StagesAgree ==
  /\ doing \notin {"tools", "failed"} => speech.pending = <<>>
  /\ doing = "failed" => CallIds(speech.pending) \subseteq unanswered
  /\ doing = "nothing" => round = NoRound /\ speech = NoSpeech
  /\ summing.on => doing = "nothing"
  /\ doing = "next" => round.waiting # <<>>
  /\ doing = "ended" => round.waiting = <<>>
  /\ doing \in Speaking => speech.agent \in Speakers /\ speech.agent \in round.answered
  /\ round.chat # <<>> => memberIds # <<>>

\* A line is among ids or older than all of them.
OlderOrIn(r, ids) == Rendered(r) => r.id \in ids \/ \A id \in ids : r.id < id
\* A summary misses no line before it.
Covered(rs) ==
  \A s \in DOMAIN rs : rs[s].kind = "summary" =>
    \A k \in DOMAIN rs : k < s => OlderOrIn(rs[k], rs[s].covers)
\* Of stored summaries and of the one being written.
SummariesOK ==
  /\ Covered(messages)
  /\ summing.on => \A k \in DOMAIN messages : OlderOrIn(messages[k], summing.rows)

\* A row of this round.
InRound(r) == r.id > round.from
\* A round has its user message, and after it no summary and only rows of the user and of those who had the floor.
RoundRows ==
  doing # "nothing" =>
    /\ \E i \in DOMAIN messages : messages[i].id = round.from /\ messages[i].kind = "user"
    /\ \A i \in DOMAIN messages : InRound(messages[i]) =>
         messages[i].kind # "summary" /\ messages[i].by \in {User} \cup round.answered
\* The replies heard in a round are those stored by the agents that are through.
RepliesKnown ==
  doing \notin {"nothing", "failed"} =>
    /\ \A i \in DOMAIN messages :
         InRound(messages[i]) /\ messages[i].by \notin {User} \cup Current =>
           (IsReply(messages, i) <=> messages[i].id \in round.said)
    /\ \A id \in round.said : \E i \in DOMAIN messages :
         messages[i].id = id /\ InRound(messages[i]) /\ messages[i].by \notin {User} \cup Current
\* The agent reads the rows as they were when its turn began; since then only it and the user added some.
ReadIs ==
  doing \in Speaking =>
    /\ round.from <= speech.from /\ speech.from <= lastId
    /\ \A i \in DOMAIN messages :
         InRound(messages[i]) /\ messages[i].by = speech.agent => messages[i].id > speech.from
    /\ \E n \in 0 .. Len(messages) :
       /\ n <= Len(speech.read)
       /\ \A i \in 1 .. n : speech.read[i] = messages[i]
       /\ \A i \in DOMAIN messages : i > n => messages[i].by \in {User, speech.agent}
       /\ \A i \in DOMAIN speech.read : i > n =>
            speech.read[i].by \in {User, speech.agent} /\ speech.read[i].kind # "summary"
\* Whoever a message of the round asks has the floor, had it, or waits for it.
Asked ==
  doing \notin {"nothing", "failed"} /\ round.chat # <<>> =>
    \A i \in DOMAIN messages :
      LET asked == Mentioned(round.chat, <<messages[i].names>>)
          due == round.answered \cup ToSet(round.waiting)
      IN  /\ messages[i].id \in round.said \cup {round.from} => asked \subseteq due
          /\ messages[i].id = round.from /\ asked = {} => ToSet(Participants(round.chat)) \subseteq due

\* A finite set of numbers has a greatest.
LEMMA GreatestExists ==
  ASSUME NEW n \in Nat, NEW S \in SUBSET (1 .. n), S # {}
  PROVE  \E m \in S : \A k \in S : k <= m
<1> DEFINE T == {n - k : k \in S}
<1>1. T \in SUBSET Nat /\ T # {}
  <2>1. \A k \in S : n - k \in Nat
    OBVIOUS
  <2> QED BY <2>1
<1>2. PICK t \in T : \A u \in T : t <= u
  BY <1>1, LeastExists
<1>3. PICK m \in S : t = n - m
  BY <1>2
<1>4. ASSUME NEW k \in S PROVE k <= m
  <2>1. n - k \in T
    OBVIOUS
  <2>2. n - m <= n - k
    BY <1>2, <1>3, <2>1
  <2> QED BY <2>2
<1> QED BY <1>4

\* Where the last summary stands.
LEMMA LastSummaryIs ==
  ASSUME NEW S, NEW rs \in Seq(S)
  PROVE  /\ LastSummary(rs) \in 0 .. Len(rs)
         /\ LastSummary(rs) = 0 \/ rs[LastSummary(rs)].kind = "summary"
         /\ \A i \in DOMAIN rs : LastSummary(rs) < i => rs[i].kind # "summary"
<1> DEFINE I == {i \in 1 .. Len(rs) : rs[i].kind = "summary"}
<1>1. LastSummary(rs) = IF I # {} THEN Max(I) ELSE 0
  BY DEF LastSummary, SelectLastInSeq
<1>2. Len(rs) \in Nat /\ DOMAIN rs = 1 .. Len(rs)
  OBVIOUS
<1>3. CASE I = {}
  BY <1>1, <1>2, <1>3
<1>4. CASE I # {}
  <2>1. PICK m \in I : \A k \in I : k <= m
    BY <1>2, <1>4, GreatestExists
  <2>2. \A k \in I : m >= k
    BY <2>1
  <2>3. Max(I) \in I /\ \A k \in I : Max(I) >= k
    BY <2>2 DEF Max
  <2>4. LastSummary(rs) = Max(I)
    BY <1>1, <1>4
  <2> HIDE DEF I
  <2>5. LastSummary(rs) \in I /\ \A k \in I : ~(LastSummary(rs) < k)
    <3>1. \A k \in I : k \in Nat
      BY <1>2 DEF I
    <3> QED BY <2>3, <2>4, <3>1
  <2> QED BY <1>2, <2>5 DEF I
<1> QED BY <1>3, <1>4

\* What is read begins after it.
LEMMA RestIs ==
  ASSUME NEW S, NEW rs \in Seq(S)
  PROVE  /\ SinceCompaction(rs) \in Seq(S)
         /\ DOMAIN SinceCompaction(rs) = 1 .. Len(rs) - LastSummary(rs)
         /\ \A i \in 1 .. Len(rs) - LastSummary(rs) :
              SinceCompaction(rs)[i] = rs[LastSummary(rs) + i] /\ SinceCompaction(rs)[i] \in S
<1>1. LastSummary(rs) \in 0 .. Len(rs) /\ Len(rs) \in Nat
  BY LastSummaryIs
<1> DEFINE l == LastSummary(rs)
<1> HIDE DEF l
<1>2. l \in 0 .. Len(rs)
  BY <1>1 DEF l
<1>3. SinceCompaction(rs) = SubSeq(rs, l + 1, Len(rs))
  BY DEF SinceCompaction, l
<1>4. \A i \in l + 1 .. Len(rs) : rs[i] \in S
  BY <1>2
<1>5. /\ SubSeq(rs, l + 1, Len(rs)) \in Seq(S)
      /\ DOMAIN SubSeq(rs, l + 1, Len(rs)) = 1 .. Len(rs) - l
      /\ \A i \in 1 .. Len(rs) - l :
           SubSeq(rs, l + 1, Len(rs))[i] = rs[l + i] /\ rs[l + i] \in S
  BY <1>1, <1>2, <1>4
<1> QED BY <1>3, <1>5 DEF l

\* A row more.
LEMMA AppendIs ==
  ASSUME NEW S, NEW seq \in Seq(S), NEW e \in S
  PROVE  /\ Append(seq, e) \in Seq(S) /\ Len(seq) \in Nat /\ DOMAIN seq = 1 .. Len(seq)
         /\ DOMAIN Append(seq, e) = 1 .. Len(seq) + 1
         /\ \A i \in 1 .. Len(seq) : Append(seq, e)[i] = seq[i]
         /\ Append(seq, e)[Len(seq) + 1] = e
OBVIOUS

-----------------------------------------------------------------------------
\* Later ids and more open calls do no harm.
LEMMA WholeMore ==
  ASSUME NEW rs \in Seq(Row), NEW last \in Nat, NEW more \in Nat, last <= more,
         NEW open, NEW opened, open \subseteq opened, Whole(rs, last, open)
  PROVE  Whole(rs, more, opened)
<1>1. \A i \in DOMAIN rs : RowOK(rs[i], more)
  BY DEF Whole, RowOK
<1> QED BY <1>1 DEF Whole

\* A row may be added that has a new id, whose calls are new, and that, as a result, follows its call.
LEMMA WholeAppend ==
  ASSUME NEW rs \in Seq(Row), NEW row \in Row, NEW last \in Nat, NEW more \in Nat,
         last <= more, \A i \in DOMAIN rs : rs[i].id < row.id, NEW open, NEW opened,
         Whole(rs, last, open), RowOK(row, more),
         \A c \in CallIds(row.calls) : last < c /\ c \in opened,
         row.kind = "tool" => EndsWithCalls(rs, row.by, {row.of}),
         \A c \in open : c \in opened \/ (row.kind = "tool" /\ c = row.of)
  PROVE  Whole(Append(rs, row), more, opened)
<1> DEFINE t == Append(rs, row)
           n == Len(rs)
<1>1. /\ n \in Nat /\ DOMAIN rs = 1 .. n /\ DOMAIN t = 1 .. n + 1
      /\ \A i \in 1 .. n : t[i] = rs[i] /\ rs[i] \in Row
      /\ t[n + 1] = row
  BY AppendIs
<1> HIDE DEF t, n
<1>a. \A i \in 1 .. n : RowOK(rs[i], last)
  BY <1>1 DEF Whole
<1>b. \A i \in 1 .. n : RowOK(rs[i], more)
  <2>1. 1 .. last \subseteq 1 .. more
    OBVIOUS
  <2> QED BY <1>a, <2>1 DEF RowOK
<1>2. \A i \in DOMAIN t : RowOK(t[i], more)
  BY <1>1, <1>b
<1>3. \A i \in 1 .. n : rs[i].id \in 1 .. last /\ CallIds(rs[i].calls) \subseteq 1 .. last
  BY <1>a DEF RowOK
<1>4. \A i, j \in DOMAIN t : i < j => t[i].id < t[j].id
  <2> SUFFICES ASSUME NEW i \in DOMAIN t, NEW j \in DOMAIN t, i < j PROVE t[i].id < t[j].id
    OBVIOUS
  <2>1. i \in 1 .. n
    BY <1>1
  <2>2. CASE j \in 1 .. n
    BY <1>1, <2>1, <2>2 DEF Whole
  <2>3. CASE j = n + 1
    BY <1>1, <2>1, <2>3
  <2> QED BY <1>1, <2>2, <2>3
<1>5. \A i, j \in DOMAIN t : i # j => CallIds(t[i].calls) \cap CallIds(t[j].calls) = {}
  <2>1. \A i \in 1 .. n : CallIds(rs[i].calls) \cap CallIds(row.calls) = {}
    <3> SUFFICES ASSUME NEW i \in 1 .. n, NEW c \in CallIds(rs[i].calls), c \in CallIds(row.calls)
                 PROVE  FALSE
      OBVIOUS
    <3>1. c \in 1 .. last /\ last < c
      BY <1>3
    <3> QED BY <3>1
  <2>2. \A i, j \in 1 .. n : i # j => CallIds(rs[i].calls) \cap CallIds(rs[j].calls) = {}
    BY <1>1 DEF Whole
  <2> SUFFICES ASSUME NEW i \in DOMAIN t, NEW j \in DOMAIN t, i # j
               PROVE  CallIds(t[i].calls) \cap CallIds(t[j].calls) = {}
    OBVIOUS
  <2>3. CASE i \in 1 .. n /\ j \in 1 .. n
    BY <1>1, <2>2, <2>3
  <2>4. CASE i \in 1 .. n /\ j = n + 1
    <3>1. t[i] = rs[i] /\ t[j] = row
      BY <1>1, <2>4
    <3> QED BY <2>1, <2>4, <3>1
  <2>5. CASE j \in 1 .. n /\ i = n + 1
    <3>1. t[j] = rs[j] /\ t[i] = row
      BY <1>1, <2>5
    <3> QED BY <2>1, <2>5, <3>1
  <2> QED BY <1>1, <2>3, <2>4, <2>5
<1>6. ASSUME NEW j \in DOMAIN t, t[j].kind = "tool" PROVE \E i \in DOMAIN t : Follows(t, i, j)
  <2>1. CASE j \in 1 .. n
    <3>1. PICK i \in 1 .. n : Follows(rs, i, j)
      BY <1>1, <1>6, <2>1 DEF Whole
    <3>2. Follows(t, i, j)
      BY <1>1, <2>1, <3>1 DEF Follows
    <3> QED BY <1>1, <3>2
  <2>2. CASE j = n + 1
    <3>1. PICK i \in 1 .. n :
            /\ rs[i].kind = "assistant" /\ rs[i].by = row.by
            /\ row.of \in CallIds(rs[i].calls)
            /\ \A k \in 1 .. n : i < k => rs[k].kind \in {"tool", "sent"} /\ rs[k].by = row.by
      BY <1>1, <1>6, <2>2 DEF EndsWithCalls
    <3>2. Follows(t, i, j)
      BY <1>1, <1>6, <2>2, <3>1 DEF Follows
    <3> QED BY <1>1, <3>2
  <2> QED BY <1>1, <2>1, <2>2
<1>7. ASSUME NEW i \in DOMAIN t, NEW c \in CallIds(t[i].calls), c \notin opened
      PROVE  \E j \in DOMAIN t : t[j].kind = "tool" /\ t[j].of = c
  <2>1. i \in 1 .. n
    BY <1>1, <1>7
  <2>2. CASE c \in open
    BY <1>1, <1>7, <2>2
  <2>3. CASE c \notin open
    <3>1. PICK j \in 1 .. n : rs[j].kind = "tool" /\ rs[j].of = c
      BY <1>1, <1>7, <2>1, <2>3 DEF Whole
    <3> QED BY <1>1, <3>1
  <2> QED BY <2>2, <2>3
<1>8. Whole(t, more, opened)
  BY <1>2, <1>4, <1>5, <1>6, <1>7 DEF Whole
<1> QED BY <1>8 DEF t

\* A result or a sent message leaves the calls at the end.
LEMMA EndsAppend ==
  ASSUME NEW rs \in Seq(Row), NEW row \in Row, NEW ids, NEW fewer, fewer \subseteq ids,
         EndsWithCalls(rs, row.by, ids), row.kind \in {"tool", "sent"}
  PROVE  EndsWithCalls(Append(rs, row), row.by, fewer)
<1> DEFINE t == Append(rs, row)
           n == Len(rs)
<1>1. /\ n \in Nat /\ DOMAIN rs = 1 .. n /\ DOMAIN t = 1 .. n + 1
      /\ \A i \in 1 .. n : t[i] = rs[i]
      /\ t[n + 1] = row
  BY AppendIs
<1> HIDE DEF t, n
<1>2. EndsWithCalls(t, row.by, fewer)
  BY <1>1 DEF EndsWithCalls
<1> QED BY <1>2 DEF t

\* An answer with calls is at the end when it is added.
LEMMA EndsNew ==
  ASSUME NEW rs \in Seq(Row), NEW row \in Row, row.kind = "assistant"
  PROVE  EndsWithCalls(Append(rs, row), row.by, CallIds(row.calls))
<1> DEFINE t == Append(rs, row)
           n == Len(rs)
<1>1. /\ n \in Nat /\ DOMAIN t = 1 .. n + 1 /\ t[n + 1] = row
  BY AppendIs
<1> HIDE DEF t, n
<1>2. EndsWithCalls(t, row.by, CallIds(row.calls))
  BY <1>1 DEF EndsWithCalls
<1> QED BY <1>2 DEF t

\* A transcript stays whole without rows, if the call of each kept result is kept and each lost result's call is open.
LEMMA WholeFilter ==
  ASSUME NEW rs \in Seq(Row), NEW keep \in SUBSET (DOMAIN rs), NEW last \in Nat,
         NEW open, NEW opened, Whole(rs, last, open), open \subseteq opened,
         \A i, j \in DOMAIN rs : Follows(rs, i, j) /\ j \in keep => i \in keep,
         \A j \in DOMAIN rs : rs[j].kind = "tool" /\ j \notin keep => rs[j].of \in opened
  PROVE  Whole(FilterAt(rs, keep), last, opened)
<1> DEFINE t == FilterAt(rs, keep)
<1>0. t \in Seq(Row) /\ \E m, at : Picks(t, rs, keep, m, at)
  BY FilterIs
<1> HIDE DEF t
<1>a. PICK m, at : Picks(t, rs, keep, m, at)
  BY <1>0
<1>1. /\ m \in Nat /\ at \in [1 .. m -> keep] /\ DOMAIN t = 1 .. m
      /\ \A r \in 1 .. m : t[r] = rs[at[r]]
      /\ \A r, q \in 1 .. m : r < q => at[r] < at[q]
      /\ \A i \in keep : \E r \in 1 .. m : at[r] = i
  BY <1>a DEF Picks
<1>2. \A r \in 1 .. m : at[r] \in keep /\ at[r] \in DOMAIN rs /\ at[r] \in Nat
  BY <1>1
<1>3. \A r, q \in 1 .. m : at[r] < at[q] => r < q
  <2> SUFFICES ASSUME NEW r \in 1 .. m, NEW q \in 1 .. m, at[r] < at[q] PROVE r < q
    OBVIOUS
  <2>1. at[r] \in Nat /\ at[q] \in Nat
    BY <1>2
  <2>2. q # r
    BY <2>1
  <2>3. q < r => at[q] < at[r]
    BY <1>1
  <2> QED BY <2>1, <2>2, <2>3
<1>4. \A r \in DOMAIN t : RowOK(t[r], last)
  BY <1>1, <1>2 DEF Whole
<1>5. \A r, q \in DOMAIN t : r < q => t[r].id < t[q].id
  <2> SUFFICES ASSUME NEW r \in 1 .. m, NEW q \in 1 .. m, r < q PROVE t[r].id < t[q].id
    BY <1>1
  <2>1. at[r] < at[q] /\ at[r] \in DOMAIN rs /\ at[q] \in DOMAIN rs
    BY <1>1, <1>2
  <2>2. rs[at[r]].id < rs[at[q]].id
    BY <2>1 DEF Whole
  <2> QED BY <1>1, <2>2
<1>6. \A r, q \in DOMAIN t : r # q => CallIds(t[r].calls) \cap CallIds(t[q].calls) = {}
  <2> SUFFICES ASSUME NEW r \in 1 .. m, NEW q \in 1 .. m, r # q
               PROVE  CallIds(t[r].calls) \cap CallIds(t[q].calls) = {}
    BY <1>1
  <2>1. at[r] # at[q]
    <3>1. r < q \/ q < r
      OBVIOUS
    <3> QED BY <1>1, <1>2, <3>1
  <2>2. CallIds(rs[at[r]].calls) \cap CallIds(rs[at[q]].calls) = {}
    BY <1>2, <2>1 DEF Whole
  <2> QED BY <1>1, <2>2
<1>7. ASSUME NEW q \in DOMAIN t, t[q].kind = "tool" PROVE \E r \in DOMAIN t : Follows(t, r, q)
  <2>1. PICK i \in DOMAIN rs : Follows(rs, i, at[q])
    BY <1>1, <1>2, <1>7 DEF Whole
  <2>2. PICK r \in 1 .. m : at[r] = i
    BY <1>1, <1>2, <1>7, <2>1
  <2>3. r < q /\ t[r] = rs[i] /\ t[q] = rs[at[q]]
    BY <1>1, <1>3, <1>7, <2>1, <2>2 DEF Follows
  <2>4. ASSUME NEW k \in 1 .. m, r < k, k <= q
        PROVE  t[k].kind \in {"tool", "sent"} /\ t[k].by = t[r].by
    <3>0. r \in 1 .. m /\ q \in 1 .. m /\ (k = q \/ k < q)
      BY <1>1, <1>7, <2>4
    <3>1. i < at[k] /\ at[k] <= at[q]
      BY <1>1, <1>2, <3>0, <2>2, <2>4
    <3> QED BY <1>1, <1>2, <2>1, <2>3, <3>1 DEF Follows
  <2>5. Follows(t, r, q)
    BY <1>1, <1>7, <2>1, <2>3, <2>4 DEF Follows
  <2> QED BY <1>1, <2>5
<1>8. ASSUME NEW r \in DOMAIN t, NEW c \in CallIds(t[r].calls), c \notin opened
      PROVE  \E q \in DOMAIN t : t[q].kind = "tool" /\ t[q].of = c
  <2>0. at[r] \in DOMAIN rs /\ c \in CallIds(rs[at[r]].calls) /\ c \notin open
    BY <1>1, <1>2, <1>8
  <2>1. PICK j \in DOMAIN rs : rs[j].kind = "tool" /\ rs[j].of = c
    BY <2>0 DEF Whole
  <2>2. j \in keep
    BY <1>8, <2>1
  <2>3. PICK q \in 1 .. m : at[q] = j
    BY <1>1, <2>2
  <2> QED BY <1>1, <2>1, <2>3
<1>9. Whole(t, last, opened)
  BY <1>4, <1>5, <1>6, <1>7, <1>8 DEF Whole
<1> QED BY <1>9 DEF t

-----------------------------------------------------------------------------
\* The request.

\* What of the rows an agent reads.
LEMMA HistoryIs ==
  ASSUME NEW agent, NEW rs \in Seq(Row)
  PROVE  LET h == History(agent, rs)
             l == LastSummary(rs)
         IN  /\ DOMAIN h = {i \in 1 .. Len(rs) - l :
                              AsRead(agent, SinceCompaction(rs), i).kind \in {"user", "assistant", "tool"}}
             /\ \A i \in DOMAIN h : h[i] = AsRead(agent, SinceCompaction(rs), i)
BY RestIs DEF History, Restrict

\* What of a row reads as it is.
LEMMA AsReadKeeps ==
  ASSUME NEW agent, NEW rs, NEW i, rs[i] \in Row
  PROVE  /\ AsRead(agent, rs, i).id = rs[i].id /\ AsRead(agent, rs, i).by = rs[i].by
         /\ AsRead(agent, rs, i).of = rs[i].of
BY DEF AsRead, Row

\* Its own rows, and all rows in a chat that is no group, it reads as they are.
LEMMA AsReadOwn ==
  ASSUME NEW agent, NEW rs, NEW i, ~IsGroup \/ rs[i].kind = "user" \/ rs[i].by = agent
  PROVE  AsRead(agent, rs, i) = rs[i]
BY DEF AsRead

\* Of others it reads replies only, as what a user says, and no calls.
LEMMA AsReadForeign ==
  ASSUME NEW agent, NEW rs, NEW i, rs[i] \in Row,
         IsGroup, rs[i].kind # "user", rs[i].by # agent
  PROVE  /\ AsRead(agent, rs, i).calls = <<>>
         /\ IsReply(rs, i) => AsRead(agent, rs, i).kind = "user"
         /\ ~IsReply(rs, i) => AsRead(agent, rs, i).kind = "left out"
BY DEF AsRead, Row

\* Trimming keeps the end of what is read, from the start of a turn.
LEMMA TrimmedIs ==
  ASSUME NEW h, NEW n \in Nat, DOMAIN h \in SUBSET (1 .. n)
  PROVE  /\ \A i \in DOMAIN Trimmed(h) : i \in DOMAIN h /\ Trimmed(h)[i] = h[i]
         /\ DOMAIN h # {} => \E s \in DOMAIN h :
              /\ h[s].kind = "user" \/ \A j \in DOMAIN h : s <= j
              /\ \A i \in DOMAIN h : i \in DOMAIN Trimmed(h) <=> s <= i
         /\ DOMAIN h = {} => DOMAIN Trimmed(h) = {}
<1> DEFINE fit == {i \in TurnStarts(h) : \/ Cardinality({j \in DOMAIN h : i <= j}) <= ContextSize
                                         \/ \A j \in TurnStarts(h) : j <= i}
           kept == {j \in DOMAIN h : \E i \in fit : i <= j}
<1>1. Trimmed(h) = Restrict(h, kept)
  BY DEF Trimmed
<1>2. DOMAIN Trimmed(h) = kept /\ \A i \in kept : Trimmed(h)[i] = h[i]
  BY <1>1 DEF Restrict
<1>3. TurnStarts(h) \in SUBSET (DOMAIN h) /\ fit \in SUBSET (DOMAIN h) /\ DOMAIN h \subseteq Nat
  BY DEF TurnStarts
<1>4. ASSUME DOMAIN h # {} PROVE fit # {}
  <2>1. PICK f \in DOMAIN h : \A j \in DOMAIN h : f <= j
    BY <1>3, <1>4, LeastExists
  <2>2. TurnStarts(h) # {} /\ TurnStarts(h) \in SUBSET (1 .. n)
    BY <1>3, <2>1 DEF TurnStarts
  <2>3. PICK g \in TurnStarts(h) : \A j \in TurnStarts(h) : j <= g
    BY <2>2, GreatestExists
  <2> QED BY <2>3
<1>5. ASSUME DOMAIN h # {}
      PROVE  \E s \in DOMAIN h :
               /\ h[s].kind = "user" \/ \A j \in DOMAIN h : s <= j
               /\ \A i \in DOMAIN h : i \in kept <=> s <= i
  <2> HIDE DEF fit
  <2>1. PICK s \in fit : \A j \in fit : s <= j
    BY <1>3, <1>4, <1>5, LeastExists
  <2>2. s \in TurnStarts(h) /\ s \in DOMAIN h
    BY <1>3, <2>1 DEF fit
  <2>3. ASSUME NEW i \in DOMAIN h, NEW j \in fit, j <= i PROVE s <= i
    <3>1. s \in Nat /\ j \in Nat /\ i \in Nat /\ s <= j
      BY <1>3, <2>1, <2>3
    <3> QED BY <2>3, <3>1
  <2> QED BY <2>1, <2>2, <2>3 DEF TurnStarts
<1>6. DOMAIN h = {} => kept = {}
  OBVIOUS
<1> QED BY <1>2, <1>5, <1>6

\* A call and its result are read together, with nothing between that starts a turn.
LEMMA ReadTogether ==
  ASSUME NEW agent, NEW rs \in Seq(Row), NEW a \in DOMAIN rs, NEW b \in DOMAIN rs,
         Follows(rs, a, b), LastSummary(rs) < b, ~IsGroup \/ rs[b].by = agent
  PROVE  LET H == History(agent, rs)
             i == a - LastSummary(rs)
             j == b - LastSummary(rs)
         IN  /\ i \in DOMAIN H /\ j \in DOMAIN H /\ i < j
             /\ H[i] = rs[a] /\ H[j] = rs[b]
             /\ \A k \in DOMAIN H : k \in i .. j => H[k].kind # "user"
             /\ i \in DOMAIN Trimmed(H) <=> j \in DOMAIN Trimmed(H)
<1> DEFINE l == LastSummary(rs)
           rest == SinceCompaction(rs)
           H == History(agent, rs)
           n == Len(rs)
           i == a - l
           j == b - l
<1>1. l \in 0 .. n /\ (l = 0 \/ rs[l].kind = "summary")
  BY LastSummaryIs
<1>2. rest \in Seq(Row) /\ DOMAIN rest = 1 .. n - l /\ \A k \in 1 .. n - l : rest[k] = rs[l + k] /\ rest[k] \in Row
  BY RestIs
<1>3. /\ DOMAIN H = {k \in 1 .. n - l : AsRead(agent, rest, k).kind \in {"user", "assistant", "tool"}}
      /\ \A k \in DOMAIN H : H[k] = AsRead(agent, rest, k)
  BY HistoryIs
<1>4. n \in Nat /\ a \in 1 .. n /\ b \in 1 .. n /\ a < b /\ l < b
  BY DEF Follows
<1>5. rs[a].kind = "assistant" /\ rs[b].kind = "tool"
  BY DEF Follows
<1>6. \A k \in 1 .. n : a < k /\ k <= b => rs[k].kind \in {"tool", "sent"} /\ rs[k].by = rs[a].by
  BY <1>4 DEF Follows
<1> HIDE DEF l, rest, H, n
<1>7. l < a
  <2> SUFFICES ASSUME ~(l < a) PROVE FALSE
    OBVIOUS
  <2>1. l \in 1 .. n /\ a <= l /\ l <= b
    BY <1>1, <1>4
  <2>2. rs[l].kind = "summary"
    BY <1>1, <2>1
  <2>3. a # l
    BY <1>5, <2>2
  <2> QED BY <1>6, <2>1, <2>2, <2>3
<1>8. /\ i \in 1 .. n - l /\ j \in 1 .. n - l /\ i < j
      /\ l + i = a /\ l + j = b
  BY <1>1, <1>4, <1>7
<1>9. rs[b].by = rs[a].by
  BY <1>4, <1>6
<1>10. \A k \in 1 .. n - l : i <= k /\ k <= j =>
         AsRead(agent, rest, k) = rs[l + k] /\ rs[l + k].kind # "user"
  <2> SUFFICES ASSUME NEW k \in 1 .. n - l, i <= k, k <= j
               PROVE  AsRead(agent, rest, k) = rs[l + k] /\ rs[l + k].kind # "user"
    OBVIOUS
  <2>1. l + k \in 1 .. n /\ a <= l + k /\ l + k <= b
    <3>1. /\ l \in Nat /\ n \in Nat /\ a \in Nat /\ b \in Nat /\ k \in Nat
          /\ 1 <= k /\ k <= n - l /\ a - l <= k /\ k <= b - l
      BY <1>1, <1>4
    <3> HIDE DEF i, j
    <3> QED BY <3>1
  <2>2. rs[l + k].by = rs[b].by /\ rs[l + k].kind # "user"
    <3>1. CASE l + k = a
      BY <1>5, <1>9, <3>1
    <3>2. CASE a < l + k
      BY <1>6, <1>9, <2>1, <3>2
    <3> QED BY <2>1, <3>1, <3>2, <1>1, <1>4
  <2>3. rest[k] = rs[l + k] /\ rest[k] \in Row
    BY <1>2
  <2>4. ~IsGroup \/ rest[k].by = agent
    BY <2>2, <2>3
  <2>5. AsRead(agent, rest, k) = rest[k]
    BY <2>4, AsReadOwn
  <2> QED BY <2>2, <2>3, <2>5
<1>11. /\ AsRead(agent, rest, i) = rs[a] /\ AsRead(agent, rest, j) = rs[b]
  BY <1>8, <1>10
<1>12. i \in DOMAIN H /\ j \in DOMAIN H /\ H[i] = rs[a] /\ H[j] = rs[b]
  BY <1>3, <1>5, <1>8, <1>11
<1>13. \A k \in DOMAIN H : i <= k /\ k <= j => H[k].kind # "user"
  BY <1>3, <1>10
<1>14. i \in DOMAIN Trimmed(H) <=> j \in DOMAIN Trimmed(H)
  <2>0. DOMAIN H \in SUBSET (1 .. n) /\ DOMAIN H # {}
    BY <1>1, <1>3, <1>4, <1>12
  <2>1. PICK s \in DOMAIN H :
          /\ H[s].kind = "user" \/ \A k \in DOMAIN H : s <= k
          /\ \A k \in DOMAIN H : k \in DOMAIN Trimmed(H) <=> s <= k
    BY <1>4, <2>0, TrimmedIs
  <2>2. s \in Nat /\ i \in Nat /\ j \in Nat /\ i < j
    BY <1>8, <2>0
  <2>3. ASSUME s <= j PROVE s <= i
    BY <1>12, <1>13, <2>1, <2>2, <2>3
  <2>4. ASSUME s <= i PROVE s <= j
    BY <2>2, <2>4
  <2> QED BY <1>12, <2>1, <2>3, <2>4
<1>15. \A k \in DOMAIN H : k \in i .. j => H[k].kind # "user"
  BY <1>13
<1> QED BY <1>8, <1>12, <1>14, <1>15 DEF H, l

\* Whatever an agent reads of a whole transcript, its request is whole.
LEMMA RequestIsWhole ==
  ASSUME speech.read \in Seq(Row), Whole(speech.read, lastId, unanswered)
  PROVE  RequestsAreWhole
<1> DEFINE agent == speech.agent
           rs == speech.read
           l == LastSummary(rs)
           rest == SinceCompaction(rs)
           H == History(agent, rs)
           h == Trimmed(H)
           n == Len(rs)
           Belong(i, j) == /\ i < j /\ h[i].kind = "assistant" /\ h[j].kind = "tool"
                           /\ h[j].of \in CallIds(h[i].calls)
                           /\ \A k \in DOMAIN h : k \in i .. j => h[k].kind # "user"
<1>1. l \in 0 .. n /\ n \in Nat
  BY LastSummaryIs
<1>2. rest \in Seq(Row) /\ DOMAIN rest = 1 .. n - l /\ \A k \in 1 .. n - l : rest[k] = rs[l + k] /\ rest[k] \in Row
  BY RestIs
<1>3. /\ DOMAIN H = {k \in 1 .. n - l : AsRead(agent, rest, k).kind \in {"user", "assistant", "tool"}}
      /\ \A k \in DOMAIN H : H[k] = AsRead(agent, rest, k)
  BY HistoryIs
<1>4. \A k \in DOMAIN h : k \in DOMAIN H /\ h[k] = H[k]
  <2>1. DOMAIN H \in SUBSET (1 .. n)
    BY <1>1, <1>3
  <2> HIDE DEF H
  <2> QED BY <1>1, <2>1, TrimmedIs
<1>5. Request = h
  BY DEF Request
<1>6. \A a, b \in DOMAIN rs : Follows(rs, a, b) /\ l < b /\ (~IsGroup \/ rs[b].by = agent) =>
        /\ a - l \in DOMAIN H /\ b - l \in DOMAIN H /\ a - l < b - l
        /\ H[a - l] = rs[a] /\ H[b - l] = rs[b]
        /\ \A k \in DOMAIN H : k \in a - l .. b - l => H[k].kind # "user"
        /\ a - l \in DOMAIN h <=> b - l \in DOMAIN h
  BY ReadTogether
<1> HIDE DEF h, H, rest, l, n
<1>7. \A a, b \in DOMAIN rs : Follows(rs, a, b) /\ l < b /\ (~IsGroup \/ rs[b].by = agent)
                              /\ (a - l \in DOMAIN h \/ b - l \in DOMAIN h) =>
        /\ a - l \in DOMAIN h /\ b - l \in DOMAIN h /\ Belong(a - l, b - l)
        /\ h[a - l] = rs[a] /\ h[b - l] = rs[b]
  <2> SUFFICES ASSUME NEW a \in DOMAIN rs, NEW b \in DOMAIN rs, Follows(rs, a, b), l < b,
                      ~IsGroup \/ rs[b].by = agent, a - l \in DOMAIN h \/ b - l \in DOMAIN h
               PROVE  /\ a - l \in DOMAIN h /\ b - l \in DOMAIN h /\ Belong(a - l, b - l)
                      /\ h[a - l] = rs[a] /\ h[b - l] = rs[b]
    OBVIOUS
  <2>1. /\ a - l < b - l /\ H[a - l] = rs[a] /\ H[b - l] = rs[b]
        /\ \A k \in DOMAIN H : k \in a - l .. b - l => H[k].kind # "user"
        /\ a - l \in DOMAIN h /\ b - l \in DOMAIN h
    BY <1>6
  <2>2. h[a - l] = rs[a] /\ h[b - l] = rs[b]
    BY <1>4, <2>1
  <2>3. \A k \in DOMAIN h : k \in a - l .. b - l => h[k].kind # "user"
    BY <1>4, <2>1
  <2> QED BY <2>1, <2>2, <2>3 DEF Follows
<1>8. ASSUME NEW j \in DOMAIN h, h[j].kind = "tool" PROVE \E i \in DOMAIN h : Belong(i, j)
  <2>1. j \in 1 .. n - l /\ h[j] = AsRead(agent, rest, j) /\ rest[j] = rs[l + j] /\ rest[j] \in Row
    BY <1>2, <1>3, <1>4
  <2>2. l + j \in DOMAIN rs /\ l < l + j /\ (l + j) - l = j
    <3>1. l + j \in 1 .. n /\ l < l + j /\ (l + j) - l = j
      BY <1>1, <2>1
    <3> QED BY <3>1 DEF n
  <2>3. rs[l + j].kind = "tool" /\ (~IsGroup \/ rs[l + j].by = agent)
    <3>1. AsRead(agent, rest, j).kind = "tool"
      BY <1>8, <2>1
    <3>2. ~IsGroup \/ rest[j].kind = "user" \/ rest[j].by = agent
      <4> SUFFICES ASSUME IsGroup, rest[j].kind # "user", rest[j].by # agent PROVE FALSE
        OBVIOUS
      <4>1. AsRead(agent, rest, j).kind \in {"user", "left out"}
        BY <2>1, AsReadForeign
      <4> QED BY <3>1, <4>1
    <3>3. AsRead(agent, rest, j) = rest[j]
      BY <3>2, AsReadOwn
    <3> QED BY <2>1, <3>1, <3>2, <3>3
  <2>4. PICK a \in DOMAIN rs : Follows(rs, a, l + j)
    BY <2>2, <2>3 DEF Whole
  <2>5. a - l \in DOMAIN h /\ Belong(a - l, (l + j) - l)
    BY <1>7, <1>8, <2>2, <2>3, <2>4
  <2> QED BY <2>2, <2>5
<1>9. ASSUME NEW i \in DOMAIN h, NEW c \in CallIds(h[i].calls) \ unanswered
      PROVE  \E j \in DOMAIN h : Belong(i, j) /\ h[j].of = c
  <2>1. i \in 1 .. n - l /\ h[i] = AsRead(agent, rest, i) /\ rest[i] = rs[l + i] /\ rest[i] \in Row
    BY <1>2, <1>3, <1>4
  <2>2. l + i \in DOMAIN rs /\ l < l + i /\ (l + i) - l = i /\ l \in Nat
    <3>1. l + i \in 1 .. n /\ l < l + i /\ (l + i) - l = i /\ l \in Nat
      BY <1>1, <2>1
    <3> QED BY <3>1 DEF n
  <2>3. h[i].calls # <<>>
    BY <1>9 DEF CallIds
  <2>4. rs[l + i].calls = h[i].calls /\ (~IsGroup \/ rs[l + i].kind = "user" \/ rs[l + i].by = agent)
    <3>1. ~IsGroup \/ rest[i].kind = "user" \/ rest[i].by = agent
      <4> SUFFICES ASSUME IsGroup, rest[i].kind # "user", rest[i].by # agent PROVE FALSE
        OBVIOUS
      <4>1. AsRead(agent, rest, i).calls = <<>>
        BY <2>1, AsReadForeign
      <4> QED BY <2>1, <2>3, <4>1
    <3>2. AsRead(agent, rest, i) = rest[i]
      BY <3>1, AsReadOwn
    <3> QED BY <2>1, <3>1, <3>2
  <2>5. rs[l + i].kind = "assistant" /\ (~IsGroup \/ rs[l + i].by = agent)
    <3>1. RowOK(rs[l + i], lastId)
      BY <2>2 DEF Whole
    <3> QED BY <2>3, <2>4, <3>1 DEF RowOK
  <2>6. PICK b \in DOMAIN rs : rs[b].kind = "tool" /\ rs[b].of = c
    BY <1>9, <2>2, <2>4 DEF Whole
  <2>7. PICK a \in DOMAIN rs : Follows(rs, a, b)
    BY <2>6 DEF Whole
  <2>8. a = l + i
    <3>1. c \in CallIds(rs[a].calls) /\ c \in CallIds(rs[l + i].calls)
      BY <1>9, <2>4, <2>6, <2>7 DEF Follows
    <3> QED BY <2>2, <3>1 DEF Whole
  <2>9. rs[b].by = rs[l + i].by /\ l < b
    <3>1. l + i < b /\ b \in Nat /\ rs[b].by = rs[a].by
      BY <2>6, <2>7, <2>8 DEF Follows
    <3> QED BY <2>1, <2>2, <2>8, <3>1
  <2>10. /\ b - l \in DOMAIN h /\ Belong((l + i) - l, b - l) /\ h[b - l] = rs[b]
    BY <1>7, <1>9, <2>2, <2>5, <2>7, <2>8, <2>9
  <2> QED BY <2>2, <2>6, <2>10
<1> QED BY <1>5, <1>8, <1>9 DEF RequestsAreWhole

\* Who may speak: the agent of the chat and its members.
LEMMA SpeakersAre ==
  ASSUME NEW list \in Memberships
  PROVE  /\ Participants(list) \in Seq(Speakers) /\ IsInjective(Participants(list))
         /\ ToSet(Participants(list)) \subseteq Speakers
         /\ IsFiniteSet(ToSet(Participants(list)))
         /\ Participants(list) # <<>>
<1> DEFINE p == Participants(list)
           n == Len(list)
<1>1. list \in Seq(ToSet(list)) /\ IsInjective(list) /\ Chair \notin ToSet(list)
  BY GroupMembersAssumption
<1>2. /\ n \in Nat /\ DOMAIN list = 1 .. n /\ DOMAIN p = 1 .. n + 1
      /\ p[1] = Chair /\ \A i \in 2 .. n + 1 : p[i] = list[i - 1]
      /\ p \in Seq({Chair} \cup ToSet(list))
  BY <1>1 DEF Participants
<1> HIDE DEF p, n
<1>3. \A i \in 1 .. n : list[i] # Chair
  BY <1>1, <1>2 DEF ToSet
<1>4. \A i, j \in 1 .. n : list[i] = list[j] => i = j
  BY <1>1, <1>2 DEF IsInjective
<1>5. IsInjective(p)
  <2> SUFFICES ASSUME NEW i \in 1 .. n + 1, NEW j \in 1 .. n + 1, p[i] = p[j] PROVE i = j
    BY <1>2 DEF IsInjective
  <2>1. CASE i = 1 /\ j = 1
    BY <2>1
  <2>2. CASE i # 1 /\ j # 1
    <3>1. i - 1 \in 1 .. n /\ j - 1 \in 1 .. n /\ p[i] = list[i - 1] /\ p[j] = list[j - 1]
      BY <1>2, <2>2
    <3>2. i - 1 = j - 1
      BY <1>4, <3>1
    <3> QED BY <3>2
  <2>3. CASE i = 1 /\ j # 1
    <3>1. j - 1 \in 1 .. n /\ p[i] = Chair /\ p[j] = list[j - 1]
      BY <1>2, <2>3
    <3> QED BY <1>3, <3>1
  <2>4. CASE i # 1 /\ j = 1
    <3>1. i - 1 \in 1 .. n /\ p[j] = Chair /\ p[i] = list[i - 1]
      BY <1>2, <2>4
    <3> QED BY <1>3, <3>1
  <2> QED BY <2>1, <2>2, <2>3, <2>4
<1>6. ToSet(p) \subseteq Speakers
  BY DEF Speakers, p
<1>7. \A i \in 1 .. n + 1 : p[i] \in Speakers
  BY <1>2, <1>6 DEF ToSet
<1>8. p \in Seq(Speakers)
  BY <1>2, <1>7
<1>9. IsFiniteSet(ToSet(p))
  <2>1. IsFiniteSet(DOMAIN p)
    BY <1>2, FS_Interval
  <2>2. p \in Surjection(DOMAIN p, ToSet(p))
    <3>1. p \in [DOMAIN p -> ToSet(p)]
      BY <1>2 DEF ToSet
    <3>2. \A t \in ToSet(p) : \E s \in DOMAIN p : p[s] = t
      BY DEF ToSet
    <3> QED BY <3>1, <3>2 DEF Surjection
  <2> QED BY <2>1, <2>2, FS_Surjection
<1>10. p # <<>>
  BY <1>2
<1> QED BY <1>5, <1>6, <1>8, <1>9, <1>10 DEF p

\* The user is none of them.
LEMMA UserIsNoSpeaker == User \notin Speakers
<1> SUFFICES ASSUME NEW list \in Memberships, User \in ToSet(Participants(list)) PROVE FALSE
  BY DEF Speakers
<1>1. list \in Seq(ToSet(list)) /\ User # Chair /\ User \notin ToSet(list)
  BY GroupMembersAssumption, GroupUserAssumption
<1>2. PICK i \in DOMAIN Participants(list) : Participants(list)[i] = User
  BY DEF ToSet
<1>3. i = 1 \/ \E j \in DOMAIN list : Participants(list)[i] = list[j]
  BY <1>1, <1>2 DEF Participants
<1>4. Participants(list)[1] = Chair
  BY <1>1 DEF Participants
<1> QED BY <1>1, <1>2, <1>3, <1>4 DEF ToSet

\* Mentions are listed.
LEMMA MentionsAre == \A names \in Mentions \cup {<<>>} : DOMAIN names \subseteq Nat
BY GroupMentionsAssumption

\* A list in mention order has each of the agents once.
LEMMA OrderIs ==
  ASSUME NEW texts, DOMAIN texts \subseteq Nat, \A i \in DOMAIN texts : DOMAIN texts[i] \subseteq Nat,
         NEW agents, IsFiniteSet(agents), NEW list \in InMentionOrder(texts, agents)
  PROVE  /\ list \in Seq(agents) /\ IsInjective(list) /\ ToSet(list) = agents
         /\ agents # {} => list # <<>>
<1> DEFINE n == Cardinality(agents)
<1>1. n \in Nat /\ list \in [1 .. n -> agents]
  BY FS_CardinalityType DEF InMentionOrder
<1>2. \A a : ~MentionedBefore(texts, a, a)
  <2> SUFFICES ASSUME NEW a, MentionedBefore(texts, a, a) PROVE FALSE
    OBVIOUS
  <2>0. PICK i \in DOMAIN texts : \E k \in DOMAIN texts[i] :
          /\ texts[i][k] = a
          /\ \A j \in DOMAIN texts : \A l \in DOMAIN texts[j] :
               texts[j][l] = a => i < j \/ (i = j /\ k < l)
    BY DEF MentionedBefore
  <2>1. PICK k \in DOMAIN texts[i] :
          /\ texts[i][k] = a
          /\ \A j \in DOMAIN texts : \A l \in DOMAIN texts[j] :
               texts[j][l] = a => i < j \/ (i = j /\ k < l)
    BY <2>0
  <2>2. i < i \/ k < k
    BY <2>1
  <2>3. i \in Nat /\ k \in Nat
    BY <2>1
  <2> QED BY <2>2, <2>3
<1>3. ASSUME NEW p \in 1 .. n, NEW q \in 1 .. n, list[p] = list[q] PROVE p = q
  <2>1. p < q => FALSE
    BY <1>1, <1>2, <1>3 DEF InMentionOrder
  <2>2. q < p => FALSE
    BY <1>1, <1>2, <1>3 DEF InMentionOrder
  <2> QED BY <1>1, <2>1, <2>2
<1>4. list \in Injection(1 .. n, agents)
  BY <1>1, <1>3 DEF Injection, IsInjective
<1>5. IsFiniteSet(1 .. n) /\ Cardinality(1 .. n) = n
  BY <1>1, FS_Interval
<1>6. list \in Surjection(1 .. n, agents)
  BY <1>4, <1>5, FS_Injection
<1>7. ToSet(list) = agents
  BY <1>1, <1>6 DEF Surjection, ToSet
<1>8. agents # {} => list # <<>>
  BY <1>1, <1>7 DEF ToSet
<1> QED BY <1>1, <1>4, <1>7, <1>8 DEF Injection

\* Whoever is mentioned takes part.
LEMMA MentionedAre ==
  ASSUME NEW list \in Memberships, NEW texts
  PROVE  /\ Mentioned(list, texts) \subseteq Speakers
         /\ Mentioned(list, texts) \subseteq ToSet(Participants(list))
         /\ \A A \in SUBSET Mentioned(list, texts) : IsFiniteSet(A)
<1>1. Mentioned(list, texts) \subseteq ToSet(Participants(list))
  BY DEF Mentioned
<1> QED BY <1>1, SpeakersAre, FS_Subset

\* Of one text, who is mentioned is listed there.
LEMMA OneText ==
  ASSUME NEW names \in Mentions \cup {<<>>}
  PROVE  /\ DOMAIN <<names>> = {1} /\ DOMAIN <<names>> \subseteq Nat
         /\ \A i \in DOMAIN <<names>> : DOMAIN (<<names>>[i]) \subseteq Nat
BY MentionsAre

\* Who answers a user's message: each once, those mentioned, or all if nobody is.
LEMMA RespondersAre ==
  ASSUME NEW list \in Memberships, NEW names \in Mentions, NEW r \in RespondersFor(list, names)
  PROVE  /\ r \in Seq(Speakers) /\ IsInjective(r) /\ r # <<>>
         /\ Mentioned(list, <<names>>) \subseteq ToSet(r)
         /\ Mentioned(list, <<names>>) = {} => ToSet(Participants(list)) \subseteq ToSet(r)
<1> DEFINE asked == Mentioned(list, <<names>>)
<1>1. CASE asked = {}
  <2>1. r = Participants(list)
    BY <1>1 DEF RespondersFor
  <2> QED BY <1>1, <2>1, SpeakersAre
<1>2. CASE asked # {}
  <2>1. r \in InMentionOrder(<<names>>, asked)
    BY <1>2 DEF RespondersFor
  <2>2. asked \subseteq Speakers /\ IsFiniteSet(asked)
    BY MentionedAre
  <2> HIDE DEF asked
  <2>3. r \in Seq(asked) /\ IsInjective(r) /\ ToSet(r) = asked /\ r # <<>>
    BY <1>2, <2>1, <2>2, OneText, OrderIs
  <2>4. r \in Seq(Speakers)
    BY <2>2, <2>3
  <2> QED BY <1>2, <2>3, <2>4 DEF asked
<1> QED BY <1>1, <1>2

\* To whom replies hand on: each once, those mentioned who had no turn yet.
LEMMA HandedOnAre ==
  ASSUME GroupTypeOK, NEW next \in HandedOn
  PROVE  /\ next \in Seq(Speakers) /\ IsInjective(next)
         /\ ToSet(next) \cap (round.answered \cup ToSet(round.waiting)) = {}
         /\ round.chat # <<>> =>
              \A i \in TurnReplies :
                Mentioned(round.chat, <<messages[i].names>>)
                  \subseteq round.answered \cup ToSet(round.waiting) \cup ToSet(next)
<1> DEFINE texts == [i \in TurnReplies |-> messages[i].names]
           due == round.answered \cup ToSet(round.waiting)
           handed == Mentioned(round.chat, texts) \ due
<1>1. CASE round.chat = <<>>
  <2>1. next = <<>>
    BY <1>1 DEF HandedOn
  <2> QED BY <1>1, <2>1 DEF IsInjective, ToSet
<1>2. CASE round.chat # <<>>
  <2>1. round.chat \in Memberships
    BY <1>2 DEF GroupTypeOK
  <2>2. next \in InMentionOrder(texts, handed)
    BY <1>2 DEF HandedOn, Handoffs
  <2>3. /\ handed \subseteq Speakers /\ IsFiniteSet(handed)
    BY <2>1, MentionedAre
  <2>4. /\ DOMAIN texts \subseteq Nat
        /\ \A i \in DOMAIN texts : texts[i] \in Mentions \cup {<<>>}
    <3>1. TurnReplies \subseteq DOMAIN messages /\ DOMAIN messages \subseteq Nat
      BY DEF TurnReplies, GroupTypeOK
    <3>2. \A i \in DOMAIN messages : messages[i] \in Row
      BY DEF GroupTypeOK
    <3>3. \A r \in Row : r.names \in Mentions \cup {<<>>}
      BY DEF Row
    <3> QED BY <3>1, <3>2, <3>3
  <2>5. \A i \in DOMAIN texts : DOMAIN texts[i] \subseteq Nat
    BY <2>4, MentionsAre
  <2>6. \A i \in TurnReplies :
          Mentioned(round.chat, <<messages[i].names>>) \subseteq Mentioned(round.chat, texts)
    <3>1. \A i \in TurnReplies : ToSet(messages[i].names) \subseteq UNION {ToSet(texts[k]) : k \in DOMAIN texts}
      OBVIOUS
    <3>2. \A i \in TurnReplies : UNION {ToSet(<<messages[i].names>>[k]) : k \in DOMAIN <<messages[i].names>>}
                                  \subseteq ToSet(messages[i].names)
      OBVIOUS
    <3> QED BY <3>1, <3>2 DEF Mentioned
  <2> HIDE DEF texts, handed
  <2>7. next \in Seq(handed) /\ IsInjective(next) /\ ToSet(next) = handed
    BY <2>2, <2>3, <2>4, <2>5, OrderIs
  <2>8. next \in Seq(Speakers)
    BY <2>3, <2>7
  <2>9. handed \cap due = {} /\ Mentioned(round.chat, texts) \subseteq due \cup handed
    BY DEF handed
  <2> QED BY <2>6, <2>7, <2>8, <2>9
<1> QED BY <1>1, <1>2

-----------------------------------------------------------------------------
\* Rows that a turn adds.

\* The rows new are the rows old and rows of the user and of who, with ids after last, none a summary.
Extended(old, new, who, last) ==
  /\ new \in Seq(Row) /\ Len(old) <= Len(new)
  /\ \A i \in DOMAIN old : new[i] = old[i]
  /\ \A i \in DOMAIN new : Len(old) < i =>
       new[i].by \in {User, who} /\ new[i].kind # "summary" /\ last < new[i].id

\* No row more.
LEMMA ExtendedSame ==
  ASSUME NEW old \in Seq(Row), NEW who, NEW last PROVE Extended(old, old, who, last)
BY DEF Extended

\* A row more of such rows.
LEMMA ExtendedAppend ==
  ASSUME NEW old \in Seq(Row), NEW new, NEW who, NEW last, Extended(old, new, who, last),
         NEW row \in Row, row.by \in {User, who}, row.kind # "summary", last < row.id
  PROVE  Extended(old, Append(new, row), who, last)
<1> DEFINE t == Append(new, row)
           n == Len(new)
           m == Len(old)
<1>1. /\ n \in Nat /\ DOMAIN new = 1 .. n /\ DOMAIN t = 1 .. n + 1
      /\ \A i \in 1 .. n : t[i] = new[i]
      /\ t[n + 1] = row /\ t \in Seq(Row) /\ Len(t) = n + 1
      /\ m \in Nat /\ DOMAIN old = 1 .. m
  BY AppendIs DEF Extended
<1>2. /\ m <= n /\ \A i \in 1 .. m : new[i] = old[i]
      /\ \A i \in 1 .. n : m < i =>
           new[i].by \in {User, who} /\ new[i].kind # "summary" /\ last < new[i].id
  BY <1>1 DEF Extended
<1> HIDE DEF t, n, m
<1>3. \A i \in 1 .. m : t[i] = old[i]
  BY <1>1, <1>2
<1>4. \A i \in 1 .. n + 1 : m < i =>
           t[i].by \in {User, who} /\ t[i].kind # "summary" /\ last < t[i].id
  <2> SUFFICES ASSUME NEW i \in 1 .. n + 1, m < i
               PROVE  t[i].by \in {User, who} /\ t[i].kind # "summary" /\ last < t[i].id
    OBVIOUS
  <2>1. CASE i \in 1 .. n
    BY <1>1, <1>2, <2>1
  <2>2. CASE i = n + 1
    BY <1>1, <2>2
  <2> QED BY <1>1, <2>1, <2>2
<1>5. Extended(old, t, who, last)
  BY <1>1, <1>2, <1>3, <1>4 DEF Extended, m
<1> QED BY <1>5 DEF t

\* A reply stays one, and no row becomes one, when others add rows.
LEMMA ReplyStays ==
  ASSUME NEW old \in Seq(Row), NEW new, NEW who, NEW last, Extended(old, new, who, last),
         NEW i \in DOMAIN old, old[i].by \notin {User, who}
  PROVE  IsReply(new, i) <=> IsReply(old, i)
<1> DEFINE m == Len(old)
<1>1. /\ m \in Nat /\ DOMAIN old = 1 .. m /\ \A k \in 1 .. m : new[k] = old[k]
      /\ DOMAIN new = 1 .. Len(new) /\ Len(new) \in Nat /\ m <= Len(new)
  BY DEF Extended
<1>2. \A j \in DOMAIN new : new[j].by = old[i].by => j \in 1 .. m
  BY <1>1 DEF Extended
<1>3. \A j \in 1 .. m : SameRound(new, i, j) <=> SameRound(old, i, j)
  BY <1>1 DEF SameRound
<1>4. new[i] = old[i] /\ 1 .. m \subseteq DOMAIN new
  BY <1>1
<1> HIDE DEF m
<1>5. (\A j \in DOMAIN new : new[j].kind = "sent" /\ new[j].by = new[i].by => ~SameRound(new, i, j))
      <=> (\A j \in DOMAIN old : old[j].kind = "sent" /\ old[j].by = old[i].by => ~SameRound(old, i, j))
  BY <1>1, <1>2, <1>3, <1>4
<1> QED BY <1>4, <1>5 DEF IsReply

\* Rows are added one by one.
LEMMA ThreeRows ==
  ASSUME NEW seq \in Seq(Row), NEW a \in Row, NEW b \in Row, NEW c \in Row
  PROVE  /\ seq \o <<a, b, c>> = Append(Append(Append(seq, a), b), c)
         /\ Append(Append(Append(seq, a), b), c) \in Seq(Row)
OBVIOUS

LEMMA TwoRows ==
  ASSUME NEW seq \in Seq(Row), NEW a \in Row, NEW b \in Row
  PROVE  /\ seq \o <<a, b>> = Append(Append(seq, a), b) /\ Len(<<a, b>>) = 2
         /\ Append(Append(seq, a), b) \in Seq(Row)
OBVIOUS

LEMMA OneRow ==
  ASSUME NEW seq \in Seq(Row), NEW a \in Row
  PROVE  seq \o <<a>> = Append(seq, a) /\ Len(<<a>>) = 1 /\ Append(seq, a) \in Seq(Row)
OBVIOUS

\* The rows that the actions make.
LEMMA NewMessageIs ==
  ASSUME GroupTypeOK, NEW n \in Nat, NEW kind \in Kinds, NEW by \in Speakers \cup {User}
  PROVE  /\ NewMessage(n, kind, by) \in Row
         /\ NewMessage(n, kind, by).id = lastId + n /\ NewMessage(n, kind, by).kind = kind
         /\ NewMessage(n, kind, by).by = by /\ NewMessage(n, kind, by).calls = <<>>
         /\ NewMessage(n, kind, by).names = <<>> /\ NewMessage(n, kind, by).of = 0
<1>1. lastId + n \in Nat /\ <<>> \in Seq(Call) /\ "none" \in Tools /\ {} \in SUBSET Nat
  BY DEF GroupTypeOK, Tools
<1> QED BY <1>1 DEF NewMessage, Row

LEMMA UserMessageIs ==
  ASSUME GroupTypeOK, NEW names \in Mentions \cup {<<>>}
  PROVE  LET r == UserMessage(names)
         IN  /\ r \in Row /\ r.id = lastId + 1 /\ r.kind = "user" /\ r.by = User
             /\ r.calls = <<>> /\ r.names = names /\ r.of = 0
<1>1. "user" \in Kinds
  BY DEF Kinds
<1> DEFINE m == NewMessage(1, "user", User)
<1>m. /\ m \in Row /\ m.id = lastId + 1 /\ m.kind = "user" /\ m.by = User
      /\ m.calls = <<>> /\ m.names = <<>> /\ m.of = 0
  <2>1. 1 \in Nat /\ User \in Speakers \cup {User}
    OBVIOUS
  <2> QED BY <1>1, <2>1, NewMessageIs
<1> HIDE DEF m
<1> QED BY <1>1, <1>m DEF UserMessage, m, Row

LEMMA SentMessageIs ==
  ASSUME GroupTypeOK, NEW n \in Nat, NEW names \in Mentions \cup {<<>>}
  PROVE  LET r == SentMessage(n, names)
         IN  /\ r \in Row /\ r.id = lastId + n /\ r.kind = "sent" /\ r.by = speech.agent
             /\ r.calls = <<>> /\ r.names = names /\ r.of = 0
<1>1. "sent" \in Kinds /\ speech.agent \in Speakers \cup {User}
  BY DEF Kinds, GroupTypeOK
<1> DEFINE m == NewMessage(n, "sent", speech.agent)
<1>m. /\ m \in Row /\ m.id = lastId + n /\ m.kind = "sent" /\ m.by = speech.agent
      /\ m.calls = <<>> /\ m.names = <<>> /\ m.of = 0
  BY <1>1, NewMessageIs
<1> HIDE DEF m
<1> QED BY <1>1, <1>m DEF SentMessage, m, Row

LEMMA ResultOfIs ==
  ASSUME GroupTypeOK, NEW n \in Nat, NEW c \in Call
  PROVE  LET r == ResultOf(n, c)
         IN  /\ r \in Row /\ r.id = lastId + n /\ r.kind = "tool" /\ r.by = speech.agent
             /\ r.calls = <<>> /\ r.names = <<>> /\ r.of = c.id
<1>1. "tool" \in Kinds /\ speech.agent \in Speakers \cup {User}
  BY DEF Kinds, GroupTypeOK
<1>2. c.id \in Nat /\ c.tool \in Tools
  BY DEF Call
<1> DEFINE m == NewMessage(n, "tool", speech.agent)
<1>m. /\ m \in Row /\ m.id = lastId + n /\ m.kind = "tool" /\ m.by = speech.agent
      /\ m.calls = <<>> /\ m.names = <<>> /\ m.of = 0
  BY <1>1, <1>2, NewMessageIs
<1> HIDE DEF m
<1> QED BY <1>1, <1>2, <1>m DEF ResultOf, m, Row

\* What the model answers.
AnswerCalls(uses) == [i \in DOMAIN uses |-> [id |-> lastId + 1 + i, tool |-> uses[i]]]
\* The row of an answer.
Answer(says, names, calls) ==
  [NewMessage(1, "assistant", speech.agent) EXCEPT !.says = says, !.names = names, !.calls = calls]

\* Its calls have ids of their own.
LEMMA AnswerCallsAre ==
  ASSUME GroupTypeOK, NEW uses \in Uses
  PROVE  /\ AnswerCalls(uses) \in Seq(Call) /\ Len(uses) \in Nat
         /\ AnswerCalls(uses) = <<>> <=> uses = <<>>
         /\ CallIds(AnswerCalls(uses)) \subseteq lastId + 2 .. lastId + 1 + Len(uses)
<1>1. uses \in Seq(ToSet(uses)) /\ lastId \in Nat
  BY GroupUsesAssumption DEF GroupTypeOK
<1>2. Len(uses) \in Nat /\ DOMAIN uses = 1 .. Len(uses)
      /\ \A i \in 1 .. Len(uses) : uses[i] \in ToSet(uses)
  BY <1>1
<1>3. ToSet(uses) \subseteq Tools
  BY DEF Tools
<1>4. \A i \in 1 .. Len(uses) : [id |-> lastId + 1 + i, tool |-> uses[i]] \in Call
  BY <1>1, <1>2, <1>3 DEF Call
<1>5. AnswerCalls(uses) \in [1 .. Len(uses) -> Call]
  BY <1>2, <1>4 DEF AnswerCalls
<1>6. AnswerCalls(uses) \in Seq(Call)
  BY <1>2, <1>5
<1>7. AnswerCalls(uses) = <<>> <=> uses = <<>>
  BY <1>1, <1>2, <1>5, <1>6
<1>8. CallIds(AnswerCalls(uses)) \subseteq lastId + 2 .. lastId + 1 + Len(uses)
  BY <1>1, <1>2 DEF CallIds, AnswerCalls
<1> QED BY <1>2, <1>6, <1>7, <1>8

\* It is the speaker's.
LEMMA AnswerIs ==
  ASSUME GroupTypeOK, NEW says \in BOOLEAN, NEW names \in Mentions \cup {<<>>},
         NEW calls \in Seq(Call)
  PROVE  LET r == Answer(says, names, calls)
         IN  /\ r \in Row /\ r.id = lastId + 1 /\ r.kind = "assistant" /\ r.by = speech.agent
             /\ r.calls = calls /\ r.names = names /\ r.of = 0
<1>1. "assistant" \in Kinds /\ speech.agent \in Speakers \cup {User}
  BY DEF Kinds, GroupTypeOK
<1> DEFINE m == NewMessage(1, "assistant", speech.agent)
<1>m. /\ m \in Row /\ m.id = lastId + 1 /\ m.kind = "assistant" /\ m.by = speech.agent
      /\ m.calls = <<>> /\ m.names = <<>> /\ m.of = 0
  BY <1>1, NewMessageIs
<1> HIDE DEF m
<1> QED BY <1>1, <1>m DEF Answer, m, Row

\* A CLI's answer stands second of its three rows.
CliCall == [id |-> lastId + 4, tool |-> SendTool]
CliAnswer == [NewMessage(2, "assistant", speech.agent) EXCEPT !.calls = <<CliCall>>]

LEMMA CliAnswerIs ==
  ASSUME GroupTypeOK
  PROVE  /\ CliCall \in Call /\ CliCall.id = lastId + 4
         /\ CliAnswer \in Row /\ CliAnswer.id = lastId + 2 /\ CliAnswer.kind = "assistant"
         /\ CliAnswer.by = speech.agent /\ CliAnswer.calls = <<CliCall>>
         /\ CliAnswer.names = <<>> /\ CliAnswer.of = 0
         /\ CallIds(CliAnswer.calls) = {lastId + 4}
<1>1. "assistant" \in Kinds /\ speech.agent \in Speakers \cup {User}
  BY DEF Kinds, GroupTypeOK
<1>2. CliCall \in Call /\ CliCall.id = lastId + 4
  BY DEF CliCall, Call, Tools, GroupTypeOK
<1>3. <<CliCall>> \in Seq(Call) /\ CallIds(<<CliCall>>) = {lastId + 4}
  BY <1>2 DEF CallIds
<1> HIDE DEF CliCall
<1> DEFINE m == NewMessage(2, "assistant", speech.agent)
<1>m. /\ m \in Row /\ m.id = lastId + 2 /\ m.kind = "assistant" /\ m.by = speech.agent
      /\ m.calls = <<>> /\ m.names = <<>> /\ m.of = 0
  BY <1>1, <1>2, <1>3, NewMessageIs
<1> HIDE DEF m
<1> QED BY <1>1, <1>2, <1>3, <1>m DEF CliAnswer, m, Row

-----------------------------------------------------------------------------
\* Types.

\* The first call and those left.
LEMMA HeadTailIs ==
  ASSUME NEW S, NEW seq \in Seq(S), seq # <<>>
  PROVE  /\ Head(seq) \in S /\ Tail(seq) \in Seq(S) /\ Head(seq) \in ToSet(seq)
         /\ ToSet(seq) = {Head(seq)} \cup ToSet(Tail(seq))
         /\ \A i \in DOMAIN Tail(seq) : i + 1 \in DOMAIN seq /\ Tail(seq)[i] = seq[i + 1]
         /\ DOMAIN Tail(seq) \subseteq Nat \ {0} /\ 1 \in DOMAIN seq /\ Head(seq) = seq[1]
<1>1. /\ Head(seq) = seq[1] /\ Len(seq) \in Nat \ {0} /\ DOMAIN seq = 1 .. Len(seq)
      /\ Tail(seq) \in Seq(S) /\ DOMAIN Tail(seq) = 1 .. Len(seq) - 1
      /\ \A i \in 1 .. Len(seq) - 1 : Tail(seq)[i] = seq[i + 1]
  OBVIOUS
<1>2. \A i \in 2 .. Len(seq) : i - 1 \in 1 .. Len(seq) - 1 /\ seq[i] = Tail(seq)[i - 1]
  BY <1>1
<1>3. ToSet(seq) \subseteq {Head(seq)} \cup ToSet(Tail(seq))
  <2> SUFFICES ASSUME NEW i \in 1 .. Len(seq) PROVE seq[i] \in {Head(seq)} \cup ToSet(Tail(seq))
    BY <1>1 DEF ToSet
  <2>1. CASE i = 1
    BY <1>1, <2>1
  <2>2. CASE i \in 2 .. Len(seq)
    BY <1>1, <1>2, <2>2 DEF ToSet
  <2> QED BY <1>1, <2>1, <2>2
<1>4. {Head(seq)} \cup ToSet(Tail(seq)) \subseteq ToSet(seq)
  BY <1>1 DEF ToSet
<1> QED BY <1>1, <1>3, <1>4

\* The ids of calls.
LEMMA CallIdsAre ==
  ASSUME NEW calls \in Seq(Call)
  PROVE  CallIds(calls) \subseteq Nat
<1>1. \A i \in DOMAIN calls : calls[i] \in Call
  OBVIOUS
<1> QED BY <1>1 DEF CallIds, Call

\* Rows of which none is newer than the last id.
Dated(rs, last) == rs \in Seq(Row) /\ \A i \in DOMAIN rs : rs[i].id <= last

\* A newer row.
LEMMA DatedAppend ==
  ASSUME NEW last \in Nat, NEW more \in Nat, last <= more, NEW rs, Dated(rs, last),
         NEW row \in Row, row.id <= more
  PROVE  Dated(Append(rs, row), more)
<1> DEFINE t == Append(rs, row)
           n == Len(rs)
<1>1. /\ n \in Nat /\ DOMAIN rs = 1 .. n /\ DOMAIN t = 1 .. n + 1
      /\ \A i \in 1 .. n : t[i] = rs[i] /\ rs[i] \in Row
      /\ t[n + 1] = row /\ t \in Seq(Row)
  BY AppendIs DEF Dated
<1>2. \A i \in 1 .. n : rs[i].id <= last /\ rs[i].id \in Nat
  BY <1>1 DEF Dated, Row
<1> HIDE DEF t, n
<1>3. \A i \in 1 .. n + 1 : t[i].id <= more
  <2> SUFFICES ASSUME NEW i \in 1 .. n + 1 PROVE t[i].id <= more
    OBVIOUS
  <2>1. CASE i \in 1 .. n
    BY <1>1, <1>2, <2>1
  <2>2. CASE i = n + 1
    BY <1>1, <2>2
  <2> QED BY <1>1, <2>1, <2>2
<1>4. Dated(t, more)
  BY <1>1, <1>3 DEF Dated
<1> QED BY <1>4 DEF t

\* Storing one row, two, and the three of a CLI.
LEMMA OneStored ==
  ASSUME GroupTypeOK, NEW row \in Row, row.id = lastId + 1, StoreAll(<<row>>)
  PROVE  /\ messages' = Append(messages, row) /\ lastId' = lastId + 1
         /\ messages' \in Seq(Row) /\ lastId' \in Nat
         /\ \A i \in DOMAIN messages' : messages'[i].id <= lastId'
<1>1. messages' = Append(messages, row) /\ lastId' = lastId + 1 /\ lastId \in Nat
  BY OneRow DEF StoreAll, GroupTypeOK
<1>2. Dated(messages, lastId)
  BY DEF Dated, GroupTypeOK
<1>3. Dated(messages', lastId')
  BY <1>1, <1>2, DatedAppend
<1> QED BY <1>1, <1>3 DEF Dated

LEMMA TwoStored ==
  ASSUME GroupTypeOK, NEW a \in Row, a.id = lastId + 1, NEW b \in Row, b.id = lastId + 2,
         StoreAll(<<a, b>>)
  PROVE  /\ messages' = Append(Append(messages, a), b) /\ lastId' = lastId + 2
         /\ messages' \in Seq(Row) /\ lastId' \in Nat
         /\ \A i \in DOMAIN messages' : messages'[i].id <= lastId'
<1>1. messages' = Append(Append(messages, a), b) /\ lastId' = lastId + 2 /\ lastId \in Nat
  BY TwoRows DEF StoreAll, GroupTypeOK
<1>2. Dated(messages, lastId)
  BY DEF Dated, GroupTypeOK
<1>3. Dated(Append(messages, a), lastId + 1)
  BY <1>1, <1>2, DatedAppend
<1>4. Dated(messages', lastId')
  BY <1>1, <1>3, DatedAppend
<1> QED BY <1>1, <1>4 DEF Dated

LEMMA CliStored ==
  ASSUME GroupTypeOK, NEW a \in Row, a.id = lastId + 1, NEW b \in Row, b.id = lastId + 2,
         NEW c \in Row, c.id = lastId + 3,
         messages' = messages \o <<a, b, c>>, lastId' = lastId + 4
  PROVE  /\ messages' = Append(Append(Append(messages, a), b), c)
         /\ messages' \in Seq(Row) /\ lastId' \in Nat
         /\ \A i \in DOMAIN messages' : messages'[i].id <= lastId'
<1>0. messages \in Seq(Row) /\ lastId \in Nat
  BY DEF GroupTypeOK
<1>1. messages' = Append(Append(Append(messages, a), b), c) /\ lastId \in Nat
  BY <1>0, ThreeRows
<1>2. Dated(messages, lastId)
  BY DEF Dated, GroupTypeOK
<1>3. Dated(Append(messages, a), lastId + 1)
  BY <1>1, <1>2, DatedAppend
<1>4. Dated(Append(Append(messages, a), b), lastId + 2)
  BY <1>1, <1>3, DatedAppend
<1>4a. lastId + 2 \in Nat /\ lastId' \in Nat /\ lastId + 2 <= lastId' /\ c.id <= lastId'
  BY <1>1
<1>5. Dated(messages', lastId')
  BY <1>1, <1>4, <1>4a, DatedAppend
<1>6. lastId' \in Nat
  BY <1>4a
<1>7. messages' \in Seq(Row) /\ \A i \in DOMAIN messages' : messages'[i].id <= lastId'
  BY <1>5 DEF Dated
<1> QED BY <1>1, <1>6, <1>7

\* Disturbances are counted.
LEMMA DisturbIs ==
  ASSUME GroupTypeOK, Disturb PROVE disturbances' \in 0 .. MaxDisturbances
<1>1. MaxDisturbances \in Nat /\ disturbances \in Nat
  BY GroupBoundsAssumption DEF GroupTypeOK
<1> QED BY <1>1 DEF Disturb

\* Who speaks next.
LEMMA CalledIs ==
  ASSUME GroupTypeOK, StagesAgree, doing = "next"
  PROVE  /\ NextSpeaker \in Speakers
         /\ Called \in [chat : Memberships \cup {<<>>}, waiting : Seq(Speakers),
                        answered : SUBSET Speakers, said : SUBSET Nat, from : Nat]
         /\ Called.chat = round.chat /\ Called.waiting = Tail(round.waiting)
         /\ Called.answered = round.answered \cup {NextSpeaker}
         /\ Called.said = round.said /\ Called.from = round.from
         /\ ToSet(round.waiting) = {NextSpeaker} \cup ToSet(Tail(round.waiting))
<1>1. round.waiting \in Seq(Speakers) /\ round.waiting # <<>>
  BY DEF GroupTypeOK, StagesAgree
<1>2. NextSpeaker \in Speakers /\ Tail(round.waiting) \in Seq(Speakers)
      /\ ToSet(round.waiting) = {NextSpeaker} \cup ToSet(Tail(round.waiting))
  BY <1>1, HeadTailIs DEF NextSpeaker
<1> QED BY <1>2 DEF GroupTypeOK, Called

\* What the actions store, in the terms of the lemmas.
LEMMA ModelAnswersIs ==
  ASSUME NEW says, NEW names, NEW uses, ModelAnswers(says, names, uses)
  PROVE  LET calls == AnswerCalls(uses)
             answer == Answer(says, names, calls)
         IN  /\ doing = "model"
             /\ messages' = Append(messages, answer) /\ lastId' = lastId + 1 + Len(uses)
             /\ speech' = [speech EXCEPT !.read = Append(@, answer), !.pending = calls]
             /\ \/ /\ doing' = IF uses = <<>> THEN "stop" ELSE "tools"
                   /\ UNCHANGED <<unanswered, disturbances>>
                \/ /\ doing' = "failed" /\ Disturb
                   /\ unanswered' = unanswered \cup CallIds(calls)
             /\ UNCHANGED <<memberIds, round, summing, aborted>>
BY DEF ModelAnswers, AnswerCalls, Answer

LEMMA CliAnswersIs ==
  ASSUME NEW names, CliAnswers(names)
  PROVE  /\ doing = "model" /\ doing' = "stop"
         /\ messages' = messages \o <<SentMessage(1, names), CliAnswer, ResultOf(3, CliCall)>>
         /\ lastId' = lastId + 4
         /\ speech' = [speech EXCEPT !.read = @ \o <<CliAnswer, ResultOf(3, CliCall)>>]
         /\ UNCHANGED <<memberIds, round, summing, aborted, unanswered, disturbances>>
BY DEF CliAnswers, CliAnswer, CliCall

LEMMA ExecuteToolIs ==
  ASSUME NEW names, NEW sends \in BOOLEAN, ExecuteTool(names, sends)
  PROVE  LET c == Head(speech.pending)
         IN  /\ doing = "tools" /\ doing' = "tools" /\ speech.pending # <<>> /\ ~aborted
             /\ \/ /\ sends = TRUE
                   /\ StoreAll(<<SentMessage(1, names), ResultOf(2, c)>>)
                   /\ speech' = [speech EXCEPT !.read = Append(@, ResultOf(2, c)), !.pending = Tail(@)]
                \/ /\ sends = FALSE /\ names = <<>>
                   /\ StoreAll(<<ResultOf(1, c)>>)
                   /\ speech' = [speech EXCEPT !.read = Append(@, ResultOf(1, c)), !.pending = Tail(@)]
             /\ UNCHANGED <<memberIds, round, summing, aborted, unanswered, disturbances>>
BY DEF ExecuteTool

\* A row more of the type.
LEMMA RowAppended ==
  ASSUME NEW rs \in Seq(Row), NEW row \in Row PROVE Append(rs, row) \in Seq(Row)
OBVIOUS

\* The types of the turn of an agent and of a round.
Speech == [agent : Speakers \cup {User}, read : Seq(Row), pending : Seq(Call),
           step : 0 .. MaxModelSteps, from : Nat]
Round == [chat : Memberships \cup {<<>>}, waiting : Seq(Speakers),
          answered : SUBSET Speakers, said : SUBSET Nat, from : Nat]

\* The type invariant by its parts, whose steps come action by action.
LEMMA GroupTypeParts ==
  GroupTypeOK <=>
  /\ messages \in Seq(Row) /\ lastId \in Nat
  /\ memberIds \in Memberships /\ doing \in Doing
  /\ round \in Round /\ speech \in Speech
  /\ summing \in [on : BOOLEAN, rows : SUBSET Nat]
  /\ aborted \in BOOLEAN /\ unanswered \in SUBSET Nat /\ disturbances \in 0 .. MaxDisturbances
  /\ \A i \in DOMAIN messages : messages[i].id <= lastId
BY DEF GroupTypeOK, Round, Speech

LEMMA SpeechParts ==
  ASSUME speech \in Speech
  PROVE  /\ speech.agent \in Speakers \cup {User} /\ speech.read \in Seq(Row)
         /\ speech.pending \in Seq(Call) /\ speech.step \in 0 .. MaxModelSteps
         /\ speech.from \in Nat
         /\ \A read \in Seq(Row) : [speech EXCEPT !.read = read] \in Speech
         /\ \A read \in Seq(Row), pending \in Seq(Call) :
              [speech EXCEPT !.read = read, !.pending = pending] \in Speech
         /\ \A read \in Seq(Row), step \in 0 .. MaxModelSteps :
              [speech EXCEPT !.read = read, !.step = step] \in Speech
BY DEF Speech

\* Action by action.
LEMMA TypeStartRound ==
  ASSUME GroupTypeOK, NEW names \in Mentions, StartRound(names) PROVE GroupTypeOK'
<1>1. /\ messages' \in Seq(Row) /\ lastId' \in Nat
      /\ \A i \in DOMAIN messages' : messages'[i].id <= lastId'
  BY UserMessageIs, OneStored DEF StartRound
<1>2. PICK r \in RespondersFor(memberIds, names) :
        round' = [NoRound EXCEPT !.chat = memberIds, !.from = lastId + 1, !.waiting = r]
  BY DEF StartRound
<1>3. memberIds \in Memberships /\ lastId + 1 \in Nat
  BY DEF GroupTypeOK
<1>4. r \in Seq(Speakers)
  BY <1>3, RespondersAre
<1>5. round' \in Round
  BY <1>2, <1>3, <1>4 DEF NoRound, Round
<1> QED BY <1>1, <1>5, GroupTypeParts DEF StartRound, GroupTypeParts, GroupTypeOK, Doing, Speech, Round

LEMMA TypeBeginSpeech ==
  ASSUME GroupTypeOK, StagesAgree, NEW withMail \in BOOLEAN, BeginSpeech(withMail)
  PROVE  GroupTypeOK'
<1>1. /\ messages' \in Seq(Row) /\ lastId' \in Nat /\ disturbances' \in 0 .. MaxDisturbances
      /\ \A i \in DOMAIN messages' : messages'[i].id <= lastId'
  <2>1. CASE withMail
    BY <2>1, UserMessageIs, OneStored, DisturbIs DEF BeginSpeech
  <2>2. CASE ~withMail
    BY <2>2 DEF BeginSpeech, GroupTypeOK
  <2> QED BY <2>1, <2>2
<1>2. NextSpeaker \in Speakers /\ round' \in Round
  BY CalledIs DEF BeginSpeech, Round
<1>3. speech' \in Speech
  <2>1. 1 \in 0 .. MaxModelSteps /\ lastId \in Nat
    <3>1. MaxModelSteps \in Nat /\ MaxModelSteps # 0
      BY GroupBoundsAssumption
    <3>2. lastId \in Nat
      BY DEF GroupTypeOK
    <3> QED BY <3>1, <3>2
  <2>2. speech' = [agent |-> NextSpeaker, read |-> messages', pending |-> <<>>, step |-> 1,
                   from |-> lastId]
    BY DEF BeginSpeech, NoSpeech
  <2> QED BY <1>1, <1>2, <2>1, <2>2 DEF Speech
<1> QED BY <1>1, <1>2, <1>3 DEF BeginSpeech, GroupTypeOK, Doing, Speech, Round

LEMMA TypeSteer ==
  ASSUME GroupTypeOK, Steer PROVE GroupTypeOK'
<1>1. /\ messages' \in Seq(Row) /\ lastId' \in Nat /\ disturbances' \in 0 .. MaxDisturbances
      /\ \A i \in DOMAIN messages' : messages'[i].id <= lastId'
  BY UserMessageIs, OneStored, DisturbIs DEF Steer
<1>2. speech \in Speech
  BY GroupTypeParts
<1>3. Append(speech.read, UserMessage(<<>>)) \in Seq(Row)
  BY <1>2, UserMessageIs, RowAppended, SpeechParts
<1>4. (IF doing = "stop" THEN speech.step + 1 ELSE speech.step) \in 0 .. MaxModelSteps
  <2>1. speech.step \in 0 .. MaxModelSteps /\ MaxModelSteps \in Nat
    BY <1>2, SpeechParts, GroupBoundsAssumption
  <2>2. doing = "stop" => speech.step < MaxModelSteps
    BY DEF Steer, MaySteer
  <2> QED BY <2>1, <2>2
<1>5. speech' \in Speech
  BY <1>2, <1>3, <1>4, SpeechParts DEF Steer
<1> QED BY <1>1, <1>5 DEF Steer, GroupTypeOK, Doing, Speech

LEMMA TypeModelAnswers ==
  ASSUME GroupTypeOK, NEW says \in BOOLEAN, NEW names \in Mentions, NEW uses \in Uses,
         ModelAnswers(says, names, uses)
  PROVE  GroupTypeOK'
<1> DEFINE calls == AnswerCalls(uses)
           answer == Answer(says, names, calls)
<1>1. /\ calls \in Seq(Call) /\ answer \in Row /\ answer.id = lastId + 1 /\ Len(uses) \in Nat
  BY AnswerCallsAre, AnswerIs
<1>2. /\ messages' = Append(messages, answer) /\ lastId' = lastId + 1 + Len(uses)
      /\ speech' = [speech EXCEPT !.read = Append(@, answer), !.pending = calls]
      /\ doing' \in {"stop", "tools", "failed"}
      /\ unanswered' \in {unanswered, unanswered \cup CallIds(calls)}
      /\ disturbances' \in {disturbances} \/ Disturb
      /\ UNCHANGED <<memberIds, round, summing, aborted>>
  BY ModelAnswersIs
<1> HIDE DEF calls, answer
<1>3. Dated(messages, lastId) /\ lastId \in Nat /\ lastId' \in Nat /\ lastId <= lastId'
      /\ answer.id <= lastId'
  BY <1>1, <1>2 DEF Dated, GroupTypeOK
<1>4. Dated(messages', lastId')
  BY <1>1, <1>2, <1>3, DatedAppend
<1>5. speech \in Speech
  BY GroupTypeParts
<1>6. speech' \in Speech
  BY <1>1, <1>2, <1>5, RowAppended, SpeechParts
<1>7. unanswered' \in SUBSET Nat
  BY <1>1, <1>2, CallIdsAre DEF GroupTypeOK
<1>8. disturbances' \in 0 .. MaxDisturbances
  BY <1>2, DisturbIs DEF GroupTypeOK
<1> QED BY <1>2, <1>3, <1>4, <1>6, <1>7, <1>8 DEF Dated, GroupTypeOK, Doing, Speech

LEMMA TypeCliAnswers ==
  ASSUME GroupTypeOK, NEW names \in Mentions, CliAnswers(names) PROVE GroupTypeOK'
<1> DEFINE sent == SentMessage(1, names)
           result == ResultOf(3, CliCall)
<1>1. sent \in Row /\ sent.id = lastId + 1
  BY SentMessageIs
<1>2. CliAnswer \in Row /\ CliAnswer.id = lastId + 2 /\ CliCall \in Call
  BY CliAnswerIs
<1>3. result \in Row /\ result.id = lastId + 3
  BY <1>2, ResultOfIs
<1>4. /\ messages' = messages \o <<sent, CliAnswer, result>> /\ lastId' = lastId + 4
      /\ speech' = [speech EXCEPT !.read = @ \o <<CliAnswer, result>>]
      /\ doing' = "stop"
      /\ UNCHANGED <<memberIds, round, summing, aborted, unanswered, disturbances>>
  BY CliAnswersIs
<1> HIDE DEF sent, result
<1>5. /\ messages' \in Seq(Row) /\ lastId' \in Nat
      /\ \A i \in DOMAIN messages' : messages'[i].id <= lastId'
  BY <1>1, <1>2, <1>3, <1>4, CliStored
<1>6. speech \in Speech
  BY GroupTypeParts
<1>7. speech.read \o <<CliAnswer, result>> \in Seq(Row)
  <2>1. speech.read \in Seq(Row)
    BY <1>6, SpeechParts
  <2>2. \A b \in Row : speech.read \o <<CliAnswer, b>> \in Seq(Row)
    BY <1>2, <2>1, TwoRows
  <2> QED BY <1>3, <2>2
<1>8. speech' \in Speech
  BY <1>4, <1>6, <1>7, SpeechParts
<1> QED BY <1>4, <1>5, <1>8 DEF GroupTypeOK, Doing, Speech

LEMMA TypeExecuteTool ==
  ASSUME GroupTypeOK, NEW names \in Mentions \cup {<<>>}, NEW sends \in BOOLEAN,
         ExecuteTool(names, sends)
  PROVE  GroupTypeOK'
<1> DEFINE c == Head(speech.pending)
<1>1. speech \in Speech /\ c \in Call /\ Tail(speech.pending) \in Seq(Call)
      /\ speech.read \in Seq(Row)
  <2>1. speech.pending # <<>>
    BY ExecuteToolIs
  <2> QED BY <2>1, GroupTypeParts, SpeechParts, HeadTailIs
<1>2. /\ UNCHANGED <<memberIds, round, summing, aborted, unanswered, disturbances>>
      /\ doing' = "tools"
  BY ExecuteToolIs
<1>3. CASE sends = TRUE
  <2>1. /\ StoreAll(<<SentMessage(1, names), ResultOf(2, c)>>)
        /\ speech' = [speech EXCEPT !.read = Append(@, ResultOf(2, c)), !.pending = Tail(@)]
    BY <1>3, ExecuteToolIs
  <2> HIDE DEF c
  <2>2. /\ SentMessage(1, names) \in Row /\ SentMessage(1, names).id = lastId + 1
        /\ ResultOf(2, c) \in Row /\ ResultOf(2, c).id = lastId + 2
    BY <1>1, SentMessageIs, ResultOfIs
  <2>3. /\ messages' \in Seq(Row) /\ lastId' \in Nat
        /\ \A i \in DOMAIN messages' : messages'[i].id <= lastId'
    BY <2>1, <2>2, TwoStored
  <2>4. speech' \in Speech
    BY <1>1, <2>1, <2>2, RowAppended, SpeechParts
  <2> QED BY <1>2, <2>3, <2>4 DEF GroupTypeOK, Doing, Speech
<1>4. CASE sends = FALSE
  <2>1. /\ StoreAll(<<ResultOf(1, c)>>)
        /\ speech' = [speech EXCEPT !.read = Append(@, ResultOf(1, c)), !.pending = Tail(@)]
    BY <1>4, ExecuteToolIs
  <2> HIDE DEF c
  <2>2. /\ ResultOf(1, c) \in Row /\ ResultOf(1, c).id = lastId + 1
    BY <1>1, ResultOfIs
  <2>3. /\ messages' \in Seq(Row) /\ lastId' \in Nat
        /\ \A i \in DOMAIN messages' : messages'[i].id <= lastId'
    BY <2>1, <2>2, OneStored
  <2>4. speech' \in Speech
    BY <1>1, <2>1, <2>2, RowAppended, SpeechParts
  <2> QED BY <1>2, <2>3, <2>4 DEF GroupTypeOK, Doing, Speech
<1> QED BY <1>3, <1>4

\* Ids of rows and their kinds.
LEMMA RowsAre ==
  ASSUME NEW rs \in Seq(Row)
  PROVE  /\ \A i \in DOMAIN rs : rs[i] \in Row /\ rs[i].id \in Nat /\ rs[i].of \in Nat
                                 /\ rs[i].calls \in Seq(Call)
                                 /\ rs[i].by \in Speakers \cup {User} /\ rs[i].kind \in Kinds
                                 /\ rs[i].names \in Mentions \cup {<<>>}
                                 /\ rs[i].covers \in SUBSET Nat
         /\ Len(rs) \in Nat /\ DOMAIN rs = 1 .. Len(rs)
<1>1. \A r \in Row : r.id \in Nat /\ r.of \in Nat /\ r.calls \in Seq(Call)
                     /\ r.by \in Speakers \cup {User} /\ r.kind \in Kinds
                     /\ r.names \in Mentions \cup {<<>>} /\ r.covers \in SUBSET Nat
  BY DEF Row
<1>2. \A i \in DOMAIN rs : rs[i] \in Row
  OBVIOUS
<1> QED BY <1>1, <1>2

\* The lines of a summary are rows.
LEMMA SummarizedIs ==
  ASSUME messages \in Seq(Row) PROVE Summarized \subseteq Nat
<1> DEFINE rest == SinceCompaction(messages)
<1>1. rest \in Seq(Row)
  BY RestIs
<1> HIDE DEF rest
<1>2. \A i \in DOMAIN rest : rest[i].id \in Nat
  BY <1>1, RowsAre
<1> QED BY <1>2 DEF Summarized, rest

LEMMA TypeEndSpeech ==
  ASSUME GroupTypeOK, EndSpeech PROVE GroupTypeOK'
<1>0. /\ UNCHANGED <<messages, lastId, memberIds, speech, summing, aborted, unanswered, disturbances>>
      /\ doing' \in Doing
  BY DEF EndSpeech, Doing
<1>1. CASE aborted
  <2>1. round' = round
    BY <1>1 DEF EndSpeech
  <2> QED BY <1>0, <2>1 DEF GroupTypeOK
<1>2. CASE ~aborted
  <2>1. PICK next \in HandedOn :
          /\ round' = [round EXCEPT !.waiting = round.waiting \o next,
                                    !.said = @ \cup {messages[i].id : i \in TurnReplies}]
          /\ doing' \in {"ended", "next"}
    BY <1>2 DEF EndSpeech
  <2>2. next \in Seq(Speakers) /\ round \in Round
    BY HandedOnAre, GroupTypeParts
  <2>3. {messages[i].id : i \in TurnReplies} \subseteq Nat
    <3>1. messages \in Seq(Row)
      BY DEF GroupTypeOK
    <3> QED BY <3>1, RowsAre DEF TurnReplies
  <2>4. round.waiting \in Seq(Speakers)
    BY <2>2 DEF Round
  <2>5. round.waiting \o next \in Seq(Speakers)
    BY <2>2, <2>4
  <2>6. round' \in Round
    BY <2>1, <2>2, <2>3, <2>5 DEF Round
  <2>7. /\ messages \in Seq(Row) /\ lastId \in Nat /\ memberIds \in Memberships /\ speech \in Speech
        /\ summing \in [on : BOOLEAN, rows : SUBSET Nat] /\ aborted \in BOOLEAN
        /\ unanswered \in SUBSET Nat /\ disturbances \in 0 .. MaxDisturbances
        /\ \A i \in DOMAIN messages : messages[i].id <= lastId
    BY GroupTypeParts
  <2> QED BY <1>0, <2>6, <2>7 DEF GroupTypeOK, Round, Speech
<1> QED BY <1>1, <1>2

\* The summary that a compaction stores.
LEMMA SummaryIs ==
  ASSUME GroupTypeOK
  PROVE  LET row == [NewMessage(1, "summary", User) EXCEPT !.covers = summing.rows]
         IN  /\ row \in Row /\ row.id = lastId + 1 /\ row.kind = "summary" /\ row.by = User
             /\ row.calls = <<>> /\ row.of = 0 /\ row.covers = summing.rows /\ row.names = <<>>
<1> DEFINE m == NewMessage(1, "summary", User)
<1>1. "summary" \in Kinds /\ summing.rows \in SUBSET Nat
  BY DEF Kinds, GroupTypeOK
<1>2. /\ m \in Row /\ m.id = lastId + 1 /\ m.kind = "summary" /\ m.by = User
      /\ m.calls = <<>> /\ m.of = 0 /\ m.names = <<>>
  BY <1>1, NewMessageIs
<1> HIDE DEF m
<1> QED BY <1>1, <1>2 DEF Row, m

LEMMA TypeEndCompaction ==
  ASSUME GroupTypeOK, NEW ok \in BOOLEAN, EndCompaction(ok) PROVE GroupTypeOK'
<1> DEFINE row == [NewMessage(1, "summary", User) EXCEPT !.covers = summing.rows]
<1>1. row \in Row /\ row.id = lastId + 1
  BY SummaryIs
<1>2. (ok /\ ~aborted /\ StoreAll(<<row>>)) \/ UNCHANGED <<messages, lastId>>
  BY DEF EndCompaction
<1> HIDE DEF row
<1>3. /\ messages' \in Seq(Row) /\ lastId' \in Nat
      /\ \A i \in DOMAIN messages' : messages'[i].id <= lastId'
  BY <1>1, <1>2, OneStored DEF GroupTypeOK
<1> QED BY <1>3 DEF EndCompaction, NoSum, GroupTypeOK

LEMMA TypeDeleteMessage ==
  ASSUME GroupTypeOK, NEW i \in DOMAIN messages, NEW following \in BOOLEAN,
         DeleteMessage(i, following)
  PROVE  GroupTypeOK'
<1> DEFINE doomed == MessagesToDelete(i, following)
           lost == {r \in ToSet(messages) : r.id \in doomed /\ r.kind = "tool"}
           keep == {k \in DOMAIN messages : messages[k].id \notin doomed}
<1>1. /\ messages' = FilterAt(messages, keep) /\ Disturb
      /\ unanswered' = unanswered \cup {r.of : r \in lost}
      /\ UNCHANGED <<lastId, memberIds, doing, round, speech, summing, aborted>>
  BY DEF DeleteMessage, Without
<1>2. messages \in Seq(Row) /\ keep \in SUBSET (DOMAIN messages)
  BY DEF GroupTypeOK
<1>3. {r.of : r \in lost} \subseteq Nat
  BY <1>2, RowsAre DEF ToSet
<1> HIDE DEF doomed, lost, keep
<1>4. messages' \in Seq(Row) /\ Range(messages') = {messages[k] : k \in keep}
  BY <1>1, <1>2, AtIs
<1>5. \A k \in DOMAIN messages' : messages'[k].id <= lastId'
  <2> SUFFICES ASSUME NEW k \in DOMAIN messages' PROVE messages'[k].id <= lastId'
    OBVIOUS
  <2>1. messages'[k] \in Range(messages')
    BY DEF Range
  <2>2. PICK j \in keep : messages'[k] = messages[j]
    BY <1>4, <2>1
  <2> QED BY <1>1, <1>2, <2>2 DEF GroupTypeOK
<1>6. disturbances' \in 0 .. MaxDisturbances
  BY <1>1, DisturbIs
<1> QED BY <1>1, <1>3, <1>4, <1>5, <1>6 DEF GroupTypeOK

\* Nobody speaks, in no round.
LEMMA NoSpeechIs == NoSpeech \in Speech /\ NoRound \in Round
BY GroupBoundsAssumption DEF NoSpeech, NoRound, Speech, Round

\* A step keeps the types.
LEMMA TypeStep ==
  ASSUME GroupTypeOK, StagesAgree, GroupNext PROVE GroupTypeOK'
<1>1. ASSUME NEW names \in Mentions, StartRound(names) PROVE GroupTypeOK'
  BY <1>1, TypeStartRound
<1>2. ASSUME NEW names \in Mentions, CliAnswers(names) PROVE GroupTypeOK'
  BY <1>2, TypeCliAnswers
<1>3. ASSUME NEW names \in Mentions, NEW sends \in BOOLEAN, ExecuteTool(names, sends)
      PROVE  GroupTypeOK'
  BY <1>3, TypeExecuteTool
<1>4. ASSUME NEW names \in Mentions, NEW says \in BOOLEAN, NEW uses \in Uses,
             ModelAnswers(says, names, uses)
      PROVE  GroupTypeOK'
  BY <1>4, TypeModelAnswers
<1>5. ASSUME NEW withMail \in BOOLEAN, BeginSpeech(withMail) PROVE GroupTypeOK'
  BY <1>5, TypeBeginSpeech
<1>6. CASE RefuseTurn
  <2>1. round' \in Round
    BY <1>6, CalledIs DEF RefuseTurn, Round
  <2> QED BY <1>6, <2>1 DEF RefuseTurn, GroupTypeOK, Doing, Round
<1>7. CASE Steer
  BY <1>7, TypeSteer
<1>8. CASE AskSpeaker
  BY <1>8 DEF AskSpeaker, GroupTypeOK, Doing
<1>9. CASE SpeechBreaks
  <2>1. unanswered' \subseteq Nat /\ disturbances' \in 0 .. MaxDisturbances
    BY <1>9, CallIdsAre, DisturbIs DEF SpeechBreaks, GroupTypeOK
  <2> QED BY <1>9, <2>1 DEF SpeechBreaks, GroupTypeOK, Doing
<1>10. CASE StopCalls
  <2>1. unanswered' \subseteq Nat
    BY <1>10, CallIdsAre DEF StopCalls, GroupTypeOK
  <2> QED BY <1>10, <2>1 DEF StopCalls, GroupTypeOK, Doing
<1>11. CASE NextStep
  <2>1. speech' \in Speech
    <3>1. speech \in Speech /\ speech.step \in 0 .. MaxModelSteps /\ MaxModelSteps \in Nat
      BY GroupTypeParts, GroupBoundsAssumption DEF Speech
    <3>2. speech' = speech \/ (speech.step < MaxModelSteps
                               /\ speech' = [speech EXCEPT !.step = speech.step + 1])
      BY <1>11 DEF NextStep
    <3>3. speech.step < MaxModelSteps => speech.step + 1 \in 0 .. MaxModelSteps
      BY <3>1
    <3> QED BY <3>1, <3>2, <3>3 DEF Speech
  <2> QED BY <1>11, <2>1 DEF NextStep, GroupTypeOK, Doing, Speech
<1>12. CASE FinishTurn
  BY <1>12 DEF FinishTurn, GroupTypeOK, Doing
<1>13. CASE EndSpeech
  BY <1>13, TypeEndSpeech
<1>14. CASE RoundOver
  <2>1. summing' \in [on : BOOLEAN, rows : SUBSET Nat]
    <3>1. summing' = summing \/ summing' = [on |-> TRUE, rows |-> Summarized]
      BY <1>14 DEF RoundOver, BeginCompaction
    <3>2. Summarized \in SUBSET Nat /\ summing \in [on : BOOLEAN, rows : SUBSET Nat]
      BY SummarizedIs DEF GroupTypeOK
    <3>3. [on |-> TRUE, rows |-> Summarized] \in [on : BOOLEAN, rows : SUBSET Nat]
      BY <3>2
    <3> QED BY <3>1, <3>2, <3>3
  <2> QED BY <1>14, <2>1, NoSpeechIs DEF RoundOver, GroupTypeOK, Doing, Speech, Round
<1>15. CASE RequestCompaction
  <2>1. summing' \in [on : BOOLEAN, rows : SUBSET Nat]
    <3>1. summing' = [on |-> TRUE, rows |-> Summarized]
      BY <1>15 DEF RequestCompaction, BeginCompaction
    <3>2. Summarized \in SUBSET Nat /\ summing \in [on : BOOLEAN, rows : SUBSET Nat]
      BY SummarizedIs DEF GroupTypeOK
    <3>3. [on |-> TRUE, rows |-> Summarized] \in [on : BOOLEAN, rows : SUBSET Nat]
      BY <3>2
    <3> QED BY <3>1, <3>2, <3>3
  <2> QED BY <1>15, <2>1, DisturbIs DEF RequestCompaction, GroupTypeOK
<1>16. CASE StopRound
  BY <1>16, DisturbIs DEF StopRound, GroupTypeOK
<1>17. ASSUME NEW ok \in BOOLEAN, EndCompaction(ok) PROVE GroupTypeOK'
  BY <1>17, TypeEndCompaction
<1>18. ASSUME NEW i \in DOMAIN messages, NEW following \in BOOLEAN, DeleteMessage(i, following)
       PROVE  GroupTypeOK'
  BY <1>18, TypeDeleteMessage
<1>19. ASSUME NEW list \in Memberships, SetMembers(list) PROVE GroupTypeOK'
  BY <1>19, DisturbIs DEF SetMembers, GroupTypeOK
<1> QED BY <1>1, <1>2, <1>3, <1>4, <1>5, <1>6, <1>7, <1>8, <1>9, <1>10, <1>11, <1>12, <1>13,
           <1>14, <1>15, <1>16, <1>17, <1>18, <1>19 DEF GroupNext

-----------------------------------------------------------------------------
\* Stages.

\* No calls.
LEMMA NoCallIds == CallIds(<<>>) = {}
BY DEF CallIds

\* What the actions leave of the turn.
LEMMA ModelAnswersSpeech ==
  ASSUME GroupTypeOK, NEW says, NEW names, NEW uses, ModelAnswers(says, names, uses)
  PROVE  /\ speech'.agent = speech.agent /\ speech'.from = speech.from
         /\ speech'.pending = AnswerCalls(uses)
         /\ speech'.read = Append(speech.read, Answer(says, names, AnswerCalls(uses)))
<1>1. speech' = [speech EXCEPT !.read = Append(@, Answer(says, names, AnswerCalls(uses))),
                               !.pending = AnswerCalls(uses)]
  BY ModelAnswersIs
<1>2. speech \in Speech
  BY GroupTypeParts
<1> QED BY <1>1, <1>2 DEF Speech

LEMMA CliAnswersSpeech ==
  ASSUME GroupTypeOK, NEW names, CliAnswers(names)
  PROVE  /\ speech'.agent = speech.agent /\ speech'.from = speech.from
         /\ speech'.pending = speech.pending
         /\ speech'.read = speech.read \o <<CliAnswer, ResultOf(3, CliCall)>>
<1>1. speech \in Speech
  BY GroupTypeParts
<1> QED BY <1>1, CliAnswersIs DEF Speech

LEMMA ExecuteToolSpeech ==
  ASSUME GroupTypeOK, NEW names, NEW sends \in BOOLEAN, ExecuteTool(names, sends)
  PROVE  LET c == Head(speech.pending)
         IN  /\ speech'.agent = speech.agent /\ speech'.from = speech.from
             /\ speech'.pending = Tail(speech.pending)
             /\ \/ /\ sends = TRUE
                   /\ StoreAll(<<SentMessage(1, names), ResultOf(2, c)>>)
                   /\ speech'.read = Append(speech.read, ResultOf(2, c))
                \/ /\ sends = FALSE /\ names = <<>>
                   /\ StoreAll(<<ResultOf(1, c)>>)
                   /\ speech'.read = Append(speech.read, ResultOf(1, c))
<1>1. speech \in Speech
  BY GroupTypeParts
<1> DEFINE c == Head(speech.pending)
<1>2. CASE sends = TRUE
  <2>1. /\ StoreAll(<<SentMessage(1, names), ResultOf(2, c)>>)
        /\ speech' = [speech EXCEPT !.read = Append(@, ResultOf(2, c)), !.pending = Tail(@)]
    BY <1>2, ExecuteToolIs
  <2> HIDE DEF c
  <2>2. /\ speech'.agent = speech.agent /\ speech'.from = speech.from
        /\ speech'.pending = Tail(speech.pending)
        /\ speech'.read = Append(speech.read, ResultOf(2, c))
    BY <1>1, <2>1 DEF Speech
  <2> QED BY <1>2, <2>1, <2>2 DEF c
<1>3. CASE sends = FALSE
  <2>1. /\ StoreAll(<<ResultOf(1, c)>>) /\ names = <<>>
        /\ speech' = [speech EXCEPT !.read = Append(@, ResultOf(1, c)), !.pending = Tail(@)]
    BY <1>3, ExecuteToolIs
  <2> HIDE DEF c
  <2>2. /\ speech'.agent = speech.agent /\ speech'.from = speech.from
        /\ speech'.pending = Tail(speech.pending)
        /\ speech'.read = Append(speech.read, ResultOf(1, c))
    BY <1>1, <2>1 DEF Speech
  <2> QED BY <1>3, <2>1, <2>2 DEF c
<1> QED BY <1>2, <1>3

LEMMA SteerSpeech ==
  ASSUME GroupTypeOK, Steer
  PROVE  /\ speech'.agent = speech.agent /\ speech'.from = speech.from
         /\ speech'.pending = speech.pending
         /\ speech'.read = Append(speech.read, UserMessage(<<>>))
<1>1. speech \in Speech
  BY GroupTypeParts
<1> QED BY <1>1 DEF Speech, Steer

LEMMA NextStepSpeech ==
  ASSUME GroupTypeOK, NextStep
  PROVE  /\ speech'.agent = speech.agent /\ speech'.from = speech.from
         /\ speech'.pending = speech.pending /\ speech'.read = speech.read
<1>1. speech \in Speech
  BY GroupTypeParts
<1> QED BY <1>1 DEF Speech, NextStep

\* A step keeps the stages.
LEMMA StagesStep ==
  ASSUME GroupTypeOK, StagesAgree, GroupNext PROVE StagesAgree'
<1> USE DEF StagesAgree, Speaking
<1>0. speech \in Speech /\ round \in Round
  BY GroupTypeParts
<1>1. ASSUME NEW names \in Mentions, StartRound(names) PROVE StagesAgree'
  <2>1. PICK r \in RespondersFor(memberIds, names) :
          round' = [NoRound EXCEPT !.chat = memberIds, !.from = lastId + 1, !.waiting = r]
    BY <1>1 DEF StartRound
  <2>2. r # <<>>
    BY RespondersAre DEF GroupTypeOK
  <2>3. round'.waiting # <<>> /\ round'.chat = memberIds
    BY <2>1, <2>2 DEF NoRound
  <2> QED BY <1>1, <2>3 DEF StartRound, Free
<1>2. ASSUME NEW names \in Mentions, CliAnswers(names) PROVE StagesAgree'
  <2>1. speech'.pending = speech.pending /\ speech'.agent = speech.agent
    BY <1>0, <1>2, CliAnswersIs DEF Speech
  <2> QED BY <1>2, <2>1, CliAnswersIs
<1>3. ASSUME NEW names \in Mentions, NEW sends \in BOOLEAN, ExecuteTool(names, sends)
      PROVE  StagesAgree'
  <2>1. speech'.agent = speech.agent
    BY <1>0, <1>3, ExecuteToolIs DEF Speech
  <2> QED BY <1>3, <2>1, ExecuteToolIs
<1>4. ASSUME NEW names \in Mentions, NEW says \in BOOLEAN, NEW uses \in Uses,
             ModelAnswers(says, names, uses)
      PROVE  StagesAgree'
  <2> DEFINE calls == AnswerCalls(uses)
  <2>1. calls = <<>> <=> uses = <<>>
    BY AnswerCallsAre
  <2>2. speech'.agent = speech.agent /\ speech'.pending = calls
    BY <1>4, ModelAnswersSpeech
  <2>3. /\ doing = "model" /\ UNCHANGED <<memberIds, round, summing>>
        /\ \/ doing' = "stop" /\ uses = <<>>
           \/ doing' = "tools"
           \/ doing' = "failed" /\ CallIds(calls) \subseteq unanswered'
    BY <1>4, ModelAnswersIs
  <2> HIDE DEF calls
  <2>4. CallIds(speech'.pending) = CallIds(calls)
    BY <2>2
  <2>5. doing' \notin {"tools", "failed"} => speech'.pending = <<>>
    BY <2>1, <2>2, <2>3
  <2>6. doing' = "failed" => CallIds(speech'.pending) \subseteq unanswered'
    BY <2>3, <2>4
  <2>7. doing' \in {"stop", "tools", "failed"} /\ summing' = summing /\ round' = round
        /\ memberIds' = memberIds /\ speech'.agent = speech.agent /\ doing = "model"
    BY <2>2, <2>3
  <2> QED BY <2>5, <2>6, <2>7
<1>5. ASSUME NEW withMail \in BOOLEAN, BeginSpeech(withMail) PROVE StagesAgree'
  <2>1. NextSpeaker \in Speakers /\ round'.chat = round.chat /\ NextSpeaker \in round'.answered
    BY <1>5, CalledIs DEF BeginSpeech
  <2>2. speech'.agent = NextSpeaker /\ speech'.pending = <<>>
    BY <1>5 DEF BeginSpeech, NoSpeech
  <2> QED BY <1>5, <2>1, <2>2 DEF BeginSpeech
<1>6. CASE RefuseTurn
  <2>1. round'.chat = round.chat
    BY <1>6, CalledIs DEF RefuseTurn
  <2> QED BY <1>6, <2>1, NoCallIds DEF RefuseTurn
<1>7. CASE Steer
  <2>1. speech'.agent = speech.agent /\ speech'.pending = speech.pending
    BY <1>0, <1>7 DEF Steer, Speech
  <2>2. doing \in {"ask", "model", "stop"} /\ doing' \in {"ask", "model"}
        /\ UNCHANGED <<memberIds, round, summing>>
    BY <1>7 DEF Steer, MaySteer
  <2> QED BY <2>1, <2>2
<1>8. CASE AskSpeaker
  BY <1>8, NoCallIds DEF AskSpeaker
<1>9. CASE SpeechBreaks
  BY <1>9 DEF SpeechBreaks
<1>10. CASE StopCalls
  BY <1>10 DEF StopCalls
<1>11. CASE NextStep
  <2>1. speech'.agent = speech.agent /\ speech'.pending = speech.pending
    BY <1>0, <1>11 DEF NextStep, Speech
  <2> QED BY <1>11, <2>1 DEF NextStep
<1>12. CASE FinishTurn
  BY <1>12 DEF FinishTurn
<1>13. CASE EndSpeech
  <2>1. CASE aborted
    <3>1. /\ doing = "over" /\ doing' = "failed" /\ UNCHANGED <<memberIds, round, speech, summing>>
      BY <1>13, <2>1, SMTT(20) DEF EndSpeech
    <3>2. speech.pending = <<>>
      BY <3>1
    <3>3. speech'.pending = <<>> /\ CallIds(speech'.pending) = {}
      BY <3>1, <3>2, NoCallIds
    <3> QED BY <3>1, <3>2, <3>3
  <2>2. CASE ~aborted
    <3>1. PICK next \in HandedOn :
            /\ round' = [round EXCEPT !.waiting = round.waiting \o next,
                                      !.said = @ \cup {messages[i].id : i \in TurnReplies}]
            /\ doing' = IF round.waiting \o next = <<>> THEN "ended" ELSE "next"
      BY <1>13, <2>2 DEF EndSpeech
    <3>2. round'.chat = round.chat /\ round'.waiting = round.waiting \o next
      BY <1>0, <3>1 DEF Round
    <3> QED BY <1>13, <3>1, <3>2 DEF EndSpeech
  <2> QED BY <2>1, <2>2
<1>14. CASE RoundOver
  <2>1. NoSpeech.pending = <<>> /\ NoRound.chat = <<>>
    BY DEF NoSpeech, NoRound
  <2> QED BY <1>14, <2>1 DEF RoundOver
<1>15. CASE RequestCompaction
  BY <1>15 DEF RequestCompaction, Free
<1>16. CASE StopRound
  BY <1>16 DEF StopRound
<1>17. ASSUME NEW ok \in BOOLEAN, EndCompaction(ok) PROVE StagesAgree'
  BY <1>17 DEF EndCompaction, NoSum
<1>18. ASSUME NEW i \in DOMAIN messages, NEW following \in BOOLEAN, DeleteMessage(i, following)
       PROVE  StagesAgree'
  BY <1>18 DEF DeleteMessage, Free
<1>19. ASSUME NEW list \in Memberships, SetMembers(list) PROVE StagesAgree'
  BY <1>19 DEF SetMembers
<1> QED BY <1>1, <1>2, <1>3, <1>4, <1>5, <1>6, <1>7, <1>8, <1>9, <1>10, <1>11, <1>12, <1>13,
           <1>14, <1>15, <1>16, <1>17, <1>18, <1>19 DEF GroupNext

-----------------------------------------------------------------------------
\* Transcripts.

\* Ids up to last are not the next.
LEMMA IdsBelow ==
  ASSUME NEW rs \in Seq(Row), NEW last \in Nat, NEW open, Whole(rs, last, open),
         NEW id \in Nat, last < id
  PROVE  \A i \in DOMAIN rs : rs[i].id < id
<1>1. \A i \in DOMAIN rs : rs[i].id \in 1 .. last
  BY DEF Whole, RowOK
<1> QED BY <1>1

\* Rows without calls that are no results, a result, and an answer keep a transcript whole.
LEMMA PlainAppend ==
  ASSUME NEW rs \in Seq(Row), NEW row \in Row, NEW last \in Nat, NEW more \in Nat,
         last < row.id, row.id <= more, NEW open, NEW opened, open \subseteq opened,
         Whole(rs, last, open), row.calls = <<>>, row.of = 0,
         row.kind \notin {"assistant", "tool"},
         row.by = User <=> row.kind \in {"user", "summary"}
  PROVE  Whole(Append(rs, row), more, opened)
<1>1. row.id \in Nat
  BY DEF Row
<1>2. RowOK(row, more) /\ CallIds(row.calls) = {}
  BY <1>1, NoCallIds DEF RowOK
<1>3. \A i \in DOMAIN rs : rs[i].id < row.id
  BY <1>1, IdsBelow
<1>4. /\ last <= more
      /\ \A c \in CallIds(row.calls) : last < c /\ c \in opened
      /\ row.kind = "tool" => EndsWithCalls(rs, row.by, {row.of})
      /\ \A c \in open : c \in opened \/ (row.kind = "tool" /\ c = row.of)
  BY <1>1, <1>2
<1> QED BY <1>2, <1>3, <1>4, WholeAppend

LEMMA ResultAppend ==
  ASSUME NEW rs \in Seq(Row), NEW row \in Row, NEW last \in Nat, NEW more \in Nat,
         last <= more, \A i \in DOMAIN rs : rs[i].id < row.id, row.id \in 1 .. more,
         NEW open, NEW opened,
         Whole(rs, last, open), row.calls = <<>>, row.kind = "tool", row.by # User,
         EndsWithCalls(rs, row.by, {row.of}), \A c \in open : c \in opened \/ c = row.of
  PROVE  Whole(Append(rs, row), more, opened)
<1>2. RowOK(row, more) /\ CallIds(row.calls) = {}
  BY NoCallIds DEF RowOK
<1>4. /\ \A c \in CallIds(row.calls) : last < c /\ c \in opened
      /\ row.kind = "tool" => EndsWithCalls(rs, row.by, {row.of})
      /\ \A c \in open : c \in opened \/ (row.kind = "tool" /\ c = row.of)
  BY <1>2
<1> QED BY <1>2, <1>4, WholeAppend

LEMMA AnswerAppend ==
  ASSUME NEW rs \in Seq(Row), NEW row \in Row, NEW last \in Nat, NEW more \in Nat,
         last < row.id, row.id <= more, NEW open, NEW opened, open \subseteq opened,
         Whole(rs, last, open), row.kind = "assistant", row.of = 0, row.by # User,
         CallIds(row.calls) \subseteq opened, CallIds(row.calls) \subseteq last + 1 .. more
  PROVE  Whole(Append(rs, row), more, opened)
<1>1. row.id \in Nat
  BY DEF Row
<1>2. RowOK(row, more)
  BY <1>1 DEF RowOK
<1>3. \A i \in DOMAIN rs : rs[i].id < row.id
  BY <1>1, IdsBelow
<1>4. /\ last <= more
      /\ \A c \in CallIds(row.calls) : last < c /\ c \in opened
      /\ row.kind = "tool" => EndsWithCalls(rs, row.by, {row.of})
      /\ \A c \in open : c \in opened \/ (row.kind = "tool" /\ c = row.of)
  BY <1>1
<1> QED BY <1>2, <1>3, <1>4, WholeAppend

\* What stays whole of the rows and of what the agent reads.
WholeSince(last, open) == Whole(messages, last, open) /\ Whole(speech.read, last, open)

LEMMA WholeSame ==
  ASSUME GroupTypeOK, GroupTypeOK', TranscriptsAreWhole,
         messages' = messages, lastId' = lastId, speech'.read = speech.read,
         Unsettled \subseteq Unsettled', doing' # "tools"
  PROVE  TranscriptsAreWhole'
<1>1. messages \in Seq(Row) /\ speech.read \in Seq(Row) /\ lastId \in Nat /\ lastId <= lastId
  BY DEF GroupTypeOK
<1>2. Whole(messages, lastId, Unsettled) /\ Whole(speech.read, lastId, Unsettled)
  BY DEF TranscriptsAreWhole
<1>3. Whole(messages, lastId, Unsettled') /\ Whole(speech.read, lastId, Unsettled')
  BY <1>1, <1>2, WholeMore
<1> QED BY <1>3 DEF TranscriptsAreWhole

\* An agent begins by reading all rows.
LEMMA WholeStart ==
  ASSUME GroupTypeOK, GroupTypeOK', TranscriptsAreWhole, NEW row \in Row,
         row.id = lastId + 1, StoreAll(<<row>>), row.calls = <<>>, row.of = 0,
         row.kind \in {"user", "summary"}, row.by = User, Unsettled \subseteq Unsettled'
  PROVE  /\ Whole(messages', lastId', Unsettled') /\ Whole(speech.read, lastId', Unsettled')
<1>1. messages \in Seq(Row) /\ speech.read \in Seq(Row) /\ lastId \in Nat
  BY DEF GroupTypeOK
<1>2. messages' = Append(messages, row) /\ lastId' = lastId + 1
  BY OneStored
<1>3. Whole(messages, lastId, Unsettled) /\ Whole(speech.read, lastId, Unsettled)
  BY DEF TranscriptsAreWhole
<1>4. Whole(messages', lastId', Unsettled')
  <2>1. /\ lastId' \in Nat /\ lastId < row.id /\ row.id <= lastId'
        /\ row.kind \notin {"assistant", "tool"}
        /\ row.by = User <=> row.kind \in {"user", "summary"}
    BY <1>1, <1>2
  <2>2. Whole(Append(messages, row), lastId', Unsettled')
    BY <1>1, <1>3, <2>1, PlainAppend
  <2> QED BY <1>2, <2>2
<1>5. Whole(speech.read, lastId', Unsettled')
  BY <1>1, <1>2, <1>3, WholeMore
<1> QED BY <1>4, <1>5

\* Who speaks is no user.
LEMMA SpeakerIs ==
  ASSUME StagesAgree, doing \in Speaking
  PROVE  speech.agent \in Speakers /\ speech.agent # User /\ speech.agent \in round.answered
BY UserIsNoSpeaker DEF StagesAgree

\* A model's answer, and a CLI's with its tool's result, keep the transcripts whole.
LEMMA WholeModelAnswers ==
  ASSUME GroupTypeOK, StagesAgree, TranscriptsAreWhole, NEW says \in BOOLEAN,
         NEW names \in Mentions, NEW uses \in Uses, ModelAnswers(says, names, uses)
  PROVE  TranscriptsAreWhole'
<1> DEFINE calls == AnswerCalls(uses)
           answer == Answer(says, names, calls)
<1>1. messages \in Seq(Row) /\ speech.read \in Seq(Row) /\ lastId \in Nat
  BY DEF GroupTypeOK
<1>2. Whole(messages, lastId, Unsettled) /\ Whole(speech.read, lastId, Unsettled)
  BY DEF TranscriptsAreWhole
<1>3. /\ calls \in Seq(Call) /\ Len(uses) \in Nat
      /\ CallIds(calls) \subseteq lastId + 2 .. lastId + 1 + Len(uses)
  BY AnswerCallsAre
<1>4. /\ answer \in Row /\ answer.id = lastId + 1 /\ answer.kind = "assistant"
      /\ answer.by = speech.agent /\ answer.calls = calls /\ answer.of = 0
  BY <1>3, AnswerIs
<1>5. /\ doing = "model"
      /\ messages' = Append(messages, answer) /\ lastId' = lastId + 1 + Len(uses)
      /\ unanswered \subseteq unanswered'
  BY ModelAnswersIs
<1>6. /\ speech'.agent = speech.agent /\ speech'.pending = calls
      /\ speech'.read = Append(speech.read, answer)
  BY ModelAnswersSpeech
<1>7. answer.by # User /\ speech.pending = <<>>
  BY <1>4, <1>5, SpeakerIs DEF Speaking, StagesAgree
<1> HIDE DEF calls, answer
<1>8. Unsettled \subseteq Unsettled' /\ CallIds(answer.calls) \subseteq Unsettled'
  BY <1>4, <1>5, <1>6, <1>7, NoCallIds DEF Unsettled
<1>9. /\ lastId' \in Nat /\ lastId < answer.id /\ answer.id <= lastId'
      /\ CallIds(answer.calls) \subseteq lastId + 1 .. lastId'
  BY <1>1, <1>3, <1>4, <1>5
<1>10. Whole(messages', lastId', Unsettled') /\ Whole(speech'.read, lastId', Unsettled')
  <2>1. Whole(Append(messages, answer), lastId', Unsettled')
    BY <1>1, <1>2, <1>4, <1>7, <1>8, <1>9, AnswerAppend
  <2>2. Whole(Append(speech.read, answer), lastId', Unsettled')
    BY <1>1, <1>2, <1>4, <1>7, <1>8, <1>9, AnswerAppend
  <2> QED BY <1>5, <1>6, <2>1, <2>2
<1>11. /\ EndsWithCalls(messages', speech'.agent, CallIds(speech'.pending))
       /\ EndsWithCalls(speech'.read, speech'.agent, CallIds(speech'.pending))
  <2>1. /\ EndsWithCalls(Append(messages, answer), answer.by, CallIds(answer.calls))
        /\ EndsWithCalls(Append(speech.read, answer), answer.by, CallIds(answer.calls))
    BY <1>1, <1>4, EndsNew
  <2> QED BY <1>4, <1>5, <1>6, <2>1
<1> QED BY <1>10, <1>11 DEF TranscriptsAreWhole

LEMMA WholeCliAnswers ==
  ASSUME GroupTypeOK, StagesAgree, TranscriptsAreWhole, NEW names \in Mentions, CliAnswers(names)
  PROVE  TranscriptsAreWhole'
<1> DEFINE sent == SentMessage(1, names)
           answer == CliAnswer
           result == ResultOf(3, CliCall)
           first == Append(messages, sent)
           open == Unsettled \cup {lastId + 4}
<1>1. messages \in Seq(Row) /\ speech.read \in Seq(Row) /\ lastId \in Nat
  BY DEF GroupTypeOK
<1>2. Whole(messages, lastId, Unsettled) /\ Whole(speech.read, lastId, Unsettled)
  BY DEF TranscriptsAreWhole
<1>3. /\ sent \in Row /\ sent.id = lastId + 1 /\ sent.kind = "sent" /\ sent.by = speech.agent
      /\ sent.calls = <<>> /\ sent.of = 0
  BY SentMessageIs
<1>4. /\ CliCall \in Call /\ CliCall.id = lastId + 4
      /\ answer \in Row /\ answer.id = lastId + 2 /\ answer.kind = "assistant"
      /\ answer.by = speech.agent /\ answer.of = 0 /\ CallIds(answer.calls) = {lastId + 4}
  BY CliAnswerIs
<1>5. /\ result \in Row /\ result.id = lastId + 3 /\ result.kind = "tool"
      /\ result.by = speech.agent /\ result.calls = <<>> /\ result.of = lastId + 4
  BY <1>4, ResultOfIs
<1>6. /\ doing = "model" /\ doing' = "stop" /\ unanswered' = unanswered
      /\ messages' = messages \o <<sent, answer, result>> /\ lastId' = lastId + 4
  BY CliAnswersIs
<1>7. /\ speech'.pending = speech.pending /\ speech'.read = speech.read \o <<answer, result>>
  BY CliAnswersSpeech
<1>8. speech.agent # User
  BY <1>6, SpeakerIs DEF Speaking
<1>9. Unsettled' = Unsettled
  BY <1>6, <1>7 DEF Unsettled
<1> HIDE DEF sent, answer, result
<1>10. /\ messages' = Append(Append(first, answer), result)
       /\ speech'.read = Append(Append(speech.read, answer), result)
       /\ first \in Seq(Row)
  <2>1. messages \o <<sent, answer, result>> = Append(Append(first, answer), result)
    BY <1>1, <1>3, <1>4, <1>5, ThreeRows
  <2>2. speech.read \o <<answer, result>> = Append(Append(speech.read, answer), result)
    BY <1>1, <1>4, <1>5, TwoRows
  <2>3. first \in Seq(Row)
    BY <1>1, <1>3, RowAppended
  <2> QED BY <1>6, <1>7, <2>1, <2>2, <2>3
<1>11. Whole(first, lastId + 1, Unsettled)
  BY <1>1, <1>2, <1>3, <1>8, PlainAppend
<1> HIDE DEF first, open
<1>12. /\ lastId + 1 \in Nat /\ lastId + 4 \in Nat /\ lastId < answer.id /\ lastId + 1 < answer.id
       /\ answer.id <= lastId + 4 /\ Unsettled \subseteq open /\ answer.by # User
       /\ CallIds(answer.calls) \subseteq open
       /\ CallIds(answer.calls) \subseteq lastId + 1 .. lastId + 4
       /\ CallIds(answer.calls) \subseteq (lastId + 1) + 1 .. lastId + 4
  BY <1>1, <1>4, <1>8 DEF open
<1>13. Whole(Append(first, answer), lastId + 4, open)
  BY <1>4, <1>10, <1>11, <1>12, AnswerAppend
<1>14. Whole(Append(speech.read, answer), lastId + 4, open)
  BY <1>1, <1>2, <1>4, <1>12, AnswerAppend
<1>15. /\ EndsWithCalls(Append(first, answer), answer.by, {lastId + 4})
       /\ EndsWithCalls(Append(speech.read, answer), answer.by, {lastId + 4})
  <2>1. /\ EndsWithCalls(Append(first, answer), answer.by, CallIds(answer.calls))
        /\ EndsWithCalls(Append(speech.read, answer), answer.by, CallIds(answer.calls))
    BY <1>1, <1>4, <1>10, EndsNew
  <2> QED BY <1>4, <2>1
<1>16. ASSUME NEW rs \in Seq(Row), NEW last \in Nat, last <= lastId + 1, Whole(rs, last, Unsettled),
              Whole(Append(rs, answer), lastId + 4, open),
              EndsWithCalls(Append(rs, answer), answer.by, {lastId + 4})
       PROVE  Whole(Append(Append(rs, answer), result), lastId + 4, Unsettled)
  <2> DEFINE t == Append(rs, answer)
  <2>1. /\ t \in Seq(Row) /\ DOMAIN rs = 1 .. Len(rs) /\ Len(rs) \in Nat
        /\ DOMAIN t = 1 .. Len(rs) + 1 /\ \A i \in 1 .. Len(rs) : t[i] = rs[i]
        /\ t[Len(rs) + 1] = answer
    BY <1>4, <1>16, AppendIs
  <2>2. \A i \in DOMAIN rs : rs[i].id < result.id
    <3>1. result.id \in Nat /\ last < result.id
      BY <1>1, <1>5, <1>16
    <3> QED BY <1>16, <3>1, IdsBelow
  <2>3. answer.id < result.id
    BY <1>1, <1>4, <1>5
  <2> HIDE DEF t
  <2>4. \A i \in DOMAIN t : t[i].id < result.id
    BY <2>1, <2>2, <2>3
  <2>5. /\ result.id \in 1 .. lastId + 4 /\ lastId + 4 <= lastId + 4 /\ result.by # User
        /\ EndsWithCalls(t, result.by, {result.of})
        /\ \A c \in open : c \in Unsettled \/ c = result.of
    BY <1>1, <1>4, <1>5, <1>8, <1>16 DEF open, t
  <2>6. Whole(t, lastId + 4, open)
    BY <1>16 DEF t
  <2>7. Whole(Append(t, result), lastId + 4, Unsettled)
    BY <1>5, <1>12, <2>1, <2>4, <2>5, <2>6, ResultAppend
  <2> QED BY <2>7 DEF t
<1>17. Whole(messages', lastId', Unsettled')
  <2>1. lastId + 1 <= lastId + 1
    BY <1>1
  <2> QED BY <1>6, <1>9, <1>10, <1>11, <1>12, <1>13, <1>15, <1>16, <2>1
<1>18. Whole(speech'.read, lastId', Unsettled')
  <2>1. lastId <= lastId + 1
    BY <1>1
  <2> QED BY <1>1, <1>2, <1>6, <1>9, <1>10, <1>14, <1>15, <1>16, <2>1
<1> QED BY <1>6, <1>17, <1>18 DEF TranscriptsAreWhole

\* A result settles the first of the calls that are left.
LEMMA CallsSettle ==
  ASSUME NEW rs \in Seq(Row), NEW last \in Nat, NEW more \in Nat, last <= more,
         NEW pending \in Seq(Call), pending # <<>>, NEW open,
         Whole(rs, last, open \cup CallIds(pending)), NEW row \in Row,
         \A i \in DOMAIN rs : rs[i].id < row.id, row.id \in 1 .. more,
         row.kind = "tool", row.by # User, row.calls = <<>>, row.of = Head(pending).id,
         EndsWithCalls(rs, row.by, CallIds(pending))
  PROVE  /\ Whole(Append(rs, row), more, open \cup CallIds(Tail(pending)))
         /\ EndsWithCalls(Append(rs, row), row.by, CallIds(Tail(pending)))
<1> DEFINE rest == open \cup CallIds(Tail(pending))
<1>1. CallIds(Tail(pending)) \subseteq CallIds(pending) /\ Head(pending).id \in CallIds(pending)
  BY HeadTailIs DEF CallIds
<1>2. \A c \in CallIds(pending) : c = Head(pending).id \/ c \in CallIds(Tail(pending))
  <2> SUFFICES ASSUME NEW i \in DOMAIN pending, pending[i] # Head(pending)
               PROVE  pending[i].id \in CallIds(Tail(pending))
    BY DEF CallIds
  <2>1. pending[i] \in ToSet(pending)
    BY DEF ToSet
  <2>2. pending[i] \in ToSet(Tail(pending))
    BY <2>1, HeadTailIs
  <2> QED BY <2>2 DEF ToSet, CallIds
<1>3. EndsWithCalls(rs, row.by, {row.of})
  BY <1>1 DEF EndsWithCalls
<1>4. \A c \in open \cup CallIds(pending) : c \in rest \/ c = row.of
  BY <1>2
<1> HIDE DEF rest
<1>5. Whole(Append(rs, row), more, rest)
  BY <1>3, <1>4, ResultAppend
<1>6. EndsWithCalls(Append(rs, row), row.by, CallIds(Tail(pending)))
  BY <1>1, EndsAppend
<1> QED BY <1>5, <1>6 DEF rest

\* So does a tool's result.
LEMMA WholeExecuteTool ==
  ASSUME GroupTypeOK, StagesAgree, TranscriptsAreWhole, NEW names \in Mentions \cup {<<>>},
         NEW sends \in BOOLEAN, ExecuteTool(names, sends)
  PROVE  TranscriptsAreWhole'
<1> DEFINE c == Head(speech.pending)
           open == unanswered \cup CallIds(speech.pending)
           rest == unanswered \cup CallIds(Tail(speech.pending))
<1>1. messages \in Seq(Row) /\ speech.read \in Seq(Row) /\ lastId \in Nat
      /\ speech.pending \in Seq(Call)
  BY DEF GroupTypeOK
<1>2. /\ doing = "tools" /\ doing' = "tools" /\ speech.pending # <<>> /\ unanswered' = unanswered
  BY ExecuteToolIs
<1>3. Whole(messages, lastId, open) /\ Whole(speech.read, lastId, open)
      /\ EndsWithCalls(messages, speech.agent, CallIds(speech.pending))
      /\ EndsWithCalls(speech.read, speech.agent, CallIds(speech.pending))
  BY <1>2 DEF TranscriptsAreWhole, Unsettled
<1>4. speech.agent # User
  BY <1>2, SpeakerIs DEF Speaking
<1>5. c \in Call
  BY <1>1, <1>2, HeadTailIs
<1>6. speech'.agent = speech.agent /\ speech'.pending = Tail(speech.pending)
  BY ExecuteToolSpeech
<1>7. Unsettled' = rest
  BY <1>2, <1>6 DEF Unsettled
<1>8. CASE sends = TRUE
  <2> DEFINE sent == SentMessage(1, names)
             row == ResultOf(2, c)
             first == Append(messages, sent)
  <2>1. /\ StoreAll(<<sent, row>>) /\ speech'.read = Append(speech.read, row)
    BY <1>8, ExecuteToolSpeech
  <2>2. /\ sent \in Row /\ sent.id = lastId + 1 /\ sent.kind = "sent" /\ sent.by = speech.agent
        /\ sent.calls = <<>> /\ sent.of = 0
    BY SentMessageIs
  <2>3. /\ row \in Row /\ row.id = lastId + 2 /\ row.kind = "tool" /\ row.by = speech.agent
        /\ row.calls = <<>> /\ row.of = c.id
    BY <1>5, ResultOfIs
  <2> HIDE DEF sent, row, c
  <2>4. messages' = Append(first, row) /\ lastId' = lastId + 2 /\ first \in Seq(Row)
    BY <1>1, <2>1, <2>2, <2>3, TwoStored, RowAppended
  <2>5. Whole(first, lastId + 1, open)
    <3>1. /\ lastId + 1 \in Nat /\ lastId < sent.id /\ sent.id <= lastId + 1
          /\ sent.by = User <=> sent.kind \in {"user", "summary"}
      BY <1>1, <1>4, <2>2
    <3> QED BY <1>1, <1>3, <2>2, <3>1, PlainAppend
  <2>6. EndsWithCalls(first, speech.agent, CallIds(speech.pending))
    BY <1>1, <1>3, <2>2, EndsAppend
  <2> HIDE DEF first
  <2>7. /\ lastId + 1 \in Nat /\ lastId + 2 \in Nat /\ row.id \in Nat /\ lastId < row.id
        /\ lastId + 1 < row.id /\ lastId + 1 <= lastId + 2 /\ lastId <= lastId + 2
        /\ row.id \in 1 .. lastId + 2
    BY <1>1, <2>3
  <2>8. /\ \A i \in DOMAIN first : first[i].id < row.id
        /\ \A i \in DOMAIN speech.read : speech.read[i].id < row.id
    BY <1>1, <1>3, <2>4, <2>5, <2>7, IdsBelow
  <2>9. row.of = Head(speech.pending).id /\ row.by # User
    BY <1>4, <2>3 DEF c
  <2>10. /\ Whole(Append(first, row), lastId + 2, rest)
         /\ EndsWithCalls(Append(first, row), row.by, CallIds(Tail(speech.pending)))
    BY <1>1, <1>2, <2>3, <2>4, <2>5, <2>6, <2>7, <2>8, <2>9, CallsSettle
  <2>11. /\ Whole(Append(speech.read, row), lastId + 2, rest)
         /\ EndsWithCalls(Append(speech.read, row), row.by, CallIds(Tail(speech.pending)))
    BY <1>1, <1>2, <1>3, <2>3, <2>7, <2>8, <2>9, CallsSettle
  <2> QED BY <1>6, <1>7, <2>1, <2>3, <2>4, <2>10, <2>11 DEF TranscriptsAreWhole
<1>9. CASE sends = FALSE
  <2> DEFINE row == ResultOf(1, c)
  <2>1. /\ StoreAll(<<row>>) /\ speech'.read = Append(speech.read, row)
    BY <1>9, ExecuteToolSpeech
  <2>3. /\ row \in Row /\ row.id = lastId + 1 /\ row.kind = "tool" /\ row.by = speech.agent
        /\ row.calls = <<>> /\ row.of = c.id
    BY <1>5, ResultOfIs
  <2> HIDE DEF row, c
  <2>4. messages' = Append(messages, row) /\ lastId' = lastId + 1
    BY <2>1, <2>3, OneStored
  <2>7. /\ lastId + 1 \in Nat /\ row.id \in Nat /\ lastId < row.id /\ lastId <= lastId + 1
        /\ row.id \in 1 .. lastId + 1
    BY <1>1, <2>3
  <2>8. /\ \A i \in DOMAIN messages : messages[i].id < row.id
        /\ \A i \in DOMAIN speech.read : speech.read[i].id < row.id
    BY <1>1, <1>3, <2>7, IdsBelow
  <2>9. row.of = Head(speech.pending).id /\ row.by # User
    BY <1>4, <2>3 DEF c
  <2>10. /\ Whole(Append(messages, row), lastId + 1, rest)
         /\ EndsWithCalls(Append(messages, row), row.by, CallIds(Tail(speech.pending)))
    BY <1>1, <1>2, <1>3, <2>3, <2>7, <2>8, <2>9, CallsSettle
  <2>11. /\ Whole(Append(speech.read, row), lastId + 1, rest)
         /\ EndsWithCalls(Append(speech.read, row), row.by, CallIds(Tail(speech.pending)))
    BY <1>1, <1>2, <1>3, <2>3, <2>7, <2>8, <2>9, CallsSettle
  <2> QED BY <1>6, <1>7, <2>1, <2>3, <2>4, <2>10, <2>11 DEF TranscriptsAreWhole
<1> QED BY <1>8, <1>9

\* A deleted message takes its results along, or all that follows.
LEMMA WholeDeleteMessage ==
  ASSUME GroupTypeOK, GroupTypeOK', StagesAgree, TranscriptsAreWhole,
         NEW at \in DOMAIN messages, NEW following \in BOOLEAN, DeleteMessage(at, following)
  PROVE  TranscriptsAreWhole'
<1> DEFINE doomed == MessagesToDelete(at, following)
           lost == {r \in ToSet(messages) : r.id \in doomed /\ r.kind = "tool"}
           keep == {k \in DOMAIN messages : messages[k].id \notin doomed}
<1>1. /\ messages' = FilterAt(messages, keep)
      /\ unanswered' = unanswered \cup {r.of : r \in lost}
      /\ UNCHANGED <<lastId, doing, speech>> /\ doing = "nothing"
  BY DEF DeleteMessage, Without, Free
<1>2. messages \in Seq(Row) /\ speech.read \in Seq(Row) /\ lastId \in Nat
      /\ Whole(messages, lastId, Unsettled) /\ Whole(speech.read, lastId, Unsettled)
      /\ Len(messages) \in Nat /\ DOMAIN messages = 1 .. Len(messages)
  BY DEF TranscriptsAreWhole, GroupTypeOK
<1>3. Unsettled \subseteq Unsettled' /\ {r.of : r \in lost} \subseteq Unsettled'
  BY <1>1 DEF Unsettled
<1>4. \A i, j \in DOMAIN messages : messages[i].id = messages[j].id => i = j
  <2> SUFFICES ASSUME NEW i \in DOMAIN messages, NEW j \in DOMAIN messages,
                      messages[i].id = messages[j].id
               PROVE  i = j
    OBVIOUS
  <2>1. i \in Nat /\ j \in Nat /\ messages[i].id \in Nat
    BY <1>2, RowsAre
  <2>2. ~(i < j) /\ ~(j < i)
    BY <1>2, <2>1 DEF Whole
  <2> QED BY <2>1, <2>2
<1>5. ASSUME NEW i \in DOMAIN messages, NEW j \in DOMAIN messages,
             Follows(messages, i, j), messages[i].id \in doomed
      PROVE  messages[j].id \in doomed
  <2>1. CASE following
    <3>1. doomed = {messages[k].id : k \in at .. Len(messages)}
      BY <2>1 DEF MessagesToDelete
    <3>2. at .. Len(messages) \subseteq DOMAIN messages
      BY <1>2
    <3>3. i \in at .. Len(messages)
      BY <1>4, <1>5, <3>1, <3>2
    <3>4. j \in at .. Len(messages)
      BY <1>2, <1>5, <3>3 DEF Follows
    <3> QED BY <3>1, <3>4
  <2>2. CASE ~following
    <3>1. doomed = {r.id : r \in {x \in ToSet(messages) : \/ x.id = messages[at].id
                                                        \/ x.of \in CallIds(messages[at].calls)}}
      BY <2>2 DEF MessagesToDelete
    <3>2. PICK x \in ToSet(messages) : /\ x.id = messages[i].id
                                       /\ \/ x.id = messages[at].id
                                          \/ x.of \in CallIds(messages[at].calls)
      BY <1>5, <3>1
    <3>3. x = messages[i]
      BY <1>4, <3>2 DEF ToSet
    <3>4. messages[i].of = 0 /\ 0 \notin CallIds(messages[at].calls)
      <4>1. RowOK(messages[i], lastId) /\ RowOK(messages[at], lastId)
        BY <1>2 DEF Whole
      <4>2. messages[i].kind # "tool" /\ 0 \notin 1 .. lastId
        BY <1>2, <1>5 DEF Follows
      <4> QED BY <4>1, <4>2 DEF RowOK
    <3>5. i = at
      BY <1>4, <3>2, <3>3, <3>4
    <3>6. messages[j] \in ToSet(messages) /\ messages[j].of \in CallIds(messages[at].calls)
      BY <1>5, <3>5 DEF Follows, ToSet
    <3> QED BY <3>1, <3>6
  <2> QED BY <2>1, <2>2
<1>6. \A i, j \in DOMAIN messages : Follows(messages, i, j) /\ j \in keep => i \in keep
  BY <1>5
<1>7. \A j \in DOMAIN messages :
        messages[j].kind = "tool" /\ j \notin keep => messages[j].of \in Unsettled'
  <2> SUFFICES ASSUME NEW j \in DOMAIN messages, messages[j].kind = "tool", j \notin keep
               PROVE  messages[j].of \in Unsettled'
    OBVIOUS
  <2>1. messages[j] \in lost
    BY DEF ToSet
  <2> QED BY <1>3, <2>1
<1>8. keep \in SUBSET (DOMAIN messages)
  OBVIOUS
<1> HIDE DEF keep, doomed, lost
<1>9. Whole(FilterAt(messages, keep), lastId, Unsettled')
  BY <1>2, <1>3, <1>6, <1>7, <1>8, WholeFilter
<1>10. Whole(speech.read, lastId, Unsettled')
  <2>1. lastId \in Nat /\ lastId <= lastId /\ speech.read \in Seq(Row)
    BY <1>2
  <2>2. Whole(speech.read, lastId, Unsettled) /\ Unsettled \subseteq Unsettled'
    BY <1>2, <1>3
  <2> QED BY <2>1, <2>2, WholeMore
<1> QED BY <1>1, <1>9, <1>10 DEF TranscriptsAreWhole

LEMMA WholeBeginSpeech ==
  ASSUME GroupTypeOK, GroupTypeOK', StagesAgree, TranscriptsAreWhole,
         NEW withMail \in BOOLEAN, BeginSpeech(withMail)
  PROVE  TranscriptsAreWhole'
<1>1. /\ doing = "next" /\ doing' = "ask" /\ unanswered' = unanswered
      /\ speech' = [NoSpeech EXCEPT !.agent = NextSpeaker, !.read = messages', !.step = 1,
                                    !.from = lastId]
  BY DEF BeginSpeech
<1>2. speech'.read = messages' /\ speech'.pending = <<>>
  BY <1>1 DEF NoSpeech
<1>3. Unsettled' = unanswered /\ Unsettled = unanswered
  BY <1>1, <1>2, NoCallIds DEF Unsettled, StagesAgree
<1>4. Whole(messages', lastId', Unsettled')
  <2>1. CASE withMail
    <3>1. StoreAll(<<UserMessage(<<>>)>>)
      BY <2>1 DEF BeginSpeech
    <3>2. /\ UserMessage(<<>>) \in Row /\ UserMessage(<<>>).id = lastId + 1
          /\ UserMessage(<<>>).kind = "user" /\ UserMessage(<<>>).by = User
          /\ UserMessage(<<>>).calls = <<>> /\ UserMessage(<<>>).of = 0
      BY UserMessageIs
    <3> QED BY <1>3, <3>1, <3>2, WholeStart
  <2>2. CASE ~withMail
    BY <1>3, <2>2 DEF BeginSpeech, TranscriptsAreWhole
  <2> QED BY <2>1, <2>2
<1> QED BY <1>1, <1>2, <1>4 DEF TranscriptsAreWhole

\* Steering stores what the user says only when no call waits.
LEMMA WholeSteer ==
  ASSUME GroupTypeOK, GroupTypeOK', StagesAgree, TranscriptsAreWhole, Steer
  PROVE  TranscriptsAreWhole'
<1> DEFINE row == UserMessage(<<>>)
<1>1. doing' \in {"ask", "model"} /\ unanswered' = unanswered /\ StoreAll(<<row>>)
  BY DEF Steer, MaySteer
<1>2. speech'.pending = speech.pending /\ speech'.read = Append(speech.read, row)
  BY SteerSpeech
<1>3. Unsettled' = Unsettled
  BY <1>1, <1>2 DEF Unsettled
<1>4. /\ row \in Row /\ row.id = lastId + 1 /\ row.kind = "user" /\ row.by = User
      /\ row.calls = <<>> /\ row.of = 0
  BY UserMessageIs
<1> HIDE DEF row
<1>5. Whole(messages', lastId', Unsettled')
  BY <1>1, <1>3, <1>4, WholeStart
<1>6. lastId \in Nat /\ lastId' = lastId + 1 /\ speech.read \in Seq(Row)
      /\ Whole(speech.read, lastId, Unsettled)
  BY <1>1, <1>4, OneStored DEF GroupTypeOK, TranscriptsAreWhole
<1>7. /\ lastId' \in Nat /\ lastId < row.id /\ row.id <= lastId'
      /\ row.kind \notin {"assistant", "tool"} /\ (row.by = User <=> row.kind \in {"user", "summary"})
  BY <1>4, <1>6
<1>8. Whole(Append(speech.read, row), lastId', Unsettled)
  BY <1>4, <1>6, <1>7, PlainAppend
<1> QED BY <1>1, <1>2, <1>3, <1>5, <1>8 DEF TranscriptsAreWhole

LEMMA WholeEmpty == ASSUME NEW last, NEW open PROVE Whole(<<>>, last, open)
BY DEF Whole

\* A step keeps the transcripts whole.
LEMMA WholeStep ==
  ASSUME GroupTypeOK, GroupTypeOK', StagesAgree, TranscriptsAreWhole, GroupNext
  PROVE  TranscriptsAreWhole'
<1>1. ASSUME NEW names \in Mentions, StartRound(names) PROVE TranscriptsAreWhole'
  <2>1. /\ UserMessage(names) \in Row /\ UserMessage(names).id = lastId + 1
        /\ UserMessage(names).kind = "user" /\ UserMessage(names).by = User
        /\ UserMessage(names).calls = <<>> /\ UserMessage(names).of = 0
    BY UserMessageIs
  <2>2. /\ StoreAll(<<UserMessage(names)>>) /\ doing' = "next"
        /\ UNCHANGED <<speech, unanswered>>
    BY <1>1 DEF StartRound
  <2>3. Unsettled' = Unsettled
    BY <2>2 DEF Unsettled
  <2>4. Whole(messages', lastId', Unsettled') /\ Whole(speech.read, lastId', Unsettled')
    BY <2>1, <2>2, <2>3, WholeStart
  <2> QED BY <2>2, <2>4 DEF TranscriptsAreWhole
<1>2. ASSUME NEW names \in Mentions, CliAnswers(names) PROVE TranscriptsAreWhole'
  BY <1>2, WholeCliAnswers
<1>3. ASSUME NEW names \in Mentions, NEW sends \in BOOLEAN, ExecuteTool(names, sends)
      PROVE  TranscriptsAreWhole'
  BY <1>3, WholeExecuteTool
<1>4. ASSUME NEW names \in Mentions, NEW says \in BOOLEAN, NEW uses \in Uses,
             ModelAnswers(says, names, uses)
      PROVE  TranscriptsAreWhole'
  BY <1>4, WholeModelAnswers
<1>5. ASSUME NEW withMail \in BOOLEAN, BeginSpeech(withMail) PROVE TranscriptsAreWhole'
  BY <1>5, WholeBeginSpeech
<1>6. CASE RefuseTurn \/ AskSpeaker \/ FinishTurn \/ EndSpeech \/ RequestCompaction
  <2>1. /\ UNCHANGED <<messages, lastId, speech, unanswered>>
        /\ doing # "tools" /\ doing' # "tools"
    <3>1. CASE EndSpeech
      BY <3>1 DEF EndSpeech
    <3> QED BY <1>6, <3>1 DEF RefuseTurn, AskSpeaker, FinishTurn, RequestCompaction, Free
  <2>2. Unsettled' = Unsettled
    BY <2>1 DEF Unsettled
  <2> QED BY <2>1, <2>2, WholeSame
<1>7. CASE Steer
  BY <1>7, WholeSteer
<1>9. CASE SpeechBreaks \/ StopCalls
  <2>1. /\ UNCHANGED <<messages, lastId, speech>> /\ unanswered \subseteq unanswered'
        /\ doing' # "tools"
    BY <1>9 DEF SpeechBreaks, StopCalls
  <2>2. Unsettled \subseteq Unsettled'
    BY <2>1 DEF Unsettled
  <2> QED BY <2>1, <2>2, WholeSame
<1>11. CASE NextStep
  <2>1. /\ UNCHANGED <<messages, lastId, unanswered>> /\ doing' # "tools"
    BY <1>11 DEF NextStep
  <2>2. speech'.pending = speech.pending /\ speech'.read = speech.read
    BY <1>11, NextStepSpeech
  <2>3. Unsettled' = Unsettled
    BY <2>1, <2>2 DEF Unsettled
  <2> QED BY <2>1, <2>2, <2>3, WholeSame
<1>14. CASE RoundOver
  <2>1. /\ UNCHANGED <<messages, lastId, unanswered>> /\ doing' = "nothing" /\ speech' = NoSpeech
        /\ doing \in {"ended", "failed"}
    BY <1>14 DEF RoundOver
  <2>2. speech'.pending = <<>> /\ speech'.read = <<>>
    BY <2>1 DEF NoSpeech
  <2>3. CallIds(speech.pending) \subseteq unanswered
    BY <2>1, NoCallIds DEF StagesAgree
  <2>4. Unsettled' = Unsettled
    BY <2>1, <2>2, <2>3, NoCallIds DEF Unsettled
  <2> QED BY <2>1, <2>2, <2>4, WholeEmpty DEF TranscriptsAreWhole
<1>16. CASE StopRound \/ \E list \in Memberships : SetMembers(list)
  <2>1. UNCHANGED <<messages, lastId, speech, unanswered, doing>>
    BY <1>16 DEF StopRound, SetMembers
  <2>2. Unsettled' = Unsettled
    BY <2>1 DEF Unsettled
  <2> QED BY <2>1, <2>2 DEF TranscriptsAreWhole
<1>17. ASSUME NEW ok \in BOOLEAN, EndCompaction(ok) PROVE TranscriptsAreWhole'
  <2> DEFINE row == [NewMessage(1, "summary", User) EXCEPT !.covers = summing.rows]
  <2>1. /\ UNCHANGED <<speech, unanswered, doing>> /\ doing = "nothing"
        /\ StoreAll(<<row>>) \/ UNCHANGED <<messages, lastId>>
    BY <1>17 DEF EndCompaction, StagesAgree
  <2>2. Unsettled' = Unsettled
    BY <2>1 DEF Unsettled
  <2>3. /\ row \in Row /\ row.id = lastId + 1 /\ row.kind = "summary" /\ row.by = User
        /\ row.calls = <<>> /\ row.of = 0
    BY SummaryIs
  <2> HIDE DEF row
  <2>4. CASE StoreAll(<<row>>)
    <3>1. Whole(messages', lastId', Unsettled') /\ Whole(speech.read, lastId', Unsettled')
      BY <2>2, <2>3, <2>4, WholeStart
    <3> QED BY <2>1, <3>1 DEF TranscriptsAreWhole
  <2>5. CASE UNCHANGED <<messages, lastId>>
    BY <2>1, <2>2, <2>5 DEF TranscriptsAreWhole
  <2> QED BY <2>1, <2>4, <2>5
<1>18. ASSUME NEW i \in DOMAIN messages, NEW following \in BOOLEAN, DeleteMessage(i, following)
       PROVE  TranscriptsAreWhole'
  BY <1>18, WholeDeleteMessage
<1> QED BY <1>1, <1>2, <1>3, <1>4, <1>5, <1>6, <1>7, <1>9, <1>11,
           <1>14, <1>16, <1>17, <1>18 DEF GroupNext

-----------------------------------------------------------------------------
\* Summaries.

\* A summary of all lines before it misses none.
LEMMA CoveredAppend ==
  ASSUME NEW rs \in Seq(Row), NEW row \in Row, Covered(rs),
         row.kind = "summary" => \A k \in DOMAIN rs : OlderOrIn(rs[k], row.covers)
  PROVE  Covered(Append(rs, row))
<1> DEFINE t == Append(rs, row)
           n == Len(rs)
<1>1. /\ n \in Nat /\ DOMAIN rs = 1 .. n /\ DOMAIN t = 1 .. n + 1
      /\ \A i \in 1 .. n : t[i] = rs[i]
      /\ t[n + 1] = row
  BY AppendIs
<1> HIDE DEF t, n
<1>2. ASSUME NEW s \in DOMAIN t, t[s].kind = "summary", NEW k \in DOMAIN t, k < s
      PROVE  OlderOrIn(t[k], t[s].covers)
  <2>1. k \in 1 .. n /\ t[k] = rs[k]
    BY <1>1, <1>2
  <2>2. CASE s \in 1 .. n
    <3>1. t[s] = rs[s]
      BY <1>1, <2>2
    <3> QED BY <1>1, <1>2, <2>1, <2>2, <3>1 DEF Covered
  <2>3. CASE s = n + 1
    <3>1. t[s] = row
      BY <1>1, <2>3
    <3> QED BY <1>1, <1>2, <2>1, <3>1
  <2> QED BY <1>1, <2>2, <2>3
<1>3. Covered(t)
  BY <1>2 DEF Covered
<1> QED BY <1>3 DEF t

LEMMA CoveredExtended ==
  ASSUME NEW old \in Seq(Row), NEW new, NEW who, NEW last, Extended(old, new, who, last),
         Covered(old)
  PROVE  Covered(new)
<1>1. /\ Len(old) \in Nat /\ DOMAIN old = 1 .. Len(old) /\ Len(new) \in Nat
      /\ DOMAIN new = 1 .. Len(new) /\ \A i \in DOMAIN old : new[i] = old[i]
  BY DEF Extended
<1>2. ASSUME NEW s \in DOMAIN new, new[s].kind = "summary", NEW k \in DOMAIN new, k < s
      PROVE  OlderOrIn(new[k], new[s].covers)
  <2>1. s \in DOMAIN old
    BY <1>1, <1>2 DEF Extended
  <2>2. k \in DOMAIN old
    BY <1>1, <1>2, <2>1
  <2>3. new[s] = old[s] /\ new[k] = old[k]
    BY <1>1, <2>1, <2>2
  <2> QED BY <1>2, <2>1, <2>2, <2>3 DEF Covered
<1> QED BY <1>2 DEF Covered

\* Deleting rows uncovers none.
LEMMA CoveredFilter ==
  ASSUME NEW rs \in Seq(Row), NEW keep \in SUBSET (DOMAIN rs), Covered(rs)
  PROVE  Covered(FilterAt(rs, keep))
<1> DEFINE t == FilterAt(rs, keep)
<1>0. \E m, at : Picks(t, rs, keep, m, at)
  BY FilterIs
<1> HIDE DEF t
<1>a. PICK m, at : Picks(t, rs, keep, m, at)
  BY <1>0
<1>1. /\ at \in [1 .. m -> keep] /\ DOMAIN t = 1 .. m
      /\ \A r \in 1 .. m : t[r] = rs[at[r]]
      /\ \A r, q \in 1 .. m : r < q => at[r] < at[q]
  BY <1>a DEF Picks
<1>2. \A r \in 1 .. m : at[r] \in DOMAIN rs
  BY <1>1
<1>3. Covered(t)
  BY <1>1, <1>2 DEF Covered
<1> QED BY <1>3 DEF t

\* The newest lines that fit are newer than the lines left out.
LEMMA SummarizedCovers ==
  ASSUME GroupTypeOK, TranscriptsAreWhole
  PROVE  \A k \in DOMAIN messages : OlderOrIn(messages[k], Summarized)
<1> DEFINE rest == SinceCompaction(messages)
           l == LastSummary(messages)
           lines == {i \in DOMAIN rest : Rendered(rest[i])}
           Later(i) == {j \in lines : i < j}
           taken == {k \in lines : Later(k) = {} \/ Cardinality(Later(k)) < SummarySize}
<1>1. messages \in Seq(Row) /\ Len(messages) \in Nat /\ DOMAIN messages = 1 .. Len(messages)
  BY DEF GroupTypeOK
<1>2. \A i, j \in DOMAIN messages : i < j => messages[i].id < messages[j].id
  BY DEF TranscriptsAreWhole, Whole
<1>3. /\ DOMAIN rest = 1 .. Len(messages) - l /\ l \in 0 .. Len(messages)
      /\ \A i \in 1 .. Len(messages) - l : rest[i] = messages[l + i]
  BY <1>1, RestIs, LastSummaryIs
<1>4. Summarized = {rest[i].id : i \in taken}
  BY DEF Summarized
<1> HIDE DEF rest, l
<1>5. lines \subseteq 1 .. Len(messages) - l /\ \A i \in lines : i \in Nat
  BY <1>1, <1>3
<1>6. \A i \in lines : IsFiniteSet(Later(i)) /\ Cardinality(Later(i)) \in Nat
  <2>1. \A i \in lines : Later(i) \in SUBSET (1 .. Len(messages) - l)
    BY <1>5
  <2>2. Len(messages) - l \in Nat
    BY <1>1, <1>3
  <2>3. IsFiniteSet(1 .. Len(messages) - l)
    BY <2>2, FS_Interval
  <2> HIDE DEF Later, lines
  <2>4. \A i \in lines : IsFiniteSet(Later(i))
    BY <2>1, <2>3, FS_Subset
  <2> QED BY <2>4, FS_CardinalityType
<1>7. ASSUME NEW i \in lines, NEW j \in taken, i \notin taken PROVE i < j
  <2>1. j \in lines /\ i \in Nat /\ j \in Nat
    BY <1>5
  <2>2. ASSUME j < i PROVE FALSE
    <3>1. Later(i) \subseteq Later(j) /\ Later(i) # {} /\ Later(j) # {}
      <4>1. \A k \in lines : i < k => j < k
        BY <1>5, <2>1, <2>2
      <4> QED BY <1>7, <4>1
    <3>2. Cardinality(Later(i)) <= Cardinality(Later(j))
      <4>1. Later(i) \in SUBSET Later(j) /\ IsFiniteSet(Later(j))
        BY <1>6, <2>1, <3>1
      <4> HIDE DEF Later
      <4> QED BY <4>1, FS_Subset
    <3>3. ~(Cardinality(Later(i)) < SummarySize) /\ Cardinality(Later(j)) < SummarySize
      BY <1>7, <3>1
    <3>4. SummarySize \in Nat
      BY GroupBoundsAssumption
    <3>5. Cardinality(Later(i)) \in Nat /\ Cardinality(Later(j)) \in Nat
      BY <1>6, <2>1
    <3> HIDE DEF Later
    <3> QED BY <3>2, <3>3, <3>4, <3>5
  <2>3. i # j
    BY <1>7
  <2> HIDE DEF taken, lines
  <2> QED BY <2>1, <2>2, <2>3
<1> SUFFICES ASSUME NEW k \in DOMAIN messages, Rendered(messages[k]), messages[k].id \notin Summarized
             PROVE  \A id \in Summarized : messages[k].id < id
  BY DEF OlderOrIn
<1>8. ASSUME NEW j \in taken PROVE messages[k].id < rest[j].id
  <2>1. j \in lines
    OBVIOUS
  <2>2. j \in 1 .. Len(messages) - l /\ rest[j] = messages[l + j] /\ l + j \in DOMAIN messages
    BY <1>1, <1>3, <1>5, <2>1
  <2>3. k < l + j
    <3>1. CASE k <= l
      BY <1>1, <1>3, <2>2, <3>1
    <3>2. CASE l < k
      <4>1. k - l \in 1 .. Len(messages) - l /\ l + (k - l) = k
        BY <1>1, <1>3, <3>2
      <4>2. rest[k - l] = messages[k] /\ k - l \in lines
        BY <1>3, <4>1
      <4>3. k - l \notin taken
        BY <1>4, <4>2
      <4>4. k - l < j
        BY <1>7, <4>2, <4>3
      <4> QED BY <1>1, <1>3, <2>2, <4>4
    <3> QED BY <1>1, <1>3, <3>1, <3>2
  <2> QED BY <1>2, <2>2, <2>3
<1> HIDE DEF taken
<1> QED BY <1>4, <1>8

-----------------------------------------------------------------------------
\* A turn goes on: its agent and the user add rows.

\* A step within the turn of an agent: nobody is heard or called, nothing is summarised.
SpeechGoes ==
  /\ doing \in Speaking /\ doing' \in Speaking \cup {"failed"}
  /\ round' = round /\ summing' = summing /\ lastId <= lastId'
  /\ speech'.agent = speech.agent /\ speech'.from = speech.from
  /\ Extended(messages, messages', speech.agent, lastId)
  /\ Extended(speech.read, speech'.read, speech.agent, lastId)

\* The old rows and the new ones.
LEMMA ExtendedIs ==
  ASSUME NEW old \in Seq(Row), NEW new, NEW who, NEW last, Extended(old, new, who, last)
  PROVE  /\ new \in Seq(Row) /\ Len(old) \in Nat /\ Len(new) \in Nat /\ Len(old) <= Len(new)
         /\ DOMAIN old = 1 .. Len(old) /\ DOMAIN new = 1 .. Len(new)
         /\ \A i \in DOMAIN old : i \in DOMAIN new /\ new[i] = old[i]
         /\ \A i \in DOMAIN new : i \notin DOMAIN old =>
              new[i].by \in {User, who} /\ new[i].kind # "summary" /\ last < new[i].id
<1>1. /\ new \in Seq(Row) /\ Len(old) \in Nat /\ Len(new) \in Nat /\ Len(old) <= Len(new)
      /\ DOMAIN old = 1 .. Len(old) /\ DOMAIN new = 1 .. Len(new)
  BY DEF Extended
<1>2. \A i \in DOMAIN new : i \notin DOMAIN old => Len(old) < i
  BY <1>1
<1> QED BY <1>1, <1>2 DEF Extended

\* Such steps keep what is known of a round, part by part.
LEMMA RoundRowsGoOn ==
  ASSUME GroupTypeOK, GroupTypeOK', StagesAgree, RoundRows, SpeechGoes
  PROVE  RoundRows'
<1>1. messages \in Seq(Row) /\ doing # "nothing"
  BY DEF GroupTypeOK, SpeechGoes, Speaking
<1>2. /\ \A i \in DOMAIN messages : i \in DOMAIN messages' /\ messages'[i] = messages[i]
      /\ \A i \in DOMAIN messages' : i \notin DOMAIN messages =>
           messages'[i].by \in {User, speech.agent} /\ messages'[i].kind # "summary"
  BY <1>1, ExtendedIs DEF SpeechGoes
<1>3. speech.agent \in round.answered /\ round' = round
  BY SpeakerIs DEF SpeechGoes
<1> QED BY <1>1, <1>2, <1>3 DEF RoundRows, InRound

LEMMA RepliesGoOn ==
  ASSUME GroupTypeOK, GroupTypeOK', StagesAgree, RepliesKnown, SpeechGoes
  PROVE  RepliesKnown'
<1>1. messages \in Seq(Row) /\ doing \notin {"nothing", "failed"} /\ Current = {speech.agent}
      /\ round' = round
  BY DEF GroupTypeOK, SpeechGoes, Speaking, Current
<1>2. /\ \A i \in DOMAIN messages : i \in DOMAIN messages' /\ messages'[i] = messages[i]
      /\ \A i \in DOMAIN messages' : i \notin DOMAIN messages =>
           messages'[i].by \in {User, speech.agent}
      /\ Extended(messages, messages', speech.agent, lastId)
  BY <1>1, ExtendedIs DEF SpeechGoes
<1>3. doing' \notin {"nothing", "failed"} => Current' = {speech.agent}
  BY DEF SpeechGoes, Speaking, Current
<1> SUFFICES ASSUME doing' \notin {"nothing", "failed"} PROVE RepliesKnown'
  BY DEF RepliesKnown
<1>4. ASSUME NEW i \in DOMAIN messages', messages'[i].id > round.from,
             messages'[i].by \notin {User, speech.agent}
      PROVE  IsReply(messages', i) <=> messages'[i].id \in round.said
  <2>1. i \in DOMAIN messages /\ messages'[i] = messages[i]
    BY <1>2, <1>4
  <2>2. IsReply(messages', i) <=> IsReply(messages, i)
    BY <1>1, <1>2, <1>4, <2>1, ReplyStays
  <2> QED BY <1>1, <1>4, <2>1, <2>2 DEF RepliesKnown, InRound
<1>5. ASSUME NEW id \in round.said
      PROVE  \E i \in DOMAIN messages' :
               messages'[i].id = id /\ messages'[i].id > round.from
               /\ messages'[i].by \notin {User, speech.agent}
  <2>1. PICK i \in DOMAIN messages :
          messages[i].id = id /\ InRound(messages[i]) /\ messages[i].by \notin {User} \cup Current
    BY <1>1, <1>5 DEF RepliesKnown
  <2>2. i \in DOMAIN messages' /\ messages'[i] = messages[i] /\ messages[i].id > round.from
    BY <1>2, <2>1 DEF InRound
  <2> QED BY <1>1, <2>1, <2>2
<1>6. /\ \A i \in DOMAIN messages' :
           InRound(messages[i])' /\ messages'[i].by \notin {User} \cup Current' =>
             (IsReply(messages', i) <=> messages'[i].id \in round'.said)
      /\ \A id \in round'.said : \E i \in DOMAIN messages' :
           messages'[i].id = id /\ InRound(messages[i])' /\ messages'[i].by \notin {User} \cup Current'
  BY <1>1, <1>3, <1>4, <1>5 DEF InRound
<1> QED BY <1>6 DEF RepliesKnown

LEMMA ReadGoesOn ==
  ASSUME GroupTypeOK, GroupTypeOK', ReadIs, SpeechGoes
  PROVE  ReadIs'
<1> DEFINE old == speech.read
           new == speech'.read
<1>1. messages \in Seq(Row) /\ old \in Seq(Row) /\ lastId \in Nat /\ speech.from \in Nat
      /\ lastId' \in Nat /\ speech'.from = speech.from /\ speech'.agent = speech.agent
      /\ round' = round /\ lastId <= lastId' /\ doing \in Speaking
  BY DEF GroupTypeOK, SpeechGoes
<1>2. /\ \A i \in DOMAIN messages : i \in DOMAIN messages' /\ messages'[i] = messages[i]
      /\ \A i \in DOMAIN messages' : i \notin DOMAIN messages =>
           messages'[i].by \in {User, speech.agent} /\ lastId < messages'[i].id
      /\ Len(messages) \in Nat /\ Len(messages') \in Nat /\ Len(messages) <= Len(messages')
      /\ DOMAIN messages = 1 .. Len(messages) /\ DOMAIN messages' = 1 .. Len(messages')
      /\ messages' \in Seq(Row)
  BY <1>1, ExtendedIs DEF SpeechGoes
<1>3. /\ \A i \in DOMAIN old : i \in DOMAIN new /\ new[i] = old[i]
      /\ \A i \in DOMAIN new : i \notin DOMAIN old =>
           new[i].by \in {User, speech.agent} /\ new[i].kind # "summary"
      /\ Len(old) \in Nat /\ Len(new) \in Nat /\ Len(old) <= Len(new)
      /\ DOMAIN old = 1 .. Len(old) /\ DOMAIN new = 1 .. Len(new)
  BY <1>1, ExtendedIs DEF SpeechGoes
<1>4. round.from <= speech.from /\ speech.from <= lastId
  BY <1>1 DEF ReadIs
<1>5. ASSUME NEW i \in DOMAIN messages', messages'[i].id > round.from,
             messages'[i].by = speech.agent
      PROVE  messages'[i].id > speech.from
  <2>1. CASE i \in DOMAIN messages
    BY <1>1, <1>2, <1>5, <2>1 DEF ReadIs, InRound
  <2>2. CASE i \notin DOMAIN messages
    <3>1. messages'[i].id \in Nat /\ lastId < messages'[i].id
      BY <1>2, <2>2, RowsAre
    <3> QED BY <1>1, <1>4, <3>1
  <2> QED BY <2>1, <2>2
<1>6. PICK n \in 0 .. Len(messages) :
       /\ n <= Len(old)
       /\ \A i \in 1 .. n : old[i] = messages[i]
       /\ \A i \in DOMAIN messages : i > n => messages[i].by \in {User, speech.agent}
       /\ \A i \in DOMAIN old : i > n =>
            old[i].by \in {User, speech.agent} /\ old[i].kind # "summary"
  BY <1>1 DEF ReadIs
<1> HIDE DEF old, new
<1>7. n \in 0 .. Len(messages') /\ n <= Len(new)
  BY <1>2, <1>3, <1>6
<1>8. \A i \in 1 .. n : new[i] = messages'[i]
  <2> SUFFICES ASSUME NEW i \in 1 .. n PROVE new[i] = messages'[i]
    OBVIOUS
  <2>1. i \in DOMAIN messages /\ i \in DOMAIN old
    BY <1>2, <1>3, <1>6
  <2> QED BY <1>2, <1>3, <1>6, <2>1
<1>9. \A i \in DOMAIN messages' : i > n => messages'[i].by \in {User, speech.agent}
  BY <1>2, <1>6
<1>10. \A i \in DOMAIN new : i > n =>
         new[i].by \in {User, speech.agent} /\ new[i].kind # "summary"
  BY <1>3, <1>6
<1>11. /\ \A i \in DOMAIN messages' :
            InRound(messages[i])' /\ messages'[i].by = speech'.agent => messages'[i].id > speech'.from
       /\ round'.from <= speech'.from /\ speech'.from <= lastId'
  BY <1>1, <1>4, <1>5 DEF InRound
<1>12. \E k \in 0 .. Len(messages') :
         /\ k <= Len(new)
         /\ \A i \in 1 .. k : new[i] = messages'[i]
         /\ \A i \in DOMAIN messages' : i > k => messages'[i].by \in {User, speech'.agent}
         /\ \A i \in DOMAIN new : i > k =>
              new[i].by \in {User, speech'.agent} /\ new[i].kind # "summary"
  BY <1>1, <1>7, <1>8, <1>9, <1>10
<1> QED BY <1>11, <1>12 DEF ReadIs, new

\* The rows that count for who is asked are old.
LEMMA SaidAreOld ==
  ASSUME GroupTypeOK, RoundRows, RepliesKnown, doing \notin {"nothing", "failed"}
  PROVE  \A id \in round.said \cup {round.from} : id <= lastId
<1>1. \A id \in round.said : \E i \in DOMAIN messages : messages[i].id = id
  BY DEF RepliesKnown
<1>2. \E i \in DOMAIN messages : messages[i].id = round.from
  BY DEF RoundRows
<1>3. \A i \in DOMAIN messages : messages[i].id <= lastId
  BY DEF GroupTypeOK
<1> QED BY <1>1, <1>2, <1>3

LEMMA AskedGoesOn ==
  ASSUME GroupTypeOK, GroupTypeOK', RoundRows, RepliesKnown, Asked, SpeechGoes
  PROVE  Asked'
<1>1. messages \in Seq(Row) /\ doing \notin {"nothing", "failed"} /\ round' = round
      /\ lastId \in Nat /\ round \in Round
  BY GroupTypeParts DEF SpeechGoes, Speaking
<1>2. /\ \A i \in DOMAIN messages : i \in DOMAIN messages' /\ messages'[i] = messages[i]
      /\ \A i \in DOMAIN messages' : i \notin DOMAIN messages => lastId < messages'[i].id
      /\ messages' \in Seq(Row)
  BY <1>1, ExtendedIs DEF SpeechGoes
<1>3. \A id \in round.said \cup {round.from} : id <= lastId /\ id \in Nat
  BY <1>1, SaidAreOld DEF Round
<1>4. \A i \in DOMAIN messages' :
        messages'[i].id \in round.said \cup {round.from} => i \in DOMAIN messages
  <2> SUFFICES ASSUME NEW i \in DOMAIN messages', messages'[i].id \in round.said \cup {round.from},
                      i \notin DOMAIN messages
               PROVE  FALSE
    OBVIOUS
  <2>1. lastId < messages'[i].id /\ messages'[i].id <= lastId /\ messages'[i].id \in Nat
    BY <1>2, <1>3
  <2> QED BY <1>1, <2>1
<1> QED BY <1>1, <1>2, <1>4 DEF Asked

LEMMA SummariesGoOn ==
  ASSUME GroupTypeOK, StagesAgree, SummariesOK, SpeechGoes
  PROVE  SummariesOK'
<1>1. messages \in Seq(Row) /\ Covered(messages) /\ ~summing'.on
  BY DEF GroupTypeOK, SummariesOK, SpeechGoes, StagesAgree, Speaking
<1>2. Covered(messages')
  BY <1>1, CoveredExtended DEF SpeechGoes
<1> QED BY <1>1, <1>2 DEF SummariesOK

\* What is known of a round.
RoundInv == /\ RoundRows /\ RepliesKnown /\ ReadIs /\ Asked /\ SummariesOK /\ NobodyAnswersTwice

LEMMA SpeechGoesOn ==
  ASSUME GroupTypeOK, GroupTypeOK', StagesAgree, RoundInv, SpeechGoes
  PROVE  RoundInv'
<1>1. NobodyAnswersTwice'
  BY DEF RoundInv, NobodyAnswersTwice, SpeechGoes
<1> QED BY <1>1, RoundRowsGoOn, RepliesGoOn, ReadGoesOn, AskedGoesOn, SummariesGoOn DEF RoundInv

\* A row that the user or the speaker adds.
Added(row) ==
  row \in Row /\ row.by \in {User, speech.agent} /\ row.kind # "summary" /\ lastId < row.id

LEMMA AddedToAll ==
  ASSUME NEW old \in Seq(Row), NEW a, Added(a)
  PROVE  /\ Extended(old, old, speech.agent, lastId)
         /\ Extended(old, Append(old, a), speech.agent, lastId)
         /\ \A b : Added(b) => Extended(old, Append(Append(old, a), b), speech.agent, lastId)
         /\ \A b, c : Added(b) /\ Added(c) =>
              Extended(old, Append(Append(Append(old, a), b), c), speech.agent, lastId)
<1>1. /\ Extended(old, old, speech.agent, lastId)
      /\ Extended(old, Append(old, a), speech.agent, lastId)
  BY ExtendedSame, ExtendedAppend DEF Added
<1>2. ASSUME NEW b, Added(b)
      PROVE  Extended(old, Append(Append(old, a), b), speech.agent, lastId)
  BY <1>1, <1>2, ExtendedAppend DEF Added
<1>3. ASSUME NEW b, NEW c, Added(b), Added(c)
      PROVE  Extended(old, Append(Append(Append(old, a), b), c), speech.agent, lastId)
  <2>1. Extended(old, Append(Append(old, a), b), speech.agent, lastId)
    BY <1>2, <1>3
  <2> QED BY <1>3, <2>1, ExtendedAppend DEF Added
<1> QED BY <1>1, <1>2, <1>3

\* These are such steps.
LEMMA ModelAnswersGoes ==
  ASSUME GroupTypeOK, StagesAgree, NEW says \in BOOLEAN, NEW names \in Mentions, NEW uses \in Uses,
         ModelAnswers(says, names, uses)
  PROVE  SpeechGoes
<1> DEFINE calls == AnswerCalls(uses)
           answer == Answer(says, names, calls)
<1>1. messages \in Seq(Row) /\ speech.read \in Seq(Row) /\ lastId \in Nat
  BY DEF GroupTypeOK
<1>2. calls \in Seq(Call) /\ Len(uses) \in Nat
  BY AnswerCallsAre
<1>3. /\ answer \in Row /\ answer.id = lastId + 1 /\ answer.kind = "assistant"
      /\ answer.by = speech.agent
  BY <1>2, AnswerIs
<1>4. /\ doing = "model" /\ doing' \in {"stop", "tools", "failed"} /\ UNCHANGED <<round, summing>>
      /\ messages' = Append(messages, answer) /\ lastId' = lastId + 1 + Len(uses)
  BY ModelAnswersIs
<1>5. /\ speech'.agent = speech.agent /\ speech'.from = speech.from
      /\ speech'.read = Append(speech.read, answer)
  BY ModelAnswersSpeech
<1> HIDE DEF calls, answer
<1>6. Added(answer) /\ lastId <= lastId'
  BY <1>1, <1>2, <1>3, <1>4 DEF Added
<1> QED BY <1>1, <1>4, <1>5, <1>6, AddedToAll DEF SpeechGoes, Speaking

LEMMA CliAnswersGoes ==
  ASSUME GroupTypeOK, StagesAgree, NEW names \in Mentions, CliAnswers(names)
  PROVE  SpeechGoes
<1> DEFINE sent == SentMessage(1, names)
           result == ResultOf(3, CliCall)
<1>1. messages \in Seq(Row) /\ speech.read \in Seq(Row) /\ lastId \in Nat
  BY DEF GroupTypeOK
<1>2. sent \in Row /\ sent.id = lastId + 1 /\ sent.kind = "sent" /\ sent.by = speech.agent
  BY SentMessageIs
<1>3. /\ CliAnswer \in Row /\ CliAnswer.id = lastId + 2 /\ CliAnswer.kind = "assistant"
      /\ CliAnswer.by = speech.agent /\ CliCall \in Call
  BY CliAnswerIs
<1>4. result \in Row /\ result.id = lastId + 3 /\ result.kind = "tool" /\ result.by = speech.agent
  BY <1>3, ResultOfIs
<1>5. /\ doing = "model" /\ doing' = "stop" /\ UNCHANGED <<round, summing>>
      /\ messages' = messages \o <<sent, CliAnswer, result>> /\ lastId' = lastId + 4
  BY CliAnswersIs
<1>6. /\ speech'.agent = speech.agent /\ speech'.from = speech.from
      /\ speech'.read = speech.read \o <<CliAnswer, result>>
  BY CliAnswersSpeech
<1> HIDE DEF sent, result
<1>7. Added(sent) /\ Added(CliAnswer) /\ Added(result) /\ lastId <= lastId'
  BY <1>1, <1>2, <1>3, <1>4, <1>5 DEF Added
<1>8. messages' = Append(Append(Append(messages, sent), CliAnswer), result)
  BY <1>1, <1>2, <1>3, <1>4, <1>5, ThreeRows
<1>9. speech'.read = Append(Append(speech.read, CliAnswer), result)
  BY <1>1, <1>3, <1>4, <1>6, TwoRows
<1>10. Extended(messages, messages', speech.agent, lastId)
  <2>1. \A b, d : Added(b) /\ Added(d) =>
          Extended(messages, Append(Append(Append(messages, sent), b), d), speech.agent, lastId)
    BY <1>1, <1>7, AddedToAll
  <2> QED BY <1>7, <1>8, <2>1
<1>11. Extended(speech.read, speech'.read, speech.agent, lastId)
  BY <1>1, <1>7, <1>9, AddedToAll
<1> QED BY <1>5, <1>6, <1>7, <1>10, <1>11 DEF SpeechGoes, Speaking

LEMMA ExecuteToolGoes ==
  ASSUME GroupTypeOK, StagesAgree, NEW names \in Mentions, NEW sends \in BOOLEAN, ExecuteTool(names, sends)
  PROVE  SpeechGoes
<1> DEFINE c == Head(speech.pending)
<1>1. messages \in Seq(Row) /\ speech.read \in Seq(Row) /\ lastId \in Nat
      /\ speech.pending \in Seq(Call)
  BY DEF GroupTypeOK
<1>2. /\ doing = "tools" /\ doing' = "tools" /\ speech.pending # <<>> /\ UNCHANGED <<round, summing>>
  BY ExecuteToolIs
<1>3. c \in Call
  BY <1>1, <1>2, HeadTailIs
<1>4. speech'.agent = speech.agent /\ speech'.from = speech.from
  BY ExecuteToolSpeech
<1>5. CASE sends = TRUE
  <2> DEFINE sent == SentMessage(1, names)
             row == ResultOf(2, c)
  <2>1. /\ StoreAll(<<sent, row>>) /\ speech'.read = Append(speech.read, row)
    BY <1>5, ExecuteToolSpeech
  <2>2. /\ sent \in Row /\ sent.id = lastId + 1 /\ sent.kind = "sent" /\ sent.by = speech.agent
    BY SentMessageIs
  <2>3. /\ row \in Row /\ row.id = lastId + 2 /\ row.kind = "tool" /\ row.by = speech.agent
    BY <1>3, ResultOfIs
  <2> HIDE DEF sent, row, c
  <2>4. messages' = Append(Append(messages, sent), row) /\ lastId' = lastId + 2
    BY <2>1, <2>2, <2>3, TwoStored
  <2>5. Added(sent) /\ Added(row) /\ lastId <= lastId'
    BY <1>1, <2>2, <2>3, <2>4 DEF Added
  <2>6. Extended(messages, messages', speech.agent, lastId)
    BY <1>1, <2>4, <2>5, AddedToAll
  <2>7. Extended(speech.read, speech'.read, speech.agent, lastId)
    BY <1>1, <2>1, <2>5, AddedToAll
  <2> QED BY <1>2, <1>4, <2>5, <2>6, <2>7 DEF SpeechGoes, Speaking
<1>6. CASE sends = FALSE
  <2> DEFINE row == ResultOf(1, c)
  <2>1. /\ StoreAll(<<row>>) /\ speech'.read = Append(speech.read, row)
    BY <1>6, ExecuteToolSpeech
  <2>3. /\ row \in Row /\ row.id = lastId + 1 /\ row.kind = "tool" /\ row.by = speech.agent
    BY <1>3, ResultOfIs
  <2> HIDE DEF row, c
  <2>4. messages' = Append(messages, row) /\ lastId' = lastId + 1
    BY <2>1, <2>3, OneStored
  <2>5. Added(row) /\ lastId <= lastId'
    BY <1>1, <2>3, <2>4 DEF Added
  <2>6. Extended(messages, messages', speech.agent, lastId)
    BY <1>1, <2>4, <2>5, AddedToAll
  <2>7. Extended(speech.read, speech'.read, speech.agent, lastId)
    BY <1>1, <2>1, <2>5, AddedToAll
  <2> QED BY <1>2, <1>4, <2>5, <2>6, <2>7 DEF SpeechGoes, Speaking
<1> QED BY <1>5, <1>6

LEMMA SteerGoes ==
  ASSUME GroupTypeOK, StagesAgree, Steer
  PROVE  SpeechGoes
<1> DEFINE row == UserMessage(<<>>)
<1>1. messages \in Seq(Row) /\ speech.read \in Seq(Row) /\ lastId \in Nat
  BY DEF GroupTypeOK
<1>2. /\ doing \in {"ask", "model", "stop"} /\ doing' \in {"ask", "model"}
      /\ UNCHANGED <<round, summing>> /\ StoreAll(<<row>>)
  BY DEF Steer, MaySteer
<1>3. /\ speech'.agent = speech.agent /\ speech'.from = speech.from
      /\ speech'.read = Append(speech.read, row)
  BY SteerSpeech
<1>4. row \in Row /\ row.id = lastId + 1 /\ row.kind = "user" /\ row.by = User
  BY UserMessageIs
<1> HIDE DEF row
<1>5. messages' = Append(messages, row) /\ lastId' = lastId + 1
  BY <1>2, <1>4, OneStored
<1>6. Added(row) /\ lastId <= lastId'
  BY <1>1, <1>4, <1>5 DEF Added
<1>7. Extended(messages, messages', speech.agent, lastId)
  BY <1>1, <1>5, <1>6, AddedToAll
<1>8. Extended(speech.read, speech'.read, speech.agent, lastId)
  BY <1>1, <1>3, <1>6, AddedToAll
<1> QED BY <1>2, <1>3, <1>6, <1>7, <1>8 DEF SpeechGoes, Speaking

LEMMA QuietGoes ==
  ASSUME GroupTypeOK, AskSpeaker \/ SpeechBreaks \/ StopCalls \/ NextStep \/ FinishTurn
  PROVE  SpeechGoes
<1>1. messages \in Seq(Row) /\ speech.read \in Seq(Row) /\ lastId \in Nat
  BY DEF GroupTypeOK
<1>2. /\ UNCHANGED <<messages, lastId, round, summing>> /\ doing \in Speaking
      /\ doing' \in Speaking \cup {"failed"}
  BY DEF AskSpeaker, SpeechBreaks, StopCalls, NextStep, FinishTurn, Speaking
<1>3. /\ speech'.agent = speech.agent /\ speech'.from = speech.from
      /\ speech'.read = speech.read
  BY NextStepSpeech DEF AskSpeaker, SpeechBreaks, StopCalls, FinishTurn
<1>4. /\ Extended(messages, messages, speech.agent, lastId)
      /\ Extended(speech.read, speech.read, speech.agent, lastId)
  BY <1>1, ExtendedSame
<1> QED BY <1>1, <1>2, <1>3, <1>4 DEF SpeechGoes

-----------------------------------------------------------------------------
\* Rounds begin, pass the floor and end.

\* No two rows have one id.
LEMMA DistinctIds ==
  ASSUME GroupTypeOK, TranscriptsAreWhole
  PROVE  \A i, j \in DOMAIN messages : messages[i].id = messages[j].id => i = j
<1>1. messages \in Seq(Row) /\ \A i, j \in DOMAIN messages : i < j => messages[i].id < messages[j].id
  BY DEF GroupTypeOK, TranscriptsAreWhole, Whole
<1> SUFFICES ASSUME NEW i \in DOMAIN messages, NEW j \in DOMAIN messages,
                    messages[i].id = messages[j].id
             PROVE  i = j
  OBVIOUS
<1>2. i \in Nat /\ j \in Nat /\ messages[i].id \in Nat
  BY <1>1, RowsAre
<1>3. ~(i < j) /\ ~(j < i)
  BY <1>1, <1>2
<1> QED BY <1>2, <1>3

\* A round begins with the user's message; those who answer wait, each once.
LEMMA RoundStarts ==
  ASSUME GroupTypeOK, StagesAgree, RoundInv, NEW names \in Mentions, StartRound(names)
  PROVE  RoundInv'
<1> DEFINE row == UserMessage(names)
           n == Len(messages)
<1>1. messages \in Seq(Row) /\ lastId \in Nat /\ memberIds \in Memberships /\ ~summing.on
  BY DEF GroupTypeOK, StartRound, Free
<1>2. /\ row \in Row /\ row.id = lastId + 1 /\ row.kind = "user" /\ row.by = User
      /\ row.names = names
  BY UserMessageIs
<1>3. /\ StoreAll(<<row>>) /\ doing' = "next" /\ summing' = summing
  BY DEF StartRound
<1>4. PICK r \in RespondersFor(memberIds, names) :
        round' = [NoRound EXCEPT !.chat = memberIds, !.from = lastId + 1, !.waiting = r]
  BY DEF StartRound
<1>5. /\ r \in Seq(Speakers) /\ IsInjective(r)
      /\ Mentioned(memberIds, <<names>>) \subseteq ToSet(r)
      /\ Mentioned(memberIds, <<names>>) = {} => ToSet(Participants(memberIds)) \subseteq ToSet(r)
  BY <1>1, RespondersAre
<1>6. /\ round'.chat = memberIds /\ round'.waiting = r /\ round'.answered = {}
      /\ round'.said = {} /\ round'.from = lastId + 1
  BY <1>4 DEF NoRound
<1> HIDE DEF row
<1>7. messages' = Append(messages, row)
  BY <1>2, <1>3, OneStored
<1> HIDE DEF n
<1>8. /\ n \in Nat /\ DOMAIN messages = 1 .. n /\ DOMAIN messages' = 1 .. n + 1
      /\ \A i \in 1 .. n : messages'[i] = messages[i] /\ messages[i].id <= lastId
                           /\ messages[i].id \in Nat
      /\ messages'[n + 1] = row
  BY <1>1, <1>2, <1>7, AppendIs, RowsAre DEF n, GroupTypeOK
<1>9. \A i \in DOMAIN messages' :
        /\ ~(messages'[i].id > lastId + 1)
        /\ messages'[i].id = lastId + 1 => messages'[i] = row
  <2> SUFFICES ASSUME NEW i \in 1 .. n + 1
               PROVE  /\ ~(messages'[i].id > lastId + 1)
                      /\ messages'[i].id = lastId + 1 => messages'[i] = row
    BY <1>8
  <2>1. CASE i \in 1 .. n
    BY <1>1, <1>8, <2>1
  <2>2. CASE i = n + 1
    BY <1>1, <1>2, <1>8, <2>2
  <2> QED BY <1>8, <2>1, <2>2
<1>10. RoundRows'
  <2>1. n + 1 \in DOMAIN messages' /\ messages'[n + 1].id = round'.from
        /\ messages'[n + 1].kind = "user"
    BY <1>2, <1>6, <1>8
  <2> QED BY <1>6, <1>9, <2>1 DEF RoundRows, InRound
<1>11. RepliesKnown'
  BY <1>6, <1>9 DEF RepliesKnown, InRound
<1>12. ReadIs'
  BY <1>3 DEF ReadIs, Speaking
<1>13. Asked'
  BY <1>2, <1>5, <1>6, <1>9 DEF Asked
<1>14. SummariesOK'
  <2>1. Covered(messages)
    BY DEF RoundInv, SummariesOK
  <2>2. Covered(messages')
    BY <1>1, <1>2, <1>7, <2>1, CoveredAppend
  <2> QED BY <1>1, <1>3, <2>2 DEF SummariesOK
<1>15. NobodyAnswersTwice'
  BY <1>5, <1>6 DEF NobodyAnswersTwice
<1> QED BY <1>10, <1>11, <1>12, <1>13, <1>14, <1>15 DEF RoundInv

\* Whoever is called has not answered, and waits no more.
LEMMA CalledOnce ==
  ASSUME GroupTypeOK, StagesAgree, NobodyAnswersTwice, doing = "next", round' = Called
  PROVE  /\ NextSpeaker \notin round.answered /\ NextSpeaker # User
         /\ NobodyAnswersTwice'
         /\ round'.answered \cup ToSet(round'.waiting) = round.answered \cup ToSet(round.waiting)
<1>1. /\ NextSpeaker \in Speakers
      /\ round'.waiting = Tail(round.waiting)
      /\ round'.answered = round.answered \cup {NextSpeaker}
      /\ ToSet(round.waiting) = {NextSpeaker} \cup ToSet(Tail(round.waiting))
  BY CalledIs
<1>2. round.waiting \in Seq(Speakers) /\ round.waiting # <<>>
  BY DEF GroupTypeOK, StagesAgree
<1>3. \A i \in DOMAIN Tail(round.waiting) :
        /\ i + 1 \in DOMAIN round.waiting /\ Tail(round.waiting)[i] = round.waiting[i + 1]
        /\ i \in Nat \ {0}
  BY <1>2, HeadTailIs
<1>4. 1 \in DOMAIN round.waiting /\ NextSpeaker = round.waiting[1]
  BY <1>2, HeadTailIs DEF NextSpeaker
<1>5. \A i, j \in DOMAIN round.waiting : round.waiting[i] = round.waiting[j] => i = j
  BY DEF NobodyAnswersTwice, IsInjective
<1>6. IsInjective(Tail(round.waiting))
  <2> SUFFICES ASSUME NEW i \in DOMAIN Tail(round.waiting), NEW j \in DOMAIN Tail(round.waiting),
                      Tail(round.waiting)[i] = Tail(round.waiting)[j]
               PROVE  i = j
    BY DEF IsInjective
  <2>1. i + 1 = j + 1
    BY <1>3, <1>5
  <2> QED BY <1>3, <2>1
<1>7. NextSpeaker \notin ToSet(Tail(round.waiting))
  <2> SUFFICES ASSUME NEW i \in DOMAIN Tail(round.waiting), Tail(round.waiting)[i] = NextSpeaker
               PROVE  FALSE
    BY DEF ToSet
  <2>1. i + 1 = 1
    BY <1>3, <1>4, <1>5
  <2> QED BY <1>3, <2>1
<1>8. ToSet(round.waiting) \cap round.answered = {}
  BY DEF NobodyAnswersTwice
<1> QED BY <1>1, <1>6, <1>7, <1>8, UserIsNoSpeaker DEF NobodyAnswersTwice

\* A turn that is refused breaks its round.
LEMMA RoundRefuses ==
  ASSUME GroupTypeOK, StagesAgree, RoundInv, RefuseTurn
  PROVE  RoundInv'
<1>1. /\ doing = "next" /\ doing' = "failed" /\ round' = Called
      /\ messages' = messages /\ summing' = summing
  BY DEF RefuseTurn
<1>2. round'.from = round.from /\ round.answered \subseteq round'.answered
  BY <1>1, CalledIs
<1>3. RoundRows'
  BY <1>1, <1>2 DEF RoundInv, RoundRows, InRound
<1>4. RepliesKnown' /\ ReadIs' /\ Asked'
  BY <1>1 DEF RepliesKnown, ReadIs, Asked, Speaking
<1>5. SummariesOK'
  BY <1>1 DEF RoundInv, SummariesOK
<1>6. NobodyAnswersTwice'
  BY <1>1, CalledOnce DEF RoundInv
<1> QED BY <1>3, <1>4, <1>5, <1>6 DEF RoundInv

\* An agent is called and begins to read.
LEMMA SpeechBegins ==
  ASSUME GroupTypeOK, GroupTypeOK', StagesAgree, RoundInv,
         NEW withMail \in BOOLEAN, BeginSpeech(withMail)
  PROVE  RoundInv'
<1> DEFINE who == NextSpeaker
<1>1. /\ doing = "next" /\ doing' = "ask" /\ round' = Called /\ summing' = summing
      /\ speech' = [NoSpeech EXCEPT !.agent = who, !.read = messages', !.step = 1, !.from = lastId]
  BY DEF BeginSpeech
<1>2. /\ speech'.agent = who /\ speech'.read = messages' /\ speech'.from = lastId
  BY <1>1 DEF NoSpeech
<1>3. /\ round'.from = round.from /\ round'.chat = round.chat /\ round'.said = round.said
      /\ round'.answered = round.answered \cup {who} /\ round \in Round
  BY <1>1, CalledIs, GroupTypeParts
<1>4. /\ who \notin round.answered /\ who # User /\ NobodyAnswersTwice'
      /\ round'.answered \cup ToSet(round'.waiting) = round.answered \cup ToSet(round.waiting)
  BY <1>1, CalledOnce DEF RoundInv
<1>5. messages \in Seq(Row) /\ lastId \in Nat /\ lastId' \in Nat /\ messages' \in Seq(Row)
  BY DEF GroupTypeOK
<1>6. Extended(messages, messages', who, lastId) /\ lastId <= lastId'
  <2>1. CASE withMail
    <3> DEFINE row == UserMessage(<<>>)
    <3>1. StoreAll(<<row>>)
      BY <2>1 DEF BeginSpeech
    <3>2. row \in Row /\ row.id = lastId + 1 /\ row.kind = "user" /\ row.by = User
      BY UserMessageIs
    <3> HIDE DEF row
    <3>3. messages' = Append(messages, row) /\ lastId' = lastId + 1
      BY <3>1, <3>2, OneStored
    <3>4. row.by \in {User, who} /\ row.kind # "summary" /\ lastId < row.id
          /\ Extended(messages, messages, who, lastId)
      BY <1>5, <3>2, ExtendedSame
    <3>5. Extended(messages, Append(messages, row), who, lastId)
      BY <1>5, <3>2, <3>4, ExtendedAppend
    <3> QED BY <1>5, <3>3, <3>5
  <2>2. CASE ~withMail
    <3>1. messages' = messages /\ lastId' = lastId
      BY <2>2 DEF BeginSpeech
    <3> QED BY <1>5, <3>1, ExtendedSame
  <2> QED BY <2>1, <2>2
<1>7. /\ \A i \in DOMAIN messages : i \in DOMAIN messages' /\ messages'[i] = messages[i]
      /\ \A i \in DOMAIN messages' : i \notin DOMAIN messages =>
           messages'[i].by \in {User, who} /\ messages'[i].kind # "summary"
           /\ lastId < messages'[i].id
      /\ Len(messages') \in Nat /\ DOMAIN messages' = 1 .. Len(messages')
  BY <1>5, <1>6, ExtendedIs
<1>8. \A i \in DOMAIN messages' : i \notin DOMAIN messages => messages'[i].by = User
  <2>1. CASE withMail
    <3>1. StoreAll(<<UserMessage(<<>>)>>)
      BY <2>1 DEF BeginSpeech
    <3>2. UserMessage(<<>>) \in Row /\ UserMessage(<<>>).id = lastId + 1 /\ UserMessage(<<>>).by = User
      BY UserMessageIs
    <3>3. messages' = Append(messages, UserMessage(<<>>))
      BY <3>1, <3>2, OneStored
    <3> HIDE DEF who
    <3> QED BY <1>5, <3>2, <3>3, AppendIs
  <2>2. CASE ~withMail
    <3>1. messages' = messages
      BY <2>2 DEF BeginSpeech
    <3> QED BY <3>1
  <2> QED BY <2>1, <2>2
<1>9. \A i \in DOMAIN messages : messages[i].id > round.from =>
        messages[i].by \in {User} \cup round.answered
  BY <1>1 DEF RoundInv, RoundRows, InRound
<1> HIDE DEF who
<1>10. RoundRows'
  <2>1. \E i \in DOMAIN messages : messages[i].id = round.from /\ messages[i].kind = "user"
    BY <1>1 DEF RoundInv, RoundRows
  <2>2. \A i \in DOMAIN messages : messages[i].id > round.from => messages[i].kind # "summary"
    BY <1>1 DEF RoundInv, RoundRows, InRound
  <2> QED BY <1>3, <1>7, <1>8, <1>9, <2>1, <2>2 DEF RoundRows, InRound
<1>11. RepliesKnown'
  <2>1. Current = {} /\ Current' = {who}
    BY <1>1, <1>2 DEF Current, Speaking
  <2>2. ASSUME NEW i \in DOMAIN messages', messages'[i].id > round.from,
               messages'[i].by \notin {User, who}
        PROVE  IsReply(messages', i) <=> messages'[i].id \in round.said
    <3>1. i \in DOMAIN messages /\ messages'[i] = messages[i]
      BY <1>7, <2>2
    <3>2. IsReply(messages', i) <=> IsReply(messages, i)
      BY <1>5, <1>6, <2>2, <3>1, ReplyStays
    <3> QED BY <1>1, <2>1, <2>2, <3>1, <3>2 DEF RoundInv, RepliesKnown, InRound
  <2>3. ASSUME NEW id \in round.said
        PROVE  \E i \in DOMAIN messages' :
                 messages'[i].id = id /\ messages'[i].id > round.from
                 /\ messages'[i].by \notin {User, who}
    <3>1. PICK i \in DOMAIN messages :
            messages[i].id = id /\ messages[i].id > round.from /\ messages[i].by # User
      BY <1>1, <2>1, <2>3 DEF RoundInv, RepliesKnown, InRound
    <3>2. messages[i].by # who
      BY <1>4, <1>9, <3>1
    <3> QED BY <1>7, <3>1, <3>2
  <2>4. /\ \A i \in DOMAIN messages' :
             InRound(messages[i])' /\ messages'[i].by \notin {User} \cup Current' =>
               (IsReply(messages', i) <=> messages'[i].id \in round'.said)
        /\ \A id \in round'.said : \E i \in DOMAIN messages' :
             messages'[i].id = id /\ InRound(messages[i])' /\ messages'[i].by \notin {User} \cup Current'
    BY <1>3, <2>1, <2>2, <2>3 DEF InRound
  <2> QED BY <2>4 DEF RepliesKnown
<1>12. ReadIs'
  <2>1. round.from <= lastId
    BY <1>1 DEF RoundInv, RoundRows, GroupTypeOK
  <2>2. \A i \in DOMAIN messages' : messages'[i].id > round.from => messages'[i].by # who
    BY <1>4, <1>7, <1>8, <1>9
  <2>3. DOMAIN messages' = 1 .. Len(messages') /\ Len(messages') \in 0 .. Len(messages')
        /\ Len(messages') <= Len(messages')
    BY <1>7
  <2>4. \A i \in DOMAIN messages' : ~(i > Len(messages'))
    BY <2>3
  <2>5. \E n \in 0 .. Len(messages') :
          /\ n <= Len(messages')
          /\ \A i \in 1 .. n : messages'[i] = messages'[i]
          /\ \A i \in DOMAIN messages' : i > n => messages'[i].by \in {User, who}
          /\ \A i \in DOMAIN messages' : i > n =>
               messages'[i].by \in {User, who} /\ messages'[i].kind # "summary"
    BY <2>3, <2>4
  <2> QED BY <1>2, <1>3, <1>5, <1>6, <2>1, <2>2, <2>5 DEF ReadIs, InRound
<1>13. Asked'
  <2>1. \A id \in round.said \cup {round.from} : id <= lastId /\ id \in Nat
    BY <1>1, <1>3, SaidAreOld DEF Round, RoundInv
  <2>2. \A i \in DOMAIN messages' :
          messages'[i].id \in round.said \cup {round.from} => i \in DOMAIN messages
    <3> SUFFICES ASSUME NEW i \in DOMAIN messages', messages'[i].id \in round.said \cup {round.from},
                        i \notin DOMAIN messages
                 PROVE  FALSE
      OBVIOUS
    <3>1. lastId < messages'[i].id /\ messages'[i].id <= lastId /\ messages'[i].id \in Nat
      BY <1>7, <2>1
    <3> QED BY <1>5, <3>1
  <2> QED BY <1>1, <1>3, <1>4, <1>7, <2>2 DEF RoundInv, Asked
<1>14. SummariesOK'
  <2>1. Covered(messages) /\ ~summing.on
    BY <1>1 DEF RoundInv, SummariesOK, StagesAgree
  <2>2. Covered(messages')
    BY <1>5, <1>6, <2>1, CoveredExtended
  <2> QED BY <1>1, <2>1, <2>2 DEF SummariesOK
<1> QED BY <1>4, <1>10, <1>11, <1>12, <1>13, <1>14 DEF RoundInv

\* Lists with each agent once and none in both make one such list.
LEMMA ConcatIs ==
  ASSUME NEW S, NEW a \in Seq(S), NEW b \in Seq(S)
  PROVE  /\ ToSet(a \o b) = ToSet(a) \cup ToSet(b)
         /\ IsInjective(a) /\ IsInjective(b) /\ ToSet(a) \cap ToSet(b) = {} => IsInjective(a \o b)
<1> DEFINE t == a \o b
           m == Len(a)
           n == Len(b)
<1>1. /\ m \in Nat /\ n \in Nat /\ DOMAIN a = 1 .. m /\ DOMAIN b = 1 .. n /\ DOMAIN t = 1 .. m + n
      /\ \A i \in 1 .. m : t[i] = a[i]
      /\ \A i \in m + 1 .. m + n : t[i] = b[i - m]
  OBVIOUS
<1> HIDE DEF t, m, n
<1>2. \A i \in m + 1 .. m + n : i - m \in 1 .. n
  BY <1>1
<1>3. \A i \in 1 .. n : i + m \in m + 1 .. m + n /\ t[i + m] = b[i]
  <2> SUFFICES ASSUME NEW i \in 1 .. n PROVE i + m \in m + 1 .. m + n /\ t[i + m] = b[i]
    OBVIOUS
  <2>1. i + m \in m + 1 .. m + n /\ (i + m) - m = i
    BY <1>1
  <2> QED BY <1>1, <2>1
<1>4. \A i \in 1 .. m + n : i \in 1 .. m \/ i \in m + 1 .. m + n
  BY <1>1
<1>5. ToSet(t) \subseteq ToSet(a) \cup ToSet(b)
  <2> SUFFICES ASSUME NEW i \in 1 .. m + n PROVE t[i] \in ToSet(a) \cup ToSet(b)
    BY <1>1 DEF ToSet
  <2>1. CASE i \in 1 .. m
    BY <1>1, <2>1 DEF ToSet
  <2>2. CASE i \in m + 1 .. m + n
    BY <1>1, <1>2, <2>2 DEF ToSet
  <2> QED BY <1>4, <2>1, <2>2
<1>6. ToSet(a) \cup ToSet(b) \subseteq ToSet(t)
  <2>1. \A i \in 1 .. m : i \in 1 .. m + n
    BY <1>1
  <2>2. \A i \in 1 .. n : i + m \in 1 .. m + n
    BY <1>1
  <2>3. \A i \in DOMAIN a : a[i] \in ToSet(t)
    BY <1>1, <2>1 DEF ToSet
  <2>4. \A i \in DOMAIN b : b[i] \in ToSet(t)
    <3> SUFFICES ASSUME NEW i \in 1 .. n PROVE b[i] \in ToSet(t)
      BY <1>1
    <3>1. i + m \in DOMAIN t /\ t[i + m] = b[i]
      BY <1>1, <1>3, <2>2
    <3> QED BY <3>1 DEF ToSet
  <2> QED BY <2>3, <2>4 DEF ToSet
<1>7. ASSUME IsInjective(a), IsInjective(b), ToSet(a) \cap ToSet(b) = {},
             NEW i \in 1 .. m + n, NEW j \in 1 .. m + n, t[i] = t[j]
      PROVE  i = j
  <2>1. CASE i \in 1 .. m /\ j \in 1 .. m
    BY <1>1, <1>7, <2>1 DEF IsInjective
  <2>2. CASE i \in m + 1 .. m + n /\ j \in m + 1 .. m + n
    <3>1. i - m = j - m
      <4>1. i - m \in DOMAIN b /\ j - m \in DOMAIN b
        BY <1>1, <1>2, <2>2
      <4>2. b[i - m] = b[j - m]
        BY <1>1, <1>7, <2>2
      <4> QED BY <1>7, <4>1, <4>2 DEF IsInjective
    <3> QED BY <1>1, <2>2, <3>1
  <2>3. CASE i \in 1 .. m /\ j \in m + 1 .. m + n
    <3>1. t[i] \in ToSet(a) /\ t[j] \in ToSet(b)
      BY <1>1, <1>2, <2>3 DEF ToSet
    <3> QED BY <1>7, <3>1
  <2>4. CASE j \in 1 .. m /\ i \in m + 1 .. m + n
    <3>1. t[j] \in ToSet(a) /\ t[i] \in ToSet(b)
      BY <1>1, <1>2, <2>4 DEF ToSet
    <3> QED BY <1>7, <3>1
  <2> QED BY <1>4, <2>1, <2>2, <2>3, <2>4
<1>8. IsInjective(a) /\ IsInjective(b) /\ ToSet(a) \cap ToSet(b) = {} => IsInjective(t)
  BY <1>1, <1>7 DEF IsInjective
<1> QED BY <1>5, <1>6, <1>8 DEF t

\* An agent is through: its replies are heard, and those they mention wait.
LEMMA SpeechEnds ==
  ASSUME GroupTypeOK, GroupTypeOK', StagesAgree, TranscriptsAreWhole, RoundInv, EndSpeech
  PROVE  RoundInv'
<1>1. /\ doing = "over" /\ messages' = messages /\ summing' = summing /\ messages \in Seq(Row)
      /\ doing \in Speaking /\ Current = {speech.agent} /\ round \in Round
  BY GroupTypeParts DEF EndSpeech, Speaking, Current, GroupTypeOK
<1>2. SummariesOK'
  BY <1>1 DEF RoundInv, SummariesOK
<1>3. CASE aborted
  <2>1. doing' = "failed" /\ round' = round
    BY <1>3 DEF EndSpeech
  <2>2. RoundRows' /\ NobodyAnswersTwice'
    BY <1>1, <2>1 DEF RoundInv, RoundRows, InRound, NobodyAnswersTwice
  <2>3. RepliesKnown' /\ ReadIs' /\ Asked'
    BY <2>1 DEF RepliesKnown, ReadIs, Asked, Speaking
  <2> QED BY <1>2, <2>2, <2>3 DEF RoundInv
<1>4. CASE ~aborted
  <2> DEFINE new == {messages[i].id : i \in TurnReplies}
  <2>1. PICK next \in HandedOn :
          /\ round' = [round EXCEPT !.waiting = round.waiting \o next, !.said = @ \cup new]
          /\ doing' \in {"ended", "next"}
    BY <1>4 DEF EndSpeech
  <2>2. /\ next \in Seq(Speakers) /\ IsInjective(next)
        /\ ToSet(next) \cap (round.answered \cup ToSet(round.waiting)) = {}
        /\ round.chat # <<>> =>
             \A i \in TurnReplies :
               Mentioned(round.chat, <<messages[i].names>>)
                 \subseteq round.answered \cup ToSet(round.waiting) \cup ToSet(next)
    BY HandedOnAre
  <2>3. /\ round'.chat = round.chat /\ round'.waiting = round.waiting \o next
        /\ round'.answered = round.answered /\ round'.said = round.said \cup new
        /\ round'.from = round.from /\ round.waiting \in Seq(Speakers)
    BY <1>1, <2>1 DEF Round
  <2>4. ToSet(round'.waiting) = ToSet(round.waiting) \cup ToSet(next)
    BY <2>2, <2>3, ConcatIs
  <2>5. NobodyAnswersTwice'
    <3>1. IsInjective(round.waiting) /\ ToSet(round.waiting) \cap round.answered = {}
      BY DEF RoundInv, NobodyAnswersTwice
    <3>2. ToSet(round.waiting) \cap ToSet(next) = {}
      BY <2>2
    <3>3. IsInjective(round.waiting \o next)
      BY <2>2, <2>3, <3>1, <3>2, ConcatIs
    <3> QED BY <2>2, <2>3, <2>4, <3>1, <3>3 DEF NobodyAnswersTwice
  <2>6. RoundRows'
    BY <1>1, <2>3 DEF RoundInv, RoundRows, InRound
  <2>7. \A i, j \in DOMAIN messages : messages[i].id = messages[j].id => i = j
    BY DistinctIds
  <2>8. /\ \A i \in TurnReplies : /\ i \in DOMAIN messages /\ IsReply(messages, i)
                                  /\ messages[i].by = speech.agent /\ messages[i].id > speech.from
        /\ \A i \in DOMAIN messages :
             IsReply(messages, i) /\ messages[i].by = speech.agent /\ messages[i].id > speech.from
               => i \in TurnReplies
    BY DEF TurnReplies, FromThisTurn
  <2>9. /\ \A i \in DOMAIN messages : messages[i].id > round.from /\ messages[i].by = speech.agent =>
             messages[i].id > speech.from
        /\ round.from <= speech.from
    BY <1>1 DEF RoundInv, ReadIs, InRound
  <2>10. /\ \A i \in DOMAIN messages :
              messages[i].id > round.from /\ messages[i].by \notin {User, speech.agent} =>
                (IsReply(messages, i) <=> messages[i].id \in round.said)
         /\ \A id \in round.said : \E i \in DOMAIN messages :
              messages[i].id = id /\ messages[i].id > round.from
              /\ messages[i].by \notin {User, speech.agent}
    BY <1>1 DEF RoundInv, RepliesKnown, InRound
  <2>11. speech.agent # User
    BY <1>1, SpeakerIs
  <2>12. ASSUME NEW i \in DOMAIN messages, messages[i].id > round.from, messages[i].by # User
         PROVE  IsReply(messages, i) <=> messages[i].id \in round.said \cup new
    <3>1. CASE messages[i].by = speech.agent
      <4>1. messages[i].id \notin round.said
        <5> SUFFICES ASSUME messages[i].id \in round.said PROVE FALSE
          OBVIOUS
        <5>1. PICK j \in DOMAIN messages :
                messages[j].id = messages[i].id /\ messages[j].by \notin {User, speech.agent}
          BY <2>10
        <5> QED BY <2>7, <3>1, <5>1
      <4>2. messages[i].id \in new <=> i \in TurnReplies
        BY <2>7, <2>8
      <4>3. i \in TurnReplies <=> IsReply(messages, i)
        BY <2>8, <2>9, <2>12, <3>1
      <4> QED BY <4>1, <4>2, <4>3
    <3>2. CASE messages[i].by # speech.agent
      <4>1. messages[i].id \notin new
        BY <2>7, <2>8, <3>2
      <4> QED BY <2>10, <2>12, <3>2, <4>1
    <3> QED BY <3>1, <3>2
  <2>13. ASSUME NEW id \in round.said \cup new
         PROVE  \E i \in DOMAIN messages :
                  messages[i].id = id /\ messages[i].id > round.from /\ messages[i].by # User
    <3>1. CASE id \in round.said
      BY <2>10, <3>1
    <3>2. CASE id \in new
      <4>1. PICK i \in TurnReplies : messages[i].id = id
        BY <3>2
      <4>2. messages[i].id > speech.from /\ round.from \in Nat /\ speech.from \in Nat
            /\ messages[i].id \in Nat /\ i \in DOMAIN messages
        BY <1>1, <2>8, RowsAre, GroupTypeParts DEF Round, Speech, GroupTypeOK
      <4>3. messages[i].id > round.from
        BY <2>9, <4>2
      <4> QED BY <2>8, <2>11, <4>1, <4>2, <4>3
    <3> QED BY <2>13, <3>1, <3>2
  <2> HIDE DEF new
  <2>14. RepliesKnown'
    <3>1. Current' = {}
      BY <2>1 DEF Current, Speaking
    <3>2. /\ \A i \in DOMAIN messages' :
               InRound(messages[i])' /\ messages'[i].by \notin {User} \cup Current' =>
                 (IsReply(messages', i) <=> messages'[i].id \in round'.said)
          /\ \A id \in round'.said : \E i \in DOMAIN messages' :
               messages'[i].id = id /\ InRound(messages[i])'
               /\ messages'[i].by \notin {User} \cup Current'
      BY <1>1, <2>3, <2>12, <2>13, <3>1 DEF InRound
    <3> QED BY <3>2 DEF RepliesKnown
  <2>15. ReadIs'
    BY <2>1 DEF ReadIs, Speaking
  <2>16. Asked'
    <3> SUFFICES ASSUME round.chat # <<>>, NEW i \in DOMAIN messages
                 PROVE  LET asked == Mentioned(round.chat, <<messages[i].names>>)
                            due == round'.answered \cup ToSet(round'.waiting)
                        IN  /\ messages[i].id \in round'.said \cup {round.from} => asked \subseteq due
                            /\ messages[i].id = round.from /\ asked = {} =>
                                 ToSet(Participants(round.chat)) \subseteq due
      BY <1>1, <2>3 DEF Asked
    <3> DEFINE asked == Mentioned(round.chat, <<messages[i].names>>)
    <3>1. /\ messages[i].id \in round.said \cup {round.from} =>
               asked \subseteq round.answered \cup ToSet(round.waiting)
          /\ messages[i].id = round.from /\ asked = {} =>
               ToSet(Participants(round.chat)) \subseteq round.answered \cup ToSet(round.waiting)
      BY <1>1 DEF RoundInv, Asked
    <3>2. messages[i].id \in new =>
            asked \subseteq round.answered \cup ToSet(round.waiting) \cup ToSet(next)
      <4> SUFFICES ASSUME messages[i].id \in new
                   PROVE  asked \subseteq round.answered \cup ToSet(round.waiting) \cup ToSet(next)
        OBVIOUS
      <4>1. PICK j \in TurnReplies : messages[j].id = messages[i].id
        BY DEF new
      <4>2. i = j
        BY <2>7, <2>8, <4>1
      <4> QED BY <2>2, <4>2
    <3> HIDE DEF asked
    <3>3. /\ messages[i].id \in round'.said \cup {round.from} =>
               asked \subseteq round'.answered \cup ToSet(round'.waiting)
          /\ messages[i].id = round.from /\ asked = {} =>
               ToSet(Participants(round.chat)) \subseteq round'.answered \cup ToSet(round'.waiting)
      BY <2>3, <2>4, <3>1, <3>2
    <3> QED BY <3>3 DEF asked
  <2> QED BY <1>2, <2>5, <2>6, <2>14, <2>15, <2>16 DEF RoundInv
<1> QED BY <1>3, <1>4

\* The inductive invariant of the rounds.
GroupInv == GroupTypeOK /\ StagesAgree /\ TranscriptsAreWhole /\ RoundInv

LEMMA RoundStep ==
  ASSUME GroupInv, GroupTypeOK', GroupNext PROVE RoundInv'
<1> USE DEF GroupInv
<1>1. ASSUME NEW names \in Mentions, StartRound(names) PROVE RoundInv'
  BY <1>1, RoundStarts
<1>2. ASSUME NEW names \in Mentions, CliAnswers(names) PROVE RoundInv'
  BY <1>2, CliAnswersGoes, SpeechGoesOn
<1>3. ASSUME NEW names \in Mentions, NEW sends \in BOOLEAN, ExecuteTool(names, sends)
      PROVE  RoundInv'
  BY <1>3, ExecuteToolGoes, SpeechGoesOn
<1>4. ASSUME NEW names \in Mentions, NEW says \in BOOLEAN, NEW uses \in Uses,
             ModelAnswers(says, names, uses)
      PROVE  RoundInv'
  BY <1>4, ModelAnswersGoes, SpeechGoesOn
<1>5. ASSUME NEW withMail \in BOOLEAN, BeginSpeech(withMail) PROVE RoundInv'
  BY <1>5, SpeechBegins
<1>6. CASE RefuseTurn
  BY <1>6, RoundRefuses
<1>7. CASE Steer
  BY <1>7, SteerGoes, SpeechGoesOn
<1>8. CASE AskSpeaker \/ SpeechBreaks \/ StopCalls \/ NextStep \/ FinishTurn
  BY <1>8, QuietGoes, SpeechGoesOn
<1>13. CASE EndSpeech
  BY <1>13, SpeechEnds
<1>14. CASE RoundOver \/ RequestCompaction
  <2>1. /\ doing' = "nothing" /\ messages' = messages
        /\ round' = NoRound \/ round' = round
        /\ summing' = summing \/ summing' = [on |-> TRUE, rows |-> Summarized]
    BY <1>14 DEF RoundOver, RequestCompaction, BeginCompaction, Free
  <2>2. RoundRows' /\ RepliesKnown' /\ ReadIs' /\ Asked'
    BY <2>1 DEF RoundRows, RepliesKnown, ReadIs, Asked, Speaking
  <2>3. NobodyAnswersTwice'
    <3>1. IsInjective(NoRound.waiting) /\ ToSet(NoRound.waiting) \cap NoRound.answered = {}
      BY DEF NoRound, IsInjective, ToSet
    <3> QED BY <2>1, <3>1 DEF RoundInv, NobodyAnswersTwice
  <2>4. SummariesOK'
    <3>1. \A k \in DOMAIN messages : OlderOrIn(messages[k], Summarized)
      BY SummarizedCovers
    <3>2. Covered(messages)
      BY DEF RoundInv, SummariesOK
    <3>3. CASE summing' = summing
      BY <2>1, <3>3 DEF RoundInv, SummariesOK
    <3>4. CASE summing' = [on |-> TRUE, rows |-> Summarized]
      <4>1. summing'.rows = Summarized
        BY <3>4
      <4> QED BY <2>1, <3>1, <3>2, <4>1 DEF SummariesOK
    <3> QED BY <2>1, <3>3, <3>4
  <2> QED BY <2>2, <2>3, <2>4 DEF RoundInv
<1>16. CASE StopRound \/ \E list \in Memberships : SetMembers(list)
  <2>1. UNCHANGED <<messages, lastId, speech, round, summing, doing>>
    BY <1>16 DEF StopRound, SetMembers
  <2> QED BY <2>1 DEF RoundInv, RoundRows, RepliesKnown, Current, ReadIs, Asked, SummariesOK,
                      NobodyAnswersTwice, InRound
<1>17. ASSUME NEW ok \in BOOLEAN, EndCompaction(ok) PROVE RoundInv'
  <2> DEFINE row == [NewMessage(1, "summary", User) EXCEPT !.covers = summing.rows]
  <2>1. /\ summing.on /\ summing' = NoSum /\ UNCHANGED <<round, doing>> /\ doing = "nothing"
        /\ StoreAll(<<row>>) \/ messages' = messages
    BY <1>17 DEF EndCompaction, StagesAgree
  <2>2. RoundRows' /\ RepliesKnown' /\ ReadIs' /\ Asked' /\ NobodyAnswersTwice'
    BY <2>1 DEF RoundRows, RepliesKnown, ReadIs, Asked, Speaking, NobodyAnswersTwice, RoundInv
  <2>3. row \in Row /\ row.id = lastId + 1 /\ row.covers = summing.rows
    BY SummaryIs
  <2> HIDE DEF row
  <2>4. SummariesOK'
    <3>1. Covered(messages) /\ messages \in Seq(Row)
          /\ \A k \in DOMAIN messages : OlderOrIn(messages[k], row.covers)
      BY <2>1, <2>3 DEF RoundInv, SummariesOK, GroupTypeOK
    <3>2. StoreAll(<<row>>) => messages' = Append(messages, row)
      BY <2>3, OneStored
    <3>3. Covered(messages')
      BY <2>1, <2>3, <3>1, <3>2, CoveredAppend
    <3> QED BY <2>1, <3>3 DEF SummariesOK, NoSum
  <2> QED BY <2>2, <2>4 DEF RoundInv
<1>18. ASSUME NEW i \in DOMAIN messages, NEW following \in BOOLEAN, DeleteMessage(i, following)
       PROVE  RoundInv'
  <2> DEFINE keep == {k \in DOMAIN messages : messages[k].id \notin MessagesToDelete(i, following)}
  <2>1. /\ UNCHANGED <<round, doing, summing>> /\ doing = "nothing" /\ ~summing.on
        /\ messages' = FilterAt(messages, keep)
    BY <1>18 DEF DeleteMessage, Without, Free
  <2>2. RoundRows' /\ RepliesKnown' /\ ReadIs' /\ Asked' /\ NobodyAnswersTwice'
    BY <2>1 DEF RoundRows, RepliesKnown, ReadIs, Asked, Speaking, NobodyAnswersTwice, RoundInv
  <2>3. Covered(messages) /\ messages \in Seq(Row) /\ keep \in SUBSET (DOMAIN messages)
    BY DEF RoundInv, SummariesOK, GroupTypeOK
  <2> HIDE DEF keep
  <2>4. Covered(messages')
    BY <2>1, <2>3, CoveredFilter
  <2> QED BY <2>1, <2>2, <2>4 DEF RoundInv, SummariesOK
<1> QED BY <1>1, <1>2, <1>3, <1>4, <1>5, <1>6, <1>7, <1>8, <1>13,
           <1>14, <1>16, <1>17, <1>18 DEF GroupNext

LEMMA GroupInvInit == GroupInit => GroupInv
<1> SUFFICES ASSUME GroupInit PROVE GroupInv
  OBVIOUS
<1>1. GroupTypeOK
  <2>1. round \in Round /\ speech \in Speech
    BY NoSpeechIs DEF GroupInit
  <2>2. summing \in [on : BOOLEAN, rows : SUBSET Nat]
    BY DEF GroupInit, NoSum
  <2>3. messages \in Seq(Row) /\ \A i \in DOMAIN messages : messages[i].id <= lastId
    <3>1. messages = <<>> /\ DOMAIN messages = {} /\ messages \in Seq(Row)
      BY DEF GroupInit
    <3> QED BY <3>1
  <2>5. /\ lastId \in Nat /\ memberIds \in Memberships /\ doing \in Doing /\ aborted \in BOOLEAN
        /\ unanswered \in SUBSET Nat
    BY DEF GroupInit, Doing
  <2>4. disturbances \in 0 .. MaxDisturbances
    BY GroupBoundsAssumption DEF GroupInit
  <2> QED BY <2>1, <2>2, <2>3, <2>4, <2>5, GroupTypeParts
<1>2. /\ round.waiting = <<>> /\ round.answered = {} /\ round.chat = <<>>
      /\ speech.pending = <<>> /\ speech.read = <<>> /\ ~summing.on
  BY DEF GroupInit, NoRound, NoSpeech, NoSum
<1>3. StagesAgree
  BY <1>2 DEF GroupInit, StagesAgree, Speaking
<1>4. TranscriptsAreWhole
  BY <1>2, WholeEmpty DEF GroupInit, TranscriptsAreWhole
<1>5. NobodyAnswersTwice
  BY <1>2 DEF NobodyAnswersTwice, IsInjective, ToSet
<1>6. SummariesOK
  BY <1>2 DEF GroupInit, SummariesOK, Covered
<1>7. RoundRows /\ RepliesKnown /\ ReadIs /\ Asked
  BY DEF GroupInit, RoundRows, RepliesKnown, ReadIs, Asked, Speaking
<1> QED BY <1>1, <1>3, <1>4, <1>5, <1>6, <1>7 DEF GroupInv, RoundInv

LEMMA GroupInvStep == GroupInv /\ [GroupNext]_groupVars => GroupInv'
<1> SUFFICES ASSUME GroupInv, [GroupNext]_groupVars PROVE GroupInv'
  OBVIOUS
<1>1. CASE GroupNext
  <2>1. GroupTypeOK'
    BY <1>1, TypeStep DEF GroupInv
  <2>2. StagesAgree' /\ TranscriptsAreWhole'
    BY <1>1, <2>1, StagesStep, WholeStep DEF GroupInv
  <2>3. RoundInv'
    BY <1>1, <2>1, RoundStep
  <2> QED BY <2>1, <2>2, <2>3 DEF GroupInv
<1>2. CASE UNCHANGED groupVars
  <2>1. GroupTypeOK' /\ StagesAgree' /\ TranscriptsAreWhole'
    BY <1>2 DEF groupVars, GroupInv, GroupTypeOK, StagesAgree, Speaking, TranscriptsAreWhole, Unsettled
  <2>2. RoundRows' /\ RepliesKnown' /\ SummariesOK' /\ NobodyAnswersTwice'
    BY <1>2 DEF groupVars, GroupInv, RoundInv, RoundRows, RepliesKnown, Speaking, Current, InRound,
                SummariesOK, NobodyAnswersTwice
  <2>3. ReadIs' /\ Asked'
    BY <1>2 DEF groupVars, GroupInv, RoundInv, ReadIs, Asked, Speaking, InRound
  <2> QED BY <2>1, <2>2, <2>3 DEF GroupInv, RoundInv
<1> QED BY <1>1, <1>2

\* Rounds, turns and rows keep to their types (streamRound, runAgentTurn).
THEOREM GroupTypesHold == GroupSpec => []GroupTypeOK
<1>1. GroupInv => GroupTypeOK
  BY DEF GroupInv
<1> QED BY <1>1, GroupInvInit, GroupInvStep, PTL DEF GroupSpec

-----------------------------------------------------------------------------
\* What the models read.

\* No line is older than a summary and missing from it.
LEMMA SummariesMiss ==
  ASSUME messages \in Seq(Row), Covered(messages) PROVE SummariesMissNothingNew
<1> SUFFICES ASSUME NEW s \in DOMAIN messages, messages[s].kind = "summary",
                    NEW r \in ToSet(SinceCompaction(SubSeq(messages, 1, s - 1))),
                    Rendered(r)
             PROVE  r.id \in messages[s].covers \/ \A id \in messages[s].covers : r.id < id
  BY DEF SummariesMissNothingNew
<1> DEFINE before == SubSeq(messages, 1, s - 1)
<1>1. Len(messages) \in Nat /\ DOMAIN messages = 1 .. Len(messages) /\ s \in Nat \ {0}
  OBVIOUS
<1>2. /\ before \in Seq(Row) /\ Len(before) = s - 1
      /\ \A i \in 1 .. s - 1 : before[i] = messages[i]
  BY <1>1
<1> HIDE DEF before
<1>3. /\ DOMAIN SinceCompaction(before) = 1 .. Len(before) - LastSummary(before)
      /\ LastSummary(before) \in 0 .. Len(before)
      /\ \A i \in 1 .. Len(before) - LastSummary(before) :
           SinceCompaction(before)[i] = before[LastSummary(before) + i]
  BY <1>2, RestIs, LastSummaryIs
<1>4. PICK i \in DOMAIN SinceCompaction(before) : r = SinceCompaction(before)[i]
  BY DEF before, ToSet
<1>5. LastSummary(before) + i \in 1 .. s - 1 /\ r = messages[LastSummary(before) + i]
  BY <1>1, <1>2, <1>3, <1>4
<1>6. OlderOrIn(r, messages[s].covers)
  BY <1>1, <1>5 DEF Covered
<1> QED BY <1>6 DEF OlderOrIn

\* A request is made of a whole transcript.
LEMMA ReadAtAsk ==
  ASSUME GroupInv PROVE ModelsReadWhatTheyShould
<1>1. SummariesMissNothingNew
  BY SummariesMiss DEF GroupInv, GroupTypeOK, RoundInv, SummariesOK
<1>2. RequestsAreWhole
  <2>1. CASE doing = "ask"
    <3>1. Unsettled = unanswered
      BY <2>1, NoCallIds DEF Unsettled, GroupInv, StagesAgree
    <3>2. speech.read \in Seq(Row) /\ Whole(speech.read, lastId, unanswered)
      BY <3>1 DEF GroupInv, GroupTypeOK, TranscriptsAreWhole
    <3> QED BY <3>2, RequestIsWhole
  <2>2. CASE doing # "ask"
    BY <2>2 DEF RequestsAreWhole
  <2> QED BY <2>1, <2>2
<1> QED BY <1>1, <1>2 DEF ModelsReadWhatTheyShould

\* A reply of this round is one among the rows since the last summary as well.
LEMMA ReplyAsRead ==
  ASSUME NEW ms \in Seq(Row), NEW rs \in Seq(Row), NEW n \in Nat, n <= Len(ms), n <= Len(rs),
         \A i \in 1 .. n : rs[i] = ms[i],
         NEW m \in 1 .. n, LastSummary(rs) < m,
         \A j \in DOMAIN ms : j > n => ms[j].by # ms[m].by,
         \A j \in DOMAIN rs : j > n => rs[j].by # ms[m].by,
         LastSummary(rs) = 0 \/ \E p \in LastSummary(rs) .. m : ms[p].kind = "user"
  PROVE  IsReply(SinceCompaction(rs), m - LastSummary(rs)) <=> IsReply(ms, m)
<1> DEFINE l == LastSummary(rs)
           rest == SinceCompaction(rs)
<1>1. /\ l \in 0 .. Len(rs) /\ Len(rs) \in Nat /\ Len(ms) \in Nat
      /\ DOMAIN rs = 1 .. Len(rs) /\ DOMAIN ms = 1 .. Len(ms)
      /\ DOMAIN rest = 1 .. Len(rs) - l
      /\ \A i \in 1 .. Len(rs) - l : rest[i] = rs[l + i]
  BY LastSummaryIs, RestIs
<1>2. l < m /\ (l = 0 \/ \E p \in l .. m : ms[p].kind = "user")
  OBVIOUS
<1> HIDE DEF l, rest
<1>3. \A i \in 1 .. n - l : l + i \in l + 1 .. n /\ rest[i] = ms[l + i] /\ i \in DOMAIN rest
  BY <1>1
<1>4. m - l \in 1 .. n - l /\ l + (m - l) = m /\ rest[m - l] = ms[m]
  BY <1>1, <1>2, <1>3
<1>5. ASSUME NEW j \in 1 .. n - l PROVE SameRound(rest, m - l, j) <=> SameRound(ms, m, l + j)
  <2>1. \A k \in (m - l) .. j \cup j .. (m - l) : k \in 1 .. n - l /\ l + k \in m .. (l + j) \cup (l + j) .. m
    BY <1>1, <1>2, <1>4
  <2>2. \A k \in m .. (l + j) \cup (l + j) .. m :
          k - l \in (m - l) .. j \cup j .. (m - l) /\ l + (k - l) = k
    BY <1>1, <1>2, <1>4
  <2>3. ASSUME SameRound(rest, m - l, j) PROVE SameRound(ms, m, l + j)
    <3> SUFFICES ASSUME NEW k \in m .. (l + j) \cup (l + j) .. m PROVE ms[k].kind # "user"
      BY DEF SameRound
    <3>1. rest[k - l].kind # "user"
      BY <2>2, <2>3 DEF SameRound
    <3> QED BY <1>3, <2>1, <2>2, <3>1
  <2>4. ASSUME SameRound(ms, m, l + j) PROVE SameRound(rest, m - l, j)
    <3> SUFFICES ASSUME NEW k \in (m - l) .. j \cup j .. (m - l) PROVE rest[k].kind # "user"
      BY DEF SameRound
    <3>1. ms[l + k].kind # "user"
      BY <2>1, <2>4 DEF SameRound
    <3> QED BY <1>3, <2>1, <3>1
  <2> QED BY <2>3, <2>4
<1>6. ASSUME NEW j \in DOMAIN ms, ms[j].by = ms[m].by, SameRound(ms, m, j) PROVE j - l \in 1 .. n - l
  <2>1. j \in 1 .. n
    BY <1>1, <1>6
  <2>2. CASE l = 0
    BY <1>1, <2>1, <2>2
  <2>3. CASE l # 0
    <3>1. PICK p \in l .. m : ms[p].kind = "user"
      BY <1>2, <2>3
    <3>2. p \notin m .. j \cup j .. m
      BY <1>6, <3>1 DEF SameRound
    <3> QED BY <1>1, <1>2, <2>1, <3>1, <3>2
  <2> QED BY <2>2, <2>3
<1>7. ASSUME NEW j \in DOMAIN rest, rest[j].by = ms[m].by PROVE j \in 1 .. n - l
  <2>1. l + j \in DOMAIN rs /\ rs[l + j].by = ms[m].by /\ j \in Nat
    BY <1>1, <1>7
  <2> QED BY <1>1, <1>7, <2>1
<1>8. (\A j \in DOMAIN ms : ms[j].kind = "sent" /\ ms[j].by = ms[m].by => ~SameRound(ms, m, j))
      => (\A j \in DOMAIN rest :
            rest[j].kind = "sent" /\ rest[j].by = ms[m].by => ~SameRound(rest, m - l, j))
  <2> SUFFICES ASSUME \A j \in DOMAIN ms : ms[j].kind = "sent" /\ ms[j].by = ms[m].by => ~SameRound(ms, m, j),
                      NEW j \in DOMAIN rest, rest[j].kind = "sent", rest[j].by = ms[m].by
               PROVE  ~SameRound(rest, m - l, j)
    OBVIOUS
  <2>1. j \in 1 .. n - l
    BY <1>7
  <2>2. l + j \in DOMAIN ms /\ ms[l + j] = rest[j]
    BY <1>1, <1>3, <2>1
  <2> QED BY <1>5, <2>1, <2>2
<1>9. (\A j \in DOMAIN rest :
         rest[j].kind = "sent" /\ rest[j].by = ms[m].by => ~SameRound(rest, m - l, j))
      => (\A j \in DOMAIN ms : ms[j].kind = "sent" /\ ms[j].by = ms[m].by => ~SameRound(ms, m, j))
  <2> SUFFICES ASSUME \A j \in DOMAIN rest :
                        rest[j].kind = "sent" /\ rest[j].by = ms[m].by => ~SameRound(rest, m - l, j),
                      NEW j \in DOMAIN ms, ms[j].kind = "sent", ms[j].by = ms[m].by,
                      SameRound(ms, m, j)
               PROVE  FALSE
    OBVIOUS
  <2>1. j - l \in 1 .. n - l
    BY <1>6
  <2>2. l + (j - l) = j
    BY <1>1
  <2>3. rest[j - l] = ms[j] /\ j - l \in DOMAIN rest
    BY <1>3, <2>1, <2>2
  <2>4. ~SameRound(rest, m - l, j - l)
    BY <2>3
  <2>5. SameRound(rest, m - l, j - l) <=> SameRound(ms, m, l + (j - l))
    BY <1>5, <2>1
  <2> QED BY <2>2, <2>4, <2>5
<1>10. IsReply(rest, m - l) <=> IsReply(ms, m)
  BY <1>4, <1>8, <1>9 DEF IsReply
<1> QED BY <1>10 DEF l, rest

\* What fits the context is not cut.
LEMMA FitsUncut ==
  ASSUME NEW h, NEW n \in Nat, DOMAIN h \in SUBSET (1 .. n), Cardinality(DOMAIN h) <= ContextSize
  PROVE  DOMAIN Trimmed(h) = DOMAIN h /\ \A i \in DOMAIN h : Trimmed(h)[i] = h[i]
<1>1. CASE DOMAIN h = {}
  BY <1>1, TrimmedIs
<1>2. CASE DOMAIN h # {}
  <2>1. DOMAIN h \subseteq Nat
    OBVIOUS
  <2>2. PICK f \in DOMAIN h : \A j \in DOMAIN h : f <= j
    BY <1>2, <2>1, LeastExists
  <2>3. {j \in DOMAIN h : f <= j} = DOMAIN h
    BY <2>2
  <2>4. f \in TurnStarts(h) /\ Cardinality({j \in DOMAIN h : f <= j}) <= ContextSize
    BY <2>2, <2>3 DEF TurnStarts
  <2>5. Trimmed(h) = Restrict(h, DOMAIN h)
    BY <2>2, <2>4 DEF Trimmed
  <2> QED BY <2>5 DEF Restrict
<1> QED BY <1>1, <1>2

\* An agent about to be asked has the replies heard in the round in its history, all of them and nothing else
\* of others.
LEMMA RepliesRead ==
  ASSUME GroupInv PROVE EarlierRepliesAreInTheHistory
<1> SUFFICES ASSUME doing = "ask", round.chat # <<>> PROVE EarlierRepliesAreInTheHistory
  BY DEF EarlierRepliesAreInTheHistory
<1> DEFINE agent == speech.agent
           rs == speech.read
           rest == SinceCompaction(rs)
           l == LastSummary(rs)
           h == History(agent, rs)
           heard(r) == r.by # User /\ r.by # agent /\ r.id > round.from
<1>1. /\ messages \in Seq(Row) /\ rs \in Seq(Row) /\ round.from \in Nat /\ IsGroup
      /\ doing \in Speaking /\ Current = {agent}
  BY DEF GroupInv, GroupTypeOK, StagesAgree, IsGroup, Speaking, Current
<1>2. PICK n \in 0 .. Len(messages) :
       /\ n <= Len(rs)
       /\ \A i \in 1 .. n : rs[i] = messages[i]
       /\ \A i \in DOMAIN messages : i > n => messages[i].by \in {User, agent}
       /\ \A i \in DOMAIN rs : i > n => rs[i].by \in {User, agent} /\ rs[i].kind # "summary"
  BY <1>1 DEF GroupInv, RoundInv, ReadIs
<1>3. /\ l \in 0 .. Len(rs) /\ Len(rs) \in Nat /\ Len(messages) \in Nat
      /\ DOMAIN rs = 1 .. Len(rs) /\ DOMAIN messages = 1 .. Len(messages)
      /\ DOMAIN rest = 1 .. Len(rs) - l
      /\ \A i \in 1 .. Len(rs) - l : rest[i] = rs[l + i]
      /\ l = 0 \/ rs[l].kind = "summary"
      /\ rest \in Seq(Row)
  BY <1>1, LastSummaryIs, RestIs
<1>4. /\ DOMAIN h = {i \in 1 .. Len(rs) - l : AsRead(agent, rest, i).kind \in {"user", "assistant", "tool"}}
      /\ \A i \in DOMAIN h : h[i] = AsRead(agent, rest, i)
  BY <1>1, HistoryIs
<1>5. /\ \A i, j \in DOMAIN messages : i < j => messages[i].id < messages[j].id
      /\ \A i \in DOMAIN messages : messages[i].id \in Nat /\ messages[i] \in Row
      /\ \A i \in DOMAIN messages : messages[i].by = User <=> messages[i].kind \in {"user", "summary"}
  BY <1>1, RowsAre DEF GroupInv, TranscriptsAreWhole, Whole, RowOK
<1>6. PICK p \in DOMAIN messages : messages[p].id = round.from /\ messages[p].kind = "user"
  BY <1>1 DEF GroupInv, RoundInv, RoundRows, Speaking
<1>7. \A i \in DOMAIN messages : messages[i].id > round.from => messages[i].kind # "summary"
  BY <1>1 DEF GroupInv, RoundInv, RoundRows, Speaking, InRound
<1> HIDE DEF l, rest, h, rs, agent
<1>8. l # 0 => l < p
  <2> SUFFICES ASSUME l # 0 PROVE l < p
    OBVIOUS
  <2>1. l \in 1 .. n /\ messages[l].kind = "summary" /\ l \in DOMAIN messages
    BY <1>2, <1>3
  <2>2. ~(messages[l].id > round.from)
    BY <1>7, <2>1
  <2>3. ~(p < l) /\ p # l
    <3>1. p # l
      BY <1>6, <2>1
    <3>2. p < l => messages[p].id < messages[l].id
      BY <1>5, <2>1
    <3> QED BY <1>1, <1>5, <1>6, <2>1, <2>2, <3>1, <3>2
  <2> QED BY <1>3, <2>1, <2>3
<1>9. \A m \in DOMAIN messages : messages[m].id > round.from => p < m /\ l < m
  <2> SUFFICES ASSUME NEW m \in DOMAIN messages, messages[m].id > round.from
               PROVE  p < m /\ l < m
    OBVIOUS
  <2>1. m # p /\ ~(m < p)
    <3>1. m < p => messages[m].id < messages[p].id
      BY <1>5
    <3> QED BY <1>1, <1>5, <1>6, <3>1
  <2>2. p < m
    BY <1>3, <2>1
  <2> QED BY <1>3, <1>8, <2>2
<1>10. ASSUME NEW m \in 1 .. n, messages[m].id > round.from, messages[m].by \notin {User, agent}
       PROVE  /\ m - l \in 1 .. Len(rs) - l /\ rest[m - l] = messages[m]
              /\ IsReply(rest, m - l) <=> IsReply(messages, m)
  <2>1. m \in DOMAIN messages /\ l < m /\ p < m
    BY <1>3, <1>9, <1>10
  <2>2. m - l \in 1 .. Len(rs) - l /\ l + (m - l) = m
    BY <1>2, <1>3, <2>1
  <2>3. rest[m - l] = messages[m]
    BY <1>2, <1>3, <2>2
  <2>4. /\ \A j \in DOMAIN messages : j > n => messages[j].by # messages[m].by
        /\ \A j \in DOMAIN rs : j > n => rs[j].by # messages[m].by
    BY <1>2, <1>10
  <2>5. l = 0 \/ \E q \in l .. m : messages[q].kind = "user"
    <3>1. l # 0 => p \in l .. m
      BY <1>3, <1>8, <2>1
    <3> QED BY <1>6, <3>1
  <2>6. n \in Nat /\ n <= Len(messages) /\ n <= Len(rs)
    BY <1>2, <1>3
  <2>7. l < m
    BY <2>1
  <2>8. IsReply(rest, m - l) <=> IsReply(messages, m)
    BY <1>1, <1>2, <1>10, <2>4, <2>5, <2>6, <2>7, ReplyAsRead DEF l, rest
  <2> QED BY <2>2, <2>3, <2>8
<1>11. /\ \A m \in DOMAIN messages :
            messages[m].id > round.from /\ messages[m].by \notin {User, agent} =>
              (IsReply(messages, m) <=> messages[m].id \in round.said)
       /\ \A id \in round.said : \E m \in DOMAIN messages :
            messages[m].id = id /\ messages[m].id > round.from /\ messages[m].by \notin {User, agent}
  BY <1>1 DEF GroupInv, RoundInv, RepliesKnown, InRound, Speaking
<1>12. ASSUME NEW i \in DOMAIN h, heard(h[i]) PROVE h[i].id \in round.said
  <2>1. /\ i \in 1 .. Len(rs) - l /\ h[i] = AsRead(agent, rest, i)
        /\ h[i].kind \in {"user", "assistant", "tool"} /\ rest[i] \in Row /\ rest[i] = rs[l + i]
        /\ l + i \in DOMAIN rs
    <3>1. i \in 1 .. Len(rs) - l /\ AsRead(agent, rest, i).kind \in {"user", "assistant", "tool"}
      BY <1>4
    <3>2. h[i] = AsRead(agent, rest, i)
      BY <1>4
    <3>3. rest[i] \in Row
      BY <1>3, <3>1
    <3>4. rest[i] = rs[l + i]
      BY <1>3, <3>1
    <3>5. l + i \in 1 .. Len(rs) /\ DOMAIN rs = 1 .. Len(rs)
      <4>1. l \in Nat /\ Len(rs) \in Nat /\ i \in Int /\ 1 <= i /\ i <= Len(rs) - l
        BY <1>3, <3>1
      <4> QED BY <1>3, <4>1
    <3> QED BY <3>1, <3>2, <3>3, <3>4, <3>5
  <2>2. h[i].id = rest[i].id /\ h[i].by = rest[i].by
    BY <2>1, AsReadKeeps
  <2>3. rest[i].by \notin {User, agent} /\ rest[i].id > round.from
    BY <1>12, <2>2
  <2>4. l + i \in 1 .. n /\ rest[i] = messages[l + i]
    BY <1>2, <1>3, <2>1, <2>3
  <2>5. l + i \in DOMAIN messages /\ (l + i) - l = i
    BY <1>2, <1>3, <2>1, <2>4
  <2>6. rest[i].kind # "user" /\ rest[i].by # agent
    BY <1>5, <2>3, <2>4, <2>5
  <2>7. IsReply(rest, i)
    BY <1>1, <2>1, <2>6, AsReadForeign
  <2> DEFINE m == l + i
  <2>8. m \in 1 .. n /\ messages[m].id > round.from /\ messages[m].by \notin {User, agent} /\ m - l = i
    BY <2>3, <2>4, <2>5
  <2> HIDE DEF m
  <2>9. IsReply(rest, m - l) <=> IsReply(messages, m)
    BY <1>10, <2>8
  <2>10. IsReply(messages, m)
    BY <2>7, <2>8, <2>9
  <2>11. messages[m].id \in round.said /\ m = l + i
    BY <1>11, <2>5, <2>8, <2>10 DEF m
  <2> QED BY <2>2, <2>4, <2>11
<1>13. ASSUME NEW id \in round.said
       PROVE  \E i \in DOMAIN h : heard(h[i]) /\ h[i].id = id
  <2>1. PICK m \in DOMAIN messages :
          messages[m].id = id /\ messages[m].id > round.from /\ messages[m].by \notin {User, agent}
    BY <1>11
  <2>2. m \in 1 .. n
    BY <1>2, <1>3, <2>1
  <2>3. /\ m - l \in 1 .. Len(rs) - l /\ rest[m - l] = messages[m]
        /\ IsReply(rest, m - l) <=> IsReply(messages, m)
    BY <1>10, <2>1, <2>2
  <2>4. IsReply(rest, m - l) /\ rest[m - l] \in Row
    BY <1>5, <1>11, <2>1, <2>3
  <2>5. rest[m - l].kind # "user" /\ rest[m - l].by # agent
    BY <1>5, <2>1, <2>3
  <2>6. AsRead(agent, rest, m - l).kind = "user"
    BY <1>1, <2>4, <2>5, AsReadForeign
  <2>7. m - l \in DOMAIN h /\ h[m - l] = AsRead(agent, rest, m - l)
    BY <1>4, <2>3, <2>6
  <2>8. h[m - l].id = id /\ h[m - l].by = messages[m].by
    BY <2>1, <2>3, <2>4, <2>7, AsReadKeeps
  <2> QED BY <2>1, <2>7, <2>8
<1>14. {h[i].id : i \in {k \in DOMAIN h : heard(h[k])}} = round.said
  BY <1>12, <1>13
<1>15. HeardThisRound(h) = round.said
  BY <1>14 DEF HeardThisRound, h, rs, agent
<1>16. ASSUME Cardinality(DOMAIN h) <= ContextSize PROVE HeardThisRound(Request) = round.said
  <2>1. DOMAIN h \in SUBSET (1 .. Len(rs)) /\ Len(rs) \in Nat
    BY <1>3, <1>4
  <2>2. DOMAIN Trimmed(h) = DOMAIN h /\ \A i \in DOMAIN h : Trimmed(h)[i] = h[i]
    BY <1>16, <2>1, FitsUncut
  <2>3. HeardThisRound(Trimmed(h)) = HeardThisRound(h)
    BY <2>2 DEF HeardThisRound
  <2> QED BY <1>15, <2>3 DEF Request, h, rs, agent
<1> QED BY <1>15, <1>16 DEF EarlierRepliesAreInTheHistory, h, rs, agent

\* When nobody waits, whoever was asked has had the floor.
LEMMA AskedAtEnd ==
  ASSUME GroupInv PROVE AskedHaveAnswered
<1> SUFFICES ASSUME doing = "ended", round.chat # <<>> PROVE AskedHaveAnswered
  BY DEF AskedHaveAnswered
<1>1. round.answered \cup ToSet(round.waiting) = round.answered
  BY DEF GroupInv, StagesAgree, ToSet
<1>2. Asked
  BY DEF GroupInv, RoundInv
<1> QED BY <1>1, <1>2 DEF Asked, AskedHaveAnswered

LEMMA FairAtAll ==
  ASSUME GroupInv PROVE RoundsAreFair
BY RepliesRead, AskedAtEnd DEF GroupInv, RoundInv, RoundsAreFair

\* Whatever is stored, deleted, summarised, stopped or broken off, a model reads each call with its result and misses
\* no line that is older than a summary and not in it (toProviderMessages, trimToBudget, compactionRequest).
THEOREM ModelsRead == GroupSpec => []ModelsReadWhatTheyShould
<1>1. GroupInv => ModelsReadWhatTheyShould
  BY ReadAtAsk
<1> QED BY <1>1, GroupInvInit, GroupInvStep, PTL DEF GroupSpec

\* In a group nobody has the floor twice in a round; the history its requests are cut from holds just what was
\* replied in the round before, and so does the request when that history fits the context; at the end of the
\* round everybody who was asked has had the floor (respondersFor, handoffs, turnReplies).
THEOREM RoundsStayFair == GroupSpec => []RoundsAreFair
<1>1. GroupInv => RoundsAreFair
  BY FairAtAll
<1> QED BY <1>1, GroupInvInit, GroupInvStep, PTL DEF GroupSpec

-----------------------------------------------------------------------------
(*****************************************************************************)
(* Both together: a behaviour of MCAgentTurns is one of the mail, with the   *)
(* rounds at rest, or one of the rounds, with the mail at rest.              *)
(*****************************************************************************)

\* A step is one of each part or leaves it alone.
LEMMA TurnsStep == [TurnsNext]_turnsVars => [Next]_vars /\ [GroupNext]_groupVars
BY DEF TurnsNext, MailPart, RoundsPart, AtTheBound, turnsVars

\* The mail and the rounds keep to their types in each other's presence.
THEOREM TurnsTypesHold == TurnsSpec => []TurnsTypeOK
<1>1. TurnsInit => MailInv /\ GroupInv
  BY MailInvInit, GroupInvInit DEF TurnsInit
<1>2. MailInv /\ GroupInv /\ [TurnsNext]_turnsVars => (MailInv /\ GroupInv)'
  BY TurnsStep, MailInvStep, GroupInvStep
<1>3. MailInv /\ GroupInv => TurnsTypeOK
  BY DEF MailInv, GroupInv, TurnsTypeOK
<1> QED BY <1>1, <1>2, <1>3, PTL DEF TurnsSpec
=============================================================================
