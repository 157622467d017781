------------------------------ MODULE AgentMail ------------------------------
(***************************************************************************)
(* Mail between agents (server/src/a2a/service.ts) over the rows of        *)
(* Postgres (server/src/db/postgres.ts): sending, the inbox turns that     *)
(* wake a recipient, the claim of mail by any turn of an agent             *)
(* (agent-runtime/src/inbox.ts) and the requests that set a status.        *)
(*                                                                         *)
(* Delivering mail lists the pending rows and then updates them one by     *)
(* one; claiming lists the delivered rows and then reads and updates each. *)
(* Every row access is a step of its own here, so they overlap as they do  *)
(* in the server.                                                          *)
(*                                                                         *)
(* An actor is a piece of mail (its sender), a turn of an agent, a request *)
(* that sets a status, or Inbox, the chain of inbox turns of the process.  *)
(* Autorun is on and every recipient has a profile.                        *)
(***************************************************************************)
EXTENDS Naturals, Sequences, FiniteSets

CONSTANTS Mail,      \* 1 .. n, in the order in which it is created
          Agents, Turns, Patches, Inbox,
          To, Of,    \* the agent a piece of mail is for, and the one a turn is of
          DeliverLimit, InboxLimit, \* DELIVER_BATCH; INBOX_BATCH and INBOX_INJECT_LIMIT
          MaxAttempts, MaxBatches,  \* rounds of delivery in a send, batches in an inbox turn
          MaxFailures  \* bound on failing turns

Actors == Mail \cup Turns \cup Patches \cup {Inbox}

ASSUME MailAssumption == Mail \subseteq Nat \ {0} /\ IsFiniteSet(Mail)
ASSUME AgentsAssumption == To \in [Mail -> Agents] /\ Of \in [Turns -> Agents]
ASSUME ActorsAssumption ==
  /\ Mail \cap Turns = {} /\ Mail \cap Patches = {} /\ Turns \cap Patches = {}
  /\ Inbox \notin Mail \cup Turns \cup Patches
ASSUME LimitsAssumption ==
  /\ {DeliverLimit, InboxLimit, MaxAttempts, MaxBatches} \subseteq Nat \ {0}
  /\ MaxFailures \in Nat

VARIABLES
  mail,     \* the status of each row, "none" before it is created
  act,      \* where each actor is
  chain,    \* the agents whose inbox turns wait in the chain, the running one first
  seen,     \* the mail that the running inbox turn has listed
  lock,     \* who holds each agent's chat
  shown,    \* how often each piece of mail was stored in a transcript
  told,     \* mail that waited for, or was claimed by, a turn that reported a failure
  patched,  \* mail that a request marked read or failed
  failures

vars == <<mail, act, chain, seen, lock, shown, told, patched, failures>>

Nobody == "nobody"
Statuses == {"pending", "delivered", "read", "failed"}
MaybeStatus == Statuses \cup {"none"}

\* "deliver" lists what is pending and "delivering" updates `todo`, with `got`
\* the rows it delivered; "claim" looks at the first row of `todo` and "mark"
\* updates it, with `got` the rows claimed.  A sender may then "get" its row.  A
\* turn first "want"s the chat; once `inner`, it delivers and claims within its
\* turn, and is then in "turn".  A request "check"s the row again and "write"s.
Stages == {"out", "deliver", "delivering", "get", "claim", "mark", "want", "turn",
           "check", "write", "done"}

At(stage) == [stage |-> stage, todo |-> {}, got |-> {}, inner |-> FALSE, tries |-> 0,
              was |-> "none", status |-> "none", at |-> 0]

TypeOK ==
  /\ mail \in [Mail -> MaybeStatus]
  /\ act \in [Actors -> [stage : Stages, todo : SUBSET Mail, got : SUBSET Mail,
                         inner : BOOLEAN, tries : 0 .. MaxAttempts + MaxBatches,
                         was : MaybeStatus, status : MaybeStatus, at : Mail \cup {0}]]
  /\ chain \in Seq(Agents)
  /\ seen \subseteq Mail
  /\ lock \in [Agents -> Turns \cup {Inbox, Nobody}]
  /\ shown \in [Mail -> Nat]
  /\ told \subseteq Mail /\ patched \subseteq Mail
  /\ failures \in 0 .. MaxFailures

Init == /\ mail = [m \in Mail |-> "none"]
        /\ act = [a \in Actors |-> At("out")]
        /\ chain = <<>> /\ seen = {}
        /\ lock = [g \in Agents |-> Nobody]
        /\ shown = [m \in Mail |-> 0]
        /\ told = {} /\ patched = {} /\ failures = 0

-----------------------------------------------------------------------------
\* Helpers.

AgentOf(a) == IF a = Inbox THEN Head(chain) ELSE IF a \in Turns THEN Of[a] ELSE To[a]
For(g, status) == {m \in Mail : mail[m] = status /\ To[m] = g}
First(S) == CHOOSE m \in S : \A k \in S : m <= k
Oldest(S, n) == {m \in S : Cardinality({k \in S : k < m}) < n}
Becomes(a, record) == act' = [act EXCEPT ![a] = record]
Goes(a, stage) == Becomes(a, [act[a] EXCEPT !.stage = stage])

\* The actor has updated the rows that it listed as pending.
HasDelivered(a) == act[a].stage = "delivering" /\ act[a].todo = {}

\* schedule(): another inbox turn at the end of the chain.
Schedule(g) == chain' = Append(chain, g)
ScheduleIf(condition, g) == IF condition THEN Schedule(g) ELSE UNCHANGED chain

-----------------------------------------------------------------------------
\* What senders and turns share: deliverPending and markRead, row by row.

BatchLimit(a) == IF act[a].inner THEN InboxLimit ELSE DeliverLimit

\* deliverPending lists the agent's pending mail, oldest first.
ListPending(a) ==
  /\ act[a].stage = "deliver"
  /\ Becomes(a, [act[a] EXCEPT !.stage = "delivering", !.got = {},
                               !.todo = Oldest(For(AgentOf(a), "pending"), BatchLimit(a))])
  /\ UNCHANGED <<mail, chain, seen, lock, shown, told, patched, failures>>

\* Each row becomes delivered, whatever it is by now.
Delivered(status) == "delivered"

DeliverRow(a) ==
  /\ act[a].stage = "delivering" /\ act[a].todo # {}
  /\ LET m == First(act[a].todo)
     IN  /\ mail' = [mail EXCEPT ![m] = Delivered(@)]
         /\ Becomes(a, [act[a] EXCEPT !.todo = @ \ {m}, !.got = @ \cup {m}])
  /\ UNCHANGED <<chain, seen, lock, shown, told, patched, failures>>

\* markRead gets a row and passes over it unless it is delivered ...
Claimable(status) == status = "delivered"

GetRow(a) ==
  /\ act[a].stage = "claim" /\ act[a].todo # {}
  /\ LET m == First(act[a].todo)
     IN  Becomes(a, IF Claimable(mail[m]) THEN [act[a] EXCEPT !.stage = "mark"]
                                          ELSE [act[a] EXCEPT !.todo = @ \ {m}])
  /\ UNCHANGED <<mail, chain, seen, lock, shown, told, patched, failures>>

\* ... and updates it in another statement, whatever it is by then.
MarkRow(a) ==
  /\ act[a].stage = "mark"
  /\ LET m == First(act[a].todo)
     IN  /\ mail' = [mail EXCEPT ![m] = "read"]
         /\ Becomes(a, [act[a] EXCEPT !.stage = "claim", !.todo = @ \ {m}, !.got = @ \cup {m}])
  /\ UNCHANGED <<chain, seen, lock, shown, told, patched, failures>>

-----------------------------------------------------------------------------
\* send().

\* The bus inserts the row, after the rows of the mail before it.
Send(m) ==
  /\ act[m].stage = "out"
  /\ \A k \in Mail : k < m => mail[k] # "none"
  /\ mail' = [mail EXCEPT ![m] = "pending"]
  /\ Goes(m, "deliver")
  /\ UNCHANGED <<chain, seen, lock, shown, told, patched, failures>>

\* A mutant of LookForRow: it tries for as long as it has not found its row.
LookForRowForever(m) ==
  /\ HasDelivered(m)
  /\ ScheduleIf(m \in act[m].got, To[m])
  /\ Becomes(m, IF m \in act[m].got THEN At("done")
                ELSE [act[m] EXCEPT !.stage = "deliver", !.tries = @ + 1])
  /\ UNCHANGED <<mail, seen, lock, shown, told, patched, failures>>

\* A mutant of LookForRow: one batch is all it delivers.
LookForRowOnce(m) ==
  /\ HasDelivered(m)
  /\ ScheduleIf(m \in act[m].got, To[m])
  /\ Becomes(m, IF m \in act[m].got THEN At("done") ELSE [act[m] EXCEPT !.stage = "get"])
  /\ UNCHANGED <<mail, seen, lock, shown, told, patched, failures>>

\* deliverMessage looks for its row in the batch, and delivers another batch
\* unless this one was empty or the last it may try.
LookForRow(m) ==
  /\ HasDelivered(m)
  /\ LET found == m \in act[m].got
         again == act[m].got # {} /\ act[m].tries + 1 < MaxAttempts
     IN  /\ ScheduleIf(found, To[m])
         /\ Becomes(m, IF found THEN At("done")
                       ELSE [act[m] EXCEPT !.stage = IF again THEN "deliver" ELSE "get",
                                           !.tries = @ + 1])
  /\ UNCHANGED <<mail, seen, lock, shown, told, patched, failures>>

\* A mutant of GotDelivered: whoever delivered it will have scheduled the turn.
GotDeliveredByOther(status) == FALSE

\* Somebody else may have delivered it.
GotDelivered(status) == status = "delivered"

GetOwnRow(m) ==
  /\ act[m].stage = "get"
  /\ ScheduleIf(GotDelivered(mail[m]), To[m])
  /\ Becomes(m, At("done"))
  /\ UNCHANGED <<mail, seen, lock, shown, told, patched, failures>>

SendStep(m) == ListPending(m) \/ DeliverRow(m) \/ LookForRow(m) \/ GetOwnRow(m)

-----------------------------------------------------------------------------
\* runInboxTurn(), one after the other along the chain.

StartInbox ==
  /\ chain # <<>> /\ act[Inbox].stage = "out"
  /\ Becomes(Inbox, At("deliver"))
  /\ UNCHANGED <<mail, chain, seen, lock, shown, told, patched, failures>>

InboxEnds == /\ Becomes(Inbox, At("out"))
             /\ chain' = Tail(chain)
             /\ seen' = {}

\* A batch: the oldest delivered mail, without what this inbox turn has seen.
Waiting(g) == Oldest(For(g, "delivered"), InboxLimit) \ seen

ListInbox ==
  /\ HasDelivered(Inbox) /\ ~act[Inbox].inner
  /\ LET waiting == Waiting(Head(chain))
     IN  IF waiting = {} THEN InboxEnds
         ELSE /\ Becomes(Inbox, [act[Inbox] EXCEPT !.stage = "claim", !.todo = waiting,
                                                   !.got = {}])
              /\ seen' = seen \cup waiting
              /\ UNCHANGED chain
  /\ UNCHANGED <<mail, lock, shown, told, patched, failures>>

\* Nothing of the batch could be claimed, or the turn may run in the chat.
ClaimedBatch ==
  /\ act[Inbox].stage = "claim" /\ act[Inbox].todo = {} /\ ~act[Inbox].inner
  /\ IF act[Inbox].got = {} THEN InboxEnds
     ELSE Goes(Inbox, "want") /\ UNCHANGED <<chain, seen>>
  /\ UNCHANGED <<mail, lock, shown, told, patched, failures>>

-----------------------------------------------------------------------------
\* The turn itself, an inbox turn's or an ordinary one.

WantTurn(t) ==
  /\ act[t].stage = "out"
  /\ Becomes(t, At("want"))
  /\ UNCHANGED <<mail, chain, seen, lock, shown, told, patched, failures>>

Showing(S) == [m \in Mail |-> IF m \in S THEN shown[m] + 1 ELSE shown[m]]

\* The lock is granted and the user message stored: for an inbox turn, the mail
\* it claimed.
BeginTurn(a) ==
  /\ act[a].stage = "want" /\ lock[AgentOf(a)] = Nobody
  /\ lock' = [lock EXCEPT ![AgentOf(a)] = a]
  /\ shown' = Showing(act[a].got)
  /\ Becomes(a, [act[a] EXCEPT !.stage = "deliver", !.got = {}, !.inner = TRUE])
  /\ UNCHANGED <<mail, chain, seen, told, patched, failures>>

\* claimInbox takes the rows it delivered and those delivered before.
ToClaim(a) == act[a].got \cup Oldest(For(AgentOf(a), "delivered"), InboxLimit)

ListWithinTurn(a) ==
  /\ HasDelivered(a) /\ act[a].inner
  /\ Becomes(a, [act[a] EXCEPT !.stage = "claim", !.todo = ToClaim(a), !.got = {}])
  /\ UNCHANGED <<mail, chain, seen, lock, shown, told, patched, failures>>

\* A mutant of StoreClaimed: an inbox turn has stored its mail already.
StoreClaimedUnlessInbox(a) ==
  /\ act[a].stage = "claim" /\ act[a].todo = {} /\ act[a].inner
  /\ shown' = IF a = Inbox THEN shown ELSE Showing(act[a].got)
  /\ Becomes(a, [act[a] EXCEPT !.stage = "turn", !.got = {}])
  /\ UNCHANGED <<mail, chain, seen, lock, told, patched, failures>>

StoreClaimed(a) ==
  /\ act[a].stage = "claim" /\ act[a].todo = {} /\ act[a].inner
  /\ shown' = Showing(act[a].got)
  /\ Becomes(a, [act[a] EXCEPT !.stage = "turn", !.got = {}])
  /\ UNCHANGED <<mail, chain, seen, lock, told, patched, failures>>

\* The model's turn ends; an inbox turn goes on to its next batch.
EndTurn(a) ==
  /\ act[a].stage = "turn"
  /\ lock' = [lock EXCEPT ![AgentOf(a)] = Nobody]
  /\ LET batches == act[a].tries + 1
     IN  IF a = Inbox /\ batches = MaxBatches THEN InboxEnds
         ELSE /\ Becomes(a, IF a = Inbox THEN [At("deliver") EXCEPT !.tries = batches]
                                         ELSE At("done"))
              /\ UNCHANGED <<chain, seen>>
  /\ UNCHANGED <<mail, shown, told, patched, failures>>

TurnStep(a) == \/ ListPending(a) \/ DeliverRow(a) \/ GetRow(a) \/ MarkRow(a)
               \/ BeginTurn(a) \/ ListWithinTurn(a) \/ StoreClaimed(a) \/ EndTurn(a)

\* A turn throws: it ends with an error event, an inbox turn with a run_failed
\* notification, and the next in the chain runs.
Claimed(a) == IF act[a].stage \in {"claim", "mark", "want"} THEN act[a].got ELSE {}
Missed(a) == Claimed(a) \cup (IF a = Inbox THEN For(AgentOf(a), "delivered") ELSE {})
Unlocked(a) == [g \in Agents |-> IF lock[g] = a THEN Nobody ELSE lock[g]]

TurnFails(a) ==
  /\ act[a].stage \notin {"out", "done"} /\ failures < MaxFailures
  /\ failures' = failures + 1
  /\ told' = told \cup Missed(a)
  /\ lock' = Unlocked(a)
  /\ IF a = Inbox THEN InboxEnds ELSE Becomes(a, At("done")) /\ UNCHANGED <<chain, seen>>
  /\ UNCHANGED <<mail, shown, patched>>

-----------------------------------------------------------------------------
\* updateStatus().

Allowed(status) ==
  CASE status = "pending"   -> {"pending", "delivered", "failed"}
    [] status = "delivered" -> {"delivered", "read", "failed"}
    [] OTHER                -> {status}

\* The service reads the row and checks the transition ...
BeginPatch(p) ==
  /\ act[p].stage = "out"
  /\ \E m \in {k \in Mail : mail[k] # "none"} : \E status \in Allowed(mail[m]) \ {mail[m]} :
       Becomes(p, [At("check") EXCEPT !.at = m, !.was = mail[m], !.status = status])
  /\ UNCHANGED <<mail, chain, seen, lock, shown, told, patched, failures>>

PatchSchedules(p, status) ==
  ScheduleIf(act[p].was = "pending" /\ status = "delivered", To[act[p].at])

\* ... the repository reads it again, and is done if it has that status ...
CheckPatch(p) ==
  /\ act[p].stage = "check"
  /\ IF mail[act[p].at] = act[p].status
     THEN PatchSchedules(p, act[p].status) /\ Becomes(p, At("done"))
     ELSE Goes(p, "write") /\ UNCHANGED chain
  /\ UNCHANGED <<mail, seen, lock, shown, told, patched, failures>>

\* ... and updates it, whatever it is by then.
WritePatch(p) ==
  /\ act[p].stage = "write"
  /\ mail' = [mail EXCEPT ![act[p].at] = act[p].status]
  /\ patched' = IF act[p].status = "delivered" THEN patched ELSE patched \cup {act[p].at}
  /\ PatchSchedules(p, act[p].status)
  /\ Becomes(p, At("done"))
  /\ UNCHANGED <<seen, lock, shown, told, failures>>

PatchStep(p) == CheckPatch(p) \/ WritePatch(p)

-----------------------------------------------------------------------------
InboxStep == StartInbox \/ ListInbox \/ ClaimedBatch \/ TurnStep(Inbox)

Quiet == chain = <<>> /\ \A a \in Actors : act[a].stage \in {"out", "done"}

\* Everybody is done; any other state without a step is a deadlock.
Terminated == /\ \A a \in Mail \cup Turns : act[a].stage = "done"
              /\ Quiet
              /\ UNCHANGED vars

Next == \/ \E m \in Mail : Send(m) \/ SendStep(m)
        \/ InboxStep
        \/ \E t \in Turns : WantTurn(t) \/ TurnStep(t)
        \/ \E a \in Turns \cup {Inbox} : TurnFails(a)
        \/ \E p \in Patches : BeginPatch(p) \/ PatchStep(p)
        \/ Terminated

Spec == Init /\ [][Next]_vars

-----------------------------------------------------------------------------
\* Properties.

\* The agent's transcripts have the mail, or somebody was told that they may not.
Settled(m) == shown[m] > 0 \/ m \in told \/ m \in patched

\* Mail that is read was stored in a transcript, unless the turn that claimed it
\* said that it failed, a request marked it read, or that turn is still at work:
\* no claim takes mail away from the agent it is for.
ReadMailIsShown ==
  \A m \in Mail : mail[m] = "read" =>
    Settled(m) \/ \E a \in Turns \cup {Inbox} : m \in Claimed(a)

\* When senders, requests and turns have returned and no inbox turn waits, no
\* mail is left that its agent was never shown and that nobody was told about:
\* a sender or request that makes mail delivered has an inbox turn scheduled, or
\* somebody else took the mail.  Rows that others took must not end the inbox
\* turn before it reaches the rest, which holds while InboxLimit rows are enough.
NoMailIsForgotten == Quiet => \A m \in Mail : mail[m] = "none" \/ Settled(m)

\* A sender that returns has its mail delivered, by itself or by another: with at
\* most MaxAttempts batches pending it never gives up on its own row.
SentMailIsDelivered ==
  \A m \in Mail : act[m].stage = "done" => mail[m] # "pending"
=============================================================================
